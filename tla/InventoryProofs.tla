--------------------------- MODULE InventoryProofs ---------------------------
(* Proofs about InventorySystem, for every value of the constants.              *)
EXTENDS InventorySystem, TLAPS

-----------------------------------------------------------------------------
(* Type correctness.                                                           *)

\* The part of TypeOK about what the API server stores and a cache can hold.
StoredOK ==
    /\ inventory \in Inventories
    /\ ackSecret \in Secrets /\ ackConfig \in Secrets
    /\ deployment \in Deployments
    /\ adopted \in [Objects -> ARStates]
    /\ dbs \in [Objects -> DBs]
    /\ dbSecret \in [Objects -> Passwords \cup {"none"}]

\* What is stored of a kind, and what a read returns, is of the kind's type.
LEMMA StoredType == ASSUME StoredOK PROVE \A k \in Kinds : Stored(k) \in CacheType(k)
BY DEF StoredOK, Stored, CacheType, Kinds

LEMMA SeenType ==
    ASSUME TypeOK
    PROVE /\ Seen("inventory") \in Inventories
          /\ Seen("ackSecret") \in Secrets /\ Seen("ackConfig") \in Secrets
          /\ Seen("deployment") \in Deployments
          /\ Seen("adopted") \in [Objects -> ARStates]
          /\ Seen("dbs") \in [Objects -> DBs]
          /\ Seen("dbSecret") \in [Objects -> Passwords \cup {"none"}]
BY DEF TypeOK, Seen, Stored, CacheType

LEMMA InitType == Init => TypeOK
<1> SUFFICES ASSUME Init PROVE TypeOK
    OBVIOUS
<1>1. StoredOK
    <2>1. AbsentInventory \in Inventories
        BY DEF AbsentInventory, Inventories
    <2>2. NoDeployment \in Deployments /\ NewDeployment \in Deployments
        BY DEF NoDeployment, NewDeployment, Deployments
    <2>3. NoDB \in DBs
        BY DEF NoDB, DBs
    <2> QED
        BY <2>1, <2>2, <2>3 DEF Init, StoredOK, Secrets, ARStates
<1>2. \A k \in Lagging : cache[k] \in CacheType(k)
    BY <1>1, StoredType, ConstantsAssumption DEF Init
<1>3. aws \in [DBIds -> Databases]
    <2>1. [status : {"unborn", "available"}, password : {"none"}] \subseteq Databases
        BY DEF Databases
    <2> QED
        BY <2>1 DEF Init
<1>4. DOMAIN batch = {} /\ DOMAIN cache = Lagging
    BY DEF Init, NoBatch
<1>5. /\ pc \in PCs /\ pc \notin {"modify", "save"} /\ outcome \in Outcomes
      /\ faults \in 0 .. MaxFaults /\ copy \in Inventories
    BY <1>1, ConstantsAssumption DEF Init, PCs, Outcomes, NoOutcome, StoredOK
<1> QED
    BY <1>1, <1>2, <1>3, <1>4, <1>5 DEF Init, TypeOK, StoredOK

-----------------------------------------------------------------------------
\* Every pass that ends leaves the worker's variables in their types.
LEMMA FinishType ==
    ASSUME NEW ready \in {"True", "False", "Unknown"}, NEW again \in BOOLEAN,
           Finish(ready, again)
    PROVE  /\ pc' = "done" /\ outcome' \in Outcomes
           /\ cred' = "none" /\ live' = {} /\ todo' = {} /\ DOMAIN batch' = {}
           /\ cur' = NoObject /\ pw' = "none" /\ waiting' = FALSE
BY DEF Finish, Outcomes, ClearScratch, NoBatch

\* The worker's types that depend on where the pass is.
WorkerOK ==
    /\ pc \in PCs
    /\ outcome \in Outcomes
    /\ cred \in Creds \cup {"none"}
    /\ pc \in {"createSecret", "createConfigMap"} => cred \in Creds
    /\ live \in SUBSET DBIds /\ todo \in SUBSET DBIds
    /\ DOMAIN batch \subseteq Objects
    /\ \A o \in DOMAIN batch : batch[o] \in DBs
    /\ cur \in Objects \cup {NoObject}
    /\ pc \in {"modify", "save"} => cur \in DOMAIN batch
    /\ pw \in Passwords \cup {"none"}
    /\ waiting \in BOOLEAN

LEMMA FinishOK ==
    ASSUME NEW ready \in {"True", "False", "Unknown"}, NEW again \in BOOLEAN,
           Finish(ready, again)
    PROVE  WorkerOK'
BY FinishType DEF WorkerOK, PCs

LEMMA EndOK == (Updating \/ Failed \/ Requeue \/ NotReady \/ Ready) => WorkerOK'
BY FinishOK DEF Updating, Failed, Requeue, NotReady, Ready

\* A step that only moves the program counter.
LEMMA GotoOK ==
    ASSUME WorkerOK, NEW label \in PCs, Goto(label), UNCHANGED scratch,
           label \notin {"createSecret", "modify", "save"},
           label = "createConfigMap" => pc = "createSecret"
    PROVE  WorkerOK'
BY DEF WorkerOK, Goto, scratch

\* The variables other than the worker's.
ClusterOK ==
    /\ StoredOK
    /\ credential \in Creds \cup {"absent", "invalid"}
    /\ aws \in [DBIds -> Databases]
    /\ DOMAIN cache = Lagging
    /\ \A k \in Lagging : cache[k] \in CacheType(k)
    /\ queued \in BOOLEAN
    /\ copy \in Inventories
    /\ faults \in 0 .. MaxFaults

LEMMA TypeParts ==
    /\ TypeOK => ClusterOK /\ WorkerOK
    /\ ClusterOK' /\ WorkerOK' => TypeOK'
BY DEF TypeOK, ClusterOK, StoredOK, WorkerOK

\* The updates of the records.
LEMMA InventoryUpdate ==
    ASSUME NEW v \in Inventories, NEW f \in BOOLEAN,
           NEW r \in {"True", "False", "Unknown"}, NEW S \in SUBSET Objects
    PROVE  /\ [v EXCEPT !.finalizer = f] \in Inventories
           /\ [v EXCEPT !.ready = r] \in Inventories
           /\ [v EXCEPT !.instances = S] \in Inventories
           /\ [v EXCEPT !.phase = "deleting"] \in Inventories
           /\ [v EXCEPT !.phase = "live"] \in Inventories
           /\ AbsentInventory \in Inventories
BY DEF Inventories, AbsentInventory

LEMMA DeploymentUpdate ==
    ASSUME NEW d \in Deployments
    PROVE  /\ ScaledToZero(d) \in Deployments /\ Started(d) \in Deployments
           /\ [d EXCEPT !.ready = ~@] \in Deployments
           /\ NoDeployment \in Deployments /\ NewDeployment \in Deployments
<1>1. [d EXCEPT !.ready = ~@] \in Deployments
    <2>1. d.ready \in BOOLEAN /\ (~d.ready) \in BOOLEAN
        BY DEF Deployments
    <2> QED
        BY <2>1 DEF Deployments
<1> QED
    BY <1>1 DEF Deployments, ScaledToZero, Started, NoDeployment, NewDeployment

LEMMA DBUpdate ==
    ASSUME NEW d \in DBs, NEW l \in BOOLEAN, NEW st \in {"nil", "available", "busy"}
    PROVE  /\ WithReferences(d) \in DBs
           /\ [d EXCEPT !.username = "aws"] \in DBs
           /\ [d EXCEPT !.status = st] \in DBs
           /\ NoDB \in DBs
           /\ [NoDB EXCEPT !.present = TRUE, !.label = l] \in DBs
           /\ [NoDB EXCEPT !.present = TRUE, !.username = "generated", !.password = TRUE] \in DBs
BY DEF DBs, NoDB, WithReferences

LEMMA FaultType ==
    ASSUME faults \in 0 .. MaxFaults, NEW f, Fault(f) PROVE faults' \in 0 .. MaxFaults
BY ConstantsAssumption DEF Fault

\* A step of one of the others leaves the worker alone.
LEMMA SameWorker == ASSUME WorkerOK, UNCHANGED Worker PROVE WorkerOK'
BY DEF WorkerOK, Worker, scratch

LEMMA FirstCallType ==
    ASSUME NEW inv \in Inventories, inv.phase # "absent"
    PROVE  FirstCall(inv) \in {"addFinalizer", "validate", "deleteAdopted"}
BY DEF FirstCall, Inventories

LEMMA AwsMovesOK ==
    ASSUME ClusterOK, WorkerOK, NEW i \in DBIds, NEW from,
           NEW to \in {"busy", "available", "deleting", "gone"}, AwsMoves(i, from, to)
    PROVE  ClusterOK' /\ WorkerOK'
<1>1. StoredOK'
    BY DEF ClusterOK, StoredOK, AwsMoves, install
<1>2. [aws EXCEPT ![i].status = to] \in [DBIds -> Databases]
    BY DEF ClusterOK, Databases
<1>3. ClusterOK'
    BY <1>1, <1>2 DEF ClusterOK, AwsMoves, Worker
<1> QED
    BY <1>3, SameWorker DEF AwsMoves

\* The calls of a pass keep the types.
LEMMA ReconcileType ==
    ASSUME TypeOK, SetupWithManager \/ Reconcile PROVE ClusterOK' /\ WorkerOK'
<1> SUFFICES ASSUME ClusterOK, WorkerOK PROVE ClusterOK' /\ WorkerOK'
    BY TypeParts
<1>1. CASE SetupWithManager
    <2>1. StoredOK'
        BY <1>1, DeploymentUpdate DEF ClusterOK, StoredOK, SetupWithManager, install,
           objects
    <2>2. ClusterOK'
        <3>1. \A k \in Lagging : Stored(k)  \in CacheType(k)
            BY StoredType, ConstantsAssumption DEF ClusterOK
        <3>2. deployment' \in CacheType("deployment")
            BY <2>1 DEF StoredOK, CacheType
        <3>3. \A k \in Lagging : cache'[k] \in CacheType(k)
            BY <1>1, <3>1, <3>2 DEF SetupWithManager
        <3> QED
            BY <1>1, <2>1, <3>3 DEF ClusterOK, SetupWithManager, objects
    <2>3. WorkerOK'
        BY <1>1, GotoOK DEF SetupWithManager, PCs
    <2> QED
        BY <2>2, <2>3
<1>2. CASE GetInventory
    <2>1. StoredOK'
        BY <1>2 DEF ClusterOK, StoredOK, GetInventory, install, objects
    <2>2. ClusterOK'
        BY <1>2, <2>1, SeenType DEF ClusterOK, GetInventory, objects
    <2>3. WorkerOK'
        <3> DEFINE seen == Seen("inventory")
        <3>1. seen \in Inventories /\ copy' = seen /\ UNCHANGED scratch
            BY <1>2, SeenType DEF GetInventory
        <3>2. Goto(IF seen.phase = "absent" THEN "idle" ELSE FirstCall(seen))
            BY <1>2 DEF GetInventory
        <3> HIDE DEF seen
        <3>3. CASE seen.phase = "absent"
            BY <3>1, <3>2, <3>3, GotoOK DEF PCs
        <3>4. CASE seen.phase # "absent"
            BY <3>1, <3>2, <3>4, FirstCallType, GotoOK DEF PCs, CallPCs
        <3> QED
            BY <3>3, <3>4
    <2> QED
        BY <2>2, <2>3
<1>3. CASE AddFinalizer
    <2>1. StoredOK'
        BY <1>3, InventoryUpdate DEF ClusterOK, StoredOK, AddFinalizer, install, objects
    <2>2. ClusterOK'
        BY <1>3, <2>1 DEF ClusterOK, AddFinalizer, objects, QueuedByInventory, StoredOK
    <2>3. WorkerOK'
        BY <1>3, EndOK DEF AddFinalizer
    <2> QED
        BY <2>2, <2>3
<1>4. CASE DeleteAdopted
    <2>1. StoredOK'
        BY <1>4 DEF ClusterOK, StoredOK, DeleteAdopted, install, objects, ARStates,
           Terminated
    <2>2. ClusterOK'
        BY <1>4, <2>1, FaultType DEF ClusterOK, DeleteAdopted, objects
    <2>3. WorkerOK'
        BY <1>4, EndOK, GotoOK DEF DeleteAdopted, PCs, CallPCs
    <2> QED
        BY <2>2, <2>3
<1>5. CASE StopController
    <2>1. StoredOK'
        BY <1>5, SeenType, DeploymentUpdate DEF ClusterOK, StoredOK, StopController,
           install, objects
    <2>2. ClusterOK'
        BY <1>5, <2>1 DEF ClusterOK, StopController, objects
    <2>3. WorkerOK'
        BY <1>5, EndOK, GotoOK DEF StopController, PCs, CallPCs
    <2> QED
        BY <2>2, <2>3
<1>6. CASE DeleteSecret
    <2>1. StoredOK'
        BY <1>6 DEF ClusterOK, StoredOK, DeleteSecret, install, objects, Secrets
    <2>2. ClusterOK'
        BY <1>6, <2>1 DEF ClusterOK, DeleteSecret, objects
    <2>3. WorkerOK'
        BY <1>6, EndOK, GotoOK DEF DeleteSecret, PCs, CallPCs
    <2> QED
        BY <2>2, <2>3
<1>7. CASE DeleteConfigMap
    <2>1. StoredOK'
        BY <1>7 DEF ClusterOK, StoredOK, DeleteConfigMap, install, objects, Secrets
    <2>2. ClusterOK'
        BY <1>7, <2>1 DEF ClusterOK, DeleteConfigMap, objects
    <2>3. WorkerOK'
        BY <1>7, EndOK, GotoOK DEF DeleteConfigMap, PCs, CallPCs
    <2> QED
        BY <2>2, <2>3
<1>8. CASE RemoveFinalizer
    <2>1. StoredOK'
        BY <1>8, InventoryUpdate DEF ClusterOK, StoredOK, RemoveFinalizer, install,
           objects
    <2>2. ClusterOK'
        BY <1>8, <2>1, InventoryUpdate DEF ClusterOK, RemoveFinalizer, objects,
           QueuedByInventory
    <2>3. WorkerOK'
        BY <1>8, EndOK DEF RemoveFinalizer
    <2> QED
        BY <2>2, <2>3
<1>9. CASE ValidateAWSParameter
    <2>1. StoredOK'
        BY <1>9 DEF ClusterOK, StoredOK, ValidateAWSParameter, install, objects
    <2>2. ClusterOK'
        BY <1>9, <2>1 DEF ClusterOK, ValidateAWSParameter, objects
    <2>3. WorkerOK'
        BY <1>9, EndOK DEF ValidateAWSParameter, WorkerOK, Goto, PCs, CallPCs
    <2> QED
        BY <2>2, <2>3
<1>10. CASE CreateOrUpdateSecret
    <2>1. StoredOK'
        BY <1>10 DEF ClusterOK, StoredOK, CreateOrUpdateSecret, install, objects,
           Secrets, Written, WorkerOK
    <2>2. ClusterOK'
        BY <1>10, <2>1 DEF ClusterOK, CreateOrUpdateSecret, objects
    <2>3. WorkerOK'
        BY <1>10, EndOK, GotoOK DEF CreateOrUpdateSecret, PCs, CallPCs
    <2> QED
        BY <2>2, <2>3
<1>11. CASE CreateOrUpdateConfigMap
    <2>1. StoredOK'
        BY <1>11 DEF ClusterOK, StoredOK, CreateOrUpdateConfigMap, install, objects,
           Secrets, Written, WorkerOK
    <2>2. ClusterOK'
        BY <1>11, <2>1 DEF ClusterOK, CreateOrUpdateConfigMap, objects
    <2>3. WorkerOK'
        BY <1>11, EndOK, GotoOK DEF CreateOrUpdateConfigMap, PCs, CallPCs
    <2> QED
        BY <2>2, <2>3
<1>12. CASE StartController
    <2>1. StoredOK'
        BY <1>12, SeenType, DeploymentUpdate DEF ClusterOK, StoredOK, StartController,
           install, objects
    <2>2. ClusterOK'
        BY <1>12, <2>1 DEF ClusterOK, StartController, objects
    <2>3. WorkerOK'
        BY <1>12, EndOK, GotoOK DEF StartController, PCs, CallPCs
    <2> QED
        BY <2>2, <2>3
<1>13. CASE WaitForController
    <2>1. StoredOK'
        BY <1>13 DEF ClusterOK, StoredOK, WaitForController, install, objects
    <2>2. ClusterOK'
        BY <1>13, <2>1 DEF ClusterOK, WaitForController, objects
    <2>3. WorkerOK'
        BY <1>13, EndOK, GotoOK, SeenType DEF WaitForController, PCs, CallPCs,
           Deployments
    <2> QED
        BY <2>2, <2>3
<1>14. CASE DescribeDBInstances
    <2>1. StoredOK'
        BY <1>14 DEF ClusterOK, StoredOK, DescribeDBInstances, install, objects
    <2>2. ClusterOK'
        BY <1>14, <2>1 DEF ClusterOK, DescribeDBInstances, objects
    <2>3. WorkerOK'
        BY <1>14 DEF DescribeDBInstances, WorkerOK, Goto, PCs, CallPCs
    <2> QED
        BY <2>2, <2>3
<1>15. CASE ListManaged
    <2>1. StoredOK'
        BY <1>15 DEF ClusterOK, StoredOK, ListManaged, install, objects
    <2>2. ClusterOK'
        BY <1>15, <2>1 DEF ClusterOK, ListManaged, objects
    <2>3. WorkerOK'
        BY <1>15 DEF ListManaged, WorkerOK, Goto, PCs, CallPCs
    <2> QED
        BY <2>2, <2>3
<1>16. ASSUME NEW i \in DBIds, CreateAdoptedResource(i) PROVE ClusterOK' /\ WorkerOK'
    <2>1. StoredOK'
        BY <1>16 DEF ClusterOK, StoredOK, CreateAdoptedResource, install, objects,
           ARStates
    <2>2. ClusterOK'
        BY <1>16, <2>1 DEF ClusterOK, CreateAdoptedResource, objects
    <2>3. WorkerOK'
        BY <1>16 DEF CreateAdoptedResource, WorkerOK
    <2> QED
        BY <2>2, <2>3
<1>17. ASSUME NEW i \in DBIds, NoNameLeft(i) PROVE ClusterOK' /\ WorkerOK'
    <2>1. StoredOK'
        BY <1>17 DEF ClusterOK, StoredOK, NoNameLeft, install, objects
    <2>2. ClusterOK'
        BY <1>17, <2>1 DEF ClusterOK, NoNameLeft, objects
    <2>3. WorkerOK'
        BY <1>17, EndOK DEF NoNameLeft
    <2> QED
        BY <2>2, <2>3
<1>18. CASE AdoptionRequested
    <2>1. StoredOK'
        BY <1>18 DEF ClusterOK, StoredOK, AdoptionRequested, install, objects
    <2>2. ClusterOK'
        BY <1>18, <2>1 DEF ClusterOK, AdoptionRequested, objects
    <2>3. WorkerOK'
        BY <1>18, EndOK, GotoOK DEF AdoptionRequested, PCs, CallPCs
    <2> QED
        BY <2>2, <2>3
<1>19. CASE ListAdopted
    <2>1. StoredOK'
        BY <1>19 DEF ClusterOK, StoredOK, ListAdopted, install, objects
    <2>2. ClusterOK'
        BY <1>19, <2>1 DEF ClusterOK, ListAdopted, objects
    <2>3. WorkerOK'
        BY <1>19, SeenType DEF ListAdopted, WorkerOK, Goto, PCs, CallPCs
    <2> QED
        BY <2>2, <2>3
<1>20. ASSUME NEW o \in Objects, FillConnectionInfo(o) PROVE ClusterOK' /\ WorkerOK'
    <2>1. dbs' \in [Objects -> DBs]
        <3>1. dbs \in [Objects -> DBs]
            BY DEF ClusterOK, StoredOK
        <3>2. [dbs EXCEPT ![o].username = "aws"] \in [Objects -> DBs]
            BY <1>20, <3>1 DEF DBs
        <3> QED
            BY <1>20, <3>1, <3>2 DEF FillConnectionInfo
    <2>2. StoredOK'
        BY <1>20, <2>1 DEF ClusterOK, StoredOK, FillConnectionInfo, install
    <2>3. ClusterOK'
        BY <1>20, <2>2 DEF ClusterOK, FillConnectionInfo, objects, QueuedByDB
    <2>4. WorkerOK'
        BY <1>20, EndOK DEF FillConnectionInfo, Handles, WorkerOK, DBs
    <2> QED
        BY <2>3, <2>4
<1>21. ASSUME NEW o \in Objects, SkipDBInstance(o) PROVE ClusterOK' /\ WorkerOK'
    <2>1. StoredOK'
        BY <1>21 DEF ClusterOK, StoredOK, SkipDBInstance, install, objects
    <2>2. ClusterOK'
        BY <1>21, <2>1 DEF ClusterOK, SkipDBInstance, objects
    <2>3. WorkerOK'
        BY <1>21 DEF SkipDBInstance, Handles, WorkerOK, Others
    <2> QED
        BY <2>2, <2>3
<1>22. ASSUME NEW o \in Objects, SetCredentials(o) PROVE ClusterOK' /\ WorkerOK'
    <2>1. StoredOK'
        BY <1>22, SeenType DEF ClusterOK, StoredOK, SetCredentials, install, objects,
           PasswordsFor
    <2>2. ClusterOK'
        BY <1>22, <2>1 DEF ClusterOK, SetCredentials, objects
    <2>3. WorkerOK'
        BY <1>22, EndOK, SeenType DEF SetCredentials, Handles, WorkerOK, Goto, PCs, CallPCs,
           PasswordsFor
    <2> QED
        BY <2>2, <2>3
<1>23. CASE ModifyDBInstance
    <2>1. StoredOK'
        BY <1>23 DEF ClusterOK, StoredOK, ModifyDBInstance, install, objects
    <2>2. ClusterOK'
        BY <1>23, <2>1 DEF ClusterOK, ModifyDBInstance, objects, WorkerOK, Databases,
           Objects
    <2>3. WorkerOK'
        BY <1>23, EndOK DEF ModifyDBInstance, WorkerOK, Goto, PCs, CallPCs, scratch
    <2> QED
        BY <2>2, <2>3
<1>24. CASE SaveDBInstance
    <2>1. StoredOK'
        BY <1>24, DBUpdate DEF ClusterOK, StoredOK, SaveDBInstance, install, objects,
           WorkerOK
    <2>2. ClusterOK'
        BY <1>24, <2>1 DEF ClusterOK, SaveDBInstance, objects, QueuedByDB
    <2>3. WorkerOK'
        BY <1>24, EndOK DEF SaveDBInstance, WorkerOK, Goto, PCs, CallPCs, Others
    <2> QED
        BY <2>2, <2>3
<1>25. CASE AdoptionChecked
    <2>1. StoredOK'
        BY <1>25 DEF ClusterOK, StoredOK, AdoptionChecked, install, objects
    <2>2. ClusterOK'
        BY <1>25, <2>1 DEF ClusterOK, AdoptionChecked, objects
    <2>3. WorkerOK'
        BY <1>25, EndOK, GotoOK DEF AdoptionChecked, PCs, CallPCs
    <2> QED
        BY <2>2, <2>3
<1>26. CASE SyncInstances
    <2>1. StoredOK'
        <3>1. copy' \in Inventories
            BY <1>26, InventoryUpdate DEF ClusterOK, SyncInstances
        <3> QED
            BY <1>26, <3>1 DEF ClusterOK, StoredOK, SyncInstances, install, objects
    <2>2. ClusterOK'
        BY <1>26, <2>1, InventoryUpdate DEF ClusterOK, SyncInstances, objects
    <2>3. WorkerOK'
        BY <1>26, EndOK DEF SyncInstances
    <2> QED
        BY <2>2, <2>3
<1>27. CASE UpdateReadyCondition
    <2>1. StoredOK'
        BY <1>27, InventoryUpdate DEF ClusterOK, StoredOK, UpdateReadyCondition,
           install, objects, WorkerOK, Outcomes
    <2>2. ClusterOK'
        <3>1. AbsentInventory \in Inventories /\ outcome.again \in BOOLEAN
            BY InventoryUpdate DEF ClusterOK, WorkerOK, Outcomes
        <3>2. copy' \in Inventories /\ queued' \in BOOLEAN
            BY <1>27, <3>1 DEF UpdateReadyCondition, EndPass, ClusterOK
        <3> QED
            BY <1>27, <2>1, <3>2 DEF ClusterOK, UpdateReadyCondition, objects
    <2>3. WorkerOK'
        <3>1. pc' = "idle" /\ outcome' = NoOutcome /\ UNCHANGED scratch
            BY <1>27 DEF UpdateReadyCondition, EndPass
        <3>2. NoOutcome \in Outcomes
            BY DEF NoOutcome, Outcomes
        <3> QED
            BY <3>1, <3>2 DEF WorkerOK, PCs, scratch
    <2> QED
        BY <2>2, <2>3
<1> QED
    BY <1>1, <1>2, <1>3, <1>4, <1>5, <1>6, <1>7, <1>8, <1>9, <1>10, <1>11, <1>12, <1>13,
       <1>14, <1>15, <1>16, <1>17, <1>18, <1>19, <1>20, <1>21, <1>22, <1>23, <1>24,
       <1>25, <1>26, <1>27 DEF Reconcile

\* So do the faults.
LEMMA TroubleType ==
    ASSUME TypeOK, Trouble PROVE ClusterOK' /\ WorkerOK'
<1> SUFFICES ASSUME ClusterOK, WorkerOK PROVE ClusterOK' /\ WorkerOK'
    BY TypeParts
<1>1. CASE CallFails
    <2>1. StoredOK'
        BY <1>1 DEF ClusterOK, StoredOK, CallFails, install, objects
    <2>2. ClusterOK'
        BY <1>1, <2>1, FaultType DEF ClusterOK, CallFails, objects
    <2>3. WorkerOK'
        BY <1>1, EndOK DEF CallFails
    <2> QED
        BY <2>2, <2>3
<1>2. CASE Conflict
    <2>1. StoredOK'
        BY <1>2 DEF ClusterOK, StoredOK, Conflict, install, objects
    <2>2. ClusterOK'
        BY <1>2, <2>1, FaultType DEF ClusterOK, Conflict, objects
    <2>3. WorkerOK'
        BY <1>2, EndOK DEF Conflict
    <2> QED
        BY <2>2, <2>3
<1>3. CASE Restart
    <2>1. StoredOK'
        BY <1>3 DEF ClusterOK, StoredOK, Restart, install, objects
    <2>2. ClusterOK'
        BY <1>3, <2>1, StoredType, InventoryUpdate, FaultType, ConstantsAssumption DEF
           ClusterOK, Restart, objects, Kinds
    <2>3. WorkerOK'
        BY <1>3 DEF Restart, WorkerOK, ClearScratch, NoBatch, PCs, CallPCs, Outcomes,
           NoOutcome
    <2> QED
        BY <2>2, <2>3
<1>4. CASE StandbySetup
    <2>1. StoredOK'
        BY <1>4, DeploymentUpdate DEF ClusterOK, StoredOK, StandbySetup, install,
           objects
    <2>2. ClusterOK'
        BY <1>4, <2>1, FaultType DEF ClusterOK, StandbySetup, objects
    <2>3. WorkerOK'
        BY <1>4, SameWorker DEF StandbySetup, Worker
    <2> QED
        BY <2>2, <2>3
<1>5. CASE Undeploy
    <2>1. StoredOK'
        BY <1>5, DeploymentUpdate DEF ClusterOK, StoredOK, Undeploy, install, objects
    <2>2. ClusterOK'
        BY <1>5, <2>1, FaultType DEF ClusterOK, Undeploy, objects
    <2>3. WorkerOK'
        BY <1>5, SameWorker DEF Undeploy, Worker
    <2> QED
        BY <2>2, <2>3
<1> QED
    BY <1>1, <1>2, <1>3, <1>4, <1>5 DEF Trouble

\* So do the steps of the user.
LEMMA UserType ==
    ASSUME TypeOK, User PROVE ClusterOK' /\ WorkerOK'
<1> SUFFICES ASSUME ClusterOK, WorkerOK PROVE ClusterOK' /\ WorkerOK'
    BY TypeParts
<1>1. CASE CreateInventory
    <2>1. StoredOK'
        BY <1>1, InventoryUpdate DEF ClusterOK, StoredOK, CreateInventory, install,
           objects
    <2>2. ClusterOK'
        BY <1>1, <2>1 DEF ClusterOK, CreateInventory, objects, QueuedByInventory, Worker
    <2>3. WorkerOK'
        BY <1>1, SameWorker DEF CreateInventory, Worker
    <2> QED
        BY <2>2, <2>3
<1>2. CASE DeleteInventory
    <2>1. StoredOK'
        BY <1>2, InventoryUpdate DEF ClusterOK, StoredOK, DeleteInventory, install,
           objects
    <2>2. ClusterOK'
        BY <1>2, <2>1 DEF ClusterOK, DeleteInventory, objects, QueuedByInventory, Worker
    <2>3. WorkerOK'
        BY <1>2, SameWorker DEF DeleteInventory, Worker
    <2> QED
        BY <2>2, <2>3
<1>3. CASE ChangeCredential
    <2>1. StoredOK'
        BY <1>3 DEF ClusterOK, StoredOK, ChangeCredential, install, objects
    <2>2. ClusterOK'
        BY <1>3, <2>1 DEF ClusterOK, ChangeCredential, objects, Worker
    <2>3. WorkerOK'
        BY <1>3, SameWorker DEF ChangeCredential, Worker
    <2> QED
        BY <2>2, <2>3
<1>4. CASE Deploy
    <2>1. StoredOK'
        BY <1>4, DeploymentUpdate DEF ClusterOK, StoredOK, Deploy, install, objects
    <2>2. ClusterOK'
        BY <1>4, <2>1 DEF ClusterOK, Deploy, objects
    <2>3. WorkerOK'
        BY <1>4, SameWorker DEF Deploy, Worker
    <2> QED
        BY <2>2, <2>3
<1>5. ASSUME NEW o \in Objects, ProvisionDBInstance(o) PROVE ClusterOK' /\ WorkerOK'
    <2>1. StoredOK'
        BY <1>5, DBUpdate DEF ClusterOK, StoredOK, ProvisionDBInstance, install,
           objects, ObjectsChanged
    <2>2. ClusterOK'
        BY <1>5, <2>1 DEF ClusterOK, ProvisionDBInstance, objects, ObjectsChanged,
           QueuedByDB, Worker
    <2>3. WorkerOK'
        BY <1>5, SameWorker DEF ProvisionDBInstance, Worker, ObjectsChanged
    <2> QED
        BY <2>2, <2>3
<1>6. ASSUME NEW o \in Objects, AdoptByUser(o) PROVE ClusterOK' /\ WorkerOK'
    <2>1. StoredOK'
        BY <1>6 DEF ClusterOK, StoredOK, AdoptByUser, install, objects, ARStates
    <2>2. ClusterOK'
        BY <1>6, <2>1 DEF ClusterOK, AdoptByUser, objects, Worker
    <2>3. WorkerOK'
        BY <1>6, SameWorker DEF AdoptByUser, Worker
    <2> QED
        BY <2>2, <2>3
<1>7. ASSUME NEW o \in Objects, AckDelete(o) PROVE ClusterOK' /\ WorkerOK'
    <2>1. StoredOK'
        BY <1>7, DBUpdate DEF ClusterOK, StoredOK, AckDelete, install, objects,
           ObjectsChanged
    <2>2. ClusterOK'
        BY <1>7, <2>1 DEF ClusterOK, AckDelete, objects, ObjectsChanged, QueuedByDB,
           Databases, Objects, Worker
    <2>3. WorkerOK'
        BY <1>7, SameWorker DEF AckDelete, Worker, ObjectsChanged
    <2> QED
        BY <2>2, <2>3
<1>8. ASSUME NEW i \in DBIds, AwsCreate(i) PROVE ClusterOK' /\ WorkerOK'
    BY <1>8, AwsMovesOK DEF AwsCreate
<1>9. ASSUME NEW i \in DBIds, AwsBusy(i) PROVE ClusterOK' /\ WorkerOK'
    BY <1>9, AwsMovesOK DEF AwsBusy
<1>10. ASSUME NEW i \in DBIds, AwsDelete(i) PROVE ClusterOK' /\ WorkerOK'
    BY <1>10, AwsMovesOK DEF AwsDelete
<1> QED
    BY <1>1, <1>2, <1>3, <1>4, <1>5, <1>6, <1>7, <1>8, <1>9, <1>10 DEF User

\* So do those of the cluster and of AWS.
LEMMA ClusterType ==
    ASSUME TypeOK, Cluster PROVE ClusterOK' /\ WorkerOK'
<1> SUFFICES ASSUME ClusterOK, WorkerOK PROVE ClusterOK' /\ WorkerOK'
    BY TypeParts
<1>1. CASE Resync
    <2>1. StoredOK'
        BY <1>1 DEF ClusterOK, StoredOK, Resync, install, objects
    <2>2. ClusterOK'
        BY <1>1, <2>1 DEF ClusterOK, Resync, objects, Worker
    <2>3. WorkerOK'
        BY <1>1, SameWorker DEF Resync, Worker
    <2> QED
        BY <2>2, <2>3
<1>2. ASSUME NEW k \in Kinds, InformerSync(k) PROVE ClusterOK' /\ WorkerOK'
    <2>1. StoredOK'
        BY <1>2 DEF ClusterOK, StoredOK, InformerSync, install, objects
    <2>2. ClusterOK'
        BY <1>2, <2>1, StoredType, ConstantsAssumption DEF ClusterOK, InformerSync,
           objects, Worker
    <2>3. WorkerOK'
        BY <1>2, SameWorker DEF InformerSync, Worker
    <2> QED
        BY <2>2, <2>3
<1>3. CASE DeploymentSettles
    <2>1. StoredOK'
        BY <1>3, DeploymentUpdate DEF ClusterOK, StoredOK, DeploymentSettles, install,
           objects
    <2>2. ClusterOK'
        BY <1>3, <2>1 DEF ClusterOK, DeploymentSettles, objects, Worker
    <2>3. WorkerOK'
        BY <1>3, SameWorker DEF DeploymentSettles, Worker
    <2> QED
        BY <2>2, <2>3
<1>4. ASSUME NEW o \in Objects, AckManage(o) PROVE ClusterOK' /\ WorkerOK'
    <2>1. StoredOK'
        BY <1>4 DEF ClusterOK, StoredOK, AckManage, install, objects, ARStates
    <2>2. ClusterOK'
        BY <1>4, <2>1 DEF ClusterOK, AckManage, objects, Worker
    <2>3. WorkerOK'
        BY <1>4, SameWorker DEF AckManage, Worker
    <2> QED
        BY <2>2, <2>3
<1>5. ASSUME NEW o \in Objects, AckAdopt(o) PROVE ClusterOK' /\ WorkerOK'
    <2>1. StoredOK'
        <3> DEFINE label == o \in Owned
        <3>1. label \in BOOLEAN
            OBVIOUS
        <3> HIDE DEF label
        <3>2. [NoDB EXCEPT !.present = TRUE, !.label = label] \in DBs
            BY <3>1 DEF DBs, NoDB
        <3> QED
            BY <1>5, <3>2 DEF label, ClusterOK, StoredOK, AckAdopt, install, ARStates,
               ObjectsChanged
    <2>2. ClusterOK'
        BY <1>5, <2>1 DEF ClusterOK, AckAdopt, objects, ObjectsChanged, QueuedByDB,
           Worker
    <2>3. WorkerOK'
        BY <1>5, SameWorker DEF AckAdopt, Worker, ObjectsChanged
    <2> QED
        BY <2>2, <2>3
<1>6. ASSUME NEW o \in Objects, AckFinalize(o) PROVE ClusterOK' /\ WorkerOK'
    <2>1. StoredOK'
        BY <1>6 DEF ClusterOK, StoredOK, AckFinalize, install, objects, ARStates
    <2>2. ClusterOK'
        BY <1>6, <2>1 DEF ClusterOK, AckFinalize, objects, Worker
    <2>3. WorkerOK'
        BY <1>6, SameWorker DEF AckFinalize, Worker
    <2> QED
        BY <2>2, <2>3
<1>7. ASSUME NEW o \in Objects, AckCreate(o) PROVE ClusterOK' /\ WorkerOK'
    <2>1. StoredOK'
        BY <1>7 DEF ClusterOK, StoredOK, AckCreate, install, objects
    <2>2. ClusterOK'
        BY <1>7, <2>1 DEF ClusterOK, AckCreate, objects, Databases, Objects, Worker
    <2>3. WorkerOK'
        BY <1>7, SameWorker DEF AckCreate, Worker
    <2> QED
        BY <2>2, <2>3
<1>8. ASSUME NEW o \in Objects, AckStatus(o) PROVE ClusterOK' /\ WorkerOK'
    <2>1. StoredOK'
        BY <1>8, DBUpdate DEF ClusterOK, StoredOK, AckStatus, install, objects,
           ObjectsChanged, Observed
    <2>2. ClusterOK'
        BY <1>8, <2>1 DEF ClusterOK, AckStatus, objects, ObjectsChanged, QueuedByDB,
           Worker
    <2>3. WorkerOK'
        BY <1>8, SameWorker DEF AckStatus, Worker, ObjectsChanged
    <2> QED
        BY <2>2, <2>3
<1>9. ASSUME NEW o \in Objects, CollectSecret(o) PROVE ClusterOK' /\ WorkerOK'
    <2>1. StoredOK'
        BY <1>9 DEF ClusterOK, StoredOK, CollectSecret, install, objects
    <2>2. ClusterOK'
        BY <1>9, <2>1 DEF ClusterOK, CollectSecret, objects, Worker
    <2>3. WorkerOK'
        BY <1>9, SameWorker DEF CollectSecret, Worker
    <2> QED
        BY <2>2, <2>3
<1>10. ASSUME NEW i \in DBIds, AwsSettle(i) PROVE ClusterOK' /\ WorkerOK'
    BY <1>10, AwsMovesOK DEF AwsSettle
<1>11. ASSUME NEW i \in DBIds, AwsGone(i) PROVE ClusterOK' /\ WorkerOK'
    BY <1>11, AwsMovesOK DEF AwsGone
<1> QED
    BY <1>1, <1>2, <1>3, <1>4, <1>5, <1>6, <1>7, <1>8, <1>9, <1>10, <1>11 DEF Cluster

\* Whatever the operator, the user, the ACK controller, AWS and the faults do, and
\* however old what the caches return is, every variable keeps its type: no Secret
\* is written without credentials, and no password set without a DBInstance.
THEOREM TypeCorrect == Spec => []TypeOK
<1>1. TypeOK /\ [Next]_vars => TypeOK'
    <2> SUFFICES ASSUME TypeOK, [Next]_vars PROVE TypeOK'
        OBVIOUS
    <2>1. CASE SetupWithManager \/ Reconcile
        BY <2>1, ReconcileType, TypeParts
    <2>2. CASE Trouble
        BY <2>2, TroubleType, TypeParts
    <2>3. CASE User
        BY <2>3, UserType, TypeParts
    <2>4. CASE Cluster
        BY <2>4, ClusterType, TypeParts
    <2>5. CASE UNCHANGED vars
        BY <2>5 DEF TypeOK, vars, install, objects, scratch
    <2> QED
        BY <2>1, <2>2, <2>3, <2>4, <2>5 DEF Next
<1> QED
    BY <1>1, InitType, PTL DEF Spec

=============================================================================
