----------------------------- MODULE ClaimProofs -----------------------------
(* Proofs about what the operator adopts: each database once, none that a      *)
(* RDSInstance manages, and nothing of the user's is touched. What the caches  *)
(* of DBInstances and AdoptedResources show decides, so that some of the       *)
(* theorems need one or both of them up to date.                               *)
EXTENDS AgreementProofs

-----------------------------------------------------------------------------
(* The inductive invariants.                                                   *)

\* Something of the operator's stands for the database.
Claimed(o) == adopted[o] # "none" \/ dbs[o].present

\* What a pass is still going to adopt, it has seen to be unclaimed, and nobody but the
\* worker claims.
Unclaimed ==
    pc = "adopt" => \A o \in Owned : o[1] \in todo => ~Claimed(o)

OnceInv == AdoptOnce /\ Unclaimed

\* Nor does anything manage it, but what an AdoptedResource has brought since.
Unmanaged ==
    pc = "adopt" => \A o \in Objects :
        o[1] \in todo /\ dbs[o].present => adopted[o] = "adopted"

\* The operator deletes none of the user's AdoptedResources.
NotDeleted == \A o \in Objects \ Owned : adopted[o] # "deleting"

-----------------------------------------------------------------------------
(* The steps that claim nothing.                                               *)

\* Only ListManaged brings the worker to the point where it adopts, and the worker is
\* the only one who takes from its list.
LEMMA AdoptsLater ==
    ASSUME TypeOK, [Next]_vars, ~ListManaged, \A i \in DBIds : ~CreateAdoptedResource(i)
    PROVE  pc' = "adopt" => pc = "adopt" /\ todo' = todo
<1>f. Updating \/ Failed \/ Requeue \/ NotReady \/ Ready => pc' = "done"
    BY DEF Updating, Failed, Requeue, NotReady, Ready, Finish
<1>1. CASE User \/ Cluster
    <2>1. UNCHANGED Worker
        BY <1>1 DEF User, Cluster, CreateInventory, DeleteInventory, ChangeCredential, Deploy,
           ProvisionDBInstance, AdoptByUser, AckDelete, AwsCreate, AwsBusy, AwsDelete,
           AwsMoves, Resync, InformerSync, DeploymentSettles, AckManage, AckAdopt,
           AckFinalize, AckCreate, AckStatus, CollectSecret, AwsSettle, AwsGone,
           ObjectsChanged, Worker
    <2> QED
        BY <2>1 DEF Worker, scratch
<1>2. CASE Trouble
    BY <1>2, <1>f DEF Trouble, CallFails, Conflict, Restart, StandbySetup, Undeploy, scratch
<1>0. CASE GetInventory
    <2>1. Seen("inventory").phase \in {"absent", "live", "deleting"}
          /\ Seen("inventory").finalizer \in BOOLEAN
        BY SeenType DEF Inventories
    <2>2. pc' = IF Seen("inventory").phase = "absent" THEN "idle"
                                                      ELSE FirstCall(Seen("inventory"))
        BY <1>0 DEF GetInventory, Goto
    <2> QED
        BY <2>1, <2>2 DEF FirstCall
<1>3. CASE SetupWithManager \/ AddFinalizer \/ DeleteAdopted
    BY <1>3, <1>f DEF SetupWithManager, AddFinalizer, DeleteAdopted, Goto
<1>4. CASE \/ StopController \/ DeleteSecret \/ DeleteConfigMap \/ RemoveFinalizer
           \/ ValidateAWSParameter \/ CreateOrUpdateSecret \/ CreateOrUpdateConfigMap
    BY <1>4, <1>f DEF StopController, DeleteSecret, DeleteConfigMap, RemoveFinalizer,
       ValidateAWSParameter, CreateOrUpdateSecret, CreateOrUpdateConfigMap, Goto
<1>5. CASE \/ StartController \/ WaitForController \/ DescribeDBInstances \/ AdoptionRequested
           \/ ListAdopted \/ ModifyDBInstance \/ SaveDBInstance \/ AdoptionChecked
           \/ SyncInstances \/ UpdateReadyCondition
    BY <1>5, <1>f DEF StartController, WaitForController, DescribeDBInstances,
       AdoptionRequested, ListAdopted, ModifyDBInstance, SaveDBInstance, AdoptionChecked,
       SyncInstances, UpdateReadyCondition, EndPass, Goto
<1>6. ASSUME NEW i \in DBIds, NoNameLeft(i) PROVE pc' # "adopt"
    BY <1>6, <1>f DEF NoNameLeft
<1>7. ASSUME NEW o \in Objects, FillConnectionInfo(o) \/ SkipDBInstance(o) \/ SetCredentials(o)
      PROVE  pc' # "adopt"
    BY <1>7, <1>f DEF FillConnectionInfo, SkipDBInstance, SetCredentials, Handles, Goto
<1>8. CASE UNCHANGED vars
    BY <1>8 DEF vars, scratch
<1> QED
    BY <1>0, <1>1, <1>2, <1>3, <1>4, <1>5, <1>6, <1>7, <1>8 DEF Next, Reconcile

\* Only CreateAdoptedResource claims a database.
LEMMA ClaimsShrink ==
    ASSUME TypeOK, AgreementInv, [Next]_vars, \A i \in DBIds : ~CreateAdoptedResource(i)
    PROVE  \A o \in Owned : Claimed(o)' => Claimed(o)
<1>1. Steady => \A o \in Owned : Claimed(o)' => Claimed(o)
    BY DEF Steady, SteadyAdopted, SteadyDBs, Claimed
<1>2. UNCHANGED objects => Steady \/ \A o \in Owned : Claimed(o)' => Claimed(o)
    BY DEF objects, Claimed
<1>3. CASE User \/ Cluster \/ Trouble
    BY <1>1, <1>3, UserStep, ClusterStep, TroubleStep
<1>4. CASE \/ SetupWithManager \/ GetInventory \/ AddFinalizer
           \/ DeleteAdopted \/ StopController \/ DeleteSecret \/ DeleteConfigMap
           \/ RemoveFinalizer \/ ValidateAWSParameter \/ CreateOrUpdateSecret
           \/ CreateOrUpdateConfigMap \/ StartController \/ WaitForController
           \/ SyncInstances \/ UpdateReadyCondition
    BY <1>1, <1>4, IdleCalls
<1>5. CASE \/ DescribeDBInstances \/ ListManaged \/ AdoptionRequested \/ ListAdopted
           \/ AdoptionChecked \/ UNCHANGED vars
    BY <1>1, <1>2, <1>5 DEF DescribeDBInstances, ListManaged, AdoptionRequested, ListAdopted,
       AdoptionChecked, vars
<1>6. ASSUME NEW i \in DBIds, NoNameLeft(i) PROVE UNCHANGED objects
    BY <1>6 DEF NoNameLeft
<1>7. ASSUME NEW o \in Objects, SkipDBInstance(o) PROVE UNCHANGED objects
    BY <1>7 DEF SkipDBInstance
<1>8. ASSUME NEW o \in Objects, FillConnectionInfo(o) \/ SetCredentials(o)
      PROVE  \A p \in Owned : Claimed(p)' => Claimed(p)
    <2>1. adopted' = adopted
          /\ \A p \in Objects : dbs'[p].present => dbs[p].present
        BY <1>8 DEF FillConnectionInfo, SetCredentials, TypeOK, DBs
    <2> QED
        BY <2>1, ObjectFacts DEF Claimed
<1>9. CASE ModifyDBInstance \/ SaveDBInstance
    <2>1. adopted' = adopted
          /\ \A p \in Objects : dbs'[p].present => dbs[p].present
        <3>1. CASE ModifyDBInstance
            BY <3>1 DEF ModifyDBInstance
        <3>2. CASE SaveDBInstance
            <4>1. adopted' = adopted /\ cur \in Objects
                  /\ (dbs' = dbs \/ dbs' = [dbs EXCEPT ![cur] = WithReferences(dbs[cur])])
                BY <3>2 DEF SaveDBInstance, TypeOK
            <4>2. WithReferences(dbs[cur]).present = dbs[cur].present
                BY <4>1 DEF WithReferences, TypeOK, DBs
            <4> QED
                BY <4>1, <4>2 DEF TypeOK
        <3> QED
            BY <1>9, <3>1, <3>2
    <2> QED
        BY <2>1, ObjectFacts DEF Claimed
<1> QED
    BY <1>1, <1>2, <1>3, <1>4, <1>5, <1>6, <1>7, <1>8, <1>9 DEF Next, Reconcile

-----------------------------------------------------------------------------
(* A database is adopted once.                                                 *)

LEMMA OnceInit == Init => OnceInv
BY ObjectFacts DEF Init, OnceInv, AdoptOnce, Unclaimed, NoDB

LEMMA OnceStep ==
    ASSUME {"adopted", "dbs"} \cap Lagging = {}, TypeOK, AgreementInv, OnceInv, [Next]_vars
    PROVE  OnceInv'
<1> USE ObjectFacts
<1>1. ASSUME NEW i \in DBIds, CreateAdoptedResource(i) PROVE OnceInv'
    <2>1. PICK o \in Owned : o[1] = i /\ adopted' = [adopted EXCEPT ![o] = "pending"]
        BY <1>1 DEF CreateAdoptedResource
    <2>2. /\ dbs' = dbs /\ pc = "adopt" /\ i \in todo /\ todo' = todo \ {i}
        BY <1>1 DEF CreateAdoptedResource
    <2>3. \A p \in Owned : Claimed(p)' => Claimed(p) \/ p = o
        BY <2>1, <2>2 DEF Claimed, TypeOK
    <2>4. \A p \in Owned : p[1] \in todo => ~Claimed(p)
        BY <2>2 DEF OnceInv, Unclaimed
    <2>5. AdoptOnce'
        BY <2>1, <2>2, <2>3, <2>4 DEF OnceInv, AdoptOnce, Claimed
    <2>6. Unclaimed'
        BY <2>1, <2>2, <2>3, <2>4 DEF Unclaimed
    <2> QED
        BY <2>5, <2>6 DEF OnceInv
<1>2. CASE ListManaged
    <2>1. UNCHANGED <<adopted, dbs>> /\ todo' = {i \in todo : ~Covered(i)}
        BY <1>2 DEF ListManaged, objects
    <2>2. Seen("adopted") = adopted /\ Seen("dbs") = dbs
        BY DEF Seen, Stored
    <2>3. \A o \in Owned : o[1] \in todo' => ~Claimed(o)'
        BY <2>1, <2>2 DEF Covered, Claimed
    <2> QED
        BY <2>1, <2>3 DEF OnceInv, AdoptOnce, Unclaimed
<1>3. CASE ~ListManaged /\ \A i \in DBIds : ~CreateAdoptedResource(i)
    <2>1. \A o \in Owned : Claimed(o)' => Claimed(o)
        BY <1>3, ClaimsShrink
    <2>2. pc' = "adopt" => pc = "adopt" /\ todo' = todo
        BY <1>3, AdoptsLater
    <2>3. AdoptOnce'
        BY <2>1 DEF OnceInv, AdoptOnce, Claimed
    <2>4. Unclaimed'
        BY <2>1, <2>2 DEF OnceInv, Unclaimed
    <2> QED
        BY <2>3, <2>4 DEF OnceInv
<1> QED
    BY <1>1, <1>2, <1>3

\* With up-to-date caches of AdoptedResources and DBInstances, a database never has two
\* AdoptedResources, or DBInstances made of them, of the operator's: after failed calls,
\* crashes, teardowns and adoptions made anew, for any number of databases.
THEOREM AdoptedOnce ==
    ASSUME {"adopted", "dbs"} \cap Lagging = {} PROVE Spec => []AdoptOnce
<1>1. TypeOK /\ AgreementInv /\ OnceInv /\ [Next]_vars => AgreementInv' /\ OnceInv'
    BY AgreementStep, OnceStep
<1>2. OnceInv => AdoptOnce
    BY DEF OnceInv
<1> QED
    BY <1>1, <1>2, OnceInit, AgreementInit, TypeCorrect, PTL DEF Spec

-----------------------------------------------------------------------------
(* A database that a RDSInstance manages is not adopted.                       *)

\* While the worker adopts, it changes nothing else.
LEMMA AdoptsOnly ==
    ASSUME Reconcile, pc = "adopt", \A i \in DBIds : ~CreateAdoptedResource(i)
    PROVE  UNCHANGED objects
<1>1. ASSUME NEW i \in DBIds, NoNameLeft(i) PROVE UNCHANGED objects
    BY <1>1 DEF NoNameLeft
<1>2. CASE AdoptionRequested
    BY <1>2 DEF AdoptionRequested
<1>3. ASSUME NEW o \in Objects PROVE ~FillConnectionInfo(o) /\ ~SkipDBInstance(o) /\ ~SetCredentials(o)
    BY DEF FillConnectionInfo, SkipDBInstance, SetCredentials, Handles
<1>4. ~GetInventory /\ ~AddFinalizer /\ ~DeleteAdopted /\ ~StopController /\ ~DeleteSecret
      /\ ~DeleteConfigMap /\ ~RemoveFinalizer /\ ~ValidateAWSParameter
      /\ ~CreateOrUpdateSecret /\ ~CreateOrUpdateConfigMap /\ ~StartController
      /\ ~WaitForController
    BY DEF GetInventory, AddFinalizer, DeleteAdopted, StopController, DeleteSecret,
       DeleteConfigMap, RemoveFinalizer, ValidateAWSParameter, CreateOrUpdateSecret,
       CreateOrUpdateConfigMap, StartController, WaitForController
<1>5. ~DescribeDBInstances /\ ~ListManaged /\ ~ListAdopted /\ ~ModifyDBInstance
      /\ ~SaveDBInstance /\ ~AdoptionChecked /\ ~SyncInstances /\ ~UpdateReadyCondition
    BY DEF DescribeDBInstances, ListManaged, ListAdopted, ModifyDBInstance, SaveDBInstance,
       AdoptionChecked, SyncInstances, UpdateReadyCondition
<1> QED
    BY <1>1, <1>2, <1>3, <1>4, <1>5 DEF Reconcile

\* A DBInstance appears for a RDSInstance, before its database, or for an
\* AdoptedResource.
Appears(o) ==
    dbs'[o].present =>
        \/ dbs[o].present /\ (adopted[o] = "adopted" => adopted'[o] = "adopted")
        \/ adopted'[o] = "adopted"
        \/ aws[o[1]].status = "unborn"

LEMMA OthersAppear ==
    ASSUME TypeOK, User \/ Cluster PROVE \A o \in Objects : Appears(o)
<1>1. CASE UNCHANGED <<adopted, dbs>>
    BY <1>1 DEF Appears
<1>2. ASSUME NEW p \in Objects, ProvisionDBInstance(p) PROVE \A o \in Objects : Appears(o)
    BY <1>2 DEF ProvisionDBInstance, Appears, TypeOK
<1>3. ASSUME NEW p \in Objects, AdoptByUser(p) \/ AckManage(p) \/ AckFinalize(p)
      PROVE  \A o \in Objects : Appears(o)
    BY <1>3 DEF AdoptByUser, AckManage, AckFinalize, Appears, TypeOK
<1>4. ASSUME NEW p \in Objects, AckDelete(p) PROVE \A o \in Objects : Appears(o)
    BY <1>4 DEF AckDelete, Appears, TypeOK, NoDB
<1>5. ASSUME NEW p \in Objects, AckAdopt(p) PROVE \A o \in Objects : Appears(o)
    BY <1>5 DEF AckAdopt, Appears, TypeOK
<1>6. ASSUME NEW p \in Objects, AckStatus(p) PROVE \A o \in Objects : Appears(o)
    BY <1>6 DEF AckStatus, Appears, TypeOK, DBs
<1>7. CASE CreateInventory \/ DeleteInventory \/ ChangeCredential \/ Deploy \/ Resync
           \/ DeploymentSettles
    BY <1>1, <1>7 DEF CreateInventory, DeleteInventory, ChangeCredential, Deploy, Resync,
       DeploymentSettles, objects
<1>8. ASSUME NEW k \in Kinds, InformerSync(k) PROVE UNCHANGED <<adopted, dbs>>
    BY <1>8 DEF InformerSync, objects
<1>9. ASSUME NEW p \in Objects, AckCreate(p) \/ CollectSecret(p)
      PROVE  UNCHANGED <<adopted, dbs>>
    BY <1>9 DEF AckCreate, CollectSecret
<1>10. ASSUME NEW i \in DBIds, AwsCreate(i) \/ AwsBusy(i) \/ AwsDelete(i) \/ AwsSettle(i)
                               \/ AwsGone(i)
       PROVE  UNCHANGED <<adopted, dbs>>
    BY <1>10 DEF AwsCreate, AwsBusy, AwsDelete, AwsSettle, AwsGone, AwsMoves
<1> QED
    BY <1>1, <1>2, <1>3, <1>4, <1>5, <1>6, <1>7, <1>8, <1>9, <1>10 DEF User, Cluster

LEMMA UnmanagedStep ==
    ASSUME "dbs" \notin Lagging, TypeOK, AgreementInv, Unmanaged, [Next]_vars
    PROVE  Unmanaged'
<1> USE ObjectFacts
<1>1. ASSUME NEW i \in DBIds, CreateAdoptedResource(i) PROVE Unmanaged'
    <2>1. PICK o \in Owned : Fresh(o) /\ adopted' = [adopted EXCEPT ![o] = "pending"]
        BY <1>1 DEF CreateAdoptedResource
    <2>2. dbs' = dbs /\ pc = "adopt" /\ todo' \subseteq todo /\ ~dbs[o].present
        BY <1>1, <2>1 DEF CreateAdoptedResource, Fresh
    <2> QED
        BY <2>1, <2>2 DEF Unmanaged, TypeOK
<1>2. CASE ListManaged
    <2>1. UNCHANGED <<adopted, dbs>> /\ todo' = {i \in todo : ~Covered(i)}
        BY <1>2 DEF ListManaged, objects
    <2>2. Seen("dbs") = dbs
        BY DEF Seen, Stored
    <2> QED
        BY <2>1, <2>2 DEF Covered, Unmanaged
<1>3. CASE ~ListManaged /\ \A i \in DBIds : ~CreateAdoptedResource(i)
    <2> SUFFICES ASSUME pc' = "adopt" PROVE Unmanaged'
        BY DEF Unmanaged
    <2>1. pc = "adopt" /\ todo' = todo
        BY <1>3, AdoptsLater
    <2>2. CASE UNCHANGED objects
        BY <2>1, <2>2 DEF objects, Unmanaged
    <2>3. CASE User \/ Cluster
        <3>1. \A o \in Objects : o[1] \in todo => aws[o[1]].status # "unborn"
            BY DEF AgreementInv, WorkerInv, Described
        <3> QED
            BY <2>1, <2>3, <3>1, OthersAppear DEF Unmanaged, Appears
    <2>4. CASE Trouble
        BY <2>2, <2>4 DEF Trouble, CallFails, Conflict, Restart, StandbySetup, Undeploy
    <2>5. ~SetupWithManager
        BY <2>1 DEF SetupWithManager
    <2>6. CASE Reconcile
        BY <1>3, <2>1, <2>2, <2>6, AdoptsOnly
    <2> QED
        BY <2>2, <2>3, <2>4, <2>5, <2>6 DEF Next, vars
<1> QED
    BY <1>1, <1>2, <1>3

\* ClaimUnmanaged, of one step.
UnmanagedClaim ==
    \A o \in Owned : adopted[o] = "none" /\ adopted'[o] = "pending" =>
        \A p \in Objects : p[1] = o[1] /\ dbs[p].present => adopted[p] # "none"

LEMMA UnmanagedClaimStep ==
    ASSUME TypeOK, AgreementInv, Unmanaged, [Next]_vars PROVE UnmanagedClaim
<1> USE ObjectFacts
<1>1. ASSUME NEW i \in DBIds, CreateAdoptedResource(i) PROVE UnmanagedClaim
    <2>1. PICK o \in Owned : o[1] = i /\ adopted' = [adopted EXCEPT ![o] = "pending"]
        BY <1>1 DEF CreateAdoptedResource
    <2>2. pc = "adopt" /\ i \in todo
        BY <1>1 DEF CreateAdoptedResource
    <2> QED
        BY <2>1, <2>2 DEF Unmanaged, UnmanagedClaim, TypeOK
<1>2. CASE \A i \in DBIds : ~CreateAdoptedResource(i)
    <2> SUFFICES ASSUME NEW o \in Owned, adopted[o] = "none" PROVE adopted'[o] # "pending"
        BY DEF UnmanagedClaim
    <2>1. Steady => adopted'[o] # "pending"
        BY DEF Steady, SteadyAdopted
    <2>2. adopted' = adopted => adopted'[o] # "pending"
        OBVIOUS
    <2>3. CASE User \/ Cluster \/ Trouble
        BY <2>1, <2>3, UserStep, ClusterStep, TroubleStep
    <2>4. CASE \/ SetupWithManager \/ GetInventory \/ AddFinalizer
               \/ DeleteAdopted \/ StopController \/ DeleteSecret \/ DeleteConfigMap
               \/ RemoveFinalizer \/ ValidateAWSParameter \/ CreateOrUpdateSecret
               \/ CreateOrUpdateConfigMap \/ StartController \/ WaitForController
               \/ SyncInstances \/ UpdateReadyCondition
        BY <2>1, <2>4, IdleCalls
    <2>5. CASE \/ DescribeDBInstances \/ ListManaged \/ AdoptionRequested \/ ListAdopted
               \/ ModifyDBInstance \/ SaveDBInstance \/ AdoptionChecked \/ UNCHANGED vars
        BY <2>2, <2>5 DEF DescribeDBInstances, ListManaged, AdoptionRequested, ListAdopted,
           ModifyDBInstance, SaveDBInstance, AdoptionChecked, vars, objects
    <2>6. ASSUME NEW i \in DBIds, NoNameLeft(i) PROVE adopted' = adopted
        BY <2>6 DEF NoNameLeft, objects
    <2>7. ASSUME NEW p \in Objects, FillConnectionInfo(p) \/ SkipDBInstance(p) \/ SetCredentials(p)
          PROVE  adopted' = adopted
        BY <2>7 DEF FillConnectionInfo, SkipDBInstance, SetCredentials, objects
    <2> QED
        BY <1>2, <2>2, <2>3, <2>4, <2>5, <2>6, <2>7 DEF Next, Reconcile
<1> QED
    BY <1>1, <1>2

\* With an up-to-date cache of DBInstances the operator never writes an AdoptedResource
\* for a database whose DBInstance was not made of one, even when a RDSInstance has
\* provisioned it between the description of the databases and the list: its
\* DBInstance is there before its database is.
THEOREM OnlyUnmanaged == ASSUME "dbs" \notin Lagging PROVE Spec => ClaimUnmanaged
<1>1. Init => Unmanaged
    BY DEF Init, Unmanaged
<1>2. TypeOK /\ AgreementInv /\ Unmanaged /\ [Next]_vars => AgreementInv' /\ Unmanaged'
    BY AgreementStep, UnmanagedStep
<1>3. TypeOK /\ AgreementInv /\ Unmanaged /\ [Next]_vars => [UnmanagedClaim]_vars
    BY UnmanagedClaimStep
<1>4. ClaimUnmanaged <=> [][UnmanagedClaim]_vars
    <2>1. [\A o \in Owned : adopted[o] = "none" /\ adopted'[o] = "pending" =>
                \A p \in Objects : p[1] = o[1] /\ dbs[p].present => adopted[p] # "none"]_vars
           <=> [UnmanagedClaim]_vars
        BY DEF UnmanagedClaim
    <2> QED
        BY <2>1, PTL DEF ClaimUnmanaged
<1> QED
    BY <1>1, <1>2, <1>3, <1>4, AgreementInit, TypeCorrect, PTL DEF Spec

-----------------------------------------------------------------------------
(* What is the user's stays as it is.                                          *)

LEMMA NotDeletedStep ==
    ASSUME TypeOK, AgreementInv, NotDeleted, [Next]_vars PROVE NotDeleted'
<1> SUFFICES ASSUME NEW o \in Objects \ Owned PROVE adopted'[o] # "deleting"
    BY DEF NotDeleted
<1>1. adopted[o] # "deleting"
    BY DEF NotDeleted
<1>2. adopted' = adopted => adopted'[o] # "deleting"
    BY <1>1
<1>3. CASE DeleteAdopted
    <2>1. CASE MyAdoptedResources = {}
        BY <1>2, <1>3, <2>1 DEF DeleteAdopted
    <2>2. CASE MyAdoptedResources # {}
        <3>1. PICK S \in SUBSET Owned :
                adopted' = [p \in Objects |->
                                IF p \in S THEN Terminated(adopted[p]) ELSE adopted[p]]
            BY <1>3, <2>2 DEF DeleteAdopted, MyAdoptedResources
        <3> QED
            BY <1>1, <3>1
    <2> QED
        BY <2>1, <2>2
<1>4. CASE User \/ Cluster
    <2>1. ASSUME NEW p \in Objects,
                 AdoptByUser(p) \/ AckManage(p) \/ AckAdopt(p) \/ AckFinalize(p)
          PROVE  adopted'[o] # "deleting"
        BY <1>1, <2>1 DEF AdoptByUser, AckManage, AckAdopt, AckFinalize, TypeOK
    <2>2. ASSUME NEW p \in Objects,
                 \/ ProvisionDBInstance(p) \/ AckDelete(p) \/ AckStatus(p) \/ AckCreate(p)
                 \/ CollectSecret(p)
          PROVE  adopted' = adopted
        BY <2>2 DEF ProvisionDBInstance, AckDelete, AckStatus, AckCreate, CollectSecret
    <2>3. CASE CreateInventory \/ DeleteInventory \/ ChangeCredential \/ Deploy \/ Resync
               \/ DeploymentSettles
        BY <1>2, <2>3 DEF CreateInventory, DeleteInventory, ChangeCredential, Deploy,
           Resync, DeploymentSettles, objects
    <2>4. ASSUME NEW k \in Kinds, InformerSync(k) PROVE adopted' = adopted
        BY <2>4 DEF InformerSync, objects
    <2>5. ASSUME NEW i \in DBIds, AwsCreate(i) \/ AwsBusy(i) \/ AwsDelete(i) \/ AwsSettle(i)
                                  \/ AwsGone(i)
          PROVE  adopted' = adopted
        BY <2>5 DEF AwsCreate, AwsBusy, AwsDelete, AwsSettle, AwsGone, AwsMoves
    <2> QED
        BY <1>2, <1>4, <2>1, <2>2, <2>3, <2>4, <2>5 DEF User, Cluster
<1>5. CASE Trouble
    BY <1>2, <1>5 DEF Trouble, CallFails, Conflict, Restart, StandbySetup, Undeploy, objects
<1>6. CASE \/ SetupWithManager \/ GetInventory \/ AddFinalizer \/ StopController
           \/ DeleteSecret \/ DeleteConfigMap \/ RemoveFinalizer \/ ValidateAWSParameter
           \/ CreateOrUpdateSecret \/ CreateOrUpdateConfigMap \/ StartController
           \/ WaitForController
    BY <1>2, <1>6 DEF SetupWithManager, GetInventory, AddFinalizer, StopController,
       DeleteSecret, DeleteConfigMap, RemoveFinalizer, ValidateAWSParameter,
       CreateOrUpdateSecret, CreateOrUpdateConfigMap, StartController, WaitForController,
       objects
<1>7. CASE \/ DescribeDBInstances \/ ListManaged \/ AdoptionRequested \/ ListAdopted
           \/ ModifyDBInstance \/ SaveDBInstance \/ AdoptionChecked \/ SyncInstances
           \/ UpdateReadyCondition \/ UNCHANGED vars
    BY <1>2, <1>7 DEF DescribeDBInstances, ListManaged, AdoptionRequested, ListAdopted,
       ModifyDBInstance, SaveDBInstance, AdoptionChecked, SyncInstances,
       UpdateReadyCondition, vars, objects
<1>8. ASSUME NEW i \in DBIds, CreateAdoptedResource(i) \/ NoNameLeft(i)
      PROVE  adopted'[o] # "deleting"
    BY <1>1, <1>8, ObjectFacts DEF CreateAdoptedResource, NoNameLeft, TypeOK, objects
<1>9. ASSUME NEW p \in Objects, FillConnectionInfo(p) \/ SkipDBInstance(p) \/ SetCredentials(p)
      PROVE  adopted' = adopted
    BY <1>9 DEF FillConnectionInfo, SkipDBInstance, SetCredentials, objects
<1> QED
    BY <1>2, <1>3, <1>4, <1>5, <1>6, <1>7, <1>8, <1>9 DEF Next, Reconcile

\* The passwords the step sets are those of databases whose Secret holds one.
OwnPasswords ==
    \A i \in DBIds : aws'[i].password # aws[i].password =>
        \E o \in Owned : o[1] = i /\ dbSecret[o] # "none"

LEMMA OwnPasswordsStep ==
    ASSUME TypeOK, AgreementInv, [Next]_vars PROVE OwnPasswords
<1>1. Steady \/ aws' = aws => OwnPasswords
    BY DEF Steady, SteadyAws, OwnPasswords
<1>2. CASE ModifyDBInstance
    <2>1. CASE aws[cur[1]].status # "available"
        BY <1>1, <1>2, <2>1 DEF ModifyDBInstance
    <2>2. CASE aws[cur[1]].status = "available"
        <3>1. /\ pc = "modify"
              /\ aws' = [aws EXCEPT ![cur[1]] = [status |-> "busy", password |-> pw]]
            BY <1>2, <2>2 DEF ModifyDBInstance
        <3>2. cur \in Owned /\ dbs[cur].present
            BY <2>2, <3>1 DEF TypeOK, AgreementInv, WorkerInv, BatchKnown, Gone
        <3>3. dbSecret[cur] # "none"
            BY <3>1, <3>2 DEF AgreementInv, WorkerInv, Modifying
        <3>4. \A i \in DBIds : aws'[i].password # aws[i].password => i = cur[1]
            BY <3>1 DEF TypeOK
        <3> QED
            BY <3>2, <3>3, <3>4 DEF OwnPasswords
    <2> QED
        BY <2>1, <2>2
<1>3. CASE Trouble \/ User \/ Cluster
    BY <1>1, <1>3, TroubleStep, UserStep, ClusterStep
<1>4. CASE \/ SetupWithManager \/ GetInventory \/ AddFinalizer
           \/ DeleteAdopted \/ StopController \/ DeleteSecret \/ DeleteConfigMap
           \/ RemoveFinalizer \/ ValidateAWSParameter \/ CreateOrUpdateSecret
           \/ CreateOrUpdateConfigMap \/ StartController \/ WaitForController
           \/ SyncInstances \/ UpdateReadyCondition
    BY <1>1, <1>4, IdleCalls
<1>5. CASE \/ DescribeDBInstances \/ ListManaged \/ AdoptionRequested \/ ListAdopted
           \/ SaveDBInstance \/ AdoptionChecked \/ UNCHANGED vars
    BY <1>1, <1>5 DEF DescribeDBInstances, ListManaged, AdoptionRequested, ListAdopted,
       SaveDBInstance, AdoptionChecked, vars, objects
<1>6. ASSUME NEW i \in DBIds, CreateAdoptedResource(i) \/ NoNameLeft(i) PROVE aws' = aws
    BY <1>6 DEF CreateAdoptedResource, NoNameLeft, objects
<1>7. ASSUME NEW o \in Objects, FillConnectionInfo(o) \/ SkipDBInstance(o) \/ SetCredentials(o)
      PROVE  aws' = aws
    BY <1>7 DEF FillConnectionInfo, SkipDBInstance, SetCredentials, objects
<1> QED
    BY <1>1, <1>2, <1>3, <1>4, <1>5, <1>6, <1>7 DEF Next, Reconcile

ForeignKept ==
    OwnPasswords /\ \A o \in Objects \ Owned : adopted'[o] # "deleting" /\ dbSecret'[o] = "none"

\* The operator sets no password in AWS but of a database it has adopted itself, and it
\* neither deletes an AdoptedResource of the user's nor writes a credential Secret for
\* a DBInstance that is not made of its own: whatever lags, fails or happens.
THEOREM ForeignSafe == Spec => ForeignUntouched
<1>1. Init => NotDeleted
    BY DEF Init, NotDeleted
<1>2. TypeOK /\ AgreementInv /\ NotDeleted /\ [Next]_vars => AgreementInv' /\ NotDeleted'
    BY AgreementStep, NotDeletedStep
<1>3. TypeOK /\ AgreementInv /\ NotDeleted /\ [Next]_vars => [ForeignKept]_vars
    <2> SUFFICES ASSUME TypeOK, AgreementInv, NotDeleted, [Next]_vars PROVE ForeignKept
        OBVIOUS
    <2>1. \A o \in Objects \ Owned : dbSecret'[o] = "none"
        BY <1>2 DEF AgreementInv, StoredInv, SecretsKnown
    <2> QED
        BY <1>2, <2>1, OwnPasswordsStep DEF NotDeleted, ForeignKept
<1>4. ForeignUntouched <=> [][ForeignKept]_vars
    <2>1. [/\ \A i \in DBIds : aws'[i].password # aws[i].password =>
                \E o \in Owned : o[1] = i /\ dbSecret[o] # "none"
           /\ \A o \in Objects \ Owned : adopted'[o] # "deleting" /\ dbSecret'[o] = "none"]_vars
           <=> [ForeignKept]_vars
        BY DEF ForeignKept, OwnPasswords
    <2> QED
        BY <2>1, PTL DEF ForeignUntouched
<1> QED
    BY <1>1, <1>2, <1>3, <1>4, AgreementInit, TypeCorrect, PTL DEF Spec
=============================================================================
