-------------------------- MODULE InventorySystem ---------------------------
(* The RDSInventory reconciler in its surroundings, and what makes it correct. *)
EXTENDS InventoryReconciler, InventoryCluster

Init ==
    /\ inventory = AbsentInventory
    /\ credential \in Creds \cup {"absent"}
    /\ ackSecret = "absent" /\ ackConfig = "absent"
    /\ deployment \in {NoDeployment, NewDeployment}
    /\ adopted = [o \in Objects |-> "none"]
    /\ dbs = [o \in Objects |-> NoDB]
    /\ dbSecret = [o \in Objects |-> "none"]
    /\ aws \in [DBIds -> [status : {"unborn", "available"}, password : {"none"}]]
    /\ cache = [k \in Lagging |-> Stored(k)]
    /\ queued = FALSE
    /\ pc = "setup"
    /\ copy = AbsentInventory
    /\ cred = "none" /\ live = {} /\ todo = {} /\ batch = NoBatch
    /\ cur = NoObject /\ pw = "none" /\ waiting = FALSE
    /\ outcome = NoOutcome
    /\ faults = 0

Trouble == CallFails \/ Conflict \/ Restart \/ StandbySetup \/ Undeploy

Next == SetupWithManager \/ Reconcile \/ Trouble \/ User \/ Cluster

Spec == Init /\ [][Next]_vars

(* The queue hands the key out as long as it holds one and every call returns, *)
(* so the worker goes on; the operator starts when the Deployment is there;    *)
(* the ACK controller, the Deployment controller, the garbage collector and    *)
(* AWS do what they owe; the informers catch up and resync. Nothing is assumed *)
(* of the user, of the faults, or of one choice of the worker over another.    *)
Fairness ==
    /\ WF_vars(SetupWithManager) /\ WF_vars(Reconcile) /\ WF_vars(Resync)
    /\ \A k \in Kinds : WF_vars(InformerSync(k))
    /\ WF_vars(DeploymentSettles)
    /\ \A o \in Objects : /\ WF_vars(AckManage(o)) /\ WF_vars(AckAdopt(o))
                          /\ WF_vars(AckFinalize(o)) /\ WF_vars(AckCreate(o))
                          /\ WF_vars(AckStatus(o)) /\ WF_vars(CollectSecret(o))
    /\ \A i \in DBIds : WF_vars(AwsSettle(i)) /\ WF_vars(AwsGone(i))

FairSpec == Spec /\ Fairness

-----------------------------------------------------------------------------
(* Properties.                                                                 *)

PCs == CallPCs \cup {"setup", "idle", "done"}
ARStates == {"none", "pending", "managed", "adopted", "deleting"}
Secrets == Creds \cup {"absent"}
CacheType(k) ==
    CASE k = "inventory"                 -> Inventories
      [] k \in {"ackSecret", "ackConfig"} -> Secrets
      [] k = "deployment"                -> Deployments
      [] k = "adopted"                   -> [Objects -> ARStates]
      [] k = "dbs"                       -> [Objects -> DBs]
      [] k = "dbSecret"                  -> [Objects -> Passwords \cup {"none"}]

\* Every variable holds a value the code can give it.
TypeOK ==
    /\ inventory \in Inventories
    /\ credential \in Creds \cup {"absent", "invalid"}
    /\ ackSecret \in Secrets /\ ackConfig \in Secrets
    /\ deployment \in Deployments
    /\ adopted \in [Objects -> ARStates]
    /\ dbs \in [Objects -> DBs]
    /\ dbSecret \in [Objects -> Passwords \cup {"none"}]
    /\ aws \in [DBIds -> Databases]
    /\ DOMAIN cache = Lagging
    /\ \A k \in Lagging : cache[k] \in CacheType(k)
    /\ queued \in BOOLEAN
    /\ pc \in PCs
    /\ copy \in Inventories
    /\ cred \in Creds \cup {"none"}
    /\ pc \in {"createSecret", "createConfigMap"} => cred \in Creds
    /\ live \in SUBSET DBIds /\ todo \in SUBSET DBIds
    /\ DOMAIN batch \subseteq Objects
    /\ \A o \in DOMAIN batch : batch[o] \in DBs
    /\ cur \in Objects \cup {NoObject}
    /\ pc \in {"modify", "save"} => cur \in DOMAIN batch
    /\ pw \in Passwords \cup {"none"}
    /\ waiting \in BOOLEAN
    /\ outcome \in Outcomes
    /\ faults \in 0 .. MaxFaults

\* An adopted DBInstance with a password reference, and the only one adopted of
\* its database.
Secured(o) ==
    /\ dbs[o].present /\ dbs[o].label /\ dbs[o].password
    /\ \A p \in Owned : p[1] = o[1] /\ dbs[p].present => p = o

\* An adopted DBInstance that refers to a credential Secret refers to one that
\* exists and holds the password the database has in AWS, under the username it
\* has there: whatever calls fail, whatever the operator crashes between, and
\* whatever its caches show it.
CredentialAgreement ==
    \A o \in Objects : Secured(o) =>
        /\ dbs[o].username = "aws"
        /\ dbSecret[o] # "none"
        /\ Alive(o[1]) => aws[o[1]].password = dbSecret[o]

\* Once it has been published, the password of an adopted database is neither
\* replaced in the Secret nor reset in AWS, however often a pass is repeated and
\* however old the DBInstance is that it has read.
PasswordStable ==
    [][\A o \in Objects : Secured(o) /\ dbs'[o].present =>
            /\ dbSecret'[o] = dbSecret[o]
            /\ aws'[o[1]].password # aws[o[1]].password =>
                    \E p \in Owned : p # o /\ p[1] = o[1] /\ dbs'[p].present]_vars

\* Both of it, and that the reference is set last, is what MasterCredential promises.
Master(o) == INSTANCE MasterCredential WITH
    referenced <- Secured(o),
    published <- dbSecret[o],
    database <- CASE ~Alive(o[1]) -> "gone"
                  [] Alive(o[1]) /\ aws[o[1]].password = "none" -> "foreign"
                  [] OTHER -> aws[o[1]].password
MasterCredentials ==
    /\ \A o \in Owned : Master(o)!Init
    /\ [][objects' = objects \/ \A o \in Owned : [Master(o)!Next]_(Master(o)!vars)]_vars

\* A database has at most one AdoptedResource, or DBInstance made of one, of the
\* operator's.
AdoptOnce ==
    \A o, p \in Owned :
        /\ o[1] = p[1]
        /\ adopted[o] # "none" \/ dbs[o].present
        /\ adopted[p] # "none" \/ dbs[p].present
        => o = p

\* The operator does not adopt a database an RDSInstance has provisioned, even when
\* that happened after the pass had begun: the DBInstance exists before its
\* database, and the pass lists the DBInstances after the databases.
ClaimUnmanaged ==
    [][\A o \in Owned : adopted[o] = "none" /\ adopted'[o] = "pending" =>
            \A p \in Objects : p[1] = o[1] /\ dbs[p].present => adopted[p] # "none"]_vars

\* The operator sets the password of no database that only the user's own
\* AdoptedResource or RDSInstance manages, and deletes no AdoptedResource of the
\* user's.
ForeignUntouched ==
    [][/\ \A i \in DBIds : aws'[i].password # aws[i].password =>
                \E o \in Owned : o[1] = i /\ dbSecret[o] # "none"
       /\ \A o \in Objects \ Owned : adopted'[o] # "deleting" /\ dbSecret'[o] = "none"]_vars

\* The finalizer guards what the operator has installed: as long as the
\* inventory does not carry it, the ACK controller has neither Secret nor
\* ConfigMap, its Deployment is scaled to zero, and no AdoptedResource of the
\* operator's is left.
NoOrphans ==
    ~inventory.finalizer =>
        /\ ackSecret = "absent" /\ ackConfig = "absent"
        /\ pc # "setup" => deployment.replicas = 0
        /\ \A o \in Owned : adopted[o] = "none"

\* The reconciler stops the ACK controller only when no AdoptedResource waits for
\* it to remove a finalizer, from a deletion of any earlier pass.
FinalizersServed ==
    [][pc # "setup" /\ deployment.replicas > 0
            /\ deployment'.present /\ deployment'.replicas = 0 =>
            \A o \in Owned : adopted[o] # "deleting"]_vars

\* The inventory becomes Ready only over a Secret and a ConfigMap made from one
\* version of the credentials.
ReadyConsistent ==
    [][inventory'.ready = "True" /\ inventory.ready # "True" =>
            ackSecret = ackConfig /\ ackSecret \in Creds]_vars

\* An inventory the user has deleted goes away in the end.
DeletionSurvives ==
    inventory.phase = "deleting" ~> inventory.phase = "absent"

\* It does so, after a failed call, a conflict or a restart at any point, if the
\* ACK controller is kept running while there are AdoptedResources to finalize, and
\* its Deployment, without which the teardown fails each time, comes back.
Served ==
    inventory.phase = "deleting" /\ (\E o \in Owned : adopted[o] # "none")
        => deployment.replicas > 0
DeletionCompletes == []Served /\ <>[]deployment.present => DeletionSurvives

\* All is as the user wants it: an inventory that is wanted, valid credentials,
\* the ACK controller's bundle installed, the databases not deleted.
Settled(i) ==
    /\ inventory.phase = "live" /\ credential \in Creds /\ deployment.present
    /\ aws[i].status \in {"available", "busy"}

\* The Update of a DBInstance that comes too late: setting the password makes the
\* database unavailable, and the ACK controller has written that, or that it is
\* available again, since the pass listed the DBInstance.
LostRace == pc = "save" /\ pc' = "done"

\* A database that stays in AWS comes to be managed in the cluster with a known
\* password, and the inventory to be Ready and list it, unless the passes lose
\* the race with the ACK controller's status for ever.
Managed(i) ==
    /\ \E o \in Objects : o[1] = i /\ dbs[o].present /\ dbs[o].password
                        /\ o \in inventory.instances
    /\ inventory.ready = "True"
EventuallyAdopted ==
    <>[][~LostRace]_vars => \A i \in DBIds : <>[]Settled(i) => <>[]Managed(i)
=============================================================================
