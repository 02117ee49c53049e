-------------------------- MODULE InventoryCluster --------------------------
(* The surroundings of the RDSInventory reconciler: the user, the informers,   *)
(* the ACK controller, the Deployment controller, the garbage collector, AWS.  *)
EXTENDS InventoryState

(* The informers and the queue.                                                *)
InformerSync(k) ==
    /\ k \in Lagging /\ pc # "setup"
    /\ cache[k] # Stored(k)
    /\ cache' = [cache EXCEPT ![k] = Stored(k)]
    /\ queued' = (queued \/ k = "inventory"
                         \/ (k = "dbs" /\ Seen("inventory").phase # "absent"))
    /\ UNCHANGED <<inventory, credential, install, objects, Worker, faults>>

\* Every SyncPeriod the informers hand in all their objects again.
Resync ==
    /\ pc # "setup" /\ Seen("inventory").phase # "absent" /\ ~queued
    /\ queued' = TRUE
    /\ UNCHANGED <<inventory, credential, install, objects, cache, Worker, faults>>

-----------------------------------------------------------------------------
(* The user, and the RDSInstance reconciler on behalf of the user.             *)

CreateInventory ==
    /\ inventory.phase = "absent"
    /\ inventory' = [AbsentInventory EXCEPT !.phase = "live"]
    /\ queued' = (pc # "setup" /\ QueuedByInventory)
    /\ UNCHANGED <<credential, install, objects, cache, Worker, faults>>

DeleteInventory ==
    /\ inventory.phase = "live"
    /\ inventory' = IF inventory.finalizer THEN [inventory EXCEPT !.phase = "deleting"]
                                           ELSE AbsentInventory
    /\ queued' = (pc # "setup" /\ QueuedByInventory)
    /\ UNCHANGED <<credential, install, objects, cache, Worker, faults>>

\* Nobody watches the Secret.
ChangeCredential ==
    /\ "credential" \in Events
    /\ credential' \in (Creds \cup {"absent", "invalid"}) \ {credential}
    /\ UNCHANGED <<inventory, install, objects, cache, queued, Worker, faults>>

ObjectsChanged ==
    /\ queued' = (pc # "setup" /\ QueuedByDB)
    /\ UNCHANGED <<inventory, credential, install, cache, Worker, faults>>

\* An RDSInstance's DBInstance, before its database exists.
ProvisionDBInstance(o) ==
    /\ "provision" \in Events
    /\ o \notin Owned /\ ~dbs[o].present /\ adopted[o] = "none"
    /\ aws[o[1]].status = "unborn"
    /\ dbs' = [dbs EXCEPT ![o] = [NoDB EXCEPT !.present = TRUE, !.username = "generated",
                                              !.password = TRUE]]
    /\ ObjectsChanged
    /\ UNCHANGED <<adopted, dbSecret, aws>>

\* An AdoptedResource the user has written.
AdoptByUser(o) ==
    /\ "foreign" \in Events
    /\ o \notin Owned /\ ~dbs[o].present /\ adopted[o] = "none"
    /\ adopted' = [adopted EXCEPT ![o] = "pending"]
    /\ UNCHANGED <<inventory, credential, install, dbs, dbSecret, aws, cache, queued,
                   Worker, faults>>

\* The ACK controller's bundle is uninstalled, and installed.
Undeploy ==
    /\ deployment.present
    /\ Fault("undeploy")
    /\ deployment' = NoDeployment
    /\ UNCHANGED <<inventory, credential, ackSecret, ackConfig, objects, cache, queued, pc,
                   copy, scratch, outcome>>

Deploy ==
    /\ ~deployment.present
    /\ deployment' = NewDeployment
    /\ UNCHANGED <<inventory, credential, ackSecret, ackConfig, objects, cache, queued, pc,
                   copy, scratch, outcome, faults>>

-----------------------------------------------------------------------------
(* The ACK controller while its Deployment has a ready replica, the Deployment *)
(* controller, the garbage collector, and AWS.                                 *)

\* Its finalizer goes on an AdoptedResource before anything else.
AckManage(o) ==
    /\ deployment.ready /\ adopted[o] = "pending"
    /\ adopted' = [adopted EXCEPT ![o] = "managed"]
    /\ UNCHANGED <<inventory, credential, install, dbs, dbSecret, aws, cache, queued,
                   Worker, faults>>

AckAdopt(o) ==
    /\ deployment.ready /\ adopted[o] = "managed" /\ Alive(o[1]) /\ ~dbs[o].present
    /\ adopted' = [adopted EXCEPT ![o] = "adopted"]
    /\ dbs' = [dbs EXCEPT ![o] = [NoDB EXCEPT !.present = TRUE, !.label = (o \in Owned)]]
    /\ ObjectsChanged
    /\ UNCHANGED <<dbSecret, aws>>

AckFinalize(o) ==
    /\ deployment.ready /\ adopted[o] = "deleting"
    /\ adopted' = [adopted EXCEPT ![o] = "none"]
    /\ UNCHANGED <<inventory, credential, install, dbs, dbSecret, aws, cache, queued,
                   Worker, faults>>

\* Creates the database of a DBInstance that an RDSInstance asked for.
AckCreate(o) ==
    /\ deployment.ready /\ dbs[o].present /\ aws[o[1]].status = "unborn"
    /\ aws' = [aws EXCEPT ![o[1]].status = "busy"]
    /\ UNCHANGED <<inventory, credential, install, adopted, dbs, dbSecret, cache, queued,
                   Worker, faults>>

Observed(i) == IF aws[i].status = "available" THEN "available" ELSE "busy"

AckStatus(o) ==
    /\ deployment.ready /\ dbs[o].present /\ Alive(o[1])
    /\ dbs[o].status # Observed(o[1])
    /\ dbs' = [dbs EXCEPT ![o].status = Observed(o[1])]
    /\ ObjectsChanged
    /\ UNCHANGED <<adopted, dbSecret, aws>>

\* The user deletes a DBInstance, and the ACK controller its database.
AckDelete(o) ==
    /\ "dbDelete" \in Events
    /\ deployment.ready /\ dbs[o].present
    /\ dbs' = [dbs EXCEPT ![o] = NoDB]
    /\ aws' = [aws EXCEPT ![o[1]].status = "gone"]
    /\ ObjectsChanged
    /\ UNCHANGED <<adopted, dbSecret>>

DeploymentSettles ==
    /\ deployment.ready # (deployment.replicas > 0)
    /\ deployment' = [deployment EXCEPT !.ready = ~@]
    /\ UNCHANGED <<inventory, credential, ackSecret, ackConfig, objects, cache, queued,
                   Worker, faults>>

\* The credential Secret is owned by the DBInstance.
CollectSecret(o) ==
    /\ ~dbs[o].present /\ dbSecret[o] # "none"
    /\ dbSecret' = [dbSecret EXCEPT ![o] = "none"]
    /\ UNCHANGED <<inventory, credential, install, adopted, dbs, aws, cache, queued,
                   Worker, faults>>

AwsMoves(i, from, to) ==
    /\ aws[i].status \in from
    /\ aws' = [aws EXCEPT ![i].status = to]
    /\ UNCHANGED <<inventory, credential, install, adopted, dbs, dbSecret, cache, queued,
                   Worker, faults>>

\* Somebody creates a database outside the cluster.
AwsCreate(i) == (\A o \in Objects : o[1] = i => ~dbs[o].present)
                    /\ AwsMoves(i, {"unborn"}, "busy")
AwsSettle(i) == AwsMoves(i, {"busy"}, "available")
AwsBusy(i) == "busy" \in Events /\ AwsMoves(i, {"available"}, "busy")
AwsDelete(i) == "awsDelete" \in Events /\ AwsMoves(i, {"available"}, "deleting")
AwsGone(i) == AwsMoves(i, {"deleting"}, "gone")

-----------------------------------------------------------------------------
User ==
    \/ CreateInventory \/ DeleteInventory \/ ChangeCredential \/ Deploy
    \/ \E o \in Objects : ProvisionDBInstance(o) \/ AdoptByUser(o) \/ AckDelete(o)
    \/ \E i \in DBIds : AwsCreate(i) \/ AwsBusy(i) \/ AwsDelete(i)

Cluster ==
    \/ Resync \/ (\E k \in Kinds : InformerSync(k)) \/ DeploymentSettles
    \/ \E o \in Objects : AckManage(o) \/ AckAdopt(o) \/ AckFinalize(o) \/ AckCreate(o)
                            \/ AckStatus(o) \/ CollectSecret(o)
    \/ \E i \in DBIds : AwsSettle(i) \/ AwsGone(i)
=============================================================================
