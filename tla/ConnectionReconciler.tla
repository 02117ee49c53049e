------------------------ MODULE ConnectionReconciler ------------------------
(* The RDSConnection reconciler of the operator: one RDSConnection, the Secret *)
(* and the ConfigMap it publishes, the DBInstance it binds to, and what goes   *)
(* on in the same process around it. The databases that carry the connection's *)
(* identifier one after the other are told apart; a password or an endpoint is *)
(* named after the database it belongs to.                                     *)
(*                                                                             *)
(* The reconciler is one worker on a queue, each of its calls a step. A pass   *)
(* of the RDSInventory reconciler is one step. Both end when the process does, *)
(* and a start of the process stops the ACK controller.                        *)
EXTENDS Naturals

CONSTANTS
    Databases,  \* the databases of the identifier, one at a time
    Uids,       \* the identities of the RDSConnections of the name
    Lagging,    \* the kinds whose informer cache may lag
    Events,     \* the optional things the user and AWS do
    Faults,     \* the faults that happen ...
    MaxFaults   \* ... and how many of them at most

Kinds == {"connection", "inventory", "db", "dbSecret", "secret", "config"}
EventNames == {"inventory", "adopt", "stop", "clash"}
FaultNames == {"restart", "call"}

ASSUME ConnectionAssumption ==
    /\ Databases # {} /\ Databases \cap {"none"} = {}
    /\ Uids # {} /\ Uids \cap {"none", "instance"} = {}
    /\ Lagging \subseteq Kinds /\ Events \subseteq EventNames /\ Faults \subseteq FaultNames
    /\ MaxFaults \in Nat

VARIABLES
    connection,  \* the RDSConnection
    inventory,   \* its RDSInventory, and whether status.instances has the DBInstance
    db,          \* the DBInstance
    dbSecret,    \* the credential Secret the DBInstance refers to
    secret,      \* the Secret <name>-credentials of the connection
    config,      \* and its ConfigMap <name>-configs
    cache,       \* the lagging caches
    queued,      \* the RDSConnection's key is in the work queue
    pc,          \* the worker's next call
    copy,        \* the worker's copy of the RDSConnection
    dbCopy,      \* of the DBInstance
    password,    \* and of the password
    outcome,     \* the status it will write, and whether it asks to run again
    faults       \* the faults so far

published == <<secret, config>>
objects == <<inventory, db, dbSecret>>
worker == <<pc, copy, dbCopy, password, outcome>>
vars == <<connection, objects, published, cache, queued, worker, faults>>

-----------------------------------------------------------------------------
Connections == [uid : Uids \cup {"none"}, refs : BOOLEAN, ready : {"None", "True", "False"}]
NoConnection == [uid |-> "none", refs |-> FALSE, ready |-> "None"]

Inventories == [ready : {"absent", "False", "True"}, listed : BOOLEAN]
NoInventory == [ready |-> "absent", listed |-> FALSE]

\* secured: masterUsername and masterUserPassword are set, by one Update.
Statuses == {"nil", "other", "noEndpoint", "available"}
DBs == [of : Databases \cup {"none"}, status : Statuses, secured : BOOLEAN]
NoDB == [of |-> "none", status |-> "nil", secured |-> FALSE]

\* A Secret or ConfigMap with what the connection publishes, and its controller.
Published == [of : Databases \cup {"none"}, owner : Uids \cup {"none", "instance"}]
Nothing == [of |-> "none", owner |-> "none"]

Outcomes == [ready : {"True", "False"}, again : BOOLEAN, refs : BOOLEAN]
NoOutcome == [ready |-> "False", again |-> FALSE, refs |-> FALSE]

Stored(k) ==
    CASE k = "connection" -> connection
      [] k = "inventory"  -> inventory
      [] k = "db"         -> db
      [] k = "dbSecret"   -> dbSecret
      [] k = "secret"     -> secret
      [] k = "config"     -> config

\* What a Get of the manager's client returns.
Seen(k) == IF k \in Lagging THEN cache[k] ELSE Stored(k)

\* The watches: events of the connection itself, and of the DBInstance, which
\* getInstanceConnectionRequests maps to the connections with its identifier.
QueuedByConnection == pc # "down" /\ (queued \/ "connection" \notin Lagging)
Unwatched == pc # "down" /\ queued                     \* mutant of QueuedByDB
QueuedByDB ==
    pc # "down" /\ (queued \/ ("db" \notin Lagging /\ Seen("connection").uid # "none"))

Fault(f) == f \in Faults /\ faults < MaxFaults /\ faults' = faults + 1

Init ==
    /\ connection = NoConnection
    /\ inventory = NoInventory
    /\ db = NoDB /\ dbSecret = "none"
    /\ secret = Nothing /\ config = Nothing
    /\ cache = [k \in Lagging |-> Stored(k)]
    /\ queued = FALSE
    /\ pc = "idle" /\ copy = NoConnection /\ dbCopy = NoDB /\ password = "none"
    /\ outcome = NoOutcome
    /\ faults = 0

-----------------------------------------------------------------------------
(* The closures that end a pass; an error puts the key back as Requeue does.   *)
(* Once the pass has set the references in its copy, the write of the condition *)
(* stores them too, also when the Update before has failed.                    *)

Finish(ready, again) ==
    /\ pc' = "done" /\ dbCopy' = NoDB /\ password' = "none"
    /\ outcome' = [ready |-> ready, again |-> again, refs |-> pc = "updateRefs"]

Failed == Finish("False", TRUE)
Requeue == Finish("False", TRUE)
Ready == Finish("True", FALSE)

Goto(label) == pc' = label /\ UNCHANGED <<dbCopy, password, outcome>>

GetConnection ==
    /\ pc = "idle" /\ queued
    /\ queued' = FALSE
    /\ copy' = Seen("connection")
    /\ Goto(IF copy'.uid = "none" THEN "idle" ELSE "getInventory")
    /\ UNCHANGED <<connection, objects, published, cache, faults>>

\* The inventory has to be Ready and to list an instance of the identifier.
GetInventory ==
    /\ pc = "getInventory"
    /\ LET seen == Seen("inventory") IN
       CASE seen.ready = "absent" -> Failed
         [] seen.ready = "False"  -> Requeue
         [] seen.ready = "True" /\ ~seen.listed -> Failed
         [] OTHER -> Goto("getDB")
    /\ UNCHANGED <<connection, objects, published, cache, queued, copy, faults>>

\* Whether the DBInstance can be bound: available, with the reference to its
\* credential Secret.
AnyStatus(seen) == seen.secured                        \* mutant of Bindable
Bindable(seen) == seen.status \in {"noEndpoint", "available"} /\ seen.secured

GetDBInstance ==
    /\ pc = "getDB"
    /\ LET seen == Seen("db") IN
       /\ seen.of # "none" => seen.status # "nil"
       /\ IF seen.of = "none" \/ ~Bindable(seen)
          THEN Failed
          ELSE pc' = "getSecret" /\ dbCopy' = seen /\ UNCHANGED <<password, outcome>>
    /\ UNCHANGED <<connection, objects, published, cache, queued, copy, faults>>

\* status.dbInstanceStatus is dereferenced whether the ACK controller has written
\* it or not, and without it the process panics. The deferred write of a condition
\* with no status is refused.
Stop ==
    /\ pc' = "down" /\ queued' = FALSE /\ copy' = NoConnection /\ dbCopy' = NoDB
    /\ password' = "none" /\ outcome' = NoOutcome
    /\ UNCHANGED <<connection, objects, published, cache>>

Panic ==
    /\ pc = "getDB"
    /\ Seen("db").of # "none" /\ Seen("db").status = "nil"
    /\ Stop
    /\ UNCHANGED faults

\* The endpoint is checked last, in the DBInstance read before.
GetPassword ==
    /\ pc = "getSecret"
    /\ IF Seen("dbSecret") = "none" \/ dbCopy.status = "noEndpoint"
       THEN Failed
       ELSE /\ pc' = "writeSecret" /\ password' = Seen("dbSecret")
            /\ UNCHANGED <<dbCopy, outcome>>
    /\ UNCHANGED <<connection, objects, published, cache, queued, copy, faults>>

-----------------------------------------------------------------------------
(* controllerutil.CreateOrUpdate of the Secret and of the ConfigMap.           *)

\* SetControllerReference takes over from an owner of its own kind and name, as a
\* deleted RDSConnection's object has, and from no other.
AnyOwner(seen) == TRUE                                 \* mutant of Ownable
Ownable(seen) == seen.owner # "instance"

OwnerKept(seen, of) ==                                 \* mutant of Mutated
    [of |-> of, owner |-> IF seen.owner = "none" THEN copy.uid ELSE seen.owner]
Mutated(seen, of) == [of |-> of, owner |-> copy.uid]

\* The Create of an object the cache has missed and the Update of another version
\* than the stored one are refused; what is right already is not written.
CreateAlone(seen, stored, of) == stored # Nothing      \* mutant of WriteFails
WriteFails(seen, stored, of) == ~Ownable(seen) \/ (seen # stored /\ seen # Mutated(seen, of))
Written(seen, stored, of) == IF seen = Mutated(seen, of) THEN stored ELSE Mutated(seen, of)

CreateOrUpdateSecret ==
    /\ pc = "writeSecret"
    /\ IF WriteFails(Seen("secret"), secret, password)
       THEN Failed /\ UNCHANGED secret
       ELSE /\ secret' = Written(Seen("secret"), secret, password)
            /\ Goto("writeConfig")
    /\ UNCHANGED <<connection, objects, config, cache, queued, copy, faults>>

CreateOrUpdateConfigMap ==
    /\ pc = "writeConfig"
    /\ IF WriteFails(Seen("config"), config, dbCopy.of)
       THEN Failed /\ UNCHANGED config
       ELSE /\ config' = Written(Seen("config"), config, dbCopy.of)
            /\ Goto("updateRefs")
    /\ UNCHANGED <<connection, objects, secret, cache, queued, copy, faults>>

\* A status Update of a copy that is not the stored connection is refused.
UpdateRefs ==
    /\ pc = "updateRefs"
    /\ IF copy = connection
       THEN /\ connection' = [copy EXCEPT !.refs = TRUE]
            /\ copy' = connection'
            /\ queued' = IF connection' # connection THEN QueuedByConnection ELSE queued
            /\ Ready
       ELSE Requeue /\ UNCHANGED <<connection, copy, queued>>
    /\ UNCHANGED <<objects, published, cache, faults>>

UpdateReadyCondition ==
    /\ pc = "done"
    /\ LET new == [copy EXCEPT !.ready = outcome.ready, !.refs = @ \/ outcome.refs] IN
       IF copy = connection
       THEN /\ connection' = new
            /\ queued' = (queued \/ outcome.again \/ (new # copy /\ "connection" \notin Lagging))
       ELSE queued' = TRUE /\ connection' = connection
    /\ pc' = "idle" /\ copy' = NoConnection /\ outcome' = NoOutcome
    /\ UNCHANGED <<objects, published, cache, dbCopy, password, faults>>

-----------------------------------------------------------------------------
(* Faults, and the process.                                                    *)

CallPCs == {"getInventory", "getDB", "getSecret", "writeSecret", "writeConfig", "updateRefs"}

\* A call fails without an effect. Of the last one a conflict with a writer that
\* the model leaves out is the same.
CallFails ==
    /\ pc \in CallPCs
    /\ Fault("call")
    /\ Failed
    /\ UNCHANGED <<connection, objects, published, cache, queued, copy>>

Restart == pc # "down" /\ Fault("restart") /\ Stop

\* The caches fill, and what they list is queued.
Start ==
    /\ pc = "down"
    /\ pc' = "idle" /\ queued' = TRUE
    /\ cache' = [k \in Lagging |-> Stored(k)]
    /\ UNCHANGED <<connection, objects, published, copy, dbCopy, password, outcome, faults>>

InformerSync(k) ==
    /\ k \in Lagging /\ pc # "down"
    /\ cache[k] # Stored(k)
    /\ cache' = [cache EXCEPT ![k] = Stored(k)]
    /\ queued' = (queued \/ k = "connection"
                         \/ (k = "db" /\ Seen("connection").uid # "none"))
    /\ UNCHANGED <<connection, objects, published, worker, faults>>

\* Every SyncPeriod the informers hand in all their objects again. In a pass that is
\* as good as after it.
Resync ==
    /\ pc = "idle" /\ Seen("connection").uid # "none" /\ ~queued
    /\ queued' = TRUE
    /\ UNCHANGED <<connection, objects, published, cache, worker, faults>>

-----------------------------------------------------------------------------
(* The RDSInventory and its reconciler. Nobody watches it for its connections. *)

InventoryUnchanged == UNCHANGED <<connection, published, cache, worker, faults>>

CreateInventory ==
    /\ inventory.ready = "absent"
    /\ inventory' = [ready |-> "False", listed |-> FALSE]
    /\ UNCHANGED <<db, dbSecret, queued>> /\ InventoryUnchanged

DeleteInventory ==
    /\ "inventory" \in Events
    /\ inventory.ready # "absent"
    /\ inventory' = NoInventory
    /\ UNCHANGED <<db, dbSecret, queued>> /\ InventoryUnchanged

\* A pass that comes to its end lists the DBInstances, whatever their status.
SyncInstances ==
    /\ pc # "down" /\ inventory.ready # "absent"
    /\ inventory' = [ready |-> "True", listed |-> db.of # "none"]
    /\ UNCHANGED <<db, dbSecret, queued>> /\ InventoryUnchanged

\* One that fails, waits for the ACK controller or has to wait for a database.
InventoryWaits ==
    /\ pc # "down" /\ inventory.ready = "True"
    /\ inventory' = [inventory EXCEPT !.ready = "False"]
    /\ UNCHANGED <<db, dbSecret, queued>> /\ InventoryUnchanged

\* One that gives an adopted DBInstance its credentials, on its way to the end.
SecureDB ==
    /\ pc # "down" /\ inventory.ready # "absent"
    /\ db.of # "none" /\ ~db.secured /\ db.status # "other"
    /\ db' = [db EXCEPT !.secured = TRUE] /\ dbSecret' = db.of
    /\ queued' = QueuedByDB
    /\ UNCHANGED inventory /\ InventoryUnchanged

-----------------------------------------------------------------------------
(* The user, the ACK controller, the garbage collector and AWS.                *)

ConnectionChanged ==
    /\ queued' = QueuedByConnection
    /\ UNCHANGED <<objects, published, cache, worker, faults>>

\* Each connection of the name is another one.
KnownUids == {secret.owner, config.owner, copy.uid, Seen("connection").uid,
              Seen("secret").owner, Seen("config").owner}

CreateConnection ==
    /\ connection.uid = "none"
    /\ \E u \in Uids \ KnownUids : connection' = [NoConnection EXCEPT !.uid = u]
    /\ ConnectionChanged

DeleteConnection ==
    /\ connection.uid # "none"
    /\ connection' = NoConnection
    /\ ConnectionChanged

\* Who a Secret or ConfigMap belongs to is gone: the garbage collector takes it.
Orphan(object) == object.owner \in Uids \ {connection.uid}

Collect ==
    /\ \/ Orphan(secret) /\ secret' = Nothing /\ UNCHANGED config
       \/ Orphan(config) /\ config' = Nothing /\ UNCHANGED secret
    /\ UNCHANGED <<connection, objects, cache, queued, worker, faults>>

\* A RDSInstance of the connection's name has its own <name>-credentials.
ClashingSecret ==
    /\ "clash" \in Events
    /\ \/ secret = Nothing /\ (\E d \in Databases : secret' = [of |-> d, owner |-> "instance"])
       \/ secret.owner = "instance" /\ secret' = Nothing
    /\ UNCHANGED <<connection, objects, config, cache, queued, worker, faults>>

DBChanged ==
    /\ queued' = QueuedByDB
    /\ UNCHANGED <<connection, inventory, published, cache, worker, faults>>

\* Each database is another one: its name is given again when nothing shows it.
KnownDBs == {Seen(k).of : k \in {"db", "secret", "config"}}
                \cup {Seen("dbSecret"), secret.of, config.of, dbCopy.of, password}

\* A RDSInstance's DBInstance, which has its Secret first, or an adopted one.
MakeDB(d) ==
    /\ db.of = "none" /\ dbSecret = "none"
    /\ d \notin KnownDBs
    /\ \/ db' = [of |-> d, status |-> "nil", secured |-> TRUE] /\ dbSecret' = d
       \/ "adopt" \in Events
          /\ db' = [of |-> d, status |-> "nil", secured |-> FALSE] /\ dbSecret' = "none"
    /\ DBChanged

DeleteDB ==
    /\ db.of # "none"
    /\ db' = NoDB
    /\ UNCHANGED dbSecret /\ DBChanged

CollectDBSecret ==
    /\ db.of = "none" /\ dbSecret # "none"
    /\ dbSecret' = "none"
    /\ UNCHANGED <<connection, inventory, db, published, cache, queued, worker, faults>>

\* The ACK controller writes what AWS says: the endpoint may come after the status,
\* and a database may be stopped and started.
AckStatus ==
    /\ db.of # "none"
    /\ \E s \in CASE db.status = "nil"        -> Statuses \ {"nil"}
                  [] db.status = "other"      -> {"noEndpoint", "available"}
                  [] db.status = "noEndpoint" -> {"available"}
                  [] OTHER -> IF "stop" \in Events THEN {"other"} ELSE {} :
            db' = [db EXCEPT !.status = s]
    /\ UNCHANGED dbSecret /\ DBChanged

-----------------------------------------------------------------------------
Reconcile ==
    \/ GetConnection \/ GetInventory \/ GetDBInstance \/ Panic \/ GetPassword
    \/ CreateOrUpdateSecret \/ CreateOrUpdateConfigMap \/ UpdateRefs \/ UpdateReadyCondition

InventoryPass == SyncInstances \/ InventoryWaits \/ SecureDB

Next ==
    \/ Reconcile \/ InventoryPass \/ Start \/ Resync \/ (\E k \in Kinds : InformerSync(k))
    \/ CallFails \/ Restart
    \/ CreateInventory \/ DeleteInventory \/ CreateConnection \/ DeleteConnection
    \/ (\E d \in Databases : MakeDB(d)) \/ DeleteDB \/ ClashingSecret
    \/ Collect \/ CollectDBSecret \/ AckStatus

Spec == Init /\ [][Next]_vars

(* The worker goes on, the process is started again, the informers catch up and *)
(* resync. Nothing is assumed of the inventory, the database, the user and the  *)
(* faults.                                                                      *)
Fairness ==
    /\ WF_vars(Reconcile) /\ WF_vars(Start) /\ WF_vars(Resync)
    /\ \A k \in Kinds : WF_vars(InformerSync(k))

FairSpec == Spec /\ Fairness

-----------------------------------------------------------------------------
(* Properties.                                                                 *)

PCs == CallPCs \cup {"idle", "done", "down"}

TypeOf(k) ==
    CASE k = "connection"         -> Connections
      [] k = "inventory"          -> Inventories
      [] k = "db"                 -> DBs
      [] k = "dbSecret"           -> Databases \cup {"none"}
      [] k \in {"secret", "config"} -> Published

\* Every variable holds a value the code can give it, and what the worker publishes
\* was read from a DBInstance that could be bound.
TypeOK ==
    /\ connection \in Connections
    /\ inventory \in Inventories
    /\ db \in DBs /\ dbSecret \in Databases \cup {"none"}
    /\ secret \in Published /\ config \in Published
    /\ DOMAIN cache = Lagging /\ \A k \in Lagging : cache[k] \in TypeOf(k)
    /\ copy \in Connections /\ dbCopy \in DBs /\ password \in Databases \cup {"none"}
    /\ queued \in BOOLEAN /\ pc \in PCs
    /\ pc = "getSecret" => dbCopy.status \in {"noEndpoint", "available"} /\ dbCopy.secured
    /\ pc \in {"writeSecret", "writeConfig", "updateRefs"} =>
           password # "none" /\ dbCopy.status = "available" /\ dbCopy.secured
    /\ outcome \in Outcomes
    /\ faults \in 0 .. MaxFaults

\* A Ready connection that nothing is going to look at again is bound to the
\* database there is: it is available, and the Secret and the ConfigMap have its
\* password and its endpoint, however the database was deleted, made again and
\* stopped between two reads and writes of a pass.
CaughtUp == \A k \in Lagging : cache[k] = Stored(k)
Bound ==
    /\ db.of # "none" /\ db.status = "available"
    /\ secret = [of |-> db.of, owner |-> connection.uid]
    /\ config = [of |-> db.of, owner |-> connection.uid]
BoundWhenIdle ==
    pc = "idle" /\ ~queued /\ CaughtUp /\ connection.ready = "True" => Bound

\* What the status of a connection refers to exists, and no garbage collection of
\* an earlier connection of the name takes it away.
RefsKept ==
    connection.refs => secret.owner = connection.uid /\ config.owner = connection.uid

\* The Secret of a RDSInstance with the connection's name is never overwritten.
ForeignSecretKept ==
    [][secret.owner = "instance" /\ secret' # secret => secret' = Nothing]_vars

\* A connection whose inventory stays Ready with the DBInstance listed and whose
\* DBInstance stays available comes to be Ready and bound to it, and stays so, after
\* failed calls and crashes, and whoever had its Secret and ConfigMap before.
Bindings ==
    /\ connection.uid # "none" /\ inventory = [ready |-> "True", listed |-> TRUE]
    /\ db.status = "available" /\ db.secured /\ secret.owner # "instance"
EventuallyBound == <>[]Bindings => <>[](Bound /\ connection.ready = "True")
=============================================================================
