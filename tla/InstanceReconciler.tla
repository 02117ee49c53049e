-------------------------- MODULE InstanceReconciler --------------------------
(* The RDSInstance reconciler of the operator, one RDSInstance it provisions a *)
(* database for, the DBInstance resource and the credential Secret it makes,   *)
(* and the ACK controller that makes a database of the DBInstance.             *)
(*                                                                             *)
(* The reconciler is one worker on a queue. Each of its calls to the API       *)
(* server is a step, between which the user, the ACK controller, AWS, the      *)
(* RDSInventory's reconciler, the informers and a crash run. The kinds in      *)
(* Lagging have a cache that may be behind the API server.                     *)
EXTENDS Naturals, DBInstanceParameters

CONSTANTS
    Params,     \* the parameters the user may give, valid and invalid
    Passwords,  \* the passwords generatePassword can return
    Lagging,    \* the kinds whose informer cache may lag
    Events,     \* the optional things the user, the inventory and AWS do
    Faults,     \* the faults that happen ...
    MaxFaults   \* ... and how many of them at most

Kinds == {"instance", "inventory", "db", "secret"}
EventNames == {"edit", "unready", "removal", "modify", "fail"}
FaultNames == {"restart", "call", "conflict"}

ASSUME InstanceAssumption ==
    /\ Params # {} /\ \A p \in Params : DOMAIN p \subseteq Names
    /\ Passwords # {} /\ "none" \notin Passwords
    /\ Lagging \subseteq Kinds
    /\ Events \subseteq EventNames
    /\ Faults \subseteq FaultNames
    /\ MaxFaults \in Nat

VARIABLES
    instance,   \* the RDSInstance
    inventory,  \* its RDSInventory: "absent", "notReady" or "ready"
    db,         \* the DBInstance
    secret,     \* the password in the credential Secret
    aws,        \* the database
    cache,      \* the lagging caches
    queued,     \* the RDSInstance's key is in the work queue
    pc,         \* the worker's next call
    copy,       \* the worker's copy of the RDSInstance
    dbCopy,     \* and of the DBInstance
    phase,      \* the phase it will write, "" to leave it
    outcome,    \* the condition it will write, and whether it asks to run again
    faults      \* the faults so far

world == <<instance, inventory, db, secret, aws, cache>>
worker == <<pc, copy, dbCopy, phase, outcome>>
vars == <<world, queued, worker, faults>>

-----------------------------------------------------------------------------
Phases == {"", "Pending", "Creating", "Updating", "Deleting", "Deleted", "Ready",
           "Error", "Failed", "Unknown"}
Statuses == {"nil", "creating", "available", "modifying", "failed", "deleting"}
Usernames == {"none", "admin", "postgres"}
NoParams == << >>

\* info is status.instanceInfo.
Infos == {NoParams} \cup [{"dbInstanceStatus"} -> Statuses \ {"nil"}]
Instances == [state : {"absent", "live", "deleting"}, finalizer : BOOLEAN,
              params : Params \cup {NoParams}, phase : Phases, info : Infos,
              ready : {"None", "True", "False", "Unknown"}]
AbsentInstance == [state |-> "absent", finalizer |-> FALSE, params |-> NoParams,
                   phase |-> "", info |-> NoParams, ready |-> "None"]

\* "managed" is the ACK controller's finalizer. A DBInstance the operator wrote
\* refers to the credential Secret from its creation on, whether it is there or not.
NoDB == [present |-> FALSE, managed |-> FALSE, deleting |-> FALSE,
         params |-> NoParams, username |-> "none", status |-> "nil"]
IsDB(d) ==
    /\ d \in [present : BOOLEAN, managed : BOOLEAN, deleting : BOOLEAN,
              params : {d.params}, username : Usernames, status : Statuses]
    /\ DOMAIN d.params \subseteq Names
    /\ d.present => Required \subseteq DOMAIN d.params /\ d.username # "none"
    /\ \A n \in Integers64 \cap DOMAIN d.params : ParseInt(d.params[n])
    /\ ~d.present => d = NoDB

Databases == [status : (Statuses \ {"nil"}) \cup {"none"},
              password : Passwords \cup {"none"}, username : Usernames]
NoDatabase == [status |-> "none", password |-> "none", username |-> "none"]

Outcomes == [ready : {"True", "False", "Unknown"}, again : BOOLEAN]
NoOutcome == [ready |-> "False", again |-> FALSE]

Stored(k) ==
    CASE k = "instance"  -> instance
      [] k = "inventory" -> inventory
      [] k = "db"        -> db
      [] k = "secret"    -> secret

\* What a Get of the manager's client returns.
Seen(k) == IF k \in Lagging THEN cache[k] ELSE Stored(k)

\* An event of a watched kind, unless its cache has yet to see it. The DBInstance
\* names the RDSInstance in its owner annotations.
QueuedBy(k) == pc # "down" /\ (queued \/ k \notin Lagging)

Fault(f) == f \in Faults /\ faults < MaxFaults /\ faults' = faults + 1

Init ==
    /\ instance = AbsentInstance
    /\ inventory \in {"absent", "notReady", "ready"}
    /\ db = NoDB /\ secret = "none" /\ aws = NoDatabase
    /\ cache = [k \in Lagging |-> Stored(k)]
    /\ queued = FALSE
    /\ pc = "idle" /\ copy = AbsentInstance /\ dbCopy = NoDB /\ phase = ""
    /\ outcome = NoOutcome
    /\ faults = 0

-----------------------------------------------------------------------------
(* The closures that end a pass. The phase is written with the condition.      *)

Finish(ready, again) ==
    /\ pc' = "done" /\ dbCopy' = NoDB
    /\ outcome' = [ready |-> ready, again |-> again]

Updating == Finish("Unknown", TRUE)
Failed == Finish("False", TRUE)
NoRequeue == Finish("False", FALSE)                    \* mutant of Requeue
Requeue == Finish("False", TRUE)
NotReady == Finish("False", FALSE)
Ready == Finish("True", FALSE)

Goto(label) == pc' = label /\ UNCHANGED <<dbCopy, outcome>>

GetInstance ==
    /\ pc = "idle" /\ queued
    /\ queued' = FALSE
    /\ copy' = Seen("instance")
    /\ Goto(IF copy'.state = "absent" THEN "idle" ELSE "getInventory")
    /\ UNCHANGED <<world, phase, faults>>

\* What checkFinalizer does first is known as soon as the inventory is Ready.
GetInventory ==
    /\ pc = "getInventory"
    /\ CASE Seen("inventory") = "absent"   -> Failed
         [] Seen("inventory") = "notReady" -> Requeue
         [] OTHER -> Goto(CASE copy.state = "deleting" -> "getDeleted"
                            [] copy.state = "live" /\ ~copy.finalizer -> "addFinalizer"
                            [] OTHER -> "getDB")
    /\ phase' = CASE Seen("inventory") # "ready" -> ""
                  [] copy.state = "deleting" -> "Deleting"
                  [] copy.state = "live" /\ ~copy.finalizer -> "Pending"
                  [] OTHER -> ""
    /\ UNCHANGED <<world, queued, copy, faults>>

\* An Update of the RDSInstance is refused when the copy is not what is stored.
AddFinalizer ==
    /\ pc = "addFinalizer"
    /\ IF copy = instance
       THEN /\ instance' = [copy EXCEPT !.finalizer = TRUE]
            /\ copy' = instance'
            /\ queued' = QueuedBy("instance")
            /\ NotReady
       ELSE Updating /\ UNCHANGED <<instance, copy, queued>>
    /\ UNCHANGED <<inventory, db, secret, aws, cache, phase, faults>>

-----------------------------------------------------------------------------
(* Deletion.                                                                   *)

\* The DBInstance is deleted over and over until it is not found.
DeletedOnce(seen) == ~seen.present \/ seen.deleting    \* mutant of DBDeleted
DBDeleted(seen) == ~seen.present

DeleteDBInstance ==
    /\ pc = "getDeleted"
    /\ CASE DBDeleted(Seen("db")) -> Goto("removeFinalizer") /\ UNCHANGED <<db, queued>>
         [] ~DBDeleted(Seen("db")) /\ db.present ->
              /\ db' = IF db.managed THEN [db EXCEPT !.deleting = TRUE] ELSE NoDB
              /\ queued' = QueuedBy("db")
              /\ Updating
         [] OTHER -> Failed /\ UNCHANGED <<db, queued>>
    /\ UNCHANGED <<instance, inventory, secret, aws, cache, copy, phase, faults>>

\* Without its last finalizer the RDSInstance is gone, and the garbage collector
\* takes the Secret it owns.
RemoveFinalizer ==
    /\ pc = "removeFinalizer"
    /\ IF copy = instance
       THEN /\ instance' = AbsentInstance
            /\ copy' = [copy EXCEPT !.finalizer = FALSE]
            /\ queued' = QueuedBy("instance")
            /\ phase' = "Deleted"
            /\ NotReady
       ELSE Updating /\ UNCHANGED <<instance, copy, queued, phase>>
    /\ UNCHANGED <<inventory, db, secret, aws, cache, faults>>

-----------------------------------------------------------------------------
(* createOrUpdateDBInstance: the Get, setDBInstanceSpec, the Create or Update. *)

\* An invalid parameter is an error, before the Secret.
GetDBInstance ==
    /\ pc = "getDB"
    /\ IF Valid(copy.params)
       THEN pc' = "setCredentials" /\ dbCopy' = Seen("db") /\ outcome' = outcome
       ELSE Failed
    /\ UNCHANGED <<world, queued, copy, phase, faults>>

\* The Secret is made when the cache shows none, and the Create of one the cache has
\* missed fails. A hit is taken at its word, also when the Secret has been collected.
SetAnew ==                                             \* mutant of SetCredentials
    /\ pc = "setCredentials"
    /\ secret' \in Passwords
    /\ Goto("writeDB")
    /\ UNCHANGED <<instance, inventory, db, aws, cache, queued, copy, phase, faults>>
SetWithDBInstance ==                                   \* mutant of SetCredentials
    /\ pc = "setCredentials"
    /\ IF Seen("secret") = "none" /\ ~dbCopy.present
       THEN IF secret = "none" THEN secret' \in Passwords /\ Goto("writeDB")
                               ELSE secret' = secret /\ Failed
       ELSE secret' = secret /\ Goto("writeDB")
    /\ UNCHANGED <<instance, inventory, db, aws, cache, queued, copy, phase, faults>>
SetCredentials ==
    /\ pc = "setCredentials"
    /\ CASE Seen("secret") # "none" -> secret' = secret /\ Goto("writeDB")
         [] Seen("secret") = "none" /\ secret # "none" -> secret' = secret /\ Failed
         [] OTHER -> secret' \in Passwords /\ Goto("writeDB")
    /\ UNCHANGED <<instance, inventory, db, aws, cache, queued, copy, phase, faults>>

\* The username is generated once, from the engine of that moment.
Regenerated(engine) == GenerateUsername(engine)        \* mutant of MasterUsername
MasterUsername(engine) ==
    IF dbCopy.username = "none" THEN GenerateUsername(engine) ELSE dbCopy.username

Desired ==
    LET params == Applied(copy.params, dbCopy.params) IN
    [dbCopy EXCEPT !.present = TRUE, !.params = params,
                   !.username = MasterUsername(params.Engine)]

\* An existing object that is not the one that was read is a conflict.
WriteDBInstance ==
    /\ pc = "writeDB"
    /\ CASE Desired # dbCopy /\ dbCopy # db -> Failed /\ UNCHANGED <<db, queued, phase>>
         [] Desired = dbCopy -> Goto("sync") /\ UNCHANGED <<db, queued, phase>>
         [] OTHER ->
              /\ db' = Desired
              /\ queued' = QueuedBy("db")
              /\ phase' = IF dbCopy.present THEN "Updating" ELSE "Creating"
              /\ IF dbCopy.present THEN Goto("sync") ELSE Requeue
    /\ UNCHANGED <<instance, inventory, secret, aws, cache, copy, faults>>

-----------------------------------------------------------------------------
\* setDBInstancePhase.
PhaseOf(status) ==
    CASE status = "available" -> "Ready"
      [] status = "creating"  -> "Creating"
      [] status = "deleting"  -> "Deleting"
      [] status = "failed"    -> "Failed"
      [] status = "modifying" -> "Updating"
      [] status = "restore-error" -> "Error"
      [] OTHER -> "Unknown"

\* parseDBInstanceStatus: what the status has, under its name. All of it comes with
\* one update of the ACK controller's, so that one field tells one from another.
ParseDBInstanceStatus(seen) ==
    IF seen.status = "nil" THEN NoParams ELSE [dbInstanceStatus |-> seen.status]

\* The switch at the end of a pass.
Conclude(p) ==
    CASE p = "Ready" -> Ready
      [] p \in {"Failed", "Deleted"} -> NotReady
      [] p \in {"Pending", "Creating", "Updating", "Deleting"} -> Updating
      [] p \in {"Error", "Unknown"} -> Requeue

SyncDBInstanceStatus ==
    /\ pc = "sync"
    /\ IF ~Seen("db").present
       THEN Failed /\ UNCHANGED <<instance, copy, queued>>
       ELSE /\ copy' = [copy EXCEPT !.phase = PhaseOf(Seen("db").status),
                                  !.info = ParseDBInstanceStatus(Seen("db"))]
            /\ IF copy = instance
               THEN /\ instance' = copy'
                    /\ queued' = IF copy' # copy THEN QueuedBy("instance") ELSE queued
                    /\ Conclude(copy'.phase)
               ELSE Updating /\ UNCHANGED <<instance, queued>>
    /\ UNCHANGED <<inventory, db, secret, aws, cache, phase, faults>>

UpdateReadyCondition ==
    /\ pc = "done"
    /\ LET new == [copy EXCEPT !.ready = outcome.ready,
                               !.phase = IF phase = "" THEN @ ELSE phase] IN
       IF copy = instance
       THEN /\ instance' = new
            /\ queued' = (queued \/ outcome.again \/ (new # copy /\ "instance" \notin Lagging))
       ELSE queued' = TRUE /\ instance' = instance
    /\ pc' = "idle" /\ copy' = AbsentInstance /\ phase' = "" /\ outcome' = NoOutcome
    /\ UNCHANGED <<inventory, db, secret, aws, cache, dbCopy, faults>>

-----------------------------------------------------------------------------
(* Faults.                                                                     *)

CallPCs == {"getInventory", "addFinalizer", "getDeleted", "removeFinalizer", "getDB",
            "setCredentials", "writeDB", "sync"}

\* A call fails without an effect.
CallFails ==
    /\ pc \in CallPCs
    /\ Fault("call")
    /\ Failed
    /\ UNCHANGED <<world, queued, copy, phase>>

\* Somebody has touched the RDSInstance, which the worker reads again.
Conflict ==
    /\ pc \in {"addFinalizer", "removeFinalizer", "sync"}
    /\ Fault("conflict")
    /\ Updating
    /\ UNCHANGED <<world, queued, copy, phase>>

Restart ==
    /\ pc # "down"
    /\ Fault("restart")
    /\ pc' = "down" /\ queued' = FALSE /\ copy' = AbsentInstance /\ dbCopy' = NoDB
    /\ phase' = "" /\ outcome' = NoOutcome
    /\ UNCHANGED world

\* The caches fill, and what they list is queued.
Start ==
    /\ pc = "down"
    /\ pc' = "idle" /\ queued' = TRUE
    /\ cache' = [k \in Lagging |-> Stored(k)]
    /\ UNCHANGED <<instance, inventory, db, secret, aws, copy, dbCopy, phase, outcome, faults>>

InformerSync(k) ==
    /\ k \in Lagging /\ pc # "down"
    /\ cache[k] # Stored(k)
    /\ cache' = [cache EXCEPT ![k] = Stored(k)]
    /\ queued' = (queued \/ k \in {"instance", "db"})
    /\ UNCHANGED <<instance, inventory, db, secret, aws, worker, faults>>

-----------------------------------------------------------------------------
(* The user and the inventory.                                                 *)

\* A RDSInstance of the same name is made again only when the Secret of the last
\* one has been collected.
CreateInstance ==
    /\ instance.state = "absent" /\ secret = "none"
    /\ \E p \in Params : instance' = [AbsentInstance EXCEPT !.state = "live", !.params = p]
    /\ queued' = QueuedBy("instance")
    /\ UNCHANGED <<inventory, db, secret, aws, cache, worker, faults>>

EditInstance ==
    /\ "edit" \in Events /\ instance.state = "live"
    /\ \E p \in Params \ {instance.params} : instance' = [instance EXCEPT !.params = p]
    /\ queued' = QueuedBy("instance")
    /\ UNCHANGED <<inventory, db, secret, aws, cache, worker, faults>>

DeleteInstance ==
    /\ instance.state = "live"
    /\ instance' = IF instance.finalizer THEN [instance EXCEPT !.state = "deleting"]
                                         ELSE AbsentInstance
    /\ queued' = QueuedBy("instance")
    /\ UNCHANGED <<inventory, db, secret, aws, cache, worker, faults>>

\* Nobody watches the inventory for its RDSInstances.
InventoryChanges ==
    /\ inventory' \in {"absent", "notReady", "ready"} \ {inventory}
    /\ inventory' = "notReady" => "unready" \in Events
    /\ inventory' = "absent" => "removal" \in Events
    /\ UNCHANGED <<instance, db, secret, aws, cache, queued, worker, faults>>

-----------------------------------------------------------------------------
(* The ACK controller, the garbage collector and AWS.                          *)

DBChanged ==
    /\ queued' = QueuedBy("db")
    /\ UNCHANGED <<instance, inventory, secret, cache, worker, faults>>

AckManage ==
    /\ db.present /\ ~db.managed
    /\ db' = [db EXCEPT !.managed = TRUE]
    /\ DBChanged /\ aws' = aws

\* The database gets the username of the DBInstance and the password of the Secret.
AckCreate ==
    /\ db.managed /\ ~db.deleting /\ aws.status = "none" /\ secret # "none"
    /\ aws' = [status |-> "creating", password |-> secret, username |-> db.username]
    /\ UNCHANGED <<instance, inventory, db, secret, cache, queued, worker, faults>>

AckStatus ==
    /\ db.managed /\ aws.status # "none" /\ db.status # aws.status
    /\ db' = [db EXCEPT !.status = aws.status]
    /\ DBChanged /\ aws' = aws

AckDelete ==
    /\ db.deleting
    /\ IF aws.status = "none"
       THEN db' = NoDB /\ aws' = aws /\ DBChanged
       ELSE /\ aws.status # "deleting"
            /\ aws' = [aws EXCEPT !.status = "deleting"]
            /\ UNCHANGED <<instance, inventory, db, secret, cache, queued, worker, faults>>

AwsChanges(from, to) ==
    /\ aws.status \in from
    /\ aws' = [aws EXCEPT !.status = to]
    /\ UNCHANGED <<instance, inventory, db, secret, cache, queued, worker, faults>>

AwsSettles == AwsChanges({"creating", "modifying"}, "available")
AwsModifies == "modify" \in Events /\ AwsChanges({"available"}, "modifying")
AwsFails == "fail" \in Events /\ AwsChanges({"creating"}, "failed")
AwsDeletes ==
    /\ aws.status = "deleting"
    /\ aws' = NoDatabase
    /\ UNCHANGED <<instance, inventory, db, secret, cache, queued, worker, faults>>

CollectSecret ==
    /\ instance.state = "absent" /\ secret # "none"
    /\ secret' = "none"
    /\ UNCHANGED <<instance, inventory, db, aws, cache, queued, worker, faults>>

-----------------------------------------------------------------------------
Reconcile ==
    \/ GetInstance \/ GetInventory \/ AddFinalizer \/ DeleteDBInstance \/ RemoveFinalizer
    \/ GetDBInstance \/ SetCredentials \/ WriteDBInstance
    \/ SyncDBInstanceStatus \/ UpdateReadyCondition

Next ==
    \/ Reconcile \/ Start \/ CallFails \/ Conflict \/ Restart
    \/ \E k \in Kinds : InformerSync(k)
    \/ CreateInstance \/ EditInstance \/ DeleteInstance \/ InventoryChanges
    \/ AckManage \/ AckCreate \/ AckStatus \/ AckDelete
    \/ AwsSettles \/ AwsModifies \/ AwsFails \/ AwsDeletes \/ CollectSecret

Spec == Init /\ [][Next]_vars

(* The queue hands the key out and the calls return; a crashed operator is     *)
(* started again; the informers, the ACK controller, the garbage collector and *)
(* AWS do what they owe. Nothing is assumed of the user and the inventory.     *)
Fairness ==
    /\ WF_vars(Reconcile) /\ WF_vars(Start)
    /\ \A k \in Kinds : WF_vars(InformerSync(k))
    /\ WF_vars(AckManage) /\ WF_vars(AckCreate) /\ WF_vars(AckStatus) /\ WF_vars(AckDelete)
    /\ WF_vars(AwsSettles) /\ WF_vars(AwsDeletes) /\ WF_vars(CollectSecret)

FairSpec == Spec /\ Fairness

-----------------------------------------------------------------------------
(* Properties.                                                                 *)

PCs == CallPCs \cup {"idle", "done", "down"}

HasType(k, object) ==
    CASE k = "instance"  -> object \in Instances
      [] k = "inventory" -> object \in {"absent", "notReady", "ready"}
      [] k = "db"        -> IsDB(object)
      [] k = "secret"    -> object \in Passwords \cup {"none"}

\* Every variable holds a value the code can give it, and so do the caches.
TypeOK ==
    /\ instance \in Instances
    /\ inventory \in {"absent", "notReady", "ready"}
    /\ IsDB(db)
    /\ secret \in Passwords \cup {"none"}
    /\ aws \in Databases
    /\ DOMAIN cache = Lagging /\ \A k \in Lagging : HasType(k, cache[k])
    /\ queued \in BOOLEAN
    /\ pc \in PCs /\ copy \in Instances /\ IsDB(dbCopy)
    /\ pc \in {"setCredentials", "writeDB"} => Valid(copy.params)
    /\ phase \in Phases
    /\ outcome \in Outcomes
    /\ faults \in 0 .. MaxFaults

\* The credential Secret and the DBInstance, from which connections are made, hold
\* the password and the username of the database as long as there is one and its
\* RDSInstance exists: whatever fails between the creation of the Secret and that of
\* the DBInstance, whatever parameters are edited, and also when a hit in an old cache
\* of Secrets has had the DBInstance made before its Secret.
CredentialsKept ==
    instance.state # "absent" /\ aws.status # "none" =>
        secret = aws.password /\ db.username = aws.username

\* The password is the one MasterCredential promises: the database is made with it, and
\* it is neither replaced nor lost as long as the DBInstance is there. A DBInstance made
\* on a hit of the past refers to nothing until its Secret is made.
Master == INSTANCE MasterCredential WITH
    referenced <- db.present /\ secret # "none",
    published <- secret,
    database <- IF aws.status = "none" THEN "gone" ELSE aws.password
MasterCredentials == Master!Spec

\* The finalizer does its work: a RDSInstance that is gone leaves no DBInstance
\* and no database.
NothingLeft ==
    instance.state = "absent" => ~db.present /\ aws.status = "none"

\* The Deleted phase, which is set with the removal of the finalizer, says that the
\* database has been deleted.
DeletedIsDeleted == phase = "Deleted" => ~db.present /\ aws.status = "none"

\* A deleted RDSInstance goes away, if its inventory is Ready for long enough.
DeletionCompletes ==
    <>[](inventory = "ready") => (instance.state = "deleting" ~> instance.state = "absent")

\* Once the inventory stays Ready, and the user and AWS change nothing any more, a
\* RDSInstance with valid parameters comes to have its database and to show what AWS says
\* of it, and its DBInstance to carry the parameters it has: after edits, invalid ones too,
\* after failed calls, conflicts and crashes, and after a hit in an old cache of Secrets, as
\* the ACK controller can do nothing with the DBInstance until a later pass makes its Secret.
Mirrored ==
    /\ aws.status \in {"available", "failed"}
    /\ instance.phase = PhaseOf(aws.status)
    /\ instance.ready = "True" <=> aws.status = "available"
    /\ instance.info = [dbInstanceStatus |-> aws.status]
    /\ \A n \in DOMAIN instance.params : db.params[n] = instance.params[n]
Provisionable == inventory = "ready" /\ instance.state = "live" /\ Valid(instance.params)
EventuallyMirrored ==
    <>[]Provisionable
        /\ <>[][instance'.params = instance.params /\ aws'.status = aws.status]_vars
    => <>[]Mirrored
=============================================================================
