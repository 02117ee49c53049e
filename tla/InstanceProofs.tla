---------------------------- MODULE InstanceProofs ----------------------------
(* Proofs about the RDSInstance reconciler: types, what the finalizer guards,  *)
(* the credentials of a provisioned database, and that the reconciler keeps    *)
(* the promise of MasterCredential. Any cache may lag but that of DBInstances. *)
EXTENDS InstanceReconciler, TLAPS

-----------------------------------------------------------------------------
(* The inductive invariant.                                                    *)

Writing == {"getDB", "setCredentials", "writeDB", "sync"}
Deleting == {"getInventory", "getDeleted", "removeFinalizer"}

\* The finalizer goes with the RDSInstance. It is there, in the RDSInstance and in
\* what the cache shows, while a pass makes or changes a DBInstance.
Live(object) == object.state = "live" /\ object.finalizer
Finalized ==
    /\ instance.state = "absent" => ~instance.finalizer
    /\ instance.state = "deleting" => instance.finalizer
    /\ Live(Seen("instance")) => instance.finalizer
    /\ pc \in Writing => instance.finalizer
    /\ pc = "getInventory" => copy.state # "absent"
    /\ pc = "getInventory" /\ Live(copy) => instance.finalizer

\* A pass that deletes has not read a RDSInstance from before one that is in use, and
\* nor has one that adds the finalizer.
Current ==
    /\ Seen("instance").state = "deleting" => ~Live(instance)
    /\ pc \in Deleting /\ copy.state = "deleting" =>
           ~Live(instance) /\ ~Live(Seen("instance"))
    /\ pc \in {"getInventory", "addFinalizer"} /\ copy.state = "live"
           /\ ~copy.finalizer /\ ~instance.finalizer => Seen("instance").state # "deleting"
    /\ pc = "addFinalizer" => copy.state = "live" /\ ~copy.finalizer
    /\ pc \in {"getDeleted", "removeFinalizer"} => copy.state = "deleting"

\* A DBInstance is there only behind the finalizer, a database only behind a managed
\* DBInstance and its Secret, and they agree.
Provisioned ==
    /\ db.present => instance.finalizer
    /\ aws.status # "none" =>
           /\ db.present /\ db.managed /\ secret # "none"
           /\ aws.password = secret /\ aws.username = db.username
    /\ pc = "removeFinalizer" => ~db.present

InstanceInv == Finalized /\ Current /\ Provisioned

-----------------------------------------------------------------------------
(* The parameters.                                                             *)

\* What is given and what is kept.
LEMMA AppliedIs ==
    ASSUME NEW params, NEW spec
    PROVE  /\ DOMAIN Applied(params, spec) = DOMAIN params \cup DOMAIN spec
           /\ \A n \in DOMAIN params : Applied(params, spec)[n] = params[n]
           /\ \A n \in DOMAIN spec \ DOMAIN params : Applied(params, spec)[n] = spec[n]
BY DEF Applied, Merged

LEMMA DesiredType ==
    ASSUME IsDB(dbCopy), copy \in Instances, Valid(copy.params)
    PROVE  IsDB(Desired) /\ Desired.present /\ Desired.managed = dbCopy.managed
           /\ (dbCopy.username # "none" => Desired.username = dbCopy.username)
<1> DEFINE params == Applied(copy.params, dbCopy.params)
<1>1. DOMAIN copy.params \subseteq Names
    BY InstanceAssumption DEF Instances, NoParams
<1>2. /\ DOMAIN params = DOMAIN copy.params \cup DOMAIN dbCopy.params
      /\ \A n \in DOMAIN copy.params : params[n] = copy.params[n]
      /\ \A n \in DOMAIN dbCopy.params \ DOMAIN copy.params : params[n] = dbCopy.params[n]
    BY AppliedIs
<1> HIDE DEF params
<1>5. Required \subseteq DOMAIN params /\ DOMAIN params \subseteq Names
    BY <1>1, <1>2 DEF Valid, IsDB
<1>6. ASSUME NEW n \in Integers64 \cap DOMAIN params PROVE ParseInt(params[n])
    <2>1. CASE n \in DOMAIN copy.params
        BY <1>2, <2>1 DEF Valid
    <2>2. CASE n \in DOMAIN dbCopy.params \ DOMAIN copy.params
        BY <1>2, <2>2 DEF IsDB
    <2> QED
        BY <1>2, <1>6, <2>1, <2>2
<1>3. MasterUsername(params.Engine) \in Usernames \ {"none"}
    BY DEF MasterUsername, GenerateUsername, IsDB, Usernames
<1>4. Desired = [dbCopy EXCEPT !.present = TRUE, !.params = params,
                               !.username = MasterUsername(params.Engine)]
    BY DEF Desired, params
<1> QED
    BY <1>3, <1>4, <1>5, <1>6 DEF IsDB, MasterUsername

-----------------------------------------------------------------------------
(* Type correctness.                                                           *)

\* What a read returns, from a cache or not.
LEMMA SeenType ==
    ASSUME TypeOK
    PROVE  /\ Seen("instance") \in Instances
           /\ Seen("inventory") \in {"absent", "notReady", "ready"}
           /\ IsDB(Seen("db"))
           /\ Seen("secret") \in Passwords \cup {"none"}
BY DEF TypeOK, Seen, Stored, HasType

LEMMA StoredType == TypeOK => \A k \in Kinds : HasType(k, Stored(k))
BY DEF TypeOK, Stored, HasType, Kinds

LEMMA NoDBType == IsDB(NoDB)
BY DEF IsDB, NoDB, NoParams, Usernames, Statuses

LEMMA AbsentType == AbsentInstance \in Instances
BY DEF AbsentInstance, Instances, Phases, Infos

\* The updates of the records.
LEMMA PhaseType == ASSUME NEW s PROVE PhaseOf(s) \in Phases \ {""}
BY DEF PhaseOf, Phases

LEMMA MirrorUpdate ==
    ASSUME NEW i \in Instances, NEW d, IsDB(d)
    PROVE  [i EXCEPT !.phase = PhaseOf(d.status), !.info = ParseDBInstanceStatus(d)]
               \in Instances
<1>1. PhaseOf(d.status) \in Phases
    BY PhaseType
<1>2. ParseDBInstanceStatus(d) \in Infos
    BY DEF ParseDBInstanceStatus, Infos, IsDB
<1> QED
    BY <1>1, <1>2 DEF Instances

LEMMA DBUpdate ==
    ASSUME NEW d, IsDB(d), d.present, NEW s \in Statuses
    PROVE  /\ IsDB([d EXCEPT !.managed = TRUE]) /\ IsDB([d EXCEPT !.deleting = TRUE])
           /\ IsDB([d EXCEPT !.status = s])
BY DEF IsDB

LEMMA DatabaseUpdate ==
    ASSUME NEW a \in Databases, NEW s \in Statuses \ {"nil"}, NEW p \in Passwords,
           NEW u \in Usernames
    PROVE  /\ [a EXCEPT !.status = s] \in Databases
           /\ [status |-> "creating", password |-> p, username |-> u] \in Databases
           /\ NoDatabase \in Databases
BY DEF Databases, NoDatabase, Statuses, Usernames

LEMMA InitType == Init => TypeOK
<1> SUFFICES ASSUME Init PROVE TypeOK
    OBVIOUS
<1>1. instance \in Instances /\ copy \in Instances /\ IsDB(db) /\ IsDB(dbCopy)
    BY NoDBType, AbsentType DEF Init
<1>2. DOMAIN cache = Lagging /\ \A k \in Lagging : HasType(k, cache[k])
    BY <1>1, InstanceAssumption DEF Init, HasType, Stored, Kinds
<1>3. aws \in Databases
    BY DatabaseUpdate DEF Init, Databases, NoDatabase, Usernames
<1>4. faults \in 0 .. MaxFaults
    <2>1. MaxFaults \in Nat /\ faults = 0
        BY InstanceAssumption DEF Init
    <2> QED
        BY <2>1
<1>5. pc \in PCs /\ phase \in Phases
    BY DEF Init, PCs, Phases
<1>6. outcome \in Outcomes
    BY DEF Init, Outcomes, NoOutcome
<1> QED
    BY <1>1, <1>2, <1>3, <1>4, <1>5, <1>6 DEF Init, TypeOK

\* The variables of the cluster, and those of the worker.
WorldOK ==
    /\ instance \in Instances
    /\ inventory \in {"absent", "notReady", "ready"}
    /\ IsDB(db)
    /\ secret \in Passwords \cup {"none"}
    /\ aws \in Databases
    /\ DOMAIN cache = Lagging /\ \A k \in Lagging : HasType(k, cache[k])

WorkerOK ==
    /\ pc \in PCs /\ copy \in Instances /\ IsDB(dbCopy) /\ phase \in Phases
    /\ pc \in {"setCredentials", "writeDB"} => Valid(copy.params)
    /\ outcome \in Outcomes

LEMMA TypeParts ==
    /\ TypeOK => WorldOK /\ WorkerOK /\ queued \in BOOLEAN /\ faults \in 0 .. MaxFaults
    /\ WorldOK' /\ WorkerOK' /\ queued' \in BOOLEAN /\ faults' \in 0 .. MaxFaults => TypeOK'
BY DEF TypeOK, WorldOK, WorkerOK

LEMMA SameWorld == WorldOK /\ UNCHANGED world => WorldOK'
BY DEF WorldOK, world, HasType, IsDB

LEMMA SameWorker == WorkerOK /\ UNCHANGED worker => WorkerOK'
BY DEF WorkerOK, worker, IsDB

\* The end of a pass, with the phase it leaves.
LEMMA EndType ==
    ASSUME Updating \/ Failed \/ Requeue \/ NotReady \/ Ready
    PROVE  pc' = "done" /\ pc' \in PCs /\ IsDB(dbCopy)' /\ outcome' \in Outcomes
<1>1. PICK ready \in {"True", "False", "Unknown"}, again \in BOOLEAN : Finish(ready, again)
    BY DEF Updating, Failed, Requeue, NotReady, Ready
<1>2. pc' = "done" /\ dbCopy' = NoDB /\ outcome' \in Outcomes
    BY <1>1 DEF Finish, Outcomes
<1>3. IsDB(dbCopy)'
    BY <1>2, NoDBType DEF IsDB, NoDB
<1> QED
    BY <1>2, <1>3 DEF PCs

LEMMA GotoType ==
    ASSUME WorkerOK, NEW label \in PCs, Goto(label)
    PROVE  pc' = label /\ IsDB(dbCopy)' /\ outcome' \in Outcomes
BY DEF WorkerOK, Goto, IsDB

\* Where the worker can be without a valid copy.
Elsewhere == PCs \ {"setCredentials", "writeDB"}

\* The key is in the queue or not.
LEMMA QueuedType ==
    ASSUME queued \in BOOLEAN, NEW k
    PROVE  QueuedBy(k) \in BOOLEAN
BY DEF QueuedBy

LEMMA TypePass ==
    ASSUME TypeOK,
           \/ GetInstance \/ GetInventory \/ AddFinalizer \/ DeleteDBInstance
           \/ RemoveFinalizer
    PROVE  WorldOK' /\ WorkerOK' /\ queued' \in BOOLEAN /\ faults' \in 0 .. MaxFaults
<1>0. WorldOK /\ WorkerOK /\ queued \in BOOLEAN /\ faults \in 0 .. MaxFaults
    BY TypeParts
<1> USE DEF PCs, CallPCs, Elsewhere
<1>1. CASE GetInstance
    <2>1. copy' \in Instances
        BY <1>1, SeenType DEF GetInstance
    <2>2. pc' \in Elsewhere /\ IsDB(dbCopy)' /\ outcome' \in Outcomes
        BY <1>0, <1>1, GotoType DEF GetInstance
    <2> QED
        BY <1>0, <1>1, <2>1, <2>2, SameWorld DEF GetInstance, WorkerOK
<1>2. CASE GetInventory
    <2>1. pc' \in Elsewhere /\ IsDB(dbCopy)' /\ outcome' \in Outcomes
        <3>1. CASE Seen("inventory") \in {"absent", "notReady"}
            BY <1>2, <3>1, EndType DEF GetInventory
        <3>2. CASE Seen("inventory") \notin {"absent", "notReady"}
            <4>1. \E label \in Elsewhere : Goto(label)
                BY <1>2, <3>2 DEF GetInventory
            <4> QED
                BY <1>0, <4>1, GotoType
        <3> QED
            BY <3>1, <3>2
    <2>2. phase' \in Phases
        BY <1>2 DEF GetInventory, Phases
    <2> QED
        BY <1>0, <1>2, <2>1, <2>2, SameWorld DEF GetInventory, WorkerOK
<1>3. CASE AddFinalizer
    <2>1. pc' \in Elsewhere /\ IsDB(dbCopy)' /\ outcome' \in Outcomes
        BY <1>3, EndType DEF AddFinalizer
    <2>2. instance' \in Instances /\ copy' \in Instances /\ queued' \in BOOLEAN
        <3>1. [copy EXCEPT !.finalizer = TRUE] \in Instances
            BY <1>0 DEF WorkerOK, Instances
        <3>2. queued' \in BOOLEAN
            BY <1>0, <1>3, QueuedType DEF AddFinalizer
        <3> QED
            BY <1>0, <1>3, <3>1, <3>2 DEF AddFinalizer, WorldOK, WorkerOK
    <2> QED
        BY <1>0, <1>3, <2>1, <2>2 DEF AddFinalizer, WorldOK, WorkerOK, HasType, IsDB
<1>4. CASE DeleteDBInstance
    <2>1. pc' \in Elsewhere /\ IsDB(dbCopy)' /\ outcome' \in Outcomes
        BY <1>0, <1>4, EndType, GotoType DEF DeleteDBInstance
    <2>2. IsDB(db') /\ queued' \in BOOLEAN
        BY <1>0, <1>4, QueuedType, DBUpdate, NoDBType DEF DeleteDBInstance, WorldOK, Statuses
    <2> QED
        BY <1>0, <1>4, <2>1, <2>2 DEF DeleteDBInstance, WorldOK, WorkerOK, HasType, IsDB
<1>5. CASE RemoveFinalizer
    <2>1. pc' \in Elsewhere /\ IsDB(dbCopy)' /\ outcome' \in Outcomes
        BY <1>5, EndType DEF RemoveFinalizer
    <2>2. instance' \in Instances /\ copy' \in Instances /\ queued' \in BOOLEAN
          /\ phase' \in Phases
        BY <1>0, <1>5, QueuedType, AbsentType
        DEF RemoveFinalizer, Instances, WorldOK, WorkerOK, Phases
    <2> QED
        BY <1>0, <1>5, <2>1, <2>2 DEF RemoveFinalizer, WorldOK, WorkerOK, HasType, IsDB
<1> QED
    BY <1>1, <1>2, <1>3, <1>4, <1>5

LEMMA SyncEnds ==
    ASSUME TypeOK, SyncDBInstanceStatus
    PROVE  pc' = "done" /\ IsDB(dbCopy)' /\ outcome' \in Outcomes
<1>1. CASE Seen("db").present /\ copy = instance
    <2>1. copy'.phase = PhaseOf(Seen("db").status) /\ Conclude(copy'.phase)
        BY <1>1 DEF SyncDBInstanceStatus, TypeOK, Instances
    <2> QED
        BY <2>1, EndType, PhaseType DEF Conclude, Phases
<1>2. CASE ~(Seen("db").present /\ copy = instance)
    BY <1>2, EndType DEF SyncDBInstanceStatus
<1> QED
    BY <1>1, <1>2

LEMMA TypeWrite ==
    ASSUME TypeOK,
           \/ GetDBInstance \/ SetCredentials \/ WriteDBInstance
           \/ SyncDBInstanceStatus \/ UpdateReadyCondition
    PROVE  WorldOK' /\ WorkerOK' /\ queued' \in BOOLEAN /\ faults' \in 0 .. MaxFaults
<1>0. WorldOK /\ WorkerOK /\ queued \in BOOLEAN /\ faults \in 0 .. MaxFaults
    BY TypeParts
<1> USE DEF PCs, CallPCs
<1>1. CASE GetDBInstance
    <2>1. pc' \in PCs /\ IsDB(dbCopy)' /\ outcome' \in Outcomes
        <3>1. CASE Valid(copy.params)
            <4>1. IsDB(Seen("db")) /\ pc' = "setCredentials" /\ dbCopy' = Seen("db")
                  /\ outcome' = outcome
                BY <1>1, <3>1, SeenType DEF GetDBInstance
            <4> QED
                BY <1>0, <4>1 DEF IsDB, WorkerOK
        <3>2. CASE ~Valid(copy.params)
            BY <1>1, <3>2, EndType DEF GetDBInstance
        <3> QED
            BY <3>1, <3>2
    <2> QED
        BY <1>0, <1>1, <2>1, EndType, SameWorld DEF GetDBInstance, WorkerOK
<1>2. CASE SetCredentials
    <2>1. pc' \in PCs /\ IsDB(dbCopy)' /\ outcome' \in Outcomes
        BY <1>0, <1>2, EndType, GotoType DEF SetCredentials
    <2>2. secret' \in Passwords \cup {"none"}
        BY <1>0, <1>2 DEF SetCredentials, WorldOK
    <2> QED
        BY <1>0, <1>2, <2>1, <2>2 DEF SetCredentials, WorldOK, WorkerOK, HasType, IsDB
<1>3. CASE WriteDBInstance
    <2>1. pc' \in PCs /\ IsDB(dbCopy)' /\ outcome' \in Outcomes
        BY <1>0, <1>3, EndType, GotoType DEF WriteDBInstance
    <2>2. IsDB(db') /\ queued' \in BOOLEAN /\ phase' \in Phases
        <3>1. pc = "writeDB" /\ IsDB(Desired)
            BY <1>0, <1>3, DesiredType DEF WriteDBInstance, WorkerOK
        <3> QED
            BY <1>0, <1>3, <3>1, QueuedType DEF WriteDBInstance, WorldOK, WorkerOK, Phases
    <2> QED
        BY <1>0, <1>3, <2>1, <2>2 DEF WriteDBInstance, WorldOK, WorkerOK, HasType, IsDB
<1>4. CASE SyncDBInstanceStatus
    <2> DEFINE new == [copy EXCEPT !.phase = PhaseOf(Seen("db").status),
                                   !.info = ParseDBInstanceStatus(Seen("db"))]
    <2>1. new \in Instances
        BY <1>0, SeenType, MirrorUpdate DEF WorkerOK
    <2>2. instance' \in Instances /\ copy' \in Instances /\ queued' \in BOOLEAN
        BY <1>0, <1>4, <2>1, QueuedType DEF SyncDBInstanceStatus, WorldOK, WorkerOK
    <2>3. pc' = "done" /\ IsDB(dbCopy)' /\ outcome' \in Outcomes
        BY <1>4, SyncEnds
    <2> QED
        BY <1>0, <1>4, <2>2, <2>3 DEF SyncDBInstanceStatus, WorldOK, WorkerOK, HasType, IsDB
<1>5. CASE UpdateReadyCondition
    <2>1. instance' \in Instances
        <3> DEFINE new == [copy EXCEPT !.ready = outcome.ready,
                                       !.phase = IF phase = "" THEN @ ELSE phase]
        <3>1. new \in Instances
            BY <1>0 DEF WorkerOK, Instances, Outcomes
        <3>2. instance' \in {instance, new}
            BY <1>5 DEF UpdateReadyCondition
        <3> QED
            BY <1>0, <3>1, <3>2 DEF WorldOK
    <2>2. copy' \in Instances /\ outcome' \in Outcomes /\ phase' \in Phases
        BY <1>5, AbsentType DEF UpdateReadyCondition, Outcomes, NoOutcome, Phases
    <2>3. queued' \in BOOLEAN
        BY <1>0, <1>5 DEF UpdateReadyCondition, WorkerOK, Outcomes
    <2> QED
        BY <1>0, <1>5, <2>1, <2>2, <2>3 DEF UpdateReadyCondition, WorldOK, WorkerOK, HasType, IsDB
<1> QED
    BY <1>1, <1>2, <1>3, <1>4, <1>5

LEMMA TypeTrouble ==
    ASSUME TypeOK,
           Start \/ CallFails \/ Conflict \/ Restart \/ \E k \in Kinds : InformerSync(k)
    PROVE  WorldOK' /\ WorkerOK' /\ queued' \in BOOLEAN /\ faults' \in 0 .. MaxFaults
<1>0. WorldOK /\ WorkerOK /\ queued \in BOOLEAN /\ faults \in 0 .. MaxFaults
    BY TypeParts
<1>1. ASSUME NEW f, Fault(f) PROVE faults' \in 0 .. MaxFaults
    BY <1>0, <1>1, InstanceAssumption DEF Fault
<1>2. \A k \in Kinds : HasType(k, Stored(k))
    BY StoredType
<1>3. CASE CallFails \/ Conflict
    <2>1. pc' = "done" /\ IsDB(dbCopy)' /\ outcome' \in Outcomes
        BY <1>3, EndType DEF CallFails, Conflict
    <2>2. UNCHANGED <<world, queued, copy, phase>> /\ faults' \in 0 .. MaxFaults
        BY <1>1, <1>3 DEF CallFails, Conflict
    <2> QED
        BY <1>0, <2>1, <2>2, SameWorld DEF WorkerOK, PCs
<1>4. CASE Restart
    <2>1. /\ pc' = "down" /\ queued' = FALSE /\ copy' = AbsentInstance /\ dbCopy' = NoDB
          /\ phase' = "" /\ outcome' = NoOutcome /\ UNCHANGED world
        BY <1>4 DEF Restart
    <2>2. outcome' \in Outcomes /\ phase' \in Phases /\ IsDB(dbCopy)'
        BY <2>1, NoDBType DEF NoOutcome, Outcomes, Phases, IsDB
    <2> QED
        BY <1>0, <1>1, <1>4, <2>1, <2>2, SameWorld, AbsentType DEF Restart, WorkerOK, PCs
<1>5. CASE Start
    <2>1. DOMAIN cache' = Lagging /\ \A k \in Lagging : HasType(k, cache'[k])
        BY <1>2, <1>5, InstanceAssumption DEF Start
    <2> QED
        BY <1>0, <1>5, <2>1 DEF Start, WorldOK, WorkerOK, HasType, IsDB, PCs
<1>6. ASSUME NEW k \in Kinds, InformerSync(k)
      PROVE  WorldOK' /\ WorkerOK' /\ queued' \in BOOLEAN /\ faults' \in 0 .. MaxFaults
    <2>1. DOMAIN cache' = Lagging /\ \A l \in Lagging : HasType(l, cache'[l])
        BY <1>0, <1>2, <1>6 DEF InformerSync, WorldOK
    <2>2. WorldOK'
        BY <1>0, <1>6, <2>1 DEF InformerSync, WorldOK, HasType, IsDB
    <2> QED
        BY <1>0, <1>6, <2>2, SameWorker DEF InformerSync
<1> QED
    BY <1>3, <1>4, <1>5, <1>6

\* The steps of all but the operator.
Surroundings ==
    \/ CreateInstance \/ EditInstance \/ DeleteInstance \/ InventoryChanges
    \/ AckManage \/ AckCreate \/ AckStatus \/ AckDelete
    \/ AwsSettles \/ AwsModifies \/ AwsFails \/ AwsDeletes \/ CollectSecret

LEMMA TypeSurroundings ==
    ASSUME TypeOK, Surroundings
    PROVE  WorldOK' /\ WorkerOK' /\ queued' \in BOOLEAN /\ faults' \in 0 .. MaxFaults
<1>0. WorldOK /\ WorkerOK /\ queued \in BOOLEAN /\ faults \in 0 .. MaxFaults
    BY TypeParts
<1>1. CASE CreateInstance \/ EditInstance \/ DeleteInstance
    <2>1. instance' \in Instances
        <3>1. CASE CreateInstance \/ EditInstance
            <4>1. PICK p \in Params, i \in {instance, [AbsentInstance EXCEPT !.state = "live"]} :
                      instance' = [i EXCEPT !.params = p]
                BY <3>1 DEF CreateInstance, EditInstance, AbsentInstance
            <4>2. i \in Instances
                BY <1>0, AbsentType DEF WorldOK, Instances
            <4> QED
                BY <4>1, <4>2 DEF Instances
        <3>2. CASE DeleteInstance
            BY <1>0, <3>2, AbsentType DEF DeleteInstance, WorldOK, Instances
        <3> QED
            BY <1>1, <3>1, <3>2
    <2>2. /\ queued' \in BOOLEAN
          /\ UNCHANGED <<inventory, db, secret, aws, cache, worker, faults>>
        BY <1>0, <1>1, QueuedType DEF CreateInstance, EditInstance, DeleteInstance
    <2> QED
        BY <1>0, <2>1, <2>2, SameWorker DEF WorldOK, HasType, IsDB
<1>2. CASE InventoryChanges
    BY <1>0, <1>2, SameWorker DEF InventoryChanges, WorldOK, HasType, IsDB
<1>3. CASE AckManage \/ AckStatus \/ AckDelete
    <2>1. db.present
        BY <1>0, <1>3 DEF AckManage, AckStatus, AckDelete, WorldOK, IsDB, NoDB
    <2>2. IsDB(db') /\ aws' \in Databases
        <3>1. CASE AckManage
            BY <1>0, <2>1, <3>1, DBUpdate DEF AckManage, WorldOK, Statuses
        <3>2. CASE AckStatus
            <4>1. aws.status \in Statuses
                BY <1>0, <3>2 DEF AckStatus, WorldOK, Databases
            <4> QED
                BY <1>0, <2>1, <3>2, <4>1, DBUpdate DEF AckStatus, WorldOK
        <3>3. CASE AckDelete
            <4>1. [aws EXCEPT !.status = "deleting"] \in Databases
                BY <1>0 DEF WorldOK, Databases, Statuses
            <4> QED
                BY <1>0, <3>3, <4>1, NoDBType DEF AckDelete, WorldOK, IsDB
        <3> QED
            BY <1>3, <3>1, <3>2, <3>3
    <2>3. /\ queued' \in BOOLEAN
          /\ UNCHANGED <<instance, inventory, secret, cache, worker, faults>>
        BY <1>0, <1>3, QueuedType DEF AckManage, AckStatus, AckDelete, DBChanged
    <2> QED
        BY <1>0, <2>2, <2>3, SameWorker DEF WorldOK, HasType, IsDB
<1>4. CASE AckCreate \/ AwsSettles \/ AwsModifies \/ AwsFails \/ AwsDeletes
    <2>1. aws' \in Databases
        <3>1. CASE AckCreate
            BY <1>0, <3>1 DEF AckCreate, WorldOK, Databases, IsDB, Statuses
        <3>2. CASE AwsSettles \/ AwsModifies \/ AwsFails
            BY <1>0, <3>2
            DEF AwsSettles, AwsModifies, AwsFails, AwsChanges, WorldOK, Databases, Statuses
        <3>3. CASE AwsDeletes
            BY <3>3 DEF AwsDeletes, Databases, NoDatabase, Usernames
        <3> QED
            BY <1>4, <3>1, <3>2, <3>3
    <2>2. UNCHANGED <<instance, inventory, db, secret, cache, queued, worker, faults>>
        BY <1>4 DEF AckCreate, AwsSettles, AwsModifies, AwsFails, AwsChanges, AwsDeletes
    <2> QED
        BY <1>0, <2>1, <2>2, SameWorker DEF WorldOK, HasType, IsDB
<1>5. CASE CollectSecret
    BY <1>0, <1>5, SameWorker DEF CollectSecret, WorldOK, HasType, IsDB
<1> QED
    BY <1>1, <1>2, <1>3, <1>4, <1>5 DEF Surroundings

LEMMA NextIs ==
    Next => \/ Reconcile \/ Surroundings
            \/ Start \/ CallFails \/ Conflict \/ Restart \/ \E k \in Kinds : InformerSync(k)
BY DEF Next, Surroundings

LEMMA TypeStep == TypeOK /\ [Next]_vars => TypeOK'
<1> SUFFICES ASSUME TypeOK, [Next]_vars
             PROVE  WorldOK' /\ WorkerOK' /\ queued' \in BOOLEAN /\ faults' \in 0 .. MaxFaults
    BY TypeParts
<1>1. CASE UNCHANGED vars
    BY <1>1, TypeParts, SameWorld, SameWorker DEF vars
<1>2. CASE Reconcile
    BY <1>2, TypePass, TypeWrite DEF Reconcile
<1> QED
    BY <1>1, <1>2, NextIs, TypeTrouble, TypeSurroundings

\* Every variable of the RDSInstance's system, and every cache, holds a value the code can
\* give it.
THEOREM TypeCorrect == Spec => []TypeOK
BY InitType, TypeStep, PTL DEF Spec

-----------------------------------------------------------------------------
(* The finalizer.                                                              *)

LEMMA GuardInit == Init => Finalized /\ Current
<1> SUFFICES ASSUME Init PROVE Finalized /\ Current
    OBVIOUS
<1>1. Seen("instance") = instance
    BY DEF Init, Seen, Stored
<1>2. instance.state = "absent" /\ ~instance.finalizer /\ pc = "idle"
    BY DEF Init, AbsentInstance
<1> QED
    BY <1>1, <1>2 DEF Finalized, Current, Live, Writing, Deleting

\* What the API server and the cache have of the RDSInstance stays, and the worker is
\* between two passes.
LEMMA GuardEnd ==
    ASSUME Finalized, Current, UNCHANGED <<instance, cache>>, pc' \in {"done", "idle", "down"}
    PROVE  Finalized' /\ Current'
BY DEF Finalized, Current, Live, Writing, Deleting, Seen, Stored

\* The worker goes on with the DBInstance.
LEMMA GuardWriting ==
    ASSUME Finalized, Current, UNCHANGED <<instance, cache>>, pc \in Writing,
           pc' \in Writing \cup {"done"}
    PROVE  Finalized' /\ Current'
BY DEF Finalized, Current, Live, Writing, Deleting, Seen, Stored

LEMMA GuardSame ==
    ASSUME Finalized, Current, UNCHANGED <<instance, cache, pc, copy>>
    PROVE  Finalized' /\ Current'
BY DEF Finalized, Current, Live, Writing, Deleting, Seen, Stored

LEMMA GuardPass ==
    ASSUME TypeOK, Finalized, Current,
           \/ GetInstance \/ GetInventory \/ AddFinalizer \/ DeleteDBInstance
           \/ RemoveFinalizer
    PROVE  Finalized' /\ Current'
<1> DEFINE c == Seen("instance")
<1>0. c \in Instances /\ instance \in Instances /\ copy \in Instances
    BY SeenType DEF TypeOK
<1>1. CASE GetInstance
    <2>1. /\ copy' = c /\ pc' = IF c.state = "absent" THEN "idle" ELSE "getInventory"
          /\ UNCHANGED <<instance, cache>>
        BY <1>1 DEF GetInstance, Goto, world
    <2>2. c' = c
        BY <2>1 DEF Seen, Stored
    <2> QED
        BY <1>0, <2>1, <2>2 DEF Finalized, Current, Live, Writing, Deleting, Instances
<1>2. CASE GetInventory
    <2>1. pc = "getInventory" /\ UNCHANGED <<instance, cache, copy>>
        BY <1>2 DEF GetInventory, world
    <2>2. \/ pc' = "done"
          \/ pc' = "getDeleted" /\ copy.state = "deleting"
          \/ pc' = "addFinalizer" /\ copy.state = "live" /\ ~copy.finalizer
          \/ pc' = "getDB" /\ copy.state # "deleting" /\ ~(copy.state = "live" /\ ~copy.finalizer)
        BY <1>2, EndType DEF GetInventory, Goto
    <2>3. c' = c
        BY <2>1 DEF Seen, Stored
    <2> QED
        BY <1>0, <2>1, <2>2, <2>3 DEF Finalized, Current, Live, Writing, Deleting, Instances
<1>3. CASE AddFinalizer
    <2>1. pc = "addFinalizer" /\ pc' = "done" /\ cache' = cache
        BY <1>3, EndType DEF AddFinalizer
    <2>2. CASE copy = instance
        <3>1. instance' = [instance EXCEPT !.finalizer = TRUE] /\ instance.state = "live"
              /\ ~instance.finalizer
            BY <1>3, <2>1, <2>2 DEF AddFinalizer, Current
        <3>2. c' = c \/ c' = instance'
            BY <2>1 DEF Seen, Stored
        <3> QED
            BY <1>0, <2>1, <2>2, <3>1, <3>2
            DEF Finalized, Current, Live, Writing, Deleting, Instances
    <2>3. CASE copy # instance
        BY <1>3, <2>1, <2>3, GuardEnd DEF AddFinalizer
    <2> QED
        BY <2>2, <2>3
<1>4. CASE DeleteDBInstance
    <2>1. pc = "getDeleted" /\ UNCHANGED <<instance, cache, copy>>
        BY <1>4 DEF DeleteDBInstance
    <2>2. pc' \in {"done", "removeFinalizer"}
        BY <1>4, EndType DEF DeleteDBInstance, Goto
    <2> QED
        BY <2>1, <2>2 DEF Finalized, Current, Live, Writing, Deleting, Seen, Stored
<1>5. CASE RemoveFinalizer
    <2>1. pc = "removeFinalizer" /\ pc' = "done" /\ cache' = cache
        BY <1>5, EndType DEF RemoveFinalizer
    <2>2. CASE copy = instance
        <3>1. instance' = AbsentInstance /\ ~Live(c) /\ copy.state = "deleting"
            BY <1>5, <2>1, <2>2 DEF RemoveFinalizer, Current, Deleting
        <3>2. c' = c \/ c' = AbsentInstance
            BY <2>1, <3>1 DEF Seen, Stored
        <3> QED
            BY <1>0, <2>1, <3>1, <3>2
            DEF Finalized, Current, Live, Writing, Deleting, AbsentInstance
    <2>3. CASE copy # instance
        BY <1>5, <2>1, <2>3, GuardEnd DEF RemoveFinalizer
    <2> QED
        BY <2>2, <2>3
<1> QED
    BY <1>1, <1>2, <1>3, <1>4, <1>5

LEMMA GuardWrite ==
    ASSUME TypeOK, Finalized, Current,
           \/ GetDBInstance \/ SetCredentials \/ WriteDBInstance
           \/ SyncDBInstanceStatus \/ UpdateReadyCondition
    PROVE  Finalized' /\ Current'
<1> DEFINE c == Seen("instance")
<1>0. c \in Instances /\ instance \in Instances /\ copy \in Instances
    BY SeenType DEF TypeOK
<1>1. CASE GetDBInstance \/ SetCredentials \/ WriteDBInstance
    <2>1. UNCHANGED <<instance, cache>> /\ pc \in Writing
        BY <1>1 DEF GetDBInstance, SetCredentials, WriteDBInstance, world, Writing
    <2>2. pc' \in Writing \cup {"done"}
        BY <1>1, EndType DEF GetDBInstance, SetCredentials, WriteDBInstance, Goto, Writing
    <2> QED
        BY <2>1, <2>2, GuardWriting
<1>2. CASE SyncDBInstanceStatus \/ UpdateReadyCondition
    <2>1. cache' = cache /\ pc' \in {"done", "idle"}
        BY <1>2, SyncEnds DEF SyncDBInstanceStatus, UpdateReadyCondition
    <2>2. instance'.state = instance.state /\ instance'.finalizer = instance.finalizer
        BY <1>0, <1>2 DEF SyncDBInstanceStatus, UpdateReadyCondition, Instances
    <2>3. c' = c \/ (c' = instance' /\ c = instance)
        <3>1. CASE "instance" \in Lagging
            BY <2>1, <3>1 DEF Seen
        <3>2. CASE "instance" \notin Lagging
            BY <3>2 DEF Seen, Stored
        <3> QED
            BY <3>1, <3>2
    <2> QED
        BY <2>1, <2>2, <2>3 DEF Finalized, Current, Live, Writing, Deleting
<1> QED
    BY <1>1, <1>2

LEMMA GuardTrouble ==
    ASSUME TypeOK, Finalized, Current,
           Start \/ CallFails \/ Conflict \/ Restart \/ \E k \in Kinds : InformerSync(k)
    PROVE  Finalized' /\ Current'
<1>0. Seen("instance") \in Instances /\ instance \in Instances
    BY SeenType DEF TypeOK
<1>1. CASE CallFails \/ Conflict \/ Restart
    <2>1. UNCHANGED <<instance, cache>> /\ pc' \in {"done", "down"}
        BY <1>1, EndType DEF CallFails, Conflict, Restart, world
    <2> QED
        BY <2>1, GuardEnd
<1>2. CASE Start
    <2>1. instance' = instance /\ Seen("instance")' = instance /\ pc' = "idle"
        BY <1>2 DEF Start, Seen, Stored
    <2> QED
        BY <1>0, <2>1 DEF Finalized, Current, Live, Writing, Deleting, Instances
<1>3. ASSUME NEW k \in Kinds, InformerSync(k) PROVE Finalized' /\ Current'
    <2>1. UNCHANGED <<instance, pc, copy>>
        BY <1>3 DEF InformerSync, worker
    <2>2. Seen("instance")' \in {Seen("instance"), instance}
        <3>1. CASE k = "instance"
            BY <1>3, <3>1 DEF InformerSync, TypeOK, Seen, Stored
        <3>2. CASE k # "instance"
            BY <1>3, <3>2 DEF InformerSync, TypeOK, Seen, Stored
        <3> QED
            BY <3>1, <3>2
    <2> QED
        BY <1>0, <2>1, <2>2 DEF Finalized, Current, Live, Writing, Deleting, Instances
<1> QED
    BY <1>1, <1>2, <1>3

LEMMA GuardSurroundings ==
    ASSUME TypeOK, Finalized, Current, Surroundings
    PROVE  Finalized' /\ Current'
<1>0. Seen("instance") \in Instances /\ instance \in Instances /\ copy \in Instances
    BY SeenType DEF TypeOK
<1>1. CASE CreateInstance \/ EditInstance \/ DeleteInstance
    <2>1. UNCHANGED <<cache, pc, copy>>
        BY <1>1 DEF CreateInstance, EditInstance, DeleteInstance, worker
    <2>2. instance'.finalizer = instance.finalizer
          /\ \/ instance.state = "absent" /\ instance'.state = "live"
             \/ instance.state = "live" /\ instance'.state = "live"
             \/ instance.state = "live" /\ instance.finalizer /\ instance'.state = "deleting"
             \/ instance.state = "live" /\ ~instance.finalizer /\ instance'.state = "absent"
        <3>1. CASE CreateInstance
            BY <1>0, <3>1 DEF CreateInstance, AbsentInstance, Finalized, Instances
        <3>2. CASE EditInstance
            BY <1>0, <3>2 DEF EditInstance, Instances
        <3>3. CASE DeleteInstance
            BY <1>0, <3>3 DEF DeleteInstance, AbsentInstance, Instances
        <3> QED
            BY <1>1, <3>1, <3>2, <3>3
    <2>3. Seen("instance")' = Seen("instance")
              \/ (Seen("instance")' = instance' /\ Seen("instance") = instance)
        <3>1. CASE "instance" \in Lagging
            BY <2>1, <3>1 DEF Seen
        <3>2. CASE "instance" \notin Lagging
            BY <3>2 DEF Seen, Stored
        <3> QED
            BY <3>1, <3>2
    <2> QED
        BY <1>0, <2>1, <2>2, <2>3 DEF Finalized, Current, Live, Writing, Deleting, Instances
<1>2. CASE ~(CreateInstance \/ EditInstance \/ DeleteInstance)
    <2>1. UNCHANGED <<instance, cache, pc, copy>>
        BY <1>2
        DEF Surroundings, InventoryChanges, AckManage, AckCreate, AckStatus, AckDelete,
            DBChanged, AwsSettles, AwsModifies, AwsFails, AwsChanges, AwsDeletes,
            CollectSecret, worker
    <2> QED
        BY <2>1, GuardSame
<1> QED
    BY <1>1, <1>2

LEMMA GuardStep ==
    ASSUME TypeOK, Finalized, Current, [Next]_vars PROVE Finalized' /\ Current'
<1>1. CASE UNCHANGED vars
    BY <1>1, GuardSame DEF vars, world, worker
<1>2. CASE Reconcile
    BY <1>2, GuardPass, GuardWrite DEF Reconcile
<1> QED
    BY <1>1, <1>2, NextIs, GuardTrouble, GuardSurroundings

-----------------------------------------------------------------------------
(* The DBInstance, its Secret and the database.                                *)

LEMMA ProvisionedInit == Init => Provisioned
<1> SUFFICES ASSUME Init PROVE Provisioned
    OBVIOUS
<1>1. ~db.present /\ aws.status = "none" /\ pc = "idle"
    BY DEF Init, NoDB, NoDatabase
<1> QED
    BY <1>1 DEF Provisioned

\* A step that leaves the DBInstance, the Secret and the database alone.
LEMMA ProvisionedSame ==
    ASSUME Provisioned, UNCHANGED <<db, secret, aws>>,
           instance'.finalizer = instance.finalizer \/ instance'.finalizer,
           pc' \in {pc} \cup (PCs \ {"removeFinalizer"})
    PROVE  Provisioned'
BY DEF Provisioned

LEMMA ProvisionedPass ==
    ASSUME TypeOK, Finalized, Provisioned, "db" \notin Lagging, Reconcile
    PROVE  Provisioned'
<1>0. instance \in Instances /\ copy \in Instances /\ IsDB(db) /\ IsDB(dbCopy)
    BY DEF TypeOK
<1> USE DEF PCs, CallPCs
<1>1. CASE GetInstance \/ GetInventory \/ GetDBInstance
    <2>1. UNCHANGED <<instance, db, secret, aws>>
        BY <1>1 DEF GetInstance, GetInventory, GetDBInstance, world
    <2>2. pc' \in PCs \ {"removeFinalizer"}
        BY <1>1, EndType DEF GetInstance, GetInventory, GetDBInstance, Goto
    <2> QED
        BY <2>1, <2>2, ProvisionedSame
<1>2. CASE AddFinalizer \/ SyncDBInstanceStatus \/ UpdateReadyCondition
    <2>1. UNCHANGED <<db, secret, aws>>
        BY <1>2 DEF AddFinalizer, SyncDBInstanceStatus, UpdateReadyCondition
    <2>2. instance'.finalizer = instance.finalizer \/ instance'.finalizer
        BY <1>0, <1>2 DEF AddFinalizer, SyncDBInstanceStatus, UpdateReadyCondition, Instances
    <2>3. pc' \in {"done", "idle"}
        BY <1>2, EndType, SyncEnds DEF AddFinalizer, UpdateReadyCondition
    <2> QED
        BY <2>1, <2>2, <2>3, ProvisionedSame
<1>3. CASE DeleteDBInstance
    <2>1. pc = "getDeleted" /\ UNCHANGED <<instance, secret, aws>> /\ Seen("db") = db
        BY <1>3 DEF DeleteDBInstance, Seen, Stored
    <2>2. CASE ~db.present
        BY <1>3, <2>1, <2>2 DEF DeleteDBInstance, DBDeleted, Goto, Provisioned
    <2>3. CASE db.present
        <3>1. pc' = "done"
              /\ db' = IF db.managed THEN [db EXCEPT !.deleting = TRUE] ELSE NoDB
            BY <1>3, <2>1, <2>3, EndType DEF DeleteDBInstance, DBDeleted
        <3>2. CASE db.managed
            BY <1>0, <2>1, <3>1, <3>2 DEF Provisioned, IsDB
        <3>3. CASE ~db.managed
            BY <2>1, <3>1, <3>3 DEF Provisioned, NoDB
        <3> QED
            BY <3>2, <3>3
    <2> QED
        BY <2>2, <2>3
<1>4. CASE RemoveFinalizer
    <2>1. /\ pc = "removeFinalizer" /\ pc' = "done"
          /\ UNCHANGED <<db, secret, aws>>
        BY <1>4, EndType DEF RemoveFinalizer
    <2> QED
        BY <2>1 DEF Provisioned
<1>5. CASE SetCredentials
    <2>1. /\ pc = "setCredentials" /\ UNCHANGED <<instance, db, aws>>
          /\ secret # "none" => secret' = secret
        BY <1>5 DEF SetCredentials
    <2>2. pc' \in {"done", "writeDB"}
        BY <1>5, EndType DEF SetCredentials, Goto
    <2> QED
        BY <2>1, <2>2 DEF Provisioned
<1>6. CASE WriteDBInstance
    <2>1. pc = "writeDB" /\ UNCHANGED <<instance, secret, aws>> /\ instance.finalizer
        BY <1>6 DEF WriteDBInstance, Finalized, Writing
    <2>2. pc' \in {"sync", "done"}
        BY <1>6, EndType DEF WriteDBInstance, Goto
    <2>3. db' = db \/ (dbCopy = db /\ db' = Desired)
        BY <1>6 DEF WriteDBInstance
    <2>4. Desired.present /\ Desired.managed = dbCopy.managed
          /\ (dbCopy.username # "none" => Desired.username = dbCopy.username)
        BY <2>1, DesiredType DEF TypeOK
    <2> QED
        BY <1>0, <2>1, <2>2, <2>3, <2>4 DEF Provisioned, IsDB
<1> QED
    BY <1>1, <1>2, <1>3, <1>4, <1>5, <1>6 DEF Reconcile

LEMMA ProvisionedSurroundings ==
    ASSUME TypeOK, Finalized, Provisioned, Surroundings
    PROVE  Provisioned'
<1>0. instance \in Instances /\ IsDB(db) /\ aws \in Databases
    BY DEF TypeOK
<1>1. CASE CreateInstance \/ EditInstance \/ DeleteInstance \/ InventoryChanges
    <2>1. UNCHANGED <<db, secret, aws, pc>>
        BY <1>1 DEF CreateInstance, EditInstance, DeleteInstance, InventoryChanges, worker
    <2>2. instance'.finalizer = instance.finalizer
        <3>1. CASE CreateInstance
            BY <1>0, <3>1 DEF CreateInstance, AbsentInstance, Finalized, Instances
        <3>2. CASE EditInstance \/ InventoryChanges
            BY <1>0, <3>2 DEF EditInstance, InventoryChanges, Instances
        <3>3. CASE DeleteInstance
            BY <1>0, <3>3 DEF DeleteInstance, AbsentInstance, Instances
        <3> QED
            BY <1>1, <3>1, <3>2, <3>3
    <2> QED
        BY <2>1, <2>2, ProvisionedSame
<1>2. CASE AckManage \/ AckStatus \/ AckDelete
    <2>1. UNCHANGED <<instance, secret, pc>>
        BY <1>2 DEF AckManage, AckStatus, AckDelete, DBChanged, worker
    <2>2. CASE AckManage
        BY <1>0, <2>1, <2>2 DEF AckManage, Provisioned, IsDB
    <2>3. CASE AckStatus
        BY <1>0, <2>1, <2>3 DEF AckStatus, Provisioned, IsDB
    <2>4. CASE AckDelete
        BY <1>0, <2>1, <2>4 DEF AckDelete, Provisioned, IsDB, NoDB, Databases
    <2> QED
        BY <1>2, <2>2, <2>3, <2>4
<1>3. CASE AckCreate \/ AwsSettles \/ AwsModifies \/ AwsFails \/ AwsDeletes
    <2>1. UNCHANGED <<instance, db, secret, pc>>
        BY <1>3
        DEF AckCreate, AwsSettles, AwsModifies, AwsFails, AwsChanges, AwsDeletes, worker
    <2>2. CASE AckCreate
        BY <1>0, <2>1, <2>2 DEF AckCreate, Provisioned, IsDB, NoDB
    <2>3. CASE AwsSettles \/ AwsModifies \/ AwsFails
        BY <1>0, <2>1, <2>3
        DEF AwsSettles, AwsModifies, AwsFails, AwsChanges, Provisioned, Databases
    <2>4. CASE AwsDeletes
        BY <2>1, <2>4 DEF AwsDeletes, Provisioned, NoDatabase
    <2> QED
        BY <1>3, <2>2, <2>3, <2>4
<1>4. CASE CollectSecret
    BY <1>4 DEF CollectSecret, Provisioned, Finalized, Writing, worker
<1> QED
    BY <1>1, <1>2, <1>3, <1>4 DEF Surroundings

LEMMA ProvisionedStep ==
    ASSUME TypeOK, Finalized, Provisioned, "db" \notin Lagging, [Next]_vars
    PROVE  Provisioned'
<1>1. CASE UNCHANGED vars
    BY <1>1, ProvisionedSame DEF vars, world, worker
<1>2. CASE Start \/ CallFails \/ Conflict \/ Restart \/ \E k \in Kinds : InformerSync(k)
    <2>1. UNCHANGED <<instance, db, secret, aws>>
        BY <1>2 DEF Start, CallFails, Conflict, Restart, InformerSync, world
    <2>2. pc' \in {pc, "idle", "done", "down"}
        BY <1>2, EndType DEF Start, CallFails, Conflict, Restart, InformerSync, worker
    <2> QED
        BY <2>1, <2>2, ProvisionedSame DEF PCs, CallPCs
<1> QED
    BY <1>1, <1>2, NextIs, ProvisionedPass, ProvisionedSurroundings

-----------------------------------------------------------------------------
(* The theorems.                                                               *)

LEMMA InvStep ==
    ASSUME TypeOK, InstanceInv, "db" \notin Lagging, [Next]_vars PROVE InstanceInv'
BY GuardStep, ProvisionedStep DEF InstanceInv

LEMMA InvHolds == ASSUME "db" \notin Lagging PROVE Spec => [](TypeOK /\ InstanceInv)
<1>1. Init => TypeOK /\ InstanceInv
    BY InitType, GuardInit, ProvisionedInit DEF InstanceInv
<1>2. TypeOK /\ InstanceInv /\ [Next]_vars => TypeOK' /\ InstanceInv'
    BY TypeStep, InvStep
<1> QED
    BY <1>1, <1>2, PTL DEF Spec

\* With an up-to-date cache of DBInstances, a RDSInstance that is gone has left no
\* DBInstance and no database: checkFinalizer removes the finalizer last.
THEOREM FinalizerWorks == ASSUME "db" \notin Lagging PROVE Spec => []NothingLeft
<1>1. TypeOK /\ InstanceInv => NothingLeft
    BY DEF TypeOK, InstanceInv, Finalized, Provisioned, NothingLeft
<1> QED
    BY <1>1, InvHolds, PTL

\* The Secret and the DBInstance hold the password and the username of the database as
\* long as its RDSInstance is there, whatever fails, whatever parameters are edited, and
\* however old the caches are, that of DBInstances apart.
THEOREM CredentialsHold == ASSUME "db" \notin Lagging PROVE Spec => []CredentialsKept
<1>1. InstanceInv => CredentialsKept
    BY DEF InstanceInv, Provisioned, CredentialsKept
<1> QED
    BY <1>1, InvHolds, PTL

-----------------------------------------------------------------------------
(* The refinement of MasterCredential.                                         *)

Database == IF aws.status = "none" THEN "gone" ELSE aws.password
Referenced == db.present /\ secret # "none"

\* What the API server and AWS say of one DBInstance changes in one place at a time.
LEMMA OneAtATime ==
    ASSUME TypeOK, InstanceInv, "db" \notin Lagging, [Next]_vars
    PROVE  /\ secret' # secret => db'.present = db.present /\ Database' = Database
           /\ db'.present # db.present => Database' = Database
           /\ secret' # secret => secret = "none" \/ ~db.present
<1>0. instance \in Instances /\ IsDB(db) /\ IsDB(dbCopy)
    BY DEF TypeOK
<1> USE DEF Database
<1>1. CASE SetCredentials
    <2>1. UNCHANGED <<db, aws>> /\ (secret # "none" => secret' = secret)
        BY <1>1 DEF SetCredentials
    <2> QED
        BY <2>1
<1>2. CASE CollectSecret
    BY <1>2 DEF CollectSecret, InstanceInv, Provisioned, Finalized
<1>3. CASE WriteDBInstance \/ DeleteDBInstance
    BY <1>3 DEF WriteDBInstance, DeleteDBInstance
<1>4. CASE AckManage \/ AckStatus
    BY <1>0, <1>4 DEF AckManage, AckStatus, DBChanged
<1>5. CASE AckDelete
    <2>1. secret' = secret
        BY <1>5 DEF AckDelete, DBChanged
    <2>2. db'.present # db.present => aws' = aws
        BY <1>5 DEF AckDelete
    <2> QED
        BY <2>1, <2>2
<1>6. CASE AckCreate \/ AwsSettles \/ AwsModifies \/ AwsFails \/ AwsDeletes
    BY <1>6 DEF AckCreate, AwsSettles, AwsModifies, AwsFails, AwsChanges, AwsDeletes
<1>7. CASE \/ GetInstance \/ GetInventory \/ AddFinalizer \/ RemoveFinalizer \/ GetDBInstance
           \/ SyncDBInstanceStatus \/ UpdateReadyCondition
    BY <1>7
    DEF GetInstance, GetInventory, AddFinalizer, RemoveFinalizer, GetDBInstance,
        SyncDBInstanceStatus, UpdateReadyCondition, world
<1>8. CASE Start \/ CallFails \/ Conflict \/ Restart \/ \E k \in Kinds : InformerSync(k)
    BY <1>8 DEF Start, CallFails, Conflict, Restart, InformerSync, world
<1>9. CASE CreateInstance \/ EditInstance \/ DeleteInstance \/ InventoryChanges
    BY <1>9 DEF CreateInstance, EditInstance, DeleteInstance, InventoryChanges
<1>10. CASE UNCHANGED vars
    BY <1>10 DEF vars, world
<1> QED
    BY <1>1, <1>2, <1>3, <1>4, <1>5, <1>6, <1>7, <1>8, <1>9, <1>10 DEF Next, Reconcile

LEMMA MasterStep ==
    ASSUME TypeOK, TypeOK', InstanceInv, InstanceInv', "db" \notin Lagging, [Next]_vars
    PROVE  Master!Next
<1>1. /\ secret' \in Passwords \cup {"none"}
      /\ Database' \in Passwords \cup {"gone", "foreign", "none"}
    BY DEF TypeOK, Databases, Database
<1>2. Database = "gone" \/ (db.present /\ secret # "none" /\ Database = secret)
    BY DEF InstanceInv, Provisioned, Database
<1>3. Database' = "gone" \/ (db'.present /\ secret' # "none" /\ Database' = secret')
    BY DEF InstanceInv, Provisioned, Database
<1>4. db.present \in BOOLEAN /\ db'.present \in BOOLEAN
    BY DEF TypeOK, IsDB
<1>5. /\ secret' # secret => db'.present = db.present /\ Database' = Database
      /\ db'.present # db.present => Database' = Database
      /\ secret' # secret => secret = "none" \/ ~db.present
    BY OneAtATime
<1> USE DEF Database, Referenced, Master!Next
<1>6. CASE ~Referenced /\ ~Referenced'
    BY <1>1, <1>3, <1>4, <1>6 DEF Master!Prepare
<1>7. CASE ~Referenced /\ Referenced'
    BY <1>1, <1>3, <1>4, <1>5, <1>7 DEF Master!Publish, Master!Goes, Master!Agreed
<1>8. CASE Referenced /\ Referenced'
    BY <1>3, <1>5, <1>8 DEF Master!Use
<1>9. CASE Referenced /\ ~Referenced'
    BY <1>4, <1>5, <1>9 DEF Master!Withdraw, Master!Goes
<1> QED
    BY <1>6, <1>7, <1>8, <1>9

\* The reconciler keeps the promise of MasterCredential about the database a RDSInstance
\* provisions, however old its cache of Secrets is: the database is made with the Secret the
\* DBInstance refers to, and the Secret keeps its password until the DBInstance is gone.
THEOREM Mastered == ASSUME "db" \notin Lagging PROVE Spec => MasterCredentials
<1>1. ASSUME Init PROVE Master!Init
    <2>1. db = NoDB /\ secret = "none" /\ aws = NoDatabase
        BY <1>1 DEF Init
    <2> QED
        BY <2>1 DEF Master!Init, NoDB, NoDatabase
<1>2. TypeOK /\ InstanceInv /\ TypeOK' /\ InstanceInv' /\ [Next]_vars => Master!Next
    BY MasterStep
<1> QED
    BY <1>1, <1>2, InvHolds, PTL DEF Spec, MasterCredentials, Master!Spec
=============================================================================
