--------------------------- MODULE ConnectionProofs ---------------------------
(* Proofs about the RDSConnection reconciler: types, whose the Secret and the  *)
(* ConfigMap are, and that a Ready connection which nobody is going to look at  *)
(* is bound to the database there is. Any cache may lag, except that the last  *)
(* needs an up-to-date one of the credential Secrets, which are not watched.   *)
EXTENDS ConnectionReconciler, TLAPS

-----------------------------------------------------------------------------
(* The inductive invariant.                                                    *)

\* A pass that has begun for a connection.
Running == pc \notin {"idle", "down"}

\* Whose name occurs anywhere but in the stored connection.
Marked(u) == u \in {copy.uid, secret.owner, config.owner,
                    Seen("secret").owner, Seen("config").owner}

\* A connection that a pass has read, or that has left a mark, is the one the cache shows
\* and the one the worker is at: its predecessors are over for good.
Known ==
    connection.uid # "none"
        /\ (Marked(connection.uid) \/ connection.refs \/ connection.ready # "None")
        => Seen("connection").uid = connection.uid /\ copy.uid \in {"none", connection.uid}

\* How far a pass is, also when it has failed after that.
HasConfig == pc = "updateRefs" \/ (pc = "done" /\ outcome.refs)
HasSecret == pc = "writeConfig" \/ HasConfig

\* What is owned by the connection stays so, and the refs are set over what is owned.
Owned ==
    /\ connection.uid = "none" => ~connection.refs /\ connection.ready = "None"
    /\ Running => copy.uid # "none"
    /\ Seen("secret").owner = connection.uid /\ connection.uid # "none"
           => secret.owner = connection.uid
    /\ Seen("config").owner = connection.uid /\ connection.uid # "none"
           => config.owner = connection.uid
    /\ HasSecret /\ copy.uid = connection.uid => secret.owner = copy.uid
    /\ HasConfig /\ copy.uid = connection.uid => config.owner = copy.uid

OwnerInv == Known /\ Owned /\ RefsKept

\* The credential Secret belongs to the database there is.
SecretOfDB ==
    /\ db.of # "none" => dbSecret \in {"none", db.of}
    /\ db.of = "none" => ~db.secured
    /\ db.secured => dbSecret = db.of
    /\ Seen("db").of \in {"none", db.of} /\ Seen("db").secured =>
           Seen("db").of = db.of /\ db.secured

\* Once a pass has seen the database there is, it and those after it see no earlier one.
SeenOnce ==
    db.of # "none" /\ db.of \in {config.of, Seen("config").of, dbCopy.of}
        => Seen("db").of = db.of /\ dbCopy.of \in {"none", db.of}

\* The worker's copies, while the pass has something to bind.
Binding == {"getSecret", "writeSecret", "writeConfig", "updateRefs"}
Copies ==
    /\ pc \in Binding => dbCopy.of # "none"
    /\ pc \notin Binding => dbCopy.of = "none"
    /\ pc \in Binding /\ dbCopy.of = db.of => db.secured
    /\ pc \in Binding \ {"getSecret"} /\ dbCopy.of = db.of => password = db.of
    /\ pc \in Binding /\ copy.uid = connection.uid /\ ~queued => dbCopy = Seen("db")

\* The Secret and the ConfigMap, once they have the database there is, keep it.
Mine == [of |-> db.of, owner |-> connection.uid]
MineKept ==
    connection.uid # "none" /\ db.of # "none" =>
        /\ Seen("secret") = Mine => secret = Mine
        /\ Seen("config") = Mine => config = Mine
        /\ secret = Mine /\ pc = "writeSecret" => password = db.of

\* What a pass has written, and what it leaves behind unless it is going to be repeated.
WrittenSoFar == pc \in Binding /\ copy.uid = connection.uid /\ dbCopy.of = db.of =>
    /\ pc \in {"writeConfig", "updateRefs"} => secret = Mine
    /\ pc = "updateRefs" => config = Mine
Rests ==
    \/ pc = "done" /\ outcome.ready = "True" /\ copy.uid = connection.uid
    \/ pc = "idle" /\ connection.ready = "True"
Left ==
    Rests /\ ~queued =>
        /\ Seen("db").of # "none" /\ Seen("db").status = "available"
        /\ Seen("db").of = db.of => secret = Mine /\ config = Mine

BoundInv == SecretOfDB /\ SeenOnce /\ Copies /\ MineKept /\ WrittenSoFar /\ Left

-----------------------------------------------------------------------------
(* Type correctness.                                                           *)

\* What a read returns, from a cache or not.
LEMMA SeenType ==
    ASSUME TypeOK
    PROVE  /\ Seen("connection") \in Connections
           /\ Seen("inventory") \in Inventories
           /\ Seen("db") \in DBs
           /\ Seen("dbSecret") \in Databases \cup {"none"}
           /\ Seen("secret") \in Published /\ Seen("config") \in Published
BY DEF TypeOK, Seen, Stored, TypeOf

LEMMA StoredType == TypeOK => \A k \in Kinds : Stored(k) \in TypeOf(k)
BY DEF TypeOK, Stored, TypeOf, Kinds

LEMMA NothingTypes ==
    /\ NoConnection \in Connections /\ NoInventory \in Inventories
    /\ NoDB \in DBs /\ Nothing \in Published /\ NoOutcome \in Outcomes
BY DEF NoConnection, Connections, NoInventory, Inventories, NoDB, DBs, Statuses, Nothing,
   Published, NoOutcome, Outcomes

LEMMA InitType == Init => TypeOK
<1> SUFFICES ASSUME Init PROVE TypeOK
    OBVIOUS
<1>1. /\ connection = NoConnection /\ copy = NoConnection /\ inventory = NoInventory
      /\ db = NoDB /\ dbCopy = NoDB /\ dbSecret = "none" /\ password = "none"
      /\ secret = Nothing /\ config = Nothing /\ queued = FALSE /\ pc = "idle"
      /\ outcome = NoOutcome /\ faults = 0
      /\ cache = [k \in Lagging |-> Stored(k)]
    BY DEF Init
<1>2. \A k \in Kinds : Stored(k) \in TypeOf(k)
    BY <1>1, NothingTypes DEF Stored, TypeOf, Kinds
<1>3. DOMAIN cache = Lagging /\ \A k \in Lagging : cache[k] \in TypeOf(k)
    BY <1>1, <1>2, ConnectionAssumption
<1>4. faults \in 0 .. MaxFaults
    BY <1>1, ConnectionAssumption
<1> QED
    BY <1>1, <1>3, <1>4, NothingTypes DEF TypeOK, PCs

\* The variables of the cluster, and those of the worker.
WorldOK ==
    /\ connection \in Connections
    /\ inventory \in Inventories
    /\ db \in DBs /\ dbSecret \in Databases \cup {"none"}
    /\ secret \in Published /\ config \in Published
    /\ DOMAIN cache = Lagging /\ \A k \in Lagging : cache[k] \in TypeOf(k)

WorkerOK ==
    /\ copy \in Connections /\ dbCopy \in DBs /\ password \in Databases \cup {"none"}
    /\ pc \in PCs
    /\ pc = "getSecret" => dbCopy.status \in {"noEndpoint", "available"} /\ dbCopy.secured
    /\ pc \in {"writeSecret", "writeConfig", "updateRefs"} =>
           password # "none" /\ dbCopy.status = "available" /\ dbCopy.secured
    /\ outcome \in Outcomes

LEMMA TypeParts ==
    /\ TypeOK => WorldOK /\ WorkerOK /\ queued \in BOOLEAN /\ faults \in 0 .. MaxFaults
    /\ WorldOK' /\ WorkerOK' /\ queued' \in BOOLEAN /\ faults' \in 0 .. MaxFaults => TypeOK'
BY DEF TypeOK, WorldOK, WorkerOK

LEMMA SameWorker == WorkerOK /\ UNCHANGED worker => WorkerOK'
BY DEF WorkerOK, worker

LEMMA SameWorld ==
    WorldOK /\ UNCHANGED <<connection, objects, published, cache>> => WorldOK'
BY DEF WorldOK, objects, published, TypeOf

\* The end of a pass.
LEMMA EndType ==
    ASSUME Failed \/ Requeue \/ Ready
    PROVE  /\ pc' = "done" /\ dbCopy' = NoDB /\ password' = "none" /\ outcome' \in Outcomes
           /\ outcome'.ready = "True" => Ready
           /\ outcome'.refs => pc = "updateRefs"
<1>1. CASE Failed \/ Requeue
    <2>1. pc' = "done" /\ dbCopy' = NoDB /\ password' = "none"
          /\ outcome' = [ready |-> "False", again |-> TRUE, refs |-> pc = "updateRefs"]
        BY <1>1 DEF Failed, Requeue, Finish
    <2>2. outcome'.refs => pc = "updateRefs"
        BY <2>1, Zenon
    <2> QED
        BY <2>1, <2>2 DEF Outcomes
<1>2. CASE Ready
    <2>1. pc' = "done" /\ dbCopy' = NoDB /\ password' = "none"
          /\ outcome' = [ready |-> "True", again |-> FALSE, refs |-> pc = "updateRefs"]
        BY <1>2 DEF Ready, Finish
    <2>2. outcome'.refs => pc = "updateRefs"
        BY <2>1, Zenon
    <2> QED
        BY <1>2, <2>1, <2>2 DEF Outcomes
<1> QED
    BY <1>1, <1>2

LEMMA EndOK ==
    ASSUME Failed \/ Requeue \/ Ready, copy' \in Connections PROVE WorkerOK'
BY EndType, NothingTypes DEF WorkerOK, PCs

LEMMA QueuedType ==
    queued \in BOOLEAN => QueuedByConnection \in BOOLEAN /\ QueuedByDB \in BOOLEAN
BY DEF QueuedByConnection, QueuedByDB

LEMMA TypePass ==
    ASSUME TypeOK, Reconcile
    PROVE  WorldOK' /\ WorkerOK' /\ queued' \in BOOLEAN /\ faults' \in 0 .. MaxFaults
<1>0. WorldOK /\ WorkerOK /\ queued \in BOOLEAN /\ faults \in 0 .. MaxFaults
    BY TypeParts
<1> USE DEF PCs, CallPCs
<1>1. CASE GetConnection
    <2>1. copy' \in Connections /\ pc' \in {"idle", "getInventory"}
        BY <1>1, SeenType DEF GetConnection, Goto
    <2> QED
        BY <1>0, <1>1, <2>1, SameWorld DEF GetConnection, Goto, WorkerOK
<1>2. CASE GetInventory
    <2>1. WorkerOK'
        <3>1. CASE Failed \/ Requeue
            BY <1>0, <1>2, <3>1, EndOK DEF GetInventory, WorkerOK
        <3>2. CASE Goto("getDB")
            BY <1>0, <1>2, <3>2 DEF GetInventory, Goto, WorkerOK
        <3> QED
            BY <1>2, <3>1, <3>2 DEF GetInventory
    <2> QED
        BY <1>0, <1>2, <2>1, SameWorld DEF GetInventory
<1>3. CASE GetDBInstance
    <2>1. WorkerOK'
        <3>1. CASE Failed
            BY <1>0, <1>3, <3>1, EndOK DEF GetDBInstance, WorkerOK
        <3>2. CASE ~Failed
            BY <1>0, <1>3, <3>2, SeenType DEF GetDBInstance, WorkerOK, Bindable
        <3> QED
            BY <3>1, <3>2
    <2> QED
        BY <1>0, <1>3, <2>1, SameWorld DEF GetDBInstance
<1>4. CASE Panic
    BY <1>0, <1>4, SameWorld, NothingTypes DEF Panic, Stop, WorkerOK
<1>5. CASE GetPassword
    <2>1. WorkerOK'
        <3>1. CASE Failed
            BY <1>0, <1>5, <3>1, EndOK DEF GetPassword, WorkerOK
        <3>2. CASE ~Failed
            BY <1>0, <1>5, <3>2, SeenType DEF GetPassword, WorkerOK
        <3> QED
            BY <3>1, <3>2
    <2> QED
        BY <1>0, <1>5, <2>1, SameWorld DEF GetPassword
<1>6. CASE CreateOrUpdateSecret
    <2>1. WorkerOK'
        <3>1. CASE Failed
            BY <1>0, <1>6, <3>1, EndOK DEF CreateOrUpdateSecret, WorkerOK
        <3>2. CASE Goto("writeConfig")
            BY <1>0, <1>6, <3>2 DEF CreateOrUpdateSecret, Goto, WorkerOK
        <3> QED
            BY <1>6, <3>1, <3>2 DEF CreateOrUpdateSecret
    <2>2. secret' \in Published
        BY <1>0, <1>6 DEF CreateOrUpdateSecret, Written, Mutated, WorldOK, WorkerOK,
           Published, Connections
    <2> QED
        BY <1>0, <1>6, <2>1, <2>2 DEF CreateOrUpdateSecret, WorldOK, objects, TypeOf
<1>7. CASE CreateOrUpdateConfigMap
    <2>1. WorkerOK'
        <3>1. CASE Failed
            BY <1>0, <1>7, <3>1, EndOK DEF CreateOrUpdateConfigMap, WorkerOK
        <3>2. CASE Goto("updateRefs")
            BY <1>0, <1>7, <3>2 DEF CreateOrUpdateConfigMap, Goto, WorkerOK
        <3> QED
            BY <1>7, <3>1, <3>2 DEF CreateOrUpdateConfigMap
    <2>2. config' \in Published
        BY <1>0, <1>7 DEF CreateOrUpdateConfigMap, Written, Mutated, WorldOK, WorkerOK,
           Published, Connections, DBs
    <2> QED
        BY <1>0, <1>7, <2>1, <2>2 DEF CreateOrUpdateConfigMap, WorldOK, objects, TypeOf
<1>8. CASE UpdateRefs
    <2>1. connection' \in Connections /\ copy' \in Connections /\ queued' \in BOOLEAN
        BY <1>0, <1>8, QueuedType DEF UpdateRefs, Connections, WorldOK, WorkerOK
    <2>2. WorkerOK'
        BY <1>8, <2>1, EndOK DEF UpdateRefs
    <2> QED
        BY <1>0, <1>8, <2>1, <2>2 DEF UpdateRefs, WorldOK, objects, published, TypeOf
<1>9. CASE UpdateReadyCondition
    <2>1. connection' \in Connections
        BY <1>0, <1>9 DEF UpdateReadyCondition, Connections, Outcomes, WorldOK, WorkerOK
    <2>2. queued' \in BOOLEAN
        BY <1>0, <1>9 DEF UpdateReadyCondition, Outcomes, WorkerOK
    <2>3. WorkerOK'
        BY <1>0, <1>9, NothingTypes DEF UpdateReadyCondition, WorkerOK
    <2> QED
        BY <1>0, <1>9, <2>1, <2>2, <2>3
        DEF UpdateReadyCondition, WorldOK, objects, published, TypeOf
<1> QED
    BY <1>1, <1>2, <1>3, <1>4, <1>5, <1>6, <1>7, <1>8, <1>9 DEF Reconcile

\* The process: failed calls, crashes, starts and what the informers do.
Process ==
    \/ CallFails \/ Restart \/ Start \/ Resync \/ (\E k \in Kinds : InformerSync(k))

LEMMA TypeProcess ==
    ASSUME TypeOK, Process
    PROVE  WorldOK' /\ WorkerOK' /\ queued' \in BOOLEAN /\ faults' \in 0 .. MaxFaults
<1>0. WorldOK /\ WorkerOK /\ queued \in BOOLEAN /\ faults \in 0 .. MaxFaults
    BY TypeParts
<1>m. MaxFaults \in Nat /\ Lagging \subseteq Kinds
    BY ConnectionAssumption
<1>1. CASE CallFails
    <2>1. WorkerOK'
        BY <1>0, <1>1, EndOK DEF CallFails, WorkerOK
    <2> QED
        BY <1>0, <1>m, <1>1, <2>1, SameWorld DEF CallFails, Fault
<1>2. CASE Restart
    <2>1. Stop /\ faults' \in 0 .. MaxFaults
        BY <1>0, <1>m, <1>2 DEF Restart, Fault
    <2>2. WorldOK' /\ queued' \in BOOLEAN
        BY <1>0, <2>1, SameWorld DEF Stop
    <2>3. WorkerOK'
        BY <2>1, NothingTypes DEF Stop, WorkerOK, PCs
    <2> QED
        BY <2>1, <2>2, <2>3
<1>3. CASE Start
    <2>1. DOMAIN cache' = Lagging /\ \A k \in Lagging : cache'[k] \in TypeOf(k)
        BY <1>m, <1>3, StoredType DEF Start
    <2>2. WorldOK'
        BY <1>0, <1>3, <2>1 DEF Start, WorldOK, objects, published, TypeOf
    <2> QED
        BY <1>0, <1>3, <2>2 DEF Start, WorkerOK, PCs
<1>4. CASE Resync
    BY <1>0, <1>4, SameWorld, SameWorker DEF Resync
<1>5. ASSUME NEW k \in Kinds, InformerSync(k)
      PROVE  WorldOK' /\ WorkerOK' /\ queued' \in BOOLEAN /\ faults' \in 0 .. MaxFaults
    <2>1. DOMAIN cache' = Lagging /\ \A j \in Lagging : cache'[j] \in TypeOf(j)
        BY <1>0, <1>5, StoredType DEF InformerSync, WorldOK
    <2>2. WorldOK'
        BY <1>0, <1>5, <2>1 DEF InformerSync, WorldOK, objects, published, TypeOf
    <2> QED
        BY <1>0, <1>5, <2>2, SameWorker DEF InformerSync
<1> QED
    BY <1>1, <1>2, <1>3, <1>4, <1>5 DEF Process

\* Who else writes.
Others ==
    \/ InventoryPass \/ CreateInventory \/ DeleteInventory
    \/ CreateConnection \/ DeleteConnection \/ Collect \/ ClashingSecret
    \/ (\E d \in Databases : MakeDB(d)) \/ DeleteDB \/ CollectDBSecret \/ AckStatus

LEMMA NextParts == Next <=> Reconcile \/ Process \/ Others
BY DEF Next, Process, Others

LEMMA TypeOthers ==
    ASSUME TypeOK, Others
    PROVE  WorldOK' /\ WorkerOK' /\ queued' \in BOOLEAN /\ faults' \in 0 .. MaxFaults
<1>0. WorldOK /\ WorkerOK /\ queued \in BOOLEAN /\ faults \in 0 .. MaxFaults
    BY TypeParts
<1>q. QueuedByConnection \in BOOLEAN /\ QueuedByDB \in BOOLEAN
    BY <1>0, QueuedType
<1>1. /\ UNCHANGED <<worker, faults, cache>> /\ queued' \in BOOLEAN
      /\ connection' \in Connections /\ inventory' \in Inventories /\ db' \in DBs
      /\ dbSecret' \in Databases \cup {"none"} /\ secret' \in Published
      /\ config' \in Published
    <2> USE <1>0, <1>q, NothingTypes DEF WorldOK
    <2>1. CASE InventoryPass /\ ~SecureDB
        <3>1. inventory' \in Inventories
            <4>1. CASE SyncInstances
                BY <4>1 DEF SyncInstances, Inventories
            <4>2. CASE InventoryWaits
                BY <4>2 DEF InventoryWaits, Inventories
            <4> QED
                BY <2>1, <4>1, <4>2 DEF InventoryPass
        <3> QED
            BY <2>1, <3>1
            DEF InventoryPass, SyncInstances, InventoryWaits, InventoryUnchanged, published
    <2>2. CASE SecureDB
        BY <2>2 DEF SecureDB, InventoryUnchanged, published, Inventories, DBs
    <2>3. CASE CreateInventory \/ DeleteInventory
        <3>1. inventory' \in Inventories
            <4>1. CASE CreateInventory
                BY <4>1 DEF CreateInventory, Inventories
            <4>2. CASE DeleteInventory
                BY <4>2 DEF DeleteInventory
            <4> QED
                BY <2>3, <4>1, <4>2
        <3> QED
            BY <2>3, <3>1 DEF CreateInventory, DeleteInventory, InventoryUnchanged, published
    <2>4. CASE CreateConnection
        BY <2>4 DEF CreateConnection, ConnectionChanged, objects, published, NoConnection,
           Connections
    <2>5. CASE DeleteConnection
        BY <2>5 DEF DeleteConnection, ConnectionChanged, objects, published
    <2>6. CASE Collect
        BY <2>6 DEF Collect, objects
    <2>7. CASE ClashingSecret
        BY <2>7 DEF ClashingSecret, objects, Published
    <2>8. ASSUME NEW d \in Databases, MakeDB(d)
          PROVE  /\ UNCHANGED <<worker, faults, cache>> /\ queued' \in BOOLEAN
                 /\ connection' \in Connections /\ inventory' \in Inventories /\ db' \in DBs
                 /\ dbSecret' \in Databases \cup {"none"} /\ secret' \in Published
                 /\ config' \in Published
        <3>1. db' \in DBs /\ dbSecret' \in Databases \cup {"none"}
            <4>1. PICK b \in BOOLEAN : db' = [of |-> d, status |-> "nil", secured |-> b]
                BY <2>8 DEF MakeDB
            <4>2. dbSecret' \in {d, "none"}
                BY <2>8 DEF MakeDB
            <4> QED
                BY <4>1, <4>2 DEF DBs, Statuses
        <3> QED
            BY <2>8, <3>1 DEF MakeDB, DBChanged, published
    <2>9. CASE DeleteDB \/ CollectDBSecret
        BY <2>9 DEF DeleteDB, CollectDBSecret, DBChanged, published
    <2>10. CASE AckStatus
        <3>1. PICK s \in Statuses : db' = [db EXCEPT !.status = s]
            BY <2>10 DEF AckStatus, Statuses
        <3> QED
            BY <2>10, <3>1 DEF AckStatus, DBChanged, published, DBs
    <2> QED
        BY <2>1, <2>2, <2>3, <2>4, <2>5, <2>6, <2>7, <2>8, <2>9, <2>10 DEF Others
<1>2. WorldOK'
    BY <1>0, <1>1 DEF WorldOK, TypeOf
<1> QED
    BY <1>0, <1>1, <1>2, SameWorker

LEMMA TypeStep == TypeOK /\ [Next]_vars => TypeOK'
<1> SUFFICES ASSUME TypeOK, [Next]_vars PROVE TypeOK'
    OBVIOUS
<1>1. CASE Next
    BY <1>1, NextParts, TypePass, TypeProcess, TypeOthers, TypeParts
<1>2. CASE UNCHANGED vars
    BY <1>2 DEF vars, objects, published, worker, TypeOK, TypeOf
<1> QED
    BY <1>1, <1>2

\* What the worker publishes was read from a DBInstance that could be bound, and
\* every variable keeps its type.
THEOREM TypeCorrect == Spec => []TypeOK
BY InitType, TypeStep, PTL DEF Spec

-----------------------------------------------------------------------------
(* What the caches show before and after a step.                               *)

LEMMA SeenNow ==
    /\ "connection" \notin Lagging => Seen("connection") = connection
    /\ "db" \notin Lagging => Seen("db") = db
    /\ "dbSecret" \notin Lagging => Seen("dbSecret") = dbSecret
    /\ "secret" \notin Lagging => Seen("secret") = secret
    /\ "config" \notin Lagging => Seen("config") = config
BY DEF Seen, Stored

LEMMA SeenNext ==
    ASSUME UNCHANGED cache
    PROVE  /\ Seen("connection")' =
                  IF "connection" \in Lagging THEN Seen("connection") ELSE connection'
           /\ Seen("db")' = IF "db" \in Lagging THEN Seen("db") ELSE db'
           /\ Seen("secret")' = IF "secret" \in Lagging THEN Seen("secret") ELSE secret'
           /\ Seen("config")' = IF "config" \in Lagging THEN Seen("config") ELSE config'
BY DEF Seen, Stored

\* A start of the process, or an informer, brings some of them up to date.
LEMMA SeenSynced ==
    ASSUME TypeOK, Start \/ (\E k \in Kinds : InformerSync(k))
    PROVE  /\ Seen("connection")' \in {Seen("connection"), connection}
           /\ Seen("db")' \in {Seen("db"), db}
           /\ Seen("secret")' \in {Seen("secret"), secret}
           /\ Seen("config")' \in {Seen("config"), config}
           /\ Start => /\ Seen("connection")' = connection /\ Seen("db")' = db
                       /\ Seen("secret")' = secret /\ Seen("config")' = config
<1>1. CASE Start
    BY <1>1 DEF Start, Seen, Stored, objects, published
<1>2. ASSUME NEW k \in Kinds, InformerSync(k), ~Start
      PROVE  /\ Seen("connection")' \in {Seen("connection"), connection}
             /\ Seen("db")' \in {Seen("db"), db}
             /\ Seen("secret")' \in {Seen("secret"), secret}
             /\ Seen("config")' \in {Seen("config"), config}
    <2>1. /\ cache' = [cache EXCEPT ![k] = Stored(k)] /\ DOMAIN cache = Lagging
          /\ UNCHANGED <<connection, db, secret, config>>
        BY <1>2 DEF InformerSync, TypeOK, objects, published
    <2> QED
        BY <2>1 DEF Seen, Stored
<1> QED
    BY <1>1, <1>2

-----------------------------------------------------------------------------
(* Whose the Secret and the ConfigMap are.                                     *)

LEMMA InitOwner == Init => OwnerInv
<1> SUFFICES ASSUME Init PROVE OwnerInv
    OBVIOUS
<1>1. connection = NoConnection /\ pc = "idle"
    BY DEF Init
<1> QED
    BY <1>1 DEF OwnerInv, Known, Owned, RefsKept, Running, HasSecret, HasConfig, NoConnection

\* Nothing is written, and the worker goes on to another read or ends its pass.
LEMMA OwnerFrame ==
    ASSUME TypeOK, OwnerInv,
           UNCHANGED <<connection, secret, config, cache>>,
           copy' = copy \/ copy' = NoConnection,
           Running' => Running /\ copy' = copy,
           (HasSecret' => HasSecret) /\ (HasConfig' => HasConfig)
    PROVE  OwnerInv'
<1>1. Seen("connection")' = Seen("connection") /\ Seen("secret")' = Seen("secret")
      /\ Seen("config")' = Seen("config")
    BY SeenNow, SeenNext
<1>2. copy'.uid \in {copy.uid, "none"}
    BY DEF NoConnection
<1>3. Known'
    BY <1>1, <1>2 DEF OwnerInv, Known, Marked
<1>4. Owned'
    BY <1>1, <1>2 DEF OwnerInv, Owned, Running, HasSecret, HasConfig
<1>5. RefsKept'
    BY DEF OwnerInv, RefsKept
<1> QED
    BY <1>3, <1>4, <1>5 DEF OwnerInv

LEMMA OwnerPass ==
    ASSUME TypeOK, OwnerInv, Reconcile PROVE OwnerInv'
<1>t. /\ connection \in Connections /\ copy \in Connections
      /\ secret \in Published /\ config \in Published
      /\ Seen("connection") \in Connections
      /\ Seen("secret") \in Published /\ Seen("config") \in Published
    BY SeenType DEF TypeOK
<1>1. CASE GetConnection
    <2>1. /\ UNCHANGED <<connection, secret, config, cache>> /\ copy' = Seen("connection")
          /\ pc' \in {"idle", "getInventory"} /\ (Running' => copy'.uid # "none")
        BY <1>1 DEF GetConnection, Goto, published, Running
    <2>2. Seen("connection")' = Seen("connection") /\ Seen("secret")' = Seen("secret")
          /\ Seen("config")' = Seen("config")
        BY <2>1, SeenNow, SeenNext
    <2>3. Known'
        BY <2>1, <2>2 DEF OwnerInv, Known, Marked
    <2>4. Owned' /\ RefsKept'
        BY <2>1, <2>2 DEF OwnerInv, Owned, RefsKept, HasSecret, HasConfig
    <2> QED
        BY <2>3, <2>4 DEF OwnerInv
<1>2. CASE GetInventory \/ GetDBInstance \/ GetPassword
    <2>1. UNCHANGED <<connection, secret, config, cache, copy>> /\ Running
        BY <1>2 DEF GetInventory, GetDBInstance, GetPassword, published, Running
    <2>2. pc # "updateRefs"
          /\ (Failed \/ Requeue \/ pc' \in {"getDB", "getSecret", "writeSecret"})
        BY <1>2 DEF GetInventory, GetDBInstance, GetPassword, Goto
    <2>3. ~HasSecret' /\ ~HasConfig'
        BY <2>2, EndType DEF HasSecret, HasConfig
    <2> QED
        BY <2>1, <2>3, OwnerFrame
<1>3. CASE Panic
    BY <1>3, OwnerFrame DEF HasSecret, HasConfig, Panic, Stop, published, Running
<1>4. CASE CreateOrUpdateSecret /\ Failed
    BY <1>4, OwnerFrame DEF HasSecret, HasConfig, CreateOrUpdateSecret, Failed, Finish, Running, Goto
<1>5. CASE CreateOrUpdateSecret /\ ~Failed
    <2>1. /\ UNCHANGED <<connection, config, cache, copy>> /\ Running
          /\ pc' = "writeConfig"
          /\ \/ secret'.owner = copy.uid
             \/ secret' = secret /\ Seen("secret").owner = copy.uid
        BY <1>5 DEF CreateOrUpdateSecret, Written, Mutated, Goto, Running
    <2>2. Seen("connection")' = Seen("connection") /\ Seen("config")' = Seen("config")
          /\ Seen("secret")' = IF "secret" \in Lagging THEN Seen("secret") ELSE secret'
        BY <2>1, SeenNow, SeenNext
    <2>3. copy.uid # "none" /\ (copy.uid = connection.uid /\ Seen("secret").owner = copy.uid
                                    => secret.owner = copy.uid)
        BY <2>1 DEF OwnerInv, Owned
    <2>4. Known'
        BY <2>1, <2>2, <2>3, SeenNow DEF OwnerInv, Known, Marked
    <2>5. Owned'
        BY <2>1, <2>2, <2>3, SeenNow
        DEF OwnerInv, Known, Marked, Owned, HasSecret, HasConfig
    <2>6. RefsKept'
        BY <2>1, <2>3 DEF OwnerInv, Known, Owned, RefsKept
    <2> QED
        BY <2>4, <2>5, <2>6 DEF OwnerInv
<1>6. CASE CreateOrUpdateConfigMap /\ Failed
    BY <1>6, OwnerFrame DEF HasSecret, HasConfig, CreateOrUpdateConfigMap, Failed, Finish, Running, Goto
<1>7. CASE CreateOrUpdateConfigMap /\ ~Failed
    <2>1. /\ UNCHANGED <<connection, secret, cache, copy>> /\ Running
          /\ pc = "writeConfig" /\ pc' = "updateRefs"
          /\ \/ config'.owner = copy.uid
             \/ config' = config /\ Seen("config").owner = copy.uid
        BY <1>7 DEF CreateOrUpdateConfigMap, Written, Mutated, Goto, Running
    <2>2. Seen("connection")' = Seen("connection") /\ Seen("secret")' = Seen("secret")
          /\ Seen("config")' = IF "config" \in Lagging THEN Seen("config") ELSE config'
        BY <2>1, SeenNow, SeenNext
    <2>3. copy.uid # "none" /\ (copy.uid = connection.uid /\ Seen("config").owner = copy.uid
                                    => config.owner = copy.uid)
        BY <2>1 DEF OwnerInv, Owned
    <2>4. Known'
        BY <2>1, <2>2, <2>3, SeenNow DEF OwnerInv, Known, Marked
    <2>5. Owned'
        BY <2>1, <2>2, <2>3, SeenNow
        DEF OwnerInv, Known, Marked, Owned, HasSecret, HasConfig
    <2>6. RefsKept'
        BY <2>1, <2>3 DEF OwnerInv, Known, Owned, RefsKept
    <2> QED
        BY <2>4, <2>5, <2>6 DEF OwnerInv
<1>8. CASE UpdateRefs /\ copy # connection
    BY <1>8, OwnerFrame DEF HasSecret, HasConfig, UpdateRefs, Requeue, Finish, published, Running
<1>9. CASE (UpdateRefs \/ UpdateReadyCondition) /\ copy = connection
    <2>1. /\ UNCHANGED <<secret, config, cache>> /\ Running /\ pc' \in {"done", "idle"}
          /\ connection'.uid = connection.uid
          /\ copy'.uid \in {connection.uid, "none"} /\ (Running' => copy'.uid = connection.uid)
        <3>1. CASE UpdateRefs
            BY <1>t, <1>9, <3>1, EndType DEF UpdateRefs, published, Running, Connections
        <3>2. CASE UpdateReadyCondition
            <4>1. \E r, b : connection' = [connection EXCEPT !.ready = r, !.refs = b]
                BY <1>9, <3>2 DEF UpdateReadyCondition
            <4>2. connection'.uid = connection.uid
                BY <1>t, <4>1 DEF Connections
            <4> QED
                BY <3>2, <4>2 DEF UpdateReadyCondition, published, Running, NoConnection
        <3> QED
            BY <1>9, <3>1, <3>2
    <2>7. (HasSecret' => HasSecret) /\ (HasConfig' => HasConfig)
        BY <1>9, <2>1 DEF UpdateRefs, UpdateReadyCondition, HasSecret, HasConfig
    <2>8. connection'.refs => connection.refs \/ HasConfig
        <3>1. CASE UpdateRefs
            BY <3>1 DEF UpdateRefs, HasConfig
        <3>2. CASE UpdateReadyCondition
            <4>1. pc = "done" /\ connection' = [connection EXCEPT !.ready = outcome.ready,
                                                    !.refs = @ \/ outcome.refs]
                BY <1>9, <3>2 DEF UpdateReadyCondition
            <4>2. connection'.refs = (connection.refs \/ outcome.refs)
                BY <1>t, <4>1, Zenon DEF Connections
            <4> QED
                BY <4>1, <4>2 DEF HasConfig
        <3> QED
            BY <1>9, <3>1, <3>2
    <2>2. Seen("connection")'.uid = Seen("connection").uid
          /\ Seen("secret")' = Seen("secret") /\ Seen("config")' = Seen("config")
        BY <2>1, SeenNow, SeenNext
    <2>3. connection.uid # "none" /\ copy.uid = connection.uid
        BY <1>9, <2>1 DEF OwnerInv, Owned
    <2>4. Known'
        BY <2>1, <2>2, <2>3 DEF OwnerInv, Known, Marked
    <2>5. Owned'
        BY <2>1, <2>2, <2>3, <2>7 DEF OwnerInv, Owned
    <2>6. RefsKept'
        BY <2>1, <2>3, <2>8 DEF OwnerInv, Owned, RefsKept, HasSecret
    <2> QED
        BY <2>4, <2>5, <2>6 DEF OwnerInv
<1>10. CASE UpdateReadyCondition /\ copy # connection
    BY <1>10, OwnerFrame DEF HasSecret, HasConfig, UpdateReadyCondition, published, Running
<1> QED
    BY <1>1, <1>2, <1>3, <1>4, <1>5, <1>6, <1>7, <1>8, <1>9, <1>10 DEF Reconcile

LEMMA OwnerProcess ==
    ASSUME TypeOK, OwnerInv, Process PROVE OwnerInv'
<1>1. CASE CallFails
    BY <1>1, OwnerFrame DEF HasSecret, HasConfig, CallFails, Failed, Finish, published, Running, CallPCs
<1>2. CASE Restart
    BY <1>2, OwnerFrame DEF HasSecret, HasConfig, Restart, Stop, published, Running
<1>3. CASE Resync
    BY <1>3, OwnerFrame DEF HasSecret, HasConfig, Resync, worker, published, Running
<1>4. CASE Start \/ (\E k \in Kinds : InformerSync(k))
    <2>1. /\ UNCHANGED <<connection, secret, config, copy>> /\ (Running' => Running)
          /\ (HasSecret' => HasSecret) /\ (HasConfig' => HasConfig)
        BY <1>4 DEF Start, InformerSync, worker, published, Running, HasSecret, HasConfig
    <2>2. /\ Seen("connection")' \in {Seen("connection"), connection}
          /\ Seen("secret")' \in {Seen("secret"), secret}
          /\ Seen("config")' \in {Seen("config"), config}
        BY <1>4, SeenSynced
    <2>3. Known'
        BY <2>1, <2>2 DEF OwnerInv, Known, Marked
    <2>4. Owned'
        BY <2>1, <2>2 DEF OwnerInv, Owned
    <2>5. RefsKept'
        BY <2>1 DEF OwnerInv, RefsKept
    <2> QED
        BY <2>3, <2>4, <2>5 DEF OwnerInv
<1> QED
    BY <1>1, <1>2, <1>3, <1>4 DEF Process

LEMMA OwnerOthers ==
    ASSUME TypeOK, OwnerInv, Others PROVE OwnerInv'
<1>t. /\ connection \in Connections /\ copy \in Connections
      /\ secret \in Published /\ config \in Published
      /\ Seen("connection") \in Connections
      /\ Seen("secret") \in Published /\ Seen("config") \in Published
    BY SeenType DEF TypeOK
<1>u. "none" \notin Uids /\ "instance" \notin Uids
    BY ConnectionAssumption
<1>w. UNCHANGED worker /\ UNCHANGED cache
    BY DEF Others, InventoryPass, SyncInstances, InventoryWaits, SecureDB, CreateInventory,
       DeleteInventory, InventoryUnchanged, CreateConnection, DeleteConnection,
       ConnectionChanged, Collect, ClashingSecret, MakeDB, DeleteDB, CollectDBSecret,
       AckStatus, DBChanged
<1>c. /\ UNCHANGED <<copy, pc>> /\ (Running' <=> Running)
      /\ (HasSecret' <=> HasSecret) /\ (HasConfig' <=> HasConfig)
    BY <1>w DEF worker, Running, HasSecret, HasConfig
<1>r. (HasConfig => HasSecret) /\ (HasSecret => Running)
    BY DEF Running, HasSecret, HasConfig
<1>s. /\ Seen("connection")' = IF "connection" \in Lagging THEN Seen("connection")
                                                           ELSE connection'
      /\ Seen("secret")' = IF "secret" \in Lagging THEN Seen("secret") ELSE secret'
      /\ Seen("config")' = IF "config" \in Lagging THEN Seen("config") ELSE config'
    BY <1>w, SeenNext
<1>1. CASE UNCHANGED <<connection, secret, config>>
    BY <1>1, <1>w, <1>c, OwnerFrame
<1>2. CASE CreateConnection
    <2>1. PICK u \in Uids \ KnownUids : connection' = [NoConnection EXCEPT !.uid = u]
        BY <1>2 DEF CreateConnection
    <2>2. /\ connection'.uid = u /\ ~connection'.refs /\ connection'.ready = "None"
          /\ u # copy.uid /\ u # secret.owner /\ u # config.owner
          /\ u # Seen("secret").owner /\ u # Seen("config").owner /\ u # "none"
        BY <2>1, <1>u DEF KnownUids, NoConnection
    <2>3. UNCHANGED <<secret, config>> /\ Seen("secret")' = Seen("secret")
          /\ Seen("config")' = Seen("config")
        BY <1>2, <1>s, SeenNow DEF CreateConnection, ConnectionChanged, published
    <2>4. Known'
        BY <1>c, <2>2, <2>3 DEF Known, Marked
    <2>5. Owned'
        BY <1>c, <2>2, <2>3 DEF OwnerInv, Owned
    <2> QED
        BY <2>2, <2>4, <2>5 DEF OwnerInv, RefsKept
<1>3. CASE DeleteConnection
    <2>1. connection'.uid = "none" /\ ~connection'.refs /\ connection'.ready = "None"
          /\ UNCHANGED <<secret, config>>
        BY <1>3 DEF DeleteConnection, ConnectionChanged, published, NoConnection
    <2>2. Known' /\ RefsKept'
        BY <2>1 DEF Known, RefsKept
    <2>3. Owned'
        BY <1>c, <1>r, <2>1 DEF OwnerInv, Owned
    <2> QED
        BY <2>2, <2>3 DEF OwnerInv
<1>4. CASE Collect \/ ClashingSecret
    <2>1. /\ UNCHANGED connection
          /\ secret'.owner \in {secret.owner, "none", "instance"}
          /\ config'.owner \in {config.owner, "none"}
          /\ connection.uid # "none" /\ secret.owner = connection.uid
                 => secret'.owner = secret.owner
          /\ connection.uid # "none" /\ config.owner = connection.uid
                 => config'.owner = config.owner
        BY <1>t, <1>u, <1>4 DEF Collect, ClashingSecret, Orphan, Nothing, Connections
    <2>2. connection.uid # "instance"
        BY <1>t, <1>u DEF Connections
    <2>3. Seen("connection")' = Seen("connection")
        BY <1>s, <2>1, SeenNow
    <2>4. Known'
        BY <1>c, <1>s, <2>1, <2>2, <2>3, SeenNow DEF OwnerInv, Known, Marked
    <2>5. Owned'
        BY <1>c, <1>r, <1>s, <2>1, <2>2, SeenNow DEF OwnerInv, Owned
    <2>6. RefsKept'
        BY <2>1 DEF OwnerInv, Owned, RefsKept
    <2> QED
        BY <2>4, <2>5, <2>6 DEF OwnerInv
<1> QED
    BY <1>1, <1>2, <1>3, <1>4
    DEF Others, InventoryPass, SyncInstances, InventoryWaits, SecureDB, CreateInventory,
        DeleteInventory, InventoryUnchanged, MakeDB, DeleteDB, CollectDBSecret, AckStatus,
        DBChanged, published

LEMMA OwnerStep == TypeOK /\ OwnerInv /\ [Next]_vars => OwnerInv'
<1> SUFFICES ASSUME TypeOK, OwnerInv, [Next]_vars PROVE OwnerInv'
    OBVIOUS
<1>1. CASE Next
    BY <1>1, NextParts, OwnerPass, OwnerProcess, OwnerOthers
<1>2. CASE UNCHANGED vars
    BY <1>2, OwnerFrame DEF vars, published, worker, Running, HasSecret, HasConfig
<1> QED
    BY <1>1, <1>2

\* What the status of a connection refers to exists and is the connection's own, and
\* no garbage collection of an earlier connection of the name takes it away, however
\* far each cache lags behind.
THEOREM RefsAreKept == Spec => []RefsKept
<1>1. TypeOK /\ OwnerInv /\ [Next]_vars => TypeOK' /\ OwnerInv'
    BY TypeStep, OwnerStep
<1>2. OwnerInv => RefsKept
    BY DEF OwnerInv
<1> QED
    BY InitType, InitOwner, <1>1, <1>2, PTL DEF Spec

-----------------------------------------------------------------------------
(* The Secret of a RDSInstance.                                                *)

LEMMA ForeignStep ==
    ASSUME Next, secret.owner = "instance", secret' # secret PROVE secret' = Nothing
<1>1. CASE CreateOrUpdateSecret
    <2>1. ~WriteFails(Seen("secret"), secret, password)
          /\ secret' = Written(Seen("secret"), secret, password)
        BY <1>1 DEF CreateOrUpdateSecret
    <2>2. Seen("secret") # secret
        BY <2>1 DEF WriteFails, Ownable
    <2> QED
        BY <2>1, <2>2 DEF WriteFails, Written
<1>2. CASE Collect \/ ClashingSecret
    BY <1>2, ConnectionAssumption DEF Collect, ClashingSecret, Orphan, Nothing
<1>3. CASE Reconcile /\ ~CreateOrUpdateSecret
    BY <1>3 DEF Reconcile, GetConnection, GetInventory, GetDBInstance, Panic, Stop,
       GetPassword, CreateOrUpdateConfigMap, UpdateRefs, UpdateReadyCondition, published
<1>4. CASE Process
    BY <1>4 DEF Process, CallFails, Restart, Start, Stop, Resync, InformerSync, published
<1>5. CASE Others /\ ~Collect /\ ~ClashingSecret
    BY <1>5 DEF Others, InventoryPass, SyncInstances, InventoryWaits, SecureDB,
       CreateInventory, DeleteInventory, InventoryUnchanged, CreateConnection,
       DeleteConnection, ConnectionChanged, MakeDB, DeleteDB, CollectDBSecret, AckStatus,
       DBChanged, published
<1> QED
    BY <1>1, <1>2, <1>3, <1>4, <1>5, NextParts

\* The credentials of a RDSInstance with the connection's name are never overwritten,
\* not by a write over a Secret that the cache does not show either.
THEOREM ForeignSecrets == Spec => ForeignSecretKept
<1>1. [Next]_vars => [secret.owner = "instance" /\ secret' # secret => secret' = Nothing]_vars
    BY ForeignStep DEF vars, published
<1> QED
    BY <1>1, PTL DEF Spec, ForeignSecretKept

-----------------------------------------------------------------------------
(* A Ready connection that nobody is going to look at is bound. The credential *)
(* Secrets have to be read up to date: nothing brings the worker back to them. *)

\* Of the invariants before, what the steps below use.
Identified ==
    /\ Running => copy.uid # "none"
    /\ Marked(connection.uid) \/ connection.ready # "None" =>
           connection.uid = "none" \/ (Seen("connection").uid = connection.uid
                                           /\ copy.uid \in {"none", connection.uid})
    /\ connection.uid = "none" => connection.ready = "None"

LEMMA OwnerIdentifies == OwnerInv => Identified
BY DEF OwnerInv, Known, Owned, Identified

LEMMA InitBound == Init => BoundInv
<1> SUFFICES ASSUME Init PROVE BoundInv
    OBVIOUS
<1>1. /\ connection = NoConnection /\ db = NoDB /\ dbCopy = NoDB /\ pc = "idle"
      /\ cache = [k \in Lagging |-> Stored(k)]
    BY DEF Init
<1>2. Seen("db") = NoDB
    BY <1>1 DEF Seen, Stored
<1> QED
    BY <1>1, <1>2 DEF BoundInv, SecretOfDB, SeenOnce, Copies, Binding, MineKept, WrittenSoFar,
       Left, Rests, NoConnection, NoDB

\* The pass ends or has nothing to bind yet.
LEMMA BoundFrame ==
    ASSUME BoundInv,
           UNCHANGED <<db, dbSecret, secret, config, cache>>,
           connection'.uid = connection.uid,
           pc' \notin Binding, dbCopy'.of = "none"
    PROVE  /\ SecretOfDB' /\ SeenOnce' /\ Copies' /\ MineKept' /\ WrittenSoFar'
           /\ Seen("db")' = Seen("db") /\ Mine' = Mine
           /\ (Rests' /\ ~queued' => Rests /\ ~queued) => BoundInv'
<1>1. Seen("db")' = Seen("db") /\ Seen("secret")' = Seen("secret")
      /\ Seen("config")' = Seen("config") /\ Mine' = Mine
    BY SeenNow, SeenNext DEF Mine
<1>2. SecretOfDB'
    BY <1>1 DEF BoundInv, SecretOfDB
<1>3. SeenOnce'
    BY <1>1 DEF BoundInv, SeenOnce
<1>4. Copies' /\ WrittenSoFar'
    BY DEF Copies, WrittenSoFar, Binding
<1>5. MineKept'
    BY <1>1 DEF BoundInv, MineKept, Binding
<1>6. (Rests' /\ ~queued' => Rests /\ ~queued) => Left'
    BY <1>1 DEF BoundInv, Left
<1> QED
    BY <1>1, <1>2, <1>3, <1>4, <1>5, <1>6 DEF BoundInv

\* A call that fails ends the pass with a condition that is not Ready.
LEMMA BoundFails ==
    ASSUME BoundInv, Failed \/ Requeue,
           UNCHANGED <<connection, db, dbSecret, secret, config, cache>>
    PROVE  BoundInv'
<1>1. pc' = "done" /\ dbCopy'.of = "none" /\ outcome'.ready = "False"
    BY DEF Failed, Requeue, Finish, NoDB
<1>2. pc' \notin Binding /\ ~Rests'
    BY <1>1 DEF Binding, Rests
<1> QED
    BY <1>1, <1>2, BoundFrame

LEMMA BoundStop ==
    ASSUME BoundInv, Stop PROVE BoundInv'
<1>1. pc' = "down" /\ dbCopy'.of = "none"
      /\ UNCHANGED <<connection, db, dbSecret, secret, config, cache>>
    BY DEF Stop, NoDB, objects, published
<1>2. pc' \notin Binding /\ ~Rests'
    BY <1>1 DEF Binding, Rests
<1> QED
    BY <1>1, <1>2, BoundFrame

LEMMA BoundPass ==
    ASSUME "dbSecret" \notin Lagging, TypeOK, Identified, BoundInv, Reconcile
    PROVE  BoundInv'
<1>t. /\ db \in DBs /\ dbCopy \in DBs /\ Seen("db") \in DBs /\ queued \in BOOLEAN
      /\ connection \in Connections /\ copy \in Connections /\ outcome \in Outcomes
      /\ secret \in Published /\ config \in Published
      /\ Seen("secret") \in Published /\ Seen("config") \in Published
    BY SeenType DEF TypeOK
<1>1. CASE GetConnection
    <2>1. /\ UNCHANGED <<connection, db, dbSecret, secret, config, cache>>
          /\ pc = "idle" /\ pc' \in {"idle", "getInventory"} /\ dbCopy' = dbCopy
          /\ (pc' = "idle" => Seen("connection").uid = "none")
        BY <1>1 DEF GetConnection, Goto, objects, published
    <2>2. ~Rests'
        BY <2>1 DEF Identified, Rests
    <2>3. pc' \notin Binding /\ dbCopy'.of = "none"
        BY <2>1 DEF BoundInv, Copies, Binding
    <2> QED
        BY <2>1, <2>2, <2>3, BoundFrame
<1>2. CASE GetInventory
    <2>1. CASE Failed \/ Requeue
        BY <1>2, <2>1, BoundFails DEF GetInventory, objects, published
    <2>2. CASE Goto("getDB")
        <3>1. /\ UNCHANGED <<connection, db, dbSecret, secret, config, cache>>
              /\ pc = "getInventory" /\ pc' = "getDB" /\ dbCopy' = dbCopy
            BY <1>2, <2>2 DEF GetInventory, Goto, objects, published
        <3>2. pc' \notin Binding /\ dbCopy'.of = "none" /\ ~Rests'
            BY <3>1 DEF BoundInv, Copies, Binding, Rests
        <3> QED
            BY <3>1, <3>2, BoundFrame
    <2> QED
        BY <1>2, <2>1, <2>2 DEF GetInventory
<1>3. CASE GetDBInstance
    <2>1. CASE Failed
        BY <1>3, <2>1, BoundFails DEF GetDBInstance, objects, published
    <2>2. CASE ~Failed
        <3>1. /\ UNCHANGED <<connection, db, dbSecret, secret, config, cache, copy, queued>>
              /\ pc' = "getSecret" /\ dbCopy' = Seen("db")
              /\ Seen("db").of # "none" /\ Seen("db").secured
            BY <1>3, <2>2 DEF GetDBInstance, Bindable, objects, published
        <3>2. Seen("db")' = Seen("db") /\ Seen("secret")' = Seen("secret")
              /\ Seen("config")' = Seen("config") /\ Mine' = Mine
            BY <3>1, SeenNow, SeenNext DEF Mine
        <3>3. SecretOfDB'
            BY <3>1, <3>2 DEF BoundInv, SecretOfDB
        <3>4. SeenOnce'
            BY <3>1, <3>2 DEF BoundInv, SeenOnce
        <3>5. Copies'
            BY <3>1, <3>2 DEF BoundInv, SecretOfDB, Copies, Binding
        <3>6. MineKept' /\ WrittenSoFar' /\ Left'
            BY <3>1, <3>2 DEF BoundInv, MineKept, WrittenSoFar, Left, Rests
        <3> QED
            BY <3>3, <3>4, <3>5, <3>6 DEF BoundInv
    <2> QED
        BY <2>1, <2>2
<1>4. CASE Panic
    BY <1>4, BoundStop DEF Panic
<1>5. CASE GetPassword
    <2>1. CASE Failed
        BY <1>5, <2>1, BoundFails DEF GetPassword, objects, published
    <2>2. CASE ~Failed
        <3>1. /\ UNCHANGED <<connection, db, dbSecret, secret, config, cache, copy, queued>>
              /\ UNCHANGED dbCopy
              /\ pc = "getSecret" /\ pc' = "writeSecret" /\ password' = dbSecret
              /\ dbSecret # "none"
            BY <1>5, <2>2, SeenNow DEF GetPassword, objects, published
        <3>2. Seen("db")' = Seen("db") /\ Seen("secret")' = Seen("secret")
              /\ Seen("config")' = Seen("config") /\ Mine' = Mine
            BY <3>1, SeenNow, SeenNext DEF Mine
        <3>3. SecretOfDB' /\ SeenOnce'
            BY <3>1, <3>2 DEF BoundInv, SecretOfDB, SeenOnce
        <3>4. Copies'
            BY <3>1, <3>2 DEF BoundInv, SecretOfDB, Copies, Binding
        <3>5. MineKept'
            BY <3>1, <3>2 DEF BoundInv, SecretOfDB, MineKept
        <3>6. WrittenSoFar' /\ Left'
            BY <3>1, <3>2 DEF WrittenSoFar, Left, Rests
        <3> QED
            BY <3>3, <3>4, <3>5, <3>6 DEF BoundInv
    <2> QED
        BY <2>1, <2>2
<1>6. CASE CreateOrUpdateSecret
    <2>1. CASE Failed
        <3>1. UNCHANGED <<connection, db, dbSecret, secret, config, cache>>
            BY <1>6, <2>1 DEF CreateOrUpdateSecret, Failed, Finish, Goto, objects
        <3> QED
            BY <2>1, <3>1, BoundFails
    <2>2. CASE ~Failed
        <3>1. /\ UNCHANGED <<connection, db, dbSecret, config, cache, copy, queued>>
              /\ UNCHANGED <<dbCopy, password>>
              /\ pc = "writeSecret" /\ pc' = "writeConfig"
              /\ \/ secret' = [of |-> password, owner |-> copy.uid]
                 \/ secret' = secret /\ Seen("secret") = [of |-> password, owner |-> copy.uid]
            BY <1>6, <2>2 DEF CreateOrUpdateSecret, Written, Mutated, Goto, objects
        <3>2. Seen("db")' = Seen("db") /\ Seen("config")' = Seen("config") /\ Mine' = Mine
              /\ Seen("secret")' = IF "secret" \in Lagging THEN Seen("secret") ELSE secret'
            BY <3>1, SeenNow, SeenNext DEF Mine
        <3>3. SecretOfDB' /\ SeenOnce'
            BY <3>1, <3>2 DEF BoundInv, SecretOfDB, SeenOnce
        <3>4. Copies'
            BY <3>1, <3>2 DEF BoundInv, Copies, Binding
        <3>5. ASSUME connection.uid # "none", db.of # "none",
                     Seen("secret") = Mine \/ (dbCopy.of = db.of /\ copy.uid = connection.uid)
              PROVE  secret' = Mine
            <4>1. password = db.of
                BY <3>1, <3>5 DEF BoundInv, MineKept, Copies, Binding
            <4>2. copy.uid = connection.uid
                <5>1. CASE Seen("secret") = Mine
                    <6>1. Marked(connection.uid)
                        BY <5>1 DEF Marked, Mine
                    <6> QED
                        BY <3>1, <3>5, <6>1 DEF Identified, Running
                <5> QED
                    BY <3>5, <5>1
            <4>3. Seen("secret") = Mine => secret = Mine
                BY <3>5 DEF BoundInv, MineKept
            <4> QED
                BY <3>1, <4>1, <4>2, <4>3 DEF Mine
        <3>6. MineKept'
            <4>1. connection'.uid # "none" /\ db'.of # "none" /\ Seen("secret")' = Mine
                      => secret' = Mine
                BY <3>1, <3>2, <3>5
            <4>2. connection.uid # "none" /\ db.of # "none" /\ Seen("config") = Mine
                      => config = Mine
                BY DEF BoundInv, MineKept
            <4> QED
                BY <3>1, <3>2, <4>1, <4>2 DEF MineKept
        <3>7. WrittenSoFar'
            <4>1. copy.uid = connection.uid /\ dbCopy.of = db.of
                      => connection.uid # "none" /\ db.of # "none"
                BY <3>1 DEF Identified, Running, BoundInv, Copies, Binding
            <4> QED
                BY <3>1, <3>2, <3>5, <4>1 DEF WrittenSoFar
        <3>8. Left'
            BY <3>1 DEF Left, Rests
        <3> QED
            BY <3>3, <3>4, <3>6, <3>7, <3>8 DEF BoundInv
    <2> QED
        BY <2>1, <2>2
<1>7. CASE CreateOrUpdateConfigMap
    <2>1. CASE Failed
        <3>1. UNCHANGED <<connection, db, dbSecret, secret, config, cache>>
            BY <1>7, <2>1 DEF CreateOrUpdateConfigMap, Failed, Finish, Goto, objects
        <3> QED
            BY <2>1, <3>1, BoundFails
    <2>2. CASE ~Failed
        <3>1. /\ UNCHANGED <<connection, db, dbSecret, secret, cache, copy, queued>>
              /\ UNCHANGED <<dbCopy, password>>
              /\ pc = "writeConfig" /\ pc' = "updateRefs"
              /\ \/ config' = [of |-> dbCopy.of, owner |-> copy.uid]
                 \/ config' = config /\ Seen("config") = [of |-> dbCopy.of, owner |-> copy.uid]
            BY <1>7, <2>2 DEF CreateOrUpdateConfigMap, Written, Mutated, Goto, objects
        <3>2. Seen("db")' = Seen("db") /\ Seen("secret")' = Seen("secret") /\ Mine' = Mine
              /\ Seen("config")' = IF "config" \in Lagging THEN Seen("config") ELSE config'
            BY <3>1, SeenNow, SeenNext DEF Mine
        <3>3. SecretOfDB'
            BY <3>1, <3>2 DEF BoundInv, SecretOfDB
        <3>4. SeenOnce'
            BY <3>1, <3>2 DEF BoundInv, SeenOnce
        <3>5. Copies'
            BY <3>1, <3>2 DEF BoundInv, Copies, Binding
        <3>6. ASSUME connection.uid # "none", db.of # "none",
                     Seen("config") = Mine \/ (dbCopy.of = db.of /\ copy.uid = connection.uid)
              PROVE  config' = Mine
            <4>1. CASE Seen("config") = Mine
                <5>1. Marked(connection.uid) /\ Seen("config").of = db.of /\ config = Mine
                    BY <3>6, <4>1 DEF Marked, Mine, BoundInv, MineKept
                <5>2. copy.uid = connection.uid
                    BY <3>1, <3>6, <5>1 DEF Identified, Running
                <5>3. dbCopy.of = db.of
                    BY <3>1, <3>6, <5>1 DEF BoundInv, SeenOnce, Copies, Binding
                <5> QED
                    BY <3>1, <5>1, <5>2, <5>3 DEF Mine
            <4>2. CASE Seen("config") # Mine
                BY <3>1, <3>6, <4>2 DEF Mine
            <4> QED
                BY <4>1, <4>2
        <3>7. MineKept'
            <4>1. connection'.uid # "none" /\ db'.of # "none" /\ Seen("config")' = Mine
                      => config' = Mine
                BY <3>1, <3>2, <3>6
            <4>2. connection.uid # "none" /\ db.of # "none" /\ Seen("secret") = Mine
                      => secret = Mine
                BY DEF BoundInv, MineKept
            <4> QED
                BY <3>1, <3>2, <4>1, <4>2 DEF MineKept
        <3>8. WrittenSoFar'
            <4>1. copy.uid = connection.uid /\ dbCopy.of = db.of
                      => connection.uid # "none" /\ db.of # "none" /\ secret = Mine
                BY <3>1 DEF Identified, Running, BoundInv, Copies, Binding, WrittenSoFar
            <4> QED
                BY <3>1, <3>2, <3>6, <4>1 DEF WrittenSoFar
        <3>9. Left'
            BY <3>1 DEF Left, Rests
        <3> QED
            BY <3>3, <3>4, <3>5, <3>7, <3>8, <3>9 DEF BoundInv
    <2> QED
        BY <2>1, <2>2
<1>8. CASE UpdateRefs /\ copy # connection
    BY <1>8, BoundFails DEF UpdateRefs, objects, published
<1>9. CASE UpdateRefs /\ copy = connection
    <2>1. /\ UNCHANGED <<db, dbSecret, secret, config, cache>>
          /\ connection'.uid = connection.uid /\ copy.uid = connection.uid
          /\ pc = "updateRefs" /\ pc' = "done" /\ dbCopy'.of = "none"
          /\ (~queued' => ~queued)
        BY <1>t, <1>9 DEF UpdateRefs, Ready, Finish, QueuedByConnection, NoDB, objects,
           published, Connections
    <2>2. pc' \notin Binding
        BY <2>1 DEF Binding
    <2>3. /\ SecretOfDB' /\ SeenOnce' /\ Copies' /\ MineKept' /\ WrittenSoFar'
          /\ Seen("db")' = Seen("db") /\ Mine' = Mine
        BY <2>1, <2>2, BoundFrame
    <2>4. ~queued => /\ dbCopy = Seen("db") /\ dbCopy.of # "none"
                     /\ dbCopy.of = db.of => secret = Mine /\ config = Mine
        BY <2>1 DEF BoundInv, Copies, WrittenSoFar, Binding
    <2>5. dbCopy.status = "available"
        BY <2>1 DEF TypeOK
    <2>6. Left'
        BY <2>1, <2>3, <2>4, <2>5 DEF Left
    <2> QED
        BY <2>3, <2>6 DEF BoundInv
<1>10. CASE UpdateReadyCondition
    <2>1. /\ UNCHANGED <<db, dbSecret, secret, config, cache>>
          /\ connection'.uid = connection.uid
          /\ pc = "done" /\ pc' = "idle" /\ dbCopy' = dbCopy
          /\ (~queued' => /\ copy = connection /\ ~queued
                          /\ connection'.ready = outcome.ready)
        BY <1>t, <1>10 DEF UpdateReadyCondition, objects, published, Connections
    <2>2. Rests' /\ ~queued' => Rests /\ ~queued
        BY <2>1 DEF Rests
    <2>3. pc' \notin Binding /\ dbCopy'.of = "none"
        BY <2>1 DEF BoundInv, Copies, Binding
    <2> QED
        BY <2>1, <2>2, <2>3, BoundFrame
<1> QED
    BY <1>1, <1>2, <1>3, <1>4, <1>5, <1>6, <1>7, <1>8, <1>9, <1>10 DEF Reconcile

\* What an informer brings, and a start of the process.
LEMMA BoundSynced ==
    ASSUME TypeOK, Identified, BoundInv, Start \/ (\E k \in Kinds : InformerSync(k))
    PROVE  BoundInv'
<1>1. /\ UNCHANGED <<connection, db, dbSecret, secret, config, copy, dbCopy, password, outcome>>
      /\ (Start => pc' = "idle" /\ pc = "down" /\ queued')
      /\ (~Start => pc' = pc)
      /\ (queued => queued')
    BY DEF Start, InformerSync, worker, objects, published, TypeOK
<1>2. /\ Seen("db")' \in {Seen("db"), db}
      /\ Seen("secret")' \in {Seen("secret"), secret}
      /\ Seen("config")' \in {Seen("config"), config}
    BY SeenSynced
<1>3. ~Start /\ Seen("db")' # Seen("db") /\ Seen("connection").uid # "none" => queued'
    <2>1. ASSUME NEW k \in Kinds, InformerSync(k), Seen("db")' # Seen("db"),
                 Seen("connection").uid # "none"
          PROVE  queued'
        <3>1. k # "db" => Seen("db")' = Seen("db")
            BY <2>1 DEF InformerSync, Seen, Stored, TypeOK, objects
        <3> QED
            BY <2>1, <3>1 DEF InformerSync
    <2> QED
        BY <2>1
<1>4. Mine' = Mine
    BY <1>1 DEF Mine
<1>5. SecretOfDB'
    BY <1>1, <1>2 DEF BoundInv, SecretOfDB
<1>6. SeenOnce'
    BY <1>1, <1>2 DEF BoundInv, SeenOnce
<1>7. Copies'
    <2>1. CASE Start
        BY <1>1, <2>1 DEF BoundInv, Copies, Binding
    <2>2. CASE ~Start
        <3>1. pc \in Binding /\ copy.uid = connection.uid /\ ~queued'
                  => dbCopy = Seen("db")' /\ dbCopy.of # "none"
            <4>1. pc \in Binding /\ copy.uid = connection.uid
                      => Seen("connection").uid # "none"
                BY DEF Binding, Identified, Running, Marked
            <4> QED
                BY <1>1, <1>3, <2>2, <4>1 DEF BoundInv, Copies
        <3> QED
            BY <1>1, <2>2, <3>1 DEF BoundInv, Copies
    <2> QED
        BY <2>1, <2>2
<1>8. MineKept'
    BY <1>1, <1>2, <1>4 DEF BoundInv, MineKept
<1>9. WrittenSoFar'
    BY <1>1, <1>4 DEF BoundInv, WrittenSoFar, Binding
<1>10. Left'
    <2>1. CASE Start
        BY <1>1, <2>1 DEF Left
    <2>2. CASE ~Start
        <3>1. Rests' => Rests
            BY <1>1, <2>2 DEF Rests
        <3>2. Rests => Seen("connection").uid # "none"
            BY DEF Rests, Identified, Running, Marked
        <3> QED
            BY <1>1, <1>3, <1>4, <2>2, <3>1, <3>2 DEF BoundInv, Left
    <2> QED
        BY <2>1, <2>2
<1> QED
    BY <1>5, <1>6, <1>7, <1>8, <1>9, <1>10 DEF BoundInv

LEMMA BoundProcess ==
    ASSUME TypeOK, Identified, BoundInv, Process PROVE BoundInv'
<1>1. CASE CallFails
    BY <1>1, BoundFails DEF CallFails, objects, published
<1>2. CASE Restart
    BY <1>2, BoundStop DEF Restart
<1>3. CASE Resync
    <2>1. /\ UNCHANGED <<connection, db, dbSecret, secret, config, cache>>
          /\ pc = "idle" /\ pc' = "idle" /\ dbCopy' = dbCopy /\ queued'
        BY <1>3 DEF Resync, worker, objects, published
    <2>2. pc' \notin Binding /\ dbCopy'.of = "none"
        BY <2>1 DEF BoundInv, Copies, Binding
    <2> QED
        BY <2>1, <2>2, BoundFrame
<1>4. CASE Start \/ (\E k \in Kinds : InformerSync(k))
    BY <1>4, BoundSynced
<1> QED
    BY <1>1, <1>2, <1>3, <1>4 DEF Process

\* The database changes, or its Secret: the worker hears of it when the cache shows it.
LEMMA BoundDB ==
    ASSUME TypeOK, Identified, BoundInv,
           SecureDB \/ (\E d \in Databases : MakeDB(d)) \/ DeleteDB \/ AckStatus
    PROVE  BoundInv'
<1>t. "none" \notin Databases
    BY ConnectionAssumption
<1>1. /\ UNCHANGED <<connection, secret, config, cache, worker>> /\ queued' = QueuedByDB
    BY DEF SecureDB, MakeDB, DeleteDB, AckStatus, InventoryUnchanged, DBChanged, published
<1>2. UNCHANGED <<pc, copy, dbCopy, password, outcome>>
    BY <1>1 DEF worker
<1>3. /\ Seen("db")' = IF "db" \in Lagging THEN Seen("db") ELSE db'
      /\ Seen("secret")' = Seen("secret") /\ Seen("config")' = Seen("config")
    BY <1>1, SeenNow, SeenNext
<1>4. pc # "down" /\ Seen("connection").uid # "none" /\ ~queued'
          => ~queued /\ "db" \in Lagging
    BY <1>1 DEF QueuedByDB
<1> DEFINE Same == /\ db'.of = db.of /\ db.of # "none"
                   /\ db.secured => db'.secured /\ dbSecret' = dbSecret
                   /\ db'.secured => dbSecret' = db.of
                   /\ dbSecret' \in {dbSecret, db.of}
           Gone == db'.of = "none" /\ ~db'.secured
           Made == /\ db.of = "none" /\ db'.of # "none" /\ db'.of \notin KnownDBs
                   /\ dbSecret' \in {"none", db'.of}
                   /\ db'.secured => dbSecret' = db'.of
<1>5. Same \/ Gone \/ Made
    <2>1. CASE SecureDB
        BY <2>1 DEF SecureDB, TypeOK, DBs
    <2>2. CASE AckStatus
        BY <2>2 DEF AckStatus, DBChanged, BoundInv, SecretOfDB, TypeOK, DBs
    <2>3. CASE DeleteDB
        BY <2>3 DEF DeleteDB, NoDB
    <2>4. ASSUME NEW d \in Databases, MakeDB(d) PROVE Made
        BY <1>t, <2>4 DEF MakeDB
    <2> QED
        BY <2>1, <2>2, <2>3, <2>4
<1>6. Made => db'.of \notin {Seen("db").of, Seen("secret").of, Seen("config").of, secret.of,
                             config.of, dbCopy.of, password}
    BY DEF KnownDBs
<1>7. SecretOfDB'
    <2>1. CASE "db" \in Lagging
        BY <1>3, <1>5, <1>6, <2>1 DEF BoundInv, SecretOfDB
    <2>2. CASE "db" \notin Lagging
        BY <1>3, <1>5, <2>2, SeenNow DEF BoundInv, SecretOfDB
    <2> QED
        BY <2>1, <2>2
<1>8. SeenOnce'
    <2>1. CASE Same
        BY <1>1, <1>2, <1>3, <2>1, SeenNow DEF BoundInv, SeenOnce
    <2>2. CASE Gone \/ Made
        <3>1. db'.of = "none" \/ db'.of \notin {config'.of, Seen("config")'.of, dbCopy'.of}
            BY <1>1, <1>2, <1>3, <1>6, <2>2
        <3> QED
            BY <3>1 DEF SeenOnce
    <2> QED
        BY <1>5, <2>1, <2>2
<1>9. Copies'
    <2>1. pc \in Binding /\ copy.uid = connection.uid /\ ~queued'
              => dbCopy = Seen("db")'
        <3>1. pc \in Binding /\ copy.uid = connection.uid
                  => pc # "down" /\ Seen("connection").uid # "none"
            BY DEF Binding, Identified, Running, Marked
        <3> QED
            BY <1>3, <1>4, <3>1 DEF BoundInv, Copies
    <2>2. pc \in Binding /\ dbCopy.of = db'.of
              => db'.secured /\ (pc # "getSecret" => password = db'.of)
        BY <1>5, <1>6 DEF BoundInv, Copies
    <2> QED
        BY <1>1, <1>2, <2>1, <2>2 DEF BoundInv, Copies
<1>10. MineKept'
    BY <1>1, <1>2, <1>3, <1>5, <1>6 DEF BoundInv, MineKept, Mine
<1>11. WrittenSoFar'
    BY <1>1, <1>2, <1>5, <1>6 DEF BoundInv, WrittenSoFar, Copies, Mine
<1>12. Left'
    <2>1. Rests => pc # "down" /\ Seen("connection").uid # "none"
        BY DEF Rests, Identified, Running, Marked
    <2>2. Rests' <=> Rests
        BY <1>1, <1>2 DEF Rests
    <2> QED
        BY <1>1, <1>3, <1>4, <1>5, <1>6, <2>1, <2>2 DEF BoundInv, Left, Mine
<1> QED
    BY <1>7, <1>8, <1>9, <1>10, <1>11, <1>12 DEF BoundInv

\* The Secret, the ConfigMap and the connection come and go.
LEMMA BoundPublished ==
    ASSUME TypeOK, Identified, OwnerInv, BoundInv,
           Collect \/ ClashingSecret \/ CreateConnection \/ DeleteConnection
    PROVE  BoundInv'
<1>t. /\ connection \in Connections /\ copy \in Connections
      /\ secret \in Published /\ config \in Published
      /\ "none" \notin Uids /\ "instance" \notin Uids /\ queued \in BOOLEAN
    BY ConnectionAssumption DEF TypeOK
<1>1. /\ UNCHANGED <<db, dbSecret, cache, pc, copy, dbCopy, password, outcome>>
      /\ (~queued' => pc = "down" \/ ~queued)
    <2>1. CASE Collect \/ ClashingSecret
        BY <2>1 DEF Collect, ClashingSecret, worker, objects
    <2>2. CASE CreateConnection \/ DeleteConnection
        <3>1. ConnectionChanged
            BY <2>2 DEF CreateConnection, DeleteConnection
        <3> QED
            BY <1>t, <3>1 DEF ConnectionChanged, QueuedByConnection, worker, objects
    <2> QED
        BY <2>1, <2>2
<1>2. /\ Seen("db")' = Seen("db")
      /\ Seen("secret")' = IF "secret" \in Lagging THEN Seen("secret") ELSE secret'
      /\ Seen("config")' = IF "config" \in Lagging THEN Seen("config") ELSE config'
    BY <1>1, SeenNow, SeenNext
<1>3. SecretOfDB'
    BY <1>1, <1>2 DEF BoundInv, SecretOfDB
<1>r. Rests => pc # "down" /\ connection.uid # "none"
    BY DEF Rests, Identified, Running
<1>4. CASE Collect \/ ClashingSecret
    <2>1. /\ UNCHANGED connection /\ queued' = queued
          /\ config' \in {config, Nothing}
          /\ \/ secret' = secret
             \/ secret' = Nothing
             \/ secret'.owner = "instance"
          /\ connection.uid # "none" /\ secret = Mine /\ db.of # "none" => secret' = secret
          /\ connection.uid # "none" /\ config = Mine /\ db.of # "none" => config' = config
        BY <1>t, <1>4 DEF Collect, ClashingSecret, Orphan, Nothing, Mine, Connections
    <2>2. Mine' = Mine
        BY <1>1, <2>1 DEF Mine
    <2>3. connection.uid # "none" => secret' # Mine \/ secret' = secret
        BY <1>t, <2>1 DEF Mine, Nothing, Connections
    <2>4. SeenOnce'
        BY <1>1, <1>2, <2>1, SeenNow DEF BoundInv, SeenOnce, Nothing
    <2>5. Copies'
        BY <1>1, <1>2, <2>1 DEF BoundInv, Copies
    <2>6. MineKept'
        BY <1>1, <1>2, <2>1, <2>2, <2>3 DEF BoundInv, MineKept
    <2>7. WrittenSoFar'
        <3>1. pc \in Binding /\ copy.uid = connection.uid /\ dbCopy.of = db.of
                  => connection.uid # "none" /\ db.of # "none"
            BY DEF Binding, Identified, Running, BoundInv, Copies
        <3> QED
            BY <1>1, <2>1, <2>2, <3>1 DEF BoundInv, WrittenSoFar
    <2>8. Left'
        <3>1. Rests' <=> Rests
            BY <1>1, <2>1 DEF Rests
        <3> QED
            BY <1>1, <1>2, <1>r, <2>1, <2>2, <3>1 DEF BoundInv, Left
    <2> QED
        BY <1>3, <2>4, <2>5, <2>6, <2>7, <2>8 DEF BoundInv
<1>5. CASE CreateConnection \/ DeleteConnection
    <2>1. /\ UNCHANGED <<secret, config>>
          /\ connection'.ready = "None"
          /\ \/ connection'.uid = "none"
             \/ connection'.uid \notin {copy.uid, Seen("secret").owner, Seen("config").owner,
                                        secret.owner, config.owner}
        BY <1>5 DEF CreateConnection, DeleteConnection, ConnectionChanged, published,
           NoConnection, KnownUids
    <2>2. Seen("secret")' = Seen("secret") /\ Seen("config")' = Seen("config")
        BY <1>2, <2>1, SeenNow
    <2>3. Running => copy.uid # connection'.uid
        BY <2>1 DEF Identified
    <2>4. SeenOnce'
        BY <1>1, <1>2, <2>1, <2>2 DEF BoundInv, SeenOnce
    <2>5. Copies'
        BY <1>1, <1>2, <2>3 DEF BoundInv, Copies, Binding, Running
    <2>6. MineKept'
        BY <1>1, <2>1, <2>2 DEF MineKept, Mine
    <2>7. WrittenSoFar'
        BY <1>1, <2>3 DEF WrittenSoFar, Binding, Running
    <2>8. Left'
        BY <1>1, <2>1, <2>3 DEF Left, Rests, Running
    <2> QED
        BY <1>3, <2>4, <2>5, <2>6, <2>7, <2>8 DEF BoundInv
<1> QED
    BY <1>4, <1>5

\* Nothing of what the invariant speaks of changes.
LEMMA BoundSame ==
    ASSUME BoundInv,
           UNCHANGED <<connection, db, secret, config, cache, worker, queued>>,
           dbSecret' = dbSecret \/ (db.of = "none" /\ dbSecret' = "none")
    PROVE  BoundInv'
<1>1. /\ Seen("db")' = Seen("db") /\ Seen("secret")' = Seen("secret")
      /\ Seen("config")' = Seen("config") /\ Mine' = Mine
      /\ UNCHANGED <<pc, copy, dbCopy, password, outcome>>
    BY SeenNow, SeenNext DEF Mine, worker
<1>2. SecretOfDB'
    BY <1>1 DEF BoundInv, SecretOfDB
<1>3. SeenOnce' /\ Copies' /\ MineKept' /\ WrittenSoFar'
    BY <1>1 DEF BoundInv, SeenOnce, Copies, MineKept, WrittenSoFar
<1>4. Left'
    BY <1>1 DEF BoundInv, Left, Rests
<1> QED
    BY <1>2, <1>3, <1>4 DEF BoundInv

LEMMA BoundStep ==
    ASSUME "dbSecret" \notin Lagging, TypeOK, OwnerInv, BoundInv, [Next]_vars
    PROVE  BoundInv'
<1>i. Identified
    BY OwnerIdentifies
<1>1. CASE Reconcile
    BY <1>i, <1>1, BoundPass
<1>2. CASE Process
    BY <1>i, <1>2, BoundProcess
<1>3. CASE SecureDB \/ (\E d \in Databases : MakeDB(d)) \/ DeleteDB \/ AckStatus
    BY <1>i, <1>3, BoundDB
<1>4. CASE Collect \/ ClashingSecret \/ CreateConnection \/ DeleteConnection
    BY <1>i, <1>4, BoundPublished
<1>5. CASE SyncInstances \/ InventoryWaits \/ CreateInventory \/ DeleteInventory
            \/ CollectDBSecret
    <2>1. /\ UNCHANGED <<connection, db, secret, config, cache, worker, queued>>
          /\ dbSecret' = dbSecret \/ (db.of = "none" /\ dbSecret' = "none")
        BY <1>5 DEF SyncInstances, InventoryWaits, CreateInventory, DeleteInventory,
           InventoryUnchanged, CollectDBSecret, published
    <2> QED
        BY <2>1, BoundSame
<1>6. CASE UNCHANGED vars
    BY <1>6, BoundSame DEF vars, objects, published
<1> QED
    BY <1>1, <1>2, <1>3, <1>4, <1>5, <1>6, NextParts DEF Others, InventoryPass

\* A Ready connection that nobody is going to look at again is bound to the database
\* there is, whichever caches lag, if that of the credential Secrets does not.
THEOREM ReadyIsBound ==
    ASSUME "dbSecret" \notin Lagging PROVE Spec => []BoundWhenIdle
<1>1. TypeOK /\ OwnerInv /\ BoundInv /\ [Next]_vars => TypeOK' /\ OwnerInv' /\ BoundInv'
    BY TypeStep, OwnerStep, BoundStep
<1>2. TypeOK /\ BoundInv => BoundWhenIdle
    <2> SUFFICES ASSUME TypeOK, BoundInv, pc = "idle", ~queued, CaughtUp,
                        connection.ready = "True"
                 PROVE  Bound
        BY DEF BoundWhenIdle
    <2>1. Seen("db") = db
        BY DEF CaughtUp, Seen, Stored
    <2>2. Rests
        BY DEF Rests
    <2> QED
        BY <2>1, <2>2 DEF BoundInv, Left, Bound, Mine
<1> QED
    BY InitType, InitOwner, InitBound, <1>1, <1>2, PTL DEF Spec
=============================================================================
