--------------------------- MODULE InventoryState ---------------------------
(* What there is around the RDSInventory reconciler of the operator: the one   *)
(* RDSInventory it works for, and what it drives: the Secret, the ConfigMap    *)
(* and the Deployment of the ACK RDS controller, the AdoptedResources it       *)
(* creates, the DBInstance resources the ACK controller makes of them, the     *)
(* credential Secrets of those, and the databases themselves in AWS. Reads go  *)
(* through informer caches: the kinds in Lagging have a cache that may be      *)
(* behind the API server, those of the other kinds are always up to date.      *)
EXTENDS Naturals

CONSTANTS
    DBIds,      \* the database identifiers of the AWS account
    MaxCopies,  \* how many AdoptedResources of one identifier the model can hold
    Creds,      \* the valid contents of the user's AWS credential Secret
    Passwords,  \* the passwords generatePassword can return
    Lagging,    \* the kinds whose informer cache may lag
    Events,     \* the optional things the user and AWS do
    Faults,     \* the faults that happen ...
    MaxFaults   \* ... and how many of them at most

Kinds == {"inventory", "ackSecret", "ackConfig", "deployment", "adopted",
          "dbs", "dbSecret"}
EventNames == {"credential", "provision", "foreign", "busy", "awsDelete", "dbDelete"}
FaultNames == {"restart", "standby", "undeploy", "call", "conflict"}

ASSUME ConstantsAssumption ==
    /\ MaxCopies \in Nat
    /\ {"absent", "invalid", "none"} \cap Creds = {}
    /\ Passwords # {} /\ "none" \notin Passwords
    /\ Lagging \subseteq Kinds
    /\ Events \subseteq EventNames
    /\ Faults \subseteq FaultNames
    /\ MaxFaults \in Nat

(* An AdoptedResource and the DBInstance the ACK controller makes of it have   *)
(* one name. Name <<i, 0>> is not the operator's: an AdoptedResource the user  *)
(* wrote, or the DBInstance of an RDSInstance. The names <<i, c>> with c > 0   *)
(* are those the API server generates for the operator.                        *)
Objects == DBIds \X (0 .. MaxCopies)
Owned == {o \in Objects : o[2] > 0}

VARIABLES
    inventory,   \* the RDSInventory in the API server
    credential,  \* the Secret its credentialsRef names
    ackSecret, ackConfig, deployment,   \* the ACK controller's installation
    adopted,     \* the AdoptedResources
    dbs,         \* the DBInstance resources
    dbSecret,    \* the password in the credential Secret of each DBInstance
    aws,         \* the databases in AWS
    cache,       \* the lagging caches
    queued,      \* the inventory's key is in the work queue
    pc,          \* the worker's next call
    copy,        \* the worker's copy of the inventory
    cred,        \* the credentials it has read
    live,        \* the identifiers AWS has described to it
    todo,        \* those it may have to adopt
    batch,       \* the adopted DBInstances it has listed and not yet handled
    cur, pw,     \* the one it is giving a password, and the password
    waiting,     \* it has to come back: adoptingResource, waitForAdoptedResource
    outcome,     \* the condition it will write, and whether it asks to run again
    faults       \* the faults so far

install == <<ackSecret, ackConfig, deployment>>
objects == <<adopted, dbs, dbSecret, aws>>
scratch == <<cred, live, todo, batch, cur, pw, waiting>>
vars == <<inventory, credential, install, objects, cache, queued, pc, copy,
          scratch, outcome, faults>>
Worker == <<pc, copy, scratch, outcome>>

-----------------------------------------------------------------------------
Inventories == [phase : {"absent", "live", "deleting"}, finalizer : BOOLEAN,
                ready : {"None", "True", "False", "Unknown"}, instances : SUBSET Objects]
AbsentInventory ==
    [phase |-> "absent", finalizer |-> FALSE, ready |-> "None", instances |-> {}]

Deployments == [present : BOOLEAN, replicas : 0 .. 1, ready : BOOLEAN]
NoDeployment == [present |-> FALSE, replicas |-> 0, ready |-> FALSE]
NewDeployment == [present |-> TRUE, replicas |-> 1, ready |-> FALSE]

(* A DBInstance: the adopted label, status.dbInstanceStatus, whether           *)
(* masterUsername is AWS's, made up or not set, and whether masterUserPassword *)
(* refers to the credential Secret.                                            *)
DBs == [present : BOOLEAN, label : BOOLEAN, status : {"nil", "available", "busy"},
        username : {"none", "aws", "generated"}, password : BOOLEAN]
NoDB == [present |-> FALSE, label |-> FALSE, status |-> "nil",
         username |-> "none", password |-> FALSE]

(* "busy" is every status in which AWS refuses to modify the database; password *)
(* is "none" as long as it is not one the operator has set.                     *)
Databases == [status : {"unborn", "available", "busy", "deleting", "gone"},
              password : Passwords \cup {"none"}]
Alive(i) == aws[i].status \notin {"unborn", "gone"}

NoObject == <<>>
NoBatch == [o \in {} |-> NoDB]
Outcomes == [ready : {"True", "False", "Unknown"}, again : BOOLEAN]
NoOutcome == [ready |-> "False", again |-> FALSE]

Stored(k) ==
    CASE k = "inventory"  -> inventory
      [] k = "ackSecret"  -> ackSecret
      [] k = "ackConfig"  -> ackConfig
      [] k = "deployment" -> deployment
      [] k = "adopted"    -> adopted
      [] k = "dbs"        -> dbs
      [] k = "dbSecret"   -> dbSecret

\* What a Get or a List of the manager's client returns.
Seen(k) == IF k \in Lagging THEN cache[k] ELSE Stored(k)

\* The queue after a change of the inventory, and of a DBInstance: the only two
\* kinds the controller watches. A lagging kind wakes the worker when it syncs.
QueuedByInventory == queued \/ "inventory" \notin Lagging
QueuedByDB == queued \/ ("dbs" \notin Lagging /\ Seen("inventory").phase # "absent")

\* A fault happens, if the model allows another one.
Fault(f) == f \in Faults /\ faults < MaxFaults /\ faults' = faults + 1
=============================================================================
