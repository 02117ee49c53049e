---------------------------- MODULE DBaaSProvider ----------------------------
(* The DBaaSProvider reconciler: it registers the operator with the DBaaS      *)
(* platform by creating one cluster-scoped resource, owned by the ClusterRole  *)
(* of the operator's version so that it disappears when the operator does. Its *)
(* only event is the operator's own Deployment appearing in the informer: one  *)
(* per start of the operator, and per installation.                            *)
EXTENDS Naturals, DBInstanceParameters

CONSTANTS
    MaxVersion,  \* how many versions of the operator are installed in turn
    MaxCrashes,  \* how often the operator crashes
    MaxErrors    \* how many calls fail

ASSUME ProviderAssumption ==
    MaxVersion \in Nat \ {0} /\ MaxCrashes \in Nat /\ MaxErrors \in Nat

Versions == 1 .. MaxVersion
Nobody == 0

VARIABLES
    deployed,  \* the operator's Deployment exists
    version,   \* the version its labels, and the operator's environment, name
    crd,       \* the DBaaSProvider CRD is installed
    roles,     \* the versions whose ClusterRole exists
    provider,  \* the version that owns the DBaaSProvider resource, Nobody without one
    queued,    \* the Deployment's key is in the queue
    pc,        \* "down", or the worker's next call
    owner,     \* the ClusterRole it has found
    crashes, errors

cluster == <<deployed, version, crd, roles>>
vars == <<cluster, provider, queued, pc, owner, crashes, errors>>

Init ==
    /\ deployed = TRUE /\ version = 1
    /\ crd \in BOOLEAN
    /\ roles = {}
    /\ provider = Nobody
    /\ queued = FALSE /\ pc = "down" /\ owner = Nobody
    /\ crashes = 0 /\ errors = 0

-----------------------------------------------------------------------------
\* The informer lists the Deployments: evaluatePredicateObject picks the
\* operator's own one, ignoreOtherDeployments lets no other event pass.
Start ==
    /\ pc = "down" /\ deployed
    /\ pc' = "idle" /\ queued' = TRUE
    /\ UNCHANGED <<cluster, provider, owner, crashes, errors>>

\* How a pass ends: for good, or with the key back in the rate-limited queue.
Return(again) == pc' = "idle" /\ owner' = Nobody /\ queued' = (queued \/ again)
Proceed(label) == pc' = label /\ UNCHANGED <<owner, queued>>

GetDeployment ==
    /\ pc = "idle" /\ queued
    /\ queued' = FALSE
    /\ pc' = IF deployed THEN "checkCrd" ELSE "idle"
    /\ UNCHANGED <<cluster, provider, owner, crashes, errors>>

\* Without the CRD the pass is repeated until somebody installs it.
CheckCrdOnce ==                                        \* mutant of CheckCrdInstalled
    /\ pc = "checkCrd"
    /\ IF crd THEN Proceed("getProvider") ELSE Return(FALSE)
    /\ UNCHANGED <<cluster, provider, crashes, errors>>
CheckCrdInstalled ==
    /\ pc = "checkCrd"
    /\ IF crd THEN Proceed("getProvider") ELSE Return(TRUE)
    /\ UNCHANGED <<cluster, provider, crashes, errors>>

GetProvider ==
    /\ pc = "getProvider"
    /\ IF provider = Nobody THEN Proceed("listRoles") ELSE Return(FALSE)
    /\ UNCHANGED <<cluster, provider, crashes, errors>>

\* The ClusterRoles with the operator's version in their labels: none is an error.
ListClusterRoles ==
    /\ pc = "listRoles"
    /\ IF version \in roles
       THEN pc' = "create" /\ owner' = version /\ queued' = queued
       ELSE Return(TRUE)
    /\ UNCHANGED <<cluster, provider, crashes, errors>>

\* bridgeProviderCR: what the platform has to ask a user for, to make an inventory and
\* an instance of it, with the ClusterRole as the controller of the resource.
CredentialFields ==
    [AWS_ACCESS_KEY_ID |-> "required", AWS_SECRET_ACCESS_KEY |-> "required",
     AWS_REGION |-> "required", ACK_RESOURCE_TAGS |-> "optional",
     ACK_LOG_LEVEL |-> "optional"]

Asked(type, required, default) == [type |-> type, required |-> required, default |-> default]
InstanceParameterSpecs ==
    [Engine               |-> Asked("string", TRUE, ""),
     EngineVersion        |-> Asked("string", FALSE, ""),
     DBInstanceIdentifier |-> Asked("string", TRUE, ""),
     DBInstanceClass      |-> Asked("string", TRUE, ""),
     StorageType          |-> Asked("string", FALSE, "gp2"),
     AllocatedStorage     |-> Asked("int", TRUE, "20"),
     IOPS                 |-> Asked("int", FALSE, ""),
     MaxAllocatedStorage  |-> Asked("int", FALSE, ""),
     DBSubnetGroupName    |-> Asked("string", FALSE, ""),
     PubliclyAccessible   |-> Asked("bool", FALSE, ""),
     VPCSecurityGroupIDs  |-> Asked("string", FALSE, ""),
     LicenseModel         |-> Asked("string", FALSE, "")]

Unowned(v) == MaxVersion + 1                           \* mutant of OwnedBy
OwnedBy(v) == v

CreateProvider ==
    /\ pc = "create"
    /\ IF crd /\ provider = Nobody
       THEN provider' = OwnedBy(owner) /\ Return(FALSE)
       ELSE provider' = provider /\ Return(TRUE)
    /\ UNCHANGED <<cluster, crashes, errors>>

CallFails ==
    /\ pc \in {"checkCrd", "getProvider", "listRoles", "create"}
    /\ errors < MaxErrors /\ errors' = errors + 1
    /\ Return(TRUE)
    /\ UNCHANGED <<cluster, provider, crashes>>

Stopped == pc' = "down" /\ queued' = FALSE /\ owner' = Nobody

Crash ==
    /\ pc # "down"
    /\ crashes < MaxCrashes /\ crashes' = crashes + 1
    /\ Stopped
    /\ UNCHANGED <<cluster, provider, errors>>

-----------------------------------------------------------------------------
(* The administrator, the lifecycle manager and the garbage collector.         *)

InstallCrd ==
    /\ ~crd
    /\ crd' = TRUE
    /\ UNCHANGED <<deployed, version, roles, provider, queued, pc, owner, crashes, errors>>

\* The lifecycle manager gives the version its ClusterRole, at any time.
CreateRole ==
    /\ deployed /\ version \notin roles
    /\ roles' = roles \cup {version}
    /\ UNCHANGED <<deployed, version, crd, provider, queued, pc, owner, crashes, errors>>

\* The operator is replaced by its next version: its Deployment gets new labels
\* and a new pod; the ClusterRole of the old version goes in the end.
Upgrade ==
    /\ deployed /\ version < MaxVersion
    /\ version' = version + 1
    /\ Stopped
    /\ UNCHANGED <<deployed, crd, roles, provider, crashes, errors>>

RemoveOldRole ==
    /\ roles' = roles \ {v \in roles : v < version} /\ roles' # roles
    /\ UNCHANGED <<deployed, version, crd, provider, queued, pc, owner, crashes, errors>>

\* The operator may still run for a while, in the middle of a pass.
Uninstall ==
    /\ deployed
    /\ deployed' = FALSE
    /\ roles' = {}
    /\ UNCHANGED <<version, crd, provider, queued, pc, owner, crashes, errors>>

Terminate ==
    /\ ~deployed /\ pc # "down"
    /\ Stopped
    /\ UNCHANGED <<cluster, provider, crashes, errors>>

\* A resource whose owner is gone goes too.
CollectProvider ==
    /\ provider \in Versions \ roles
    /\ provider' = Nobody
    /\ UNCHANGED <<cluster, queued, pc, owner, crashes, errors>>

-----------------------------------------------------------------------------
Reconcile ==
    GetDeployment \/ CheckCrdInstalled \/ GetProvider \/ ListClusterRoles \/ CreateProvider

Next ==
    \/ Start \/ Reconcile \/ CallFails \/ Crash
    \/ InstallCrd \/ CreateRole \/ Upgrade \/ RemoveOldRole \/ Uninstall \/ Terminate \/ CollectProvider

Spec == Init /\ [][Next]_vars

(* The Deployment keeps the operator running, the queue hands the key out, the *)
(* lifecycle manager makes and removes the ClusterRoles, the garbage collector  *)
(* collects; nobody has to install the CRD.                                    *)
Fairness ==
    /\ WF_vars(Start) /\ WF_vars(Reconcile) /\ WF_vars(CreateRole)
    /\ WF_vars(RemoveOldRole) /\ WF_vars(Terminate) /\ WF_vars(CollectProvider)

FairSpec == Spec /\ Fairness

-----------------------------------------------------------------------------
\* Every variable holds a value the code can give it.
TypeOK ==
    /\ deployed \in BOOLEAN /\ crd \in BOOLEAN
    /\ version \in Versions /\ roles \subseteq Versions
    /\ provider \in Versions \cup {Nobody} /\ owner \in Versions \cup {Nobody}
    /\ queued \in BOOLEAN
    /\ pc \in {"down", "idle", "checkCrd", "getProvider", "listRoles", "create"}
    /\ crashes \in 0 .. MaxCrashes /\ errors \in 0 .. MaxErrors

\* What is registered is what the operator can do: it asks for the credentials that
\* validateAWSParameter needs, a form that is filled in as it asks, with the defaults
\* that it gives, passes setDBInstanceSpec, and a connection to what is made of it tells
\* an application the type and a database, for each engine of the DBInstance's CRD.
Drafts == (UNION {[Required \cup {n} -> {"1", "true", "word"}] : n \in Names})
              \cup (UNION {[Required \ {n} -> {"1", "word"}] : n \in Required})
Form(draft) ==
    Merged(draft, [n \in {m \in Names : InstanceParameterSpecs[m].default # ""} |->
                        InstanceParameterSpecs[n].default])
Accepts(form) ==
    \A n \in Names : LET asked == InstanceParameterSpecs[n] IN
        /\ asked.required => n \in DOMAIN form
        /\ n \in DOMAIN form /\ asked.type = "int" => ParseInt(form[n])
        /\ n \in DOMAIN form /\ asked.type = "bool" => ParseBool(form[n])
Offered ==
    provider # Nobody =>
        /\ {f \in DOMAIN CredentialFields : CredentialFields[f] = "required"}
                = {"AWS_ACCESS_KEY_ID", "AWS_SECRET_ACCESS_KEY", "AWS_REGION"}
        /\ \A draft \in Drafts : Accepts(Form(draft)) => Valid(Form(draft))
        /\ \A engine \in PostgreSQL \cup MySQL \cup Oracle \cup SQLServer :
                LET told == SetConfigMap(engine, GenerateDBName(engine)) IN
                told.type # "" /\ told.database # "none"

\* Where the operator stays installed and the CRD comes to be, whenever that is,
\* the operator is registered in the end and stays so: after failed calls, crashes
\* and upgrades, whatever of the ClusterRole, the CRD and the operator comes last.
\* Only the resource of the version before must not be there any more when a pass
\* looks: the pass takes it for its own, and nothing starts another one.
Handover == pc = "getProvider" /\ provider \notin {Nobody, version}
EventuallyRegistered ==
    []~Handover => (<>[](deployed /\ crd) => <>[](provider = version))

\* The cleanup on uninstall that the owner is for: the resource does not survive
\* the operator, even one created while the operator was being removed.
EventuallyCleaned == <>[]~deployed => <>[](provider = Nobody)
=============================================================================
