--------------------------- MODULE ProviderProofs ---------------------------
(* Proofs about the DBaaSProvider reconciler: types, and that what it registers *)
(* asks for all that the other reconcilers need.                               *)
EXTENDS DBaaSProvider, TLAPS

LEMMA TypeStep == ASSUME TypeOK, [Next]_vars PROVE TypeOK'
<1> USE ProviderAssumption DEF TypeOK, Versions, Nobody
<1>1. CASE Start \/ GetDeployment \/ CheckCrdInstalled \/ GetProvider \/ ListClusterRoles
    BY <1>1 DEF Start, GetDeployment, CheckCrdInstalled, GetProvider, ListClusterRoles,
       Return, Proceed, cluster
<1>2. CASE CreateProvider
    BY <1>2 DEF CreateProvider, OwnedBy, Return, cluster
<1>3. CASE CallFails \/ Crash \/ Terminate
    <2>1. errors' \in 0 .. MaxErrors /\ crashes' \in 0 .. MaxCrashes
        <3>1. errors \in 0 .. MaxErrors /\ crashes \in 0 .. MaxCrashes
            OBVIOUS
        <3>2. CASE CallFails
            <4>1. errors < MaxErrors /\ errors' = errors + 1 /\ crashes' = crashes
                BY <3>2 DEF CallFails
            <4> QED
                BY <3>1, <4>1
        <3>3. CASE Crash
            <4>1. crashes < MaxCrashes /\ crashes' = crashes + 1 /\ errors' = errors
                BY <3>3 DEF Crash
            <4> QED
                BY <3>1, <4>1
        <3>4. CASE Terminate
            BY <3>1, <3>4 DEF Terminate
        <3> QED
            BY <1>3, <3>2, <3>3, <3>4
    <2>2. pc' \in {"down", "idle"} /\ owner' = Nobody /\ queued' \in BOOLEAN
        BY <1>3 DEF CallFails, Crash, Terminate, Stopped, Return
    <2>3. UNCHANGED <<cluster, provider>>
        BY <1>3 DEF CallFails, Crash, Terminate
    <2> QED
        BY <2>1, <2>2, <2>3 DEF cluster
<1>4. CASE InstallCrd \/ CreateRole \/ RemoveOldRole \/ Uninstall \/ CollectProvider
    BY <1>4 DEF InstallCrd, CreateRole, RemoveOldRole, Uninstall, CollectProvider, cluster
<1>6. CASE Upgrade
    <2>1. version' \in 1 .. MaxVersion
        BY <1>6 DEF Upgrade
    <2> QED
        BY <1>6, <2>1 DEF Upgrade, Stopped
<1>5. CASE UNCHANGED vars
    BY <1>5 DEF vars, cluster
<1> QED
    BY <1>1, <1>2, <1>3, <1>4, <1>5, <1>6 DEF Next, Reconcile

\* Every variable holds a value the code can give it: a resource is owned by a version's
\* ClusterRole or is not there.
THEOREM TypeCorrect == Spec => []TypeOK
<1>1. Init => TypeOK
    <2>1. 1 \in 1 .. MaxVersion /\ 0 \in 0 .. MaxCrashes /\ 0 \in 0 .. MaxErrors
        BY ProviderAssumption
    <2> QED
        BY <2>1 DEF Init, TypeOK, Versions, Nobody
<1> QED
    BY <1>1, TypeStep, PTL DEF Spec

-----------------------------------------------------------------------------
\* What the registered form lets a user give, setDBInstanceSpec takes: any texts under
\* the names it knows.
LEMMA AcceptedIsValid ==
    ASSUME NEW form, DOMAIN form \subseteq Names, Accepts(form) PROVE Valid(form)
<1>1. /\ Required \subseteq Names /\ Integers64 \subseteq Names /\ Booleans \subseteq Names
    BY DEF Names
<1>2. \A n \in Required : InstanceParameterSpecs[n].required
    <2>1. /\ InstanceParameterSpecs["Engine"].required
          /\ InstanceParameterSpecs["DBInstanceIdentifier"].required
          /\ InstanceParameterSpecs["DBInstanceClass"].required
          /\ InstanceParameterSpecs["AllocatedStorage"].required
        BY DEF InstanceParameterSpecs, Asked
    <2> QED
        BY <2>1 DEF Required
<1>3. \A n \in Integers64 : InstanceParameterSpecs[n].type = "int"
    <2>1. /\ InstanceParameterSpecs["AllocatedStorage"].type = "int"
          /\ InstanceParameterSpecs["IOPS"].type = "int"
          /\ InstanceParameterSpecs["MaxAllocatedStorage"].type = "int"
        BY DEF InstanceParameterSpecs, Asked
    <2> QED
        BY <2>1 DEF Integers64
<1>4. \A n \in Booleans : InstanceParameterSpecs[n].type = "bool"
    <2>1. InstanceParameterSpecs["PubliclyAccessible"].type = "bool"
        BY DEF InstanceParameterSpecs, Asked
    <2> QED
        BY <2>1 DEF Booleans
<1>5. Required \subseteq DOMAIN form
    BY <1>1, <1>2 DEF Accepts
<1>6. ASSUME NEW n \in DOMAIN form, n \in Integers64 PROVE ParseInt(form[n])
    BY <1>1, <1>3, <1>6 DEF Accepts
<1>7. ASSUME NEW n \in DOMAIN form, n \in Booleans PROVE ParseBool(form[n])
    BY <1>1, <1>4, <1>7 DEF Accepts
<1> QED
    BY <1>5, <1>6, <1>7 DEF Valid

\* A draft has names the form knows, and so have the defaults it is completed with.
LEMMA FormNames == ASSUME NEW draft \in Drafts PROVE DOMAIN Form(draft) \subseteq Names
<1>1. DOMAIN draft \subseteq Names
    <2>1. \/ \E n \in Names : DOMAIN draft = Required \cup {n}
          \/ \E n \in Required : DOMAIN draft = Required \ {n}
        <3>1. CASE draft \in UNION {[Required \cup {n} -> {"1", "true", "word"}] : n \in Names}
            <4>1. PICK n \in Names : draft \in [Required \cup {n} -> {"1", "true", "word"}]
                BY <3>1
            <4> QED
                BY <4>1
        <3>2. CASE draft \in UNION {[Required \ {n} -> {"1", "word"}] : n \in Required}
            <4>1. PICK n \in Required : draft \in [Required \ {n} -> {"1", "word"}]
                BY <3>2
            <4> QED
                BY <4>1
        <3> QED
            BY <3>1, <3>2 DEF Drafts
    <2>2. Required \subseteq Names
        BY DEF Names
    <2> QED
        BY <2>1, <2>2
<1>2. DOMAIN Form(draft) =
          DOMAIN draft \cup {m \in Names : InstanceParameterSpecs[m].default # ""}
    BY DEF Form, Merged
<1> QED
    BY <1>1, <1>2

\* An application is told of a type and a database for each engine.
LEMMA EnginesTold ==
    ASSUME NEW engine \in PostgreSQL \cup MySQL \cup Oracle \cup SQLServer
    PROVE  LET told == SetConfigMap(engine, GenerateDBName(engine)) IN
               told.type # "" /\ told.database # "none"
<1>1. CASE engine \in PostgreSQL
    BY <1>1 DEF SetConfigMap, GenerateDBName, GenerateBindingType
<1>2. CASE engine \in MySQL
    BY <1>2 DEF SetConfigMap, GenerateDBName, GenerateBindingType, PostgreSQL, MySQL
<1>3. CASE engine \in Oracle
    BY <1>3 DEF SetConfigMap, GenerateDBName, GenerateBindingType, PostgreSQL, MySQL, Oracle
<1>4. CASE engine \in SQLServer
    BY <1>4 DEF SetConfigMap, GenerateDBName, GenerateBindingType, PostgreSQL, MySQL, Oracle,
       SQLServer
<1> QED
    BY <1>1, <1>2, <1>3, <1>4

\* The form that the operator registers asks for what validateAWSParameter and
\* setDBInstanceSpec need, and whatever it accepts ends in a connection that names a type
\* and a database.
THEOREM FormIsEnough == Spec => []Offered
<1>1. {f \in DOMAIN CredentialFields : CredentialFields[f] = "required"}
          = {"AWS_ACCESS_KEY_ID", "AWS_SECRET_ACCESS_KEY", "AWS_REGION"}
    BY DEF CredentialFields
<1>2. Offered
    BY <1>1, AcceptedIsValid, FormNames, EnginesTold DEF Offered
<1> QED
    BY <1>2, PTL
=============================================================================
