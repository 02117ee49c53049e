--------------------------- MODULE AgreementProofs ---------------------------
(* Proof that CredentialAgreement is an invariant of InventorySystem, whatever *)
(* lags, fails or happens, and however many databases there are; that what is  *)
(* published stays; and that the system implements MasterCredential.           *)
EXTENDS InventoryProofs

-----------------------------------------------------------------------------
(* The inductive invariant.                                                    *)

Gone(i) == aws[i].status = "gone"

\* Only DBInstances of the operator's AdoptedResources have the label, and their
\* username is nobody's invention.
Labels ==
    \A o \in Objects : dbs[o].label => o \in Owned /\ dbs[o].username \in {"none", "aws"}

\* What the operator has adopted exists in AWS, or did.
Claims ==
    \A o \in Owned : adopted[o] # "none" \/ dbs[o].present => aws[o[1]].status # "unborn"

\* An AdoptedResource that is not adopted yet is the only thing of its name.
Reserved ==
    \A o \in Owned : adopted[o] \in {"pending", "managed"} =>
        /\ ~dbs[o].present /\ ~Seen("dbs")[o].present /\ o \notin DOMAIN batch
        /\ dbSecret[o] = "none" /\ Seen("dbSecret")[o] = "none"

\* Only the operator's DBInstances have a credential Secret, and one that is read
\* is the one that is stored, unless the DBInstance has been deleted.
SecretsKnown ==
    \A o \in Objects :
        /\ o \notin Owned => dbSecret[o] = "none" /\ Seen("dbSecret")[o] = "none"
        /\ dbs[o].present /\ Seen("dbSecret")[o] # "none" => dbSecret[o] = Seen("dbSecret")[o]

\* An adopted DBInstance that is read still exists, or its database is gone.
DBsKnown ==
    \A o \in Objects : Seen("dbs")[o].label =>
        /\ o \in Owned
        /\ Seen("dbs")[o].present => dbs[o].present \/ Gone(o[1])

\* CredentialAgreement, of the DBInstances with a reference.
HasReference(o) == dbs[o].present /\ dbs[o].label /\ dbs[o].password
Sole(o) == \A p \in Owned : p[1] = o[1] /\ dbs[p].present => p = o
Published ==
    \A o \in Objects : HasReference(o) =>
        /\ dbs[o].username = "aws"
        /\ dbSecret[o] # "none"
        /\ Alive(o[1]) /\ Sole(o) => aws[o[1]].password = dbSecret[o]

\* The worker's list of DBInstances.
Adopting == {"secure", "modify", "save"}
BatchKnown ==
    /\ pc \notin Adopting => DOMAIN batch = {}
    /\ \A o \in DOMAIN batch :
        /\ o \in Owned /\ batch[o].label /\ batch[o].present
        /\ dbs[o].present \/ Gone(o[1])

\* What was adopted and AWS has not described is gone: nothing is adopted but what
\* AWS described.
Late == {"listManaged", "adopt", "listAdopted"} \cup Adopting
Described ==
    /\ todo \subseteq live
    /\ \A i \in live : aws[i].status # "unborn"
    /\ pc \in Late =>
        \A o \in Owned : o[1] \notin live /\ (adopted[o] # "none" \/ dbs[o].present)
                            => Gone(o[1])

\* Between SetCredentials and the Update, the Secret holds the password on its way,
\* and after ModifyDBInstance so does AWS.
Modifying ==
    /\ pc \in {"modify", "save"} =>
        /\ pw # "none"
        /\ dbs[cur].present => dbSecret[cur] = pw
        /\ batch[cur].username = "none" => cur[1] \notin live
    /\ pc = "save" => batch[cur].username # "none" /\ aws[cur[1]].password = pw

StoredInv == Labels /\ Claims /\ SecretsKnown /\ DBsKnown /\ Published
WorkerInv == BatchKnown /\ Described /\ Modifying
AgreementInv == StoredInv /\ Reserved /\ WorkerInv

-----------------------------------------------------------------------------
(* What a step that does not set credentials may change.                       *)

SteadyAdopted ==
    \A o \in Owned :
        /\ adopted'[o] # "none" => adopted[o] # "none"
        /\ adopted'[o] \in {"pending", "managed"} => adopted[o] \in {"pending", "managed"}

SteadyDBs ==
    /\ \A o \in Owned : dbs'[o].present =>
        \/ dbs[o].present
        \/ adopted[o] = "managed" /\ adopted'[o] = "adopted"
    /\ \A o \in Objects :
        /\ dbs[o].present => dbs'[o].present \/ Gone(o[1])'
        /\ dbs'[o].label =>
            \/ dbs[o].label /\ dbs'[o].username \in {dbs[o].username, "aws"}
            \/ o \in Owned /\ dbs'[o].username = "none"
        /\ HasReference(o)' =>
            HasReference(o) /\ dbs'[o].username \in {dbs[o].username, "aws"}

SteadySecrets ==
    \A o \in Objects : /\ dbSecret'[o] \in {dbSecret[o], "none"}
                       /\ dbs[o].present => dbSecret'[o] = dbSecret[o]

SteadyAws ==
    \A i \in DBIds : /\ aws'[i].password = aws[i].password
                     /\ aws[i].status # "unborn" => aws'[i].status # "unborn"
                     /\ Gone(i) => Gone(i)'

Follows ==
    /\ Seen("dbs")' \in {Seen("dbs"), dbs'}
    /\ Seen("dbSecret")' \in {Seen("dbSecret"), dbSecret'}

Steady == SteadyAdopted /\ SteadyDBs /\ SteadySecrets /\ SteadyAws /\ Follows

LEMMA ObjectFacts == Owned \subseteq Objects /\ \A o \in Objects : o[1] \in DBIds
BY DEF Owned, Objects

LEMMA SteadyStored ==
    ASSUME TypeOK, AgreementInv, Steady PROVE StoredInv'
<1> USE ObjectFacts
<1>1. Labels'
    BY DEF AgreementInv, StoredInv, Labels, Steady, SteadyDBs
<1>2. Claims'
    BY DEF AgreementInv, StoredInv, Claims, Steady, SteadyDBs, SteadyAdopted, SteadyAws
<1>3. SecretsKnown'
    <2> SUFFICES ASSUME NEW o \in Objects
                 PROVE  /\ o \notin Owned => dbSecret'[o] = "none" /\ Seen("dbSecret")'[o] = "none"
                        /\ dbs'[o].present /\ Seen("dbSecret")'[o] # "none"
                            => dbSecret'[o] = Seen("dbSecret")'[o]
        BY DEF SecretsKnown
    <2>1. o \notin Owned => dbSecret'[o] = "none" /\ Seen("dbSecret")'[o] = "none"
        BY DEF AgreementInv, StoredInv, SecretsKnown, Steady, SteadySecrets, Follows
    <2>2. CASE dbs[o].present
        BY <2>1, <2>2 DEF AgreementInv, StoredInv, SecretsKnown, Steady, SteadySecrets, Follows
    <2>3. CASE ~dbs[o].present /\ o \in Owned
        BY <2>3 DEF AgreementInv, Reserved, Steady, SteadyDBs, Follows
    <2> QED
        BY <2>1, <2>2, <2>3
<1>4. DBsKnown'
    <2> SUFFICES ASSUME NEW o \in Objects, Seen("dbs")'[o].label
                 PROVE  /\ o \in Owned
                        /\ Seen("dbs")'[o].present => dbs'[o].present \/ Gone(o[1])'
        BY DEF DBsKnown
    <2>1. CASE Seen("dbs")' = Seen("dbs")
        BY <2>1 DEF AgreementInv, StoredInv, DBsKnown, Steady, SteadyDBs, SteadyAws
    <2>2. CASE Seen("dbs")' = dbs'
        BY <1>1, <2>2 DEF Labels
    <2> QED
        BY <2>1, <2>2 DEF Steady, Follows
<1>5. Published'
    <2> SUFFICES ASSUME NEW o \in Objects, HasReference(o)'
                 PROVE  /\ dbs'[o].username = "aws"
                        /\ dbSecret'[o] # "none"
                        /\ Alive(o[1])' /\ Sole(o)' => aws'[o[1]].password = dbSecret'[o]
        BY DEF Published
    <2>1. HasReference(o) /\ dbs'[o].username \in {dbs[o].username, "aws"}
        BY DEF Steady, SteadyDBs
    <2>2. dbs[o].username = "aws" /\ dbSecret[o] # "none" /\ dbSecret'[o] = dbSecret[o]
        BY <2>1 DEF AgreementInv, StoredInv, Published, Steady, SteadySecrets, HasReference
    <2>3. ASSUME Alive(o[1])', Sole(o)' PROVE Alive(o[1]) /\ Sole(o)
        <3>1. o \in Owned /\ aws[o[1]].status # "unborn"
            BY <2>1 DEF HasReference, AgreementInv, StoredInv, Labels, Claims
        <3>2. ~Gone(o[1]) /\ ~Gone(o[1])'
            BY <2>3 DEF Steady, SteadyAws, Gone, Alive
        <3> QED
            BY <2>3, <3>1, <3>2 DEF Sole, Alive, Gone, Steady, SteadyDBs
    <2> QED
        BY <2>1, <2>2, <2>3 DEF AgreementInv, StoredInv, Published, Steady, SteadyAws
<1> QED
    BY <1>1, <1>2, <1>3, <1>4, <1>5 DEF StoredInv

LEMMA SteadyReserved ==
    ASSUME AgreementInv, Steady, DOMAIN batch' \subseteq DOMAIN batch PROVE Reserved'
<1> SUFFICES ASSUME NEW o \in Owned, adopted'[o] \in {"pending", "managed"}
             PROVE  /\ ~dbs'[o].present /\ ~Seen("dbs")'[o].present /\ o \notin DOMAIN batch'
                    /\ dbSecret'[o] = "none" /\ Seen("dbSecret")'[o] = "none"
    BY DEF Reserved
<1>1. adopted[o] \in {"pending", "managed"} /\ o \in Objects
    BY ObjectFacts DEF Steady, SteadyAdopted
<1>2. ~dbs'[o].present
    BY <1>1 DEF AgreementInv, Reserved, Steady, SteadyDBs
<1>3. dbSecret'[o] = "none"
    BY <1>1 DEF AgreementInv, Reserved, Steady, SteadySecrets
<1> QED
    BY <1>1, <1>2, <1>3 DEF AgreementInv, Reserved, Steady, Follows

-----------------------------------------------------------------------------
(* What becomes of the worker.                                                 *)

\* It is not between the description of the databases and the last Update.
Idle == /\ pc' \notin Late /\ DOMAIN batch' = {}
        /\ todo' \subseteq live' /\ live' \subseteq live

Elsewhere == UNCHANGED <<pc, live, todo, batch, cur, pw>>

LEMMA IdleStep == ASSUME TypeOK, AgreementInv, Steady, Idle PROVE AgreementInv'
<1>1. StoredInv' /\ Reserved'
    BY SteadyStored, SteadyReserved DEF Idle
<1>2. BatchKnown' /\ Modifying'
    BY DEF Idle, Late, Adopting, BatchKnown, Modifying
<1>3. Described'
    BY DEF Idle, Described, AgreementInv, WorkerInv, Steady, SteadyAws, TypeOK
<1> QED
    BY <1>1, <1>2, <1>3 DEF AgreementInv, WorkerInv

LEMMA ElsewhereStep == ASSUME TypeOK, AgreementInv, Steady, Elsewhere PROVE AgreementInv'
<1> USE ObjectFacts
<1>1. StoredInv' /\ Reserved'
    BY SteadyStored, SteadyReserved DEF Elsewhere
<1>2. BatchKnown'
    BY DEF Elsewhere, BatchKnown, AgreementInv, WorkerInv, Steady, SteadyDBs, SteadyAws
<1>3. Described'
    BY DEF Elsewhere, Described, AgreementInv, WorkerInv, Steady, SteadyAws, SteadyDBs,
       SteadyAdopted, TypeOK
<1>4. Modifying'
    <2> SUFFICES ASSUME pc \in {"modify", "save"} PROVE Modifying'
        BY DEF Elsewhere, Modifying
    <2>1. cur \in Owned /\ cur \in DOMAIN batch /\ cur[1] \in DBIds
        BY DEF TypeOK, AgreementInv, WorkerInv, BatchKnown
    <2>2. ASSUME dbs'[cur].present PROVE dbs[cur].present
        BY <2>1, <2>2 DEF Steady, SteadyDBs, AgreementInv, Reserved
    <2> QED
        BY <2>1, <2>2 DEF Elsewhere, Modifying, AgreementInv, WorkerInv, Steady,
           SteadySecrets, SteadyAws
<1> QED
    BY <1>1, <1>2, <1>3, <1>4 DEF AgreementInv, WorkerInv

LEMMA EndIdle == (Updating \/ Failed \/ Requeue \/ NotReady \/ Ready) => Idle
BY DEF Updating, Failed, Requeue, NotReady, Ready, Finish, ClearScratch, NoBatch, Idle,
   Late, Adopting

LEMMA WalkIdle ==
    ASSUME AgreementInv, pc \notin Adopting \/ DOMAIN batch = {}, pc' \notin Late,
           UNCHANGED <<live, todo, batch>>
    PROVE  Idle
BY DEF AgreementInv, WorkerInv, BatchKnown, Described, Idle

LEMMA SameObjects == UNCHANGED <<objects, cache>> => Steady
BY DEF objects, Steady, SteadyAdopted, SteadyDBs, SteadySecrets, SteadyAws, Follows,
   HasReference, Gone, Seen, Stored

\* A cache that does not change shows what it showed, and no cache what is stored.
LEMMA SameCache == cache' = cache => Follows
BY DEF Follows, Seen, Stored
-----------------------------------------------------------------------------
(* The steps of the others: the worker is elsewhere.                           *)

LEMMA WorkerElsewhere == UNCHANGED Worker => Elsewhere
BY DEF Worker, scratch, Elsewhere

\* AWS moves a database that exists from one status to another.
LEMMA AwsMovesSteady ==
    ASSUME TypeOK, AgreementInv, NEW i \in DBIds, NEW from, "gone" \notin from,
           NEW to, to # "unborn", AwsMoves(i, from, to)
    PROVE  Steady /\ Elsewhere
<1>1. UNCHANGED <<adopted, dbs, dbSecret, cache>> /\ Elsewhere
    BY WorkerElsewhere DEF AwsMoves
<1>2. SteadyAws
    BY DEF AwsMoves, SteadyAws, Gone, TypeOK
<1>3. Gone(i)' => Gone(i) \/ to = "gone"
    BY DEF AwsMoves, Gone, TypeOK
<1> QED
    BY <1>1, <1>2, SameCache DEF Steady, SteadyAdopted, SteadyDBs, SteadySecrets,
       HasReference, Gone

LEMMA UserStep == ASSUME TypeOK, AgreementInv, User PROVE Steady /\ AgreementInv'
<1> USE ObjectFacts
<1> SUFFICES Steady /\ Elsewhere
    BY ElsewhereStep
<1>1. CASE CreateInventory \/ DeleteInventory \/ ChangeCredential \/ Deploy
    <2>1. UNCHANGED <<objects, cache>> /\ Elsewhere
        BY <1>1, WorkerElsewhere DEF CreateInventory, DeleteInventory, ChangeCredential,
           Deploy, Elsewhere, scratch
    <2> QED
        BY <2>1, SameObjects
<1>2. ASSUME NEW o \in Objects, ProvisionDBInstance(o) PROVE Steady /\ Elsewhere
    <2>1. UNCHANGED <<adopted, dbSecret, aws, cache>> /\ Elsewhere
        BY <1>2, WorkerElsewhere DEF ProvisionDBInstance, ObjectsChanged
    <2>2. SteadyDBs
        BY <1>2 DEF ProvisionDBInstance, SteadyDBs, HasReference, TypeOK, NoDB
    <2> QED
        BY <2>1, <2>2, SameCache DEF Steady, SteadyAdopted, SteadySecrets, SteadyAws, Gone
<1>3. ASSUME NEW o \in Objects, AdoptByUser(o) PROVE Steady /\ Elsewhere
    <2>1. UNCHANGED <<dbs, dbSecret, aws, cache>> /\ Elsewhere
        BY <1>3, WorkerElsewhere DEF AdoptByUser
    <2>2. SteadyAdopted
        BY <1>3 DEF AdoptByUser, SteadyAdopted, TypeOK
    <2> QED
        BY <2>1, <2>2, SameCache DEF Steady, SteadyDBs, SteadySecrets, SteadyAws, Gone,
           HasReference
<1>4. ASSUME NEW o \in Objects, AckDelete(o) PROVE Steady /\ Elsewhere
    <2>1. UNCHANGED <<adopted, dbSecret, cache>> /\ Elsewhere
        BY <1>4, WorkerElsewhere DEF AckDelete, ObjectsChanged
    <2>2. /\ dbs' = [dbs EXCEPT ![o] = NoDB]
          /\ aws' = [aws EXCEPT ![o[1]].status = "gone"]
        BY <1>4 DEF AckDelete
    <2>3. SteadyAws /\ Gone(o[1])'
        BY <2>2 DEF SteadyAws, Gone, TypeOK
    <2>4. SteadyDBs
        BY <2>2, <2>3 DEF SteadyDBs, HasReference, TypeOK, NoDB
    <2> QED
        BY <2>1, <2>3, <2>4, SameCache DEF Steady, SteadyAdopted, SteadySecrets
<1>5. ASSUME NEW i \in DBIds, AwsCreate(i) \/ AwsBusy(i) \/ AwsDelete(i)
      PROVE  Steady /\ Elsewhere
    BY <1>5, AwsMovesSteady DEF AwsCreate, AwsBusy, AwsDelete
<1> QED
    BY <1>1, <1>2, <1>3, <1>4, <1>5 DEF User

LEMMA ClusterStep == ASSUME TypeOK, AgreementInv, Cluster PROVE Steady /\ AgreementInv'
<1> USE ObjectFacts
<1> SUFFICES Steady /\ Elsewhere
    BY ElsewhereStep
<1>1. CASE Resync \/ DeploymentSettles
    <2>1. UNCHANGED <<objects, cache>> /\ Elsewhere
        BY <1>1, WorkerElsewhere DEF Resync, DeploymentSettles
    <2> QED
        BY <2>1, SameObjects
<1>2. ASSUME NEW k \in Kinds, InformerSync(k) PROVE Steady /\ Elsewhere
    <2>1. UNCHANGED <<adopted, dbs, dbSecret, aws>> /\ Elsewhere
        BY <1>2, WorkerElsewhere DEF InformerSync, objects
    <2>2. Follows
        BY <1>2 DEF InformerSync, Follows, Seen, Stored, objects, TypeOK
    <2> QED
        BY <2>1, <2>2 DEF Steady, SteadyAdopted, SteadyDBs, SteadySecrets, SteadyAws,
           Gone, HasReference
<1>3. ASSUME NEW o \in Objects, AckManage(o) \/ AckFinalize(o) PROVE Steady /\ Elsewhere
    <2>1. UNCHANGED <<dbs, dbSecret, aws, cache>> /\ Elsewhere
        BY <1>3, WorkerElsewhere DEF AckManage, AckFinalize
    <2>2. SteadyAdopted
        BY <1>3 DEF AckManage, AckFinalize, SteadyAdopted, TypeOK
    <2> QED
        BY <2>1, <2>2, SameCache DEF Steady, SteadyDBs, SteadySecrets, SteadyAws, Gone,
           HasReference
<1>4. ASSUME NEW o \in Objects, AckAdopt(o) PROVE Steady /\ Elsewhere
    <2>1. UNCHANGED <<dbSecret, aws, cache>> /\ Elsewhere
        BY <1>4, WorkerElsewhere DEF AckAdopt, ObjectsChanged
    <2>2. SteadyAdopted
        BY <1>4 DEF AckAdopt, SteadyAdopted, TypeOK
    <2>3. SteadyDBs
        BY <1>4 DEF AckAdopt, SteadyDBs, HasReference, TypeOK, NoDB
    <2> QED
        BY <2>1, <2>2, <2>3, SameCache DEF Steady, SteadySecrets, SteadyAws, Gone
<1>5. ASSUME NEW o \in Objects, AckCreate(o) PROVE Steady /\ Elsewhere
    <2>1. UNCHANGED <<adopted, dbs, dbSecret, cache>> /\ Elsewhere
        BY <1>5, WorkerElsewhere DEF AckCreate
    <2>2. SteadyAws
        BY <1>5 DEF AckCreate, SteadyAws, Gone, TypeOK
    <2> QED
        BY <2>1, <2>2, SameCache DEF Steady, SteadyAdopted, SteadyDBs, SteadySecrets,
           HasReference
<1>6. ASSUME NEW o \in Objects, AckStatus(o) PROVE Steady /\ Elsewhere
    <2>1. UNCHANGED <<adopted, dbSecret, aws, cache>> /\ Elsewhere
        BY <1>6, WorkerElsewhere DEF AckStatus, ObjectsChanged
    <2>2. SteadyDBs
        BY <1>6 DEF AckStatus, SteadyDBs, HasReference, TypeOK, DBs
    <2> QED
        BY <2>1, <2>2, SameCache DEF Steady, SteadyAdopted, SteadySecrets, SteadyAws, Gone
<1>7. ASSUME NEW o \in Objects, CollectSecret(o) PROVE Steady /\ Elsewhere
    <2>1. UNCHANGED <<adopted, dbs, aws, cache>> /\ Elsewhere
        BY <1>7, WorkerElsewhere DEF CollectSecret
    <2>2. SteadySecrets
        BY <1>7 DEF CollectSecret, SteadySecrets, TypeOK
    <2> QED
        BY <2>1, <2>2, SameCache DEF Steady, SteadyAdopted, SteadyDBs, SteadyAws, Gone,
           HasReference
<1>8. ASSUME NEW i \in DBIds, AwsSettle(i) \/ AwsGone(i) PROVE Steady /\ Elsewhere
    BY <1>8, AwsMovesSteady DEF AwsSettle, AwsGone
<1> QED
    BY <1>1, <1>2, <1>3, <1>4, <1>5, <1>6, <1>7, <1>8 DEF Cluster

LEMMA TroubleStep == ASSUME TypeOK, AgreementInv, Trouble PROVE Steady /\ AgreementInv'
<1>1. CASE CallFails \/ Conflict
    <2>1. UNCHANGED <<objects, cache>>
        BY <1>1 DEF CallFails, Conflict
    <2>2. Updating \/ Failed
        BY <1>1 DEF CallFails, Conflict
    <2> QED
        BY <2>1, <2>2, EndIdle, SameObjects, IdleStep
<1>2. CASE Restart
    <2>1. UNCHANGED <<adopted, dbs, dbSecret, aws>> /\ Idle
        BY <1>2 DEF Restart, objects, Idle, ClearScratch, NoBatch, Late, Adopting
    <2>2. Follows
        BY <1>2 DEF Restart, Follows, Seen, Stored, objects
    <2>3. Steady
        BY <2>1, <2>2 DEF Steady, SteadyAdopted, SteadyDBs, SteadySecrets, SteadyAws,
           Gone, HasReference
    <2> QED
        BY <2>1, <2>3, IdleStep
<1>3. CASE StandbySetup \/ Undeploy
    <2>1. UNCHANGED <<objects, cache>> /\ Elsewhere
        BY <1>3 DEF StandbySetup, Undeploy, Elsewhere, scratch
    <2> QED
        BY <2>1, SameObjects, ElsewhereStep
<1> QED
    BY <1>1, <1>2, <1>3 DEF Trouble

-----------------------------------------------------------------------------
(* The calls of a pass that adopt nothing.                                     *)

LEMMA IdleCalls ==
    ASSUME TypeOK, AgreementInv,
           \/ SetupWithManager \/ GetInventory \/ AddFinalizer
           \/ DeleteAdopted \/ StopController \/ DeleteSecret \/ DeleteConfigMap
           \/ RemoveFinalizer \/ ValidateAWSParameter \/ CreateOrUpdateSecret
           \/ CreateOrUpdateConfigMap \/ StartController \/ WaitForController
           \/ SyncInstances \/ UpdateReadyCondition
    PROVE  Steady /\ AgreementInv'
<1> SUFFICES Steady /\ Idle
    BY IdleStep
<1>1. CASE SetupWithManager
    <2>1. UNCHANGED <<adopted, dbs, dbSecret, aws>> /\ Idle
        BY <1>1, WalkIdle DEF SetupWithManager, Goto, objects, scratch, Late, Adopting
    <2>2. Follows
        BY <1>1 DEF SetupWithManager, Follows, Seen, Stored, objects
    <2> QED
        BY <2>1, <2>2 DEF Steady, SteadyAdopted, SteadyDBs, SteadySecrets, SteadyAws,
           Gone, HasReference
<1>2. CASE GetInventory
    <2>1. UNCHANGED <<objects, cache>> /\ UNCHANGED scratch /\ pc = "idle"
        BY <1>2 DEF GetInventory
    <2>2. pc' \notin Late
        <3>1. Seen("inventory") \in Inventories
            BY SeenType
        <3>2. pc' = IF Seen("inventory").phase = "absent" THEN "idle"
                                                          ELSE FirstCall(Seen("inventory"))
            BY <1>2 DEF GetInventory, Goto
        <3> QED
            BY <3>1, <3>2, FirstCallType DEF Late, Adopting
    <2> QED
        BY <2>1, <2>2, SameObjects, WalkIdle DEF scratch, Adopting
<1>3. CASE DeleteAdopted
    <2>1. UNCHANGED <<dbs, dbSecret, aws, cache>>
        BY <1>3 DEF DeleteAdopted
    <2>2. SteadyAdopted
        BY <1>3, ObjectFacts DEF DeleteAdopted, SteadyAdopted, Terminated
    <2>3. Idle
        <3>1. \/ Updating \/ Failed
              \/ UNCHANGED scratch /\ pc = "deleteAdopted" /\ pc' = "stop"
            BY <1>3 DEF DeleteAdopted, Goto
        <3> QED
            BY <3>1, EndIdle, WalkIdle DEF scratch, Late, Adopting
    <2> QED
        BY <2>1, <2>2, <2>3, SameCache DEF Steady, SteadyDBs, SteadySecrets, SteadyAws,
           Gone, HasReference
<1>4. CASE AddFinalizer \/ RemoveFinalizer \/ SyncInstances
    <2>1. UNCHANGED <<objects, cache>>
        BY <1>4 DEF AddFinalizer, RemoveFinalizer, SyncInstances
    <2>2. Updating \/ NotReady \/ Ready
        BY <1>4 DEF AddFinalizer, RemoveFinalizer, SyncInstances
    <2> QED
        BY <2>1, <2>2, SameObjects, EndIdle
<1>5. CASE \/ StopController \/ DeleteSecret \/ DeleteConfigMap \/ ValidateAWSParameter
           \/ CreateOrUpdateSecret \/ CreateOrUpdateConfigMap \/ StartController
           \/ WaitForController
    <2>1. UNCHANGED <<objects, cache>>
        BY <1>5 DEF StopController, DeleteSecret, DeleteConfigMap, ValidateAWSParameter,
           CreateOrUpdateSecret, CreateOrUpdateConfigMap, StartController, WaitForController
    <2>2. \/ Updating \/ Failed \/ Requeue
          \/ /\ UNCHANGED <<live, todo, batch>>
             /\ pc \notin Late
             /\ pc' \notin Late
        <3>1. CASE StopController \/ DeleteSecret \/ DeleteConfigMap \/ ValidateAWSParameter
            BY <3>1 DEF StopController, DeleteSecret, DeleteConfigMap,
               ValidateAWSParameter, Goto, scratch, Late, Adopting
        <3>2. CASE CreateOrUpdateSecret \/ CreateOrUpdateConfigMap
            BY <3>2 DEF CreateOrUpdateSecret, CreateOrUpdateConfigMap, Goto, scratch, Late, Adopting
        <3>3. CASE StartController
            BY <3>3 DEF StartController, Goto, scratch, Late, Adopting
        <3>4. CASE WaitForController
            <4>1. Seen("deployment") \in Deployments
                BY SeenType
            <4> QED
                BY <3>4, <4>1 DEF WaitForController, Goto, scratch, Late, Adopting, Deployments
        <3> QED
            BY <1>5, <3>1, <3>2, <3>3, <3>4
    <2> QED
        BY <2>1, <2>2, SameObjects, EndIdle, WalkIdle DEF Late
<1>6. CASE UpdateReadyCondition
    <2>1. UNCHANGED <<objects, cache>> /\ pc = "done" /\ pc' = "idle" /\ UNCHANGED scratch
        BY <1>6 DEF UpdateReadyCondition, EndPass
    <2> QED
        BY <2>1, SameObjects, WalkIdle DEF scratch, Late, Adopting
<1> QED
    BY <1>1, <1>2, <1>3, <1>4, <1>5, <1>6

-----------------------------------------------------------------------------
(* The adoption.                                                               *)

LEMMA DescribeStep ==
    ASSUME TypeOK, AgreementInv, DescribeDBInstances PROVE AgreementInv'
<1> USE ObjectFacts
<1>1. Steady /\ UNCHANGED <<adopted, dbs, aws, batch>>
    BY SameObjects DEF DescribeDBInstances, objects
<1>2. DOMAIN batch = {} /\ pc' \in {"listAdopted", "listManaged"}
    BY DEF DescribeDBInstances, Goto, AgreementInv, WorkerInv, BatchKnown, Adopting
<1>3. StoredInv' /\ Reserved'
    BY <1>1, <1>2, SteadyStored, SteadyReserved
<1>4. BatchKnown' /\ Modifying'
    BY <1>1, <1>2 DEF BatchKnown, Modifying
<1>5. Described'
    <2>1. live' = {i \in DBIds : Alive(i)} /\ todo' \subseteq live'
        BY DEF DescribeDBInstances
    <2> QED
        BY <1>1, <2>1 DEF Described, Alive, Gone, AgreementInv, StoredInv, Claims
<1> QED
    BY <1>3, <1>4, <1>5 DEF AgreementInv, WorkerInv

\* Steps between the calls of the adoption that drop something from the lists.
LEMMA NarrowStep ==
    ASSUME TypeOK, AgreementInv, UNCHANGED <<objects, cache>>, live' = live,
           todo' \subseteq todo, pc \in Late, pc' \in Late \ {"modify", "save"},
           DOMAIN batch' \subseteq DOMAIN batch, pc' \notin Adopting => DOMAIN batch' = {},
           \A o \in DOMAIN batch' : batch'[o] = batch[o]
    PROVE  AgreementInv'
<1>1. Steady /\ UNCHANGED <<adopted, dbs, aws>>
    BY SameObjects DEF objects
<1>2. StoredInv' /\ Reserved'
    BY <1>1, SteadyStored, SteadyReserved
<1>3. BatchKnown' /\ Modifying' /\ Described'
    BY <1>1 DEF AgreementInv, WorkerInv, BatchKnown, Modifying, Described, Gone
<1> QED
    BY <1>2, <1>3 DEF AgreementInv, WorkerInv

LEMMA CreateStep ==
    ASSUME TypeOK, AgreementInv, NEW i \in DBIds, CreateAdoptedResource(i)
    PROVE  AgreementInv'
<1> USE ObjectFacts
<1>1. PICK o \in Owned : o[1] = i /\ Fresh(o) /\ adopted' = [adopted EXCEPT ![o] = "pending"]
    BY DEF CreateAdoptedResource
<1>2. /\ UNCHANGED <<dbs, dbSecret, aws, cache, pc, live, batch, cur, pw>>
      /\ pc = "adopt" /\ i \in todo /\ todo' = todo \ {i}
    BY DEF CreateAdoptedResource
<1>3. /\ \A p \in Objects : p # o => adopted'[p] = adopted[p]
      /\ Seen("dbs")' = Seen("dbs") /\ Seen("dbSecret")' = Seen("dbSecret")
    BY <1>1, <1>2 DEF TypeOK, Seen, Stored
<1>4. i \in live /\ aws[i].status # "unborn" /\ DOMAIN batch = {}
    BY <1>2 DEF AgreementInv, WorkerInv, Described, BatchKnown, Adopting
<1>5. Labels' /\ SecretsKnown' /\ DBsKnown' /\ Published'
    BY <1>2, <1>3 DEF AgreementInv, StoredInv, Labels, SecretsKnown, DBsKnown, Published,
       HasReference, Sole, Alive, Gone
<1>6. Claims'
    BY <1>1, <1>2, <1>3, <1>4 DEF AgreementInv, StoredInv, Claims
<1>7. Reserved'
    BY <1>1, <1>2, <1>3, <1>4 DEF AgreementInv, Reserved, Fresh
<1>8. BatchKnown' /\ Modifying'
    BY <1>2, <1>4 DEF BatchKnown, Modifying, Adopting
<1>9. Described'
    BY <1>1, <1>2, <1>3, <1>4 DEF AgreementInv, WorkerInv, Described, Gone
<1> QED
    BY <1>5, <1>6, <1>7, <1>8, <1>9 DEF AgreementInv, StoredInv, WorkerInv

LEMMA ListAdoptedStep == ASSUME TypeOK, AgreementInv, ListAdopted PROVE AgreementInv'
<1> USE ObjectFacts
<1>1. /\ pc = "listAdopted" /\ pc' = "secure"
      /\ UNCHANGED <<objects, cache, live, todo>>
      /\ DOMAIN batch' = {p \in Objects : Seen("dbs")[p].present /\ Seen("dbs")[p].label}
      /\ \A o \in DOMAIN batch' : batch'[o] = Seen("dbs")[o]
    BY DEF ListAdopted, Goto
<1>2. Steady /\ UNCHANGED <<adopted, dbs, dbSecret, aws>>
    BY <1>1, SameObjects DEF objects
<1>3. Seen("dbs")' = Seen("dbs") /\ Seen("dbSecret")' = Seen("dbSecret")
    BY <1>1, <1>2 DEF Seen, Stored
<1>4. StoredInv'
    BY <1>2, SteadyStored
<1>5. BatchKnown'
    BY <1>1, <1>2 DEF BatchKnown, AgreementInv, StoredInv, DBsKnown, Adopting, Gone
<1>6. Reserved'
    BY <1>1, <1>2, <1>3 DEF Reserved, AgreementInv
<1>7. Described' /\ Modifying'
    BY <1>1, <1>2 DEF Described, Modifying, AgreementInv, WorkerInv, Late, Gone
<1> QED
    BY <1>4, <1>5, <1>6, <1>7 DEF AgreementInv, WorkerInv

LEMMA FillStep ==
    ASSUME TypeOK, AgreementInv, NEW o \in Objects, FillConnectionInfo(o)
    PROVE  AgreementInv'
<1> USE ObjectFacts
<1>1. CASE dbs[o] = batch[o]
    <2>1. /\ pc = "secure" /\ pc' = pc /\ o \in DOMAIN batch
          /\ UNCHANGED <<adopted, dbSecret, aws, cache, live, todo>>
          /\ dbs' = [dbs EXCEPT ![o].username = "aws"]
          /\ batch' = [batch EXCEPT ![o].username = "aws"]
        BY <1>1 DEF FillConnectionInfo, Handles
    <2>2. SteadyDBs
        BY <2>1 DEF SteadyDBs, HasReference, TypeOK, DBs
    <2>3. Steady
        BY <2>1, <2>2, SameCache DEF Steady, SteadyAdopted, SteadySecrets, SteadyAws, Gone
    <2>4. /\ DOMAIN batch' = DOMAIN batch
          /\ \A p \in DOMAIN batch : /\ batch'[p].label = batch[p].label
                                     /\ batch'[p].present = batch[p].present
                                     /\ dbs'[p].present = dbs[p].present
        BY <2>1 DEF TypeOK, DBs
    <2>5. StoredInv' /\ Reserved'
        BY <2>3, <2>4, SteadyStored, SteadyReserved
    <2>6. BatchKnown'
        BY <2>1, <2>4 DEF BatchKnown, AgreementInv, WorkerInv, Gone
    <2>7. Modifying'
        BY <2>1 DEF Modifying
    <2>8. Described'
        BY <2>1, <2>3 DEF Described, AgreementInv, WorkerInv, Steady, SteadyDBs, Gone, Late,
           Adopting
    <2> QED
        BY <2>5, <2>6, <2>7, <2>8 DEF AgreementInv, WorkerInv
<1>2. CASE dbs[o] # batch[o]
    <2>1. UNCHANGED <<objects, cache>> /\ (Updating \/ Failed)
        BY <1>2 DEF FillConnectionInfo, objects
    <2> QED
        BY <2>1, SameObjects, EndIdle, IdleStep
<1> QED
    BY <1>1, <1>2

\* A Secret that is there keeps its password, and a new one appears only where
\* neither the Secret nor the reference was.
LEMMA SetCredentialsStep ==
    ASSUME TypeOK, AgreementInv, NEW o \in Objects, SetCredentials(o)
    PROVE  AgreementInv'
<1> USE ObjectFacts
<1>1. CASE SecretMissed(o)
    <2>1. UNCHANGED <<objects, cache>> /\ Failed
        BY <1>1 DEF SetCredentials, objects
    <2> QED
        BY <2>1, SameObjects, EndIdle, IdleStep
<1>2. CASE ~SecretMissed(o)
    <2>1. /\ pc = "secure" /\ pc' = "modify" /\ o \in DOMAIN batch /\ cur' = o
          /\ UNCHANGED <<adopted, dbs, aws, cache, live, todo, batch>>
          /\ pw' \in PasswordsFor(o) /\ ~NeedsUsername(o)
          /\ dbSecret' = IF pw' = Seen("dbSecret")[o] THEN dbSecret
                                                     ELSE [dbSecret EXCEPT ![o] = pw']
        BY <1>2 DEF SetCredentials, Handles, Goto
    <2>2. o \in Owned /\ (dbs[o].present \/ Gone(o[1]))
        BY <2>1 DEF AgreementInv, WorkerInv, BatchKnown
    <2>3. adopted[o] \notin {"pending", "managed"}
        BY <2>1, <2>2 DEF AgreementInv, Reserved
    <2>4. pw' # "none" /\ (dbs[o].present => dbSecret'[o] = pw')
          /\ \A p \in Objects : dbSecret'[p] = dbSecret[p] \/ (p = o /\ dbSecret[o] = "none")
        <3>1. Seen("dbSecret") \in [Objects -> Passwords \cup {"none"}]
            BY SeenType
        <3>2. CASE Seen("dbSecret")[o] = "none"
            <4>1. dbSecret[o] = "none" /\ pw' \in Passwords /\ pw' # "none"
                BY <1>2, <2>1, <3>2, ConstantsAssumption DEF SecretMissed, PasswordsFor
            <4>2. dbSecret' = [dbSecret EXCEPT ![o] = pw']
                BY <2>1, <3>2, <4>1
            <4> QED
                BY <4>1, <4>2 DEF TypeOK
        <3>3. CASE Seen("dbSecret")[o] # "none"
            <4>1. pw' = Seen("dbSecret")[o] /\ dbSecret' = dbSecret
                BY <2>1, <3>3 DEF PasswordsFor
            <4> QED
                BY <3>3, <4>1 DEF AgreementInv, StoredInv, SecretsKnown
        <3> QED
            BY <3>2, <3>3
    <2>5. Seen("dbs")' = Seen("dbs") /\ Seen("dbSecret")' \in {Seen("dbSecret"), dbSecret'}
        BY <2>1 DEF Seen, Stored
    <2>6. Labels' /\ Claims' /\ DBsKnown'
        BY <2>1, <2>5 DEF AgreementInv, StoredInv, Labels, Claims, DBsKnown, Gone
    <2>7. SecretsKnown'
        <3> SUFFICES ASSUME NEW p \in Objects
                     PROVE  /\ p \notin Owned => dbSecret'[p] = "none" /\ Seen("dbSecret")'[p] = "none"
                            /\ dbs'[p].present /\ Seen("dbSecret")'[p] # "none"
                                => dbSecret'[p] = Seen("dbSecret")'[p]
            BY DEF SecretsKnown
        <3>1. CASE dbSecret'[p] = dbSecret[p]
            BY <2>1, <2>5, <3>1 DEF AgreementInv, StoredInv, SecretsKnown
        <3>2. CASE p = o /\ dbSecret[o] = "none"
            BY <2>1, <2>2, <2>5, <3>2 DEF AgreementInv, StoredInv, SecretsKnown
        <3> QED
            BY <2>4, <3>1, <3>2
    <2>8. Reserved'
        <3> SUFFICES ASSUME NEW p \in Owned, adopted'[p] \in {"pending", "managed"}
                     PROVE  /\ ~dbs'[p].present /\ ~Seen("dbs")'[p].present
                            /\ p \notin DOMAIN batch'
                            /\ dbSecret'[p] = "none" /\ Seen("dbSecret")'[p] = "none"
            BY DEF Reserved
        <3>1. p # o /\ p \in Objects /\ dbSecret'[p] = dbSecret[p]
            BY <2>1, <2>3, <2>4
        <3> QED
            BY <2>1, <2>5, <3>1 DEF AgreementInv, Reserved
    <2>9. Published'
        <3> SUFFICES ASSUME NEW p \in Objects, HasReference(p)'
                     PROVE  /\ dbs'[p].username = "aws"
                            /\ dbSecret'[p] # "none"
                            /\ Alive(p[1])' /\ Sole(p)' => aws'[p[1]].password = dbSecret'[p]
            BY DEF Published
        <3>1. /\ dbs[p].username = "aws" /\ dbSecret[p] # "none"
              /\ Alive(p[1]) /\ Sole(p) => aws[p[1]].password = dbSecret[p]
            BY <2>1 DEF HasReference, AgreementInv, StoredInv, Published
        <3> QED
            BY <2>1, <2>4, <3>1 DEF Alive, Sole
    <2>10. BatchKnown' /\ Described'
        BY <2>1 DEF AgreementInv, WorkerInv, BatchKnown, Described, Adopting, Late, Gone
    <2>11. Modifying'
        BY <2>1, <2>4 DEF Modifying, NeedsUsername
    <2> QED
        BY <2>6, <2>7, <2>8, <2>9, <2>10, <2>11 DEF AgreementInv, StoredInv, WorkerInv
<1> QED
    BY <1>1, <1>2

\* AWS gets the password that the Secret of the DBInstance holds.
LEMMA ModifyStep == ASSUME TypeOK, AgreementInv, ModifyDBInstance PROVE AgreementInv'
<1> USE ObjectFacts
<1>1. CASE aws[cur[1]].status # "available"
    <2>1. UNCHANGED <<objects, cache>> /\ Failed
        BY <1>1 DEF ModifyDBInstance, objects
    <2> QED
        BY <2>1, SameObjects, EndIdle, IdleStep
<1>2. CASE aws[cur[1]].status = "available"
    <2>1. /\ pc = "modify" /\ pc' = "save"
          /\ UNCHANGED <<adopted, dbs, dbSecret, cache, live, todo, batch, cur, pw>>
          /\ aws' = [aws EXCEPT ![cur[1]] = [status |-> "busy", password |-> pw]]
        BY <1>2 DEF ModifyDBInstance, Goto, scratch
    <2>2. cur \in DOMAIN batch /\ cur \in Owned /\ cur \in Objects /\ cur[1] \in DBIds
        BY <2>1 DEF TypeOK, AgreementInv, WorkerInv, BatchKnown
    <2>3. dbs[cur].present /\ dbSecret[cur] = pw /\ pw # "none"
        BY <1>2, <2>1, <2>2 DEF AgreementInv, WorkerInv, BatchKnown, Modifying, Gone
    <2>4. Seen("dbs")' = Seen("dbs") /\ Seen("dbSecret")' = Seen("dbSecret")
        BY <2>1 DEF Seen, Stored
    <2>5. /\ aws'[cur[1]].status = "busy" /\ aws'[cur[1]].password = pw
          /\ \A i \in DBIds : i # cur[1] => aws'[i] = aws[i]
        BY <2>1, <2>2 DEF TypeOK
    <2>6. \A i \in DBIds : /\ aws'[i].status = "unborn" <=> aws[i].status = "unborn"
                           /\ aws'[i].status = "gone" <=> aws[i].status = "gone"
        BY <1>2, <2>5
    <2>7. Labels' /\ Claims' /\ SecretsKnown' /\ DBsKnown' /\ Reserved'
        BY <2>1, <2>4, <2>6 DEF AgreementInv, StoredInv, Labels, Claims, SecretsKnown,
           DBsKnown, Reserved, Gone
    <2>8. Published'
        <3> SUFFICES ASSUME NEW p \in Objects, HasReference(p)'
                     PROVE  /\ dbs'[p].username = "aws"
                            /\ dbSecret'[p] # "none"
                            /\ Alive(p[1])' /\ Sole(p)' => aws'[p[1]].password = dbSecret'[p]
            BY DEF Published
        <3>1. /\ dbs[p].username = "aws" /\ dbSecret[p] # "none"
              /\ Alive(p[1]) /\ Sole(p) => aws[p[1]].password = dbSecret[p]
            BY <2>1 DEF HasReference, AgreementInv, StoredInv, Published
        <3>2. CASE p[1] = cur[1]
            BY <2>1, <2>2, <2>3, <2>5, <3>1, <3>2 DEF Sole
        <3>3. CASE p[1] # cur[1]
            BY <2>1, <2>5, <3>1, <3>3 DEF Sole, Alive
        <3> QED
            BY <3>2, <3>3
    <2>9. BatchKnown' /\ Described'
        <3>1. live \subseteq DBIds
            BY DEF TypeOK
        <3> QED
            BY <2>1, <2>6, <3>1 DEF AgreementInv, WorkerInv, BatchKnown, Described,
               Adopting, Late, Gone, TypeOK
    <2>10. Modifying'
        <3>1. batch[cur].username # "none"
            BY <1>2, <2>1, <2>2, <2>3 DEF AgreementInv, WorkerInv, Modifying, Described,
               Late, Adopting, Gone
        <3> QED
            BY <2>1, <2>3, <2>5, <3>1 DEF Modifying
    <2> QED
        BY <2>7, <2>8, <2>9, <2>10 DEF AgreementInv, StoredInv, WorkerInv
<1> QED
    BY <1>1, <1>2

\* The reference is published over a Secret and a database that agree.
LEMMA SaveStep == ASSUME TypeOK, AgreementInv, SaveDBInstance PROVE AgreementInv'
<1> USE ObjectFacts
<1>1. CASE dbs[cur] # batch[cur]
    <2>1. UNCHANGED <<objects, cache>> /\ (Updating \/ Failed)
        BY <1>1 DEF SaveDBInstance, objects
    <2> QED
        BY <2>1, SameObjects, EndIdle, IdleStep
<1>2. CASE dbs[cur] = batch[cur]
    <2>1. /\ pc = "save" /\ pc' = "secure"
          /\ UNCHANGED <<adopted, dbSecret, aws, cache, live, todo>>
          /\ dbs' = [dbs EXCEPT ![cur] = WithReferences(@)]
          /\ batch' = Others(cur)
        BY <1>2 DEF SaveDBInstance, Goto
    <2>2. cur \in DOMAIN batch /\ cur \in Owned /\ cur \in Objects
        BY <2>1 DEF TypeOK, AgreementInv, WorkerInv, BatchKnown
    <2>3. /\ dbs[cur].present /\ dbs[cur].label /\ dbs[cur].username # "none"
          /\ dbSecret[cur] = pw /\ pw # "none" /\ aws[cur[1]].password = pw
        BY <1>2, <2>1, <2>2 DEF AgreementInv, WorkerInv, BatchKnown, Modifying
    <2>4. dbs[cur].username = "aws"
        BY <2>2, <2>3 DEF AgreementInv, StoredInv, Labels
    <2>5. /\ dbs'[cur].present /\ dbs'[cur].label /\ dbs'[cur].username = "aws"
          /\ \A p \in Objects : p # cur => dbs'[p] = dbs[p]
        BY <2>1, <2>2, <2>3, <2>4 DEF TypeOK, WithReferences, DBs
    <2>6. Seen("dbs")' \in {Seen("dbs"), dbs'} /\ Seen("dbSecret")' = Seen("dbSecret")
        BY <2>1 DEF Seen, Stored
    <2>7. \A p \in Objects : dbs'[p].present = dbs[p].present /\ dbs'[p].label = dbs[p].label
        BY <2>3, <2>5, <2>1, <2>2 DEF TypeOK, WithReferences, DBs
    <2>8. Labels' /\ Claims' /\ SecretsKnown'
        BY <2>1, <2>4, <2>5, <2>6, <2>7 DEF AgreementInv, StoredInv, Labels, Claims,
           SecretsKnown
    <2>9. DBsKnown'
        BY <2>1, <2>6, <2>7, <2>8 DEF AgreementInv, StoredInv, DBsKnown, Labels, Gone
    <2>10. DOMAIN batch' = DOMAIN batch \ {cur} /\ \A p \in DOMAIN batch' : batch'[p] = batch[p]
        BY <2>1 DEF Others
    <2>11. Reserved'
        BY <2>1, <2>6, <2>7, <2>10 DEF AgreementInv, Reserved
    <2>12. Published'
        <3> SUFFICES ASSUME NEW p \in Objects, HasReference(p)'
                     PROVE  /\ dbs'[p].username = "aws"
                            /\ dbSecret'[p] # "none"
                            /\ Alive(p[1])' /\ Sole(p)' => aws'[p[1]].password = dbSecret'[p]
            BY DEF Published
        <3>1. CASE p = cur
            BY <2>1, <2>3, <2>5, <3>1
        <3>2. CASE p # cur
            <4>1. HasReference(p)
                BY <2>5, <3>2 DEF HasReference
            <4>2. Sole(p)' => Sole(p)
                BY <2>7 DEF Sole
            <4> QED
                BY <2>1, <2>5, <3>2, <4>1, <4>2 DEF AgreementInv, StoredInv, Published, Alive
        <3> QED
            BY <3>1, <3>2
    <2>13. BatchKnown' /\ Described' /\ Modifying'
        BY <2>1, <2>7, <2>10 DEF AgreementInv, WorkerInv, BatchKnown, Described, Modifying,
           Adopting, Late, Gone
    <2> QED
        BY <2>8, <2>9, <2>11, <2>12, <2>13 DEF AgreementInv, StoredInv, WorkerInv
<1> QED
    BY <1>1, <1>2

-----------------------------------------------------------------------------
(* The theorem.                                                                *)

LEMMA ReconcileStep == ASSUME TypeOK, AgreementInv, Reconcile PROVE AgreementInv'
<1>1. CASE \/ GetInventory \/ AddFinalizer
           \/ DeleteAdopted \/ StopController \/ DeleteSecret \/ DeleteConfigMap
           \/ RemoveFinalizer \/ ValidateAWSParameter \/ CreateOrUpdateSecret
           \/ CreateOrUpdateConfigMap \/ StartController \/ WaitForController
           \/ SyncInstances \/ UpdateReadyCondition
    BY <1>1, IdleCalls
<1>2. CASE ListManaged
    <2>1. /\ UNCHANGED <<objects, cache, live, batch>> /\ todo' \subseteq todo
          /\ pc = "listManaged" /\ pc' = "adopt"
        BY <1>2 DEF ListManaged, Goto
    <2> QED
        BY <2>1, NarrowStep DEF AgreementInv, WorkerInv, BatchKnown, Late, Adopting
<1>3. ASSUME NEW i \in DBIds, CreateAdoptedResource(i) \/ NoNameLeft(i) PROVE AgreementInv'
    <2>1. CASE NoNameLeft(i)
        <3>1. UNCHANGED <<objects, cache>> /\ Failed
            BY <2>1 DEF NoNameLeft
        <3> QED
            BY <3>1, SameObjects, EndIdle, IdleStep
    <2> QED
        BY <1>3, <2>1, CreateStep
<1>4. CASE AdoptionRequested
    <2>1. /\ UNCHANGED <<objects, cache>>
          /\ \/ Updating
             \/ UNCHANGED scratch /\ pc = "adopt" /\ pc' = "listAdopted"
        BY <1>4 DEF AdoptionRequested, Goto
    <2>2. CASE Updating
        BY <2>1, <2>2, SameObjects, EndIdle, IdleStep
    <2>3. CASE UNCHANGED scratch /\ pc = "adopt" /\ pc' = "listAdopted"
        BY <2>1, <2>3, NarrowStep DEF scratch, AgreementInv, WorkerInv, BatchKnown, Late,
           Adopting
    <2> QED
        BY <2>1, <2>2, <2>3
<1>5. ASSUME NEW o \in Objects, SkipDBInstance(o) PROVE AgreementInv'
    <2>1. /\ UNCHANGED <<objects, cache, live, todo>> /\ pc = "secure" /\ pc' = "secure"
          /\ batch' = Others(o)
        BY <1>5 DEF SkipDBInstance, Handles
    <2>2. DOMAIN batch' \subseteq DOMAIN batch /\ \A p \in DOMAIN batch' : batch'[p] = batch[p]
        BY <2>1 DEF Others
    <2> QED
        BY <2>1, <2>2, NarrowStep DEF Late, Adopting
<1>6. CASE AdoptionChecked
    <2>1. /\ UNCHANGED <<objects, cache>>
          /\ \/ Updating
             \/ UNCHANGED scratch /\ DOMAIN batch = {} /\ pc' = "sync"
        BY <1>6 DEF AdoptionChecked, Goto
    <2>2. Idle
        BY <2>1, EndIdle, WalkIdle DEF scratch, Late, Adopting
    <2> QED
        BY <2>1, <2>2, SameObjects, IdleStep
<1> QED
    BY <1>1, <1>2, <1>3, <1>4, <1>5, <1>6, DescribeStep, ListAdoptedStep, FillStep,
       SetCredentialsStep, ModifyStep, SaveStep DEF Reconcile

LEMMA AgreementInit == Init => AgreementInv
<1> SUFFICES ASSUME Init PROVE AgreementInv
    OBVIOUS
<1>1. \A o \in Objects : adopted[o] = "none" /\ dbs[o] = NoDB /\ dbSecret[o] = "none"
    BY DEF Init
<1>2. Seen("dbs") = dbs /\ Seen("dbSecret") = dbSecret
    BY DEF Init, Seen, Stored
<1>3. ~NoDB.label /\ ~NoDB.present
    BY DEF NoDB
<1>4. pc = "setup" /\ DOMAIN batch = {} /\ live = {} /\ todo = {}
    BY DEF Init, NoBatch
<1>5. StoredInv
    BY <1>1, <1>2, <1>3, ObjectFacts DEF StoredInv, Labels, Claims, SecretsKnown, DBsKnown,
       Published, HasReference
<1>6. Reserved /\ WorkerInv
    BY <1>1, <1>4, ObjectFacts DEF Reserved, WorkerInv, BatchKnown, Described, Modifying,
       Late, Adopting
<1> QED
    BY <1>5, <1>6 DEF AgreementInv

LEMMA AgreementStep == ASSUME TypeOK, AgreementInv, [Next]_vars PROVE AgreementInv'
<1>1. CASE UNCHANGED vars
    <2>1. UNCHANGED <<objects, cache>> /\ Elsewhere
        BY <1>1 DEF vars, scratch, Elsewhere
    <2> QED
        BY <2>1, SameObjects, ElsewhereStep
<1>2. CASE SetupWithManager
    BY <1>2, IdleCalls
<1> QED
    BY <1>1, <1>2, ReconcileStep, TroubleStep, UserStep, ClusterStep DEF Next

\* The invariant says what CredentialAgreement does.
LEMMA AgreementFollows == AgreementInv => CredentialAgreement
BY DEF AgreementInv, StoredInv, Published, HasReference, Sole, CredentialAgreement, Secured

\* The credential Secret, the password in AWS and the DBInstance, which adoptDBInstances
\* writes one after the other, agree whenever the DBInstance refers to the Secret: for
\* any number of databases in any number of copies, whichever caches lag, whatever the
\* user and AWS do, and whatever faults happen, however often.
THEOREM Agreement == Spec => []CredentialAgreement
<1>1. Init => AgreementInv
    BY AgreementInit
<1>2. TypeOK /\ AgreementInv /\ [Next]_vars => AgreementInv'
    BY AgreementStep
<1>3. Spec => []TypeOK
    BY TypeCorrect
<1> QED
    BY <1>1, <1>2, <1>3, AgreementFollows, PTL DEF Spec

-----------------------------------------------------------------------------
(* PasswordStable.                                                             *)

Stable ==
    \A o \in Objects : Secured(o) /\ dbs'[o].present =>
        /\ dbSecret'[o] = dbSecret[o]
        /\ aws'[o[1]].password # aws[o[1]].password =>
                \E p \in Owned : p # o /\ p[1] = o[1] /\ dbs'[p].present

LEMMA SteadyStable == Steady \/ UNCHANGED <<dbSecret, aws>> => Stable
BY ObjectFacts DEF Steady, SteadySecrets, SteadyAws, Stable, Secured

LEMMA SetCredentialsStable ==
    ASSUME TypeOK, AgreementInv, NEW o \in Objects, SetCredentials(o) PROVE Stable
<1>1. SUFFICES ASSUME NEW p \in Objects, Secured(p) PROVE dbSecret'[p] = dbSecret[p]
    BY DEF Stable, SetCredentials
<1>2. dbs[p].present /\ dbSecret[p] # "none"
    BY <1>1 DEF Secured, AgreementInv, StoredInv, Published, HasReference
<1>3. CASE p # o \/ SecretMissed(o)
    BY <1>3 DEF SetCredentials, TypeOK
<1>4. CASE p = o /\ ~SecretMissed(o)
    <2>1. Seen("dbSecret")[o] # "none"
        BY <1>2, <1>4 DEF SecretMissed
    <2>2. pw' = Seen("dbSecret")[o]
        BY <1>4, <2>1 DEF SetCredentials, PasswordsFor
    <2> QED
        BY <1>4, <2>2 DEF SetCredentials
<1> QED
    BY <1>3, <1>4

LEMMA ModifyStable == ASSUME TypeOK, AgreementInv, ModifyDBInstance PROVE Stable
<1> USE ObjectFacts
<1>1. CASE aws[cur[1]].status # "available"
    BY <1>1, SteadyStable DEF ModifyDBInstance
<1>2. CASE aws[cur[1]].status = "available"
    <2>1. /\ UNCHANGED <<dbs, dbSecret>> /\ pc = "modify"
          /\ aws' = [aws EXCEPT ![cur[1]] = [status |-> "busy", password |-> pw]]
        BY <1>2 DEF ModifyDBInstance
    <2>2. cur \in Owned /\ cur[1] \in DBIds /\ dbs[cur].present /\ dbSecret[cur] = pw
        BY <1>2, <2>1 DEF TypeOK, AgreementInv, WorkerInv, BatchKnown, Modifying, Gone
    <2> SUFFICES ASSUME NEW o \in Objects, Secured(o),
                        aws'[o[1]].password # aws[o[1]].password
                 PROVE  \E p \in Owned : p # o /\ p[1] = o[1] /\ dbs'[p].present
        BY <2>1 DEF Stable
    <2>3. o[1] = cur[1] /\ aws'[o[1]].password = pw
        BY <2>1, <2>2 DEF TypeOK
    <2>4. aws[o[1]].password = dbSecret[o]
        BY <1>2, <2>3 DEF Secured, AgreementInv, StoredInv, Published, HasReference, Sole,
           Alive
    <2>5. cur # o
        BY <2>2, <2>3, <2>4
    <2> QED
        BY <2>1, <2>2, <2>3, <2>5
<1> QED
    BY <1>1, <1>2

LEMMA StableStep == ASSUME TypeOK, AgreementInv, [Next]_vars PROVE Stable
<1>1. CASE UNCHANGED vars
    BY <1>1, SteadyStable DEF vars, objects
<1>2. CASE SetupWithManager \/ Trouble \/ User \/ Cluster
    BY <1>2, SteadyStable, IdleCalls, TroubleStep, UserStep, ClusterStep
<1>3. CASE \/ GetInventory \/ AddFinalizer
           \/ DeleteAdopted \/ StopController \/ DeleteSecret \/ DeleteConfigMap
           \/ RemoveFinalizer \/ ValidateAWSParameter \/ CreateOrUpdateSecret
           \/ CreateOrUpdateConfigMap \/ StartController \/ WaitForController
           \/ SyncInstances \/ UpdateReadyCondition
    BY <1>3, IdleCalls, SteadyStable
<1>4. CASE \/ DescribeDBInstances \/ ListManaged \/ AdoptionRequested \/ ListAdopted
           \/ AdoptionChecked
    BY <1>4, SteadyStable DEF DescribeDBInstances, ListManaged, AdoptionRequested,
       ListAdopted, AdoptionChecked, objects
<1>5. ASSUME NEW i \in DBIds, CreateAdoptedResource(i) \/ NoNameLeft(i) PROVE Stable
    BY <1>5, SteadyStable DEF CreateAdoptedResource, NoNameLeft, objects
<1>6. ASSUME NEW o \in Objects, FillConnectionInfo(o) \/ SkipDBInstance(o) PROVE Stable
    BY <1>6, SteadyStable DEF FillConnectionInfo, SkipDBInstance, objects
<1>7. CASE SaveDBInstance
    BY <1>7, SteadyStable DEF SaveDBInstance
<1> QED
    BY <1>1, <1>2, <1>3, <1>4, <1>5, <1>6, <1>7, SetCredentialsStable, ModifyStable
       DEF Next, Reconcile

\* No pass, however often it is repeated and however old what it has read is, replaces
\* the password in a published credential Secret or sets another one in AWS, unless
\* the database has been adopted a second time.
THEOREM Stability == Spec => PasswordStable
<1>1. TypeOK /\ AgreementInv /\ [Next]_vars => AgreementInv'
    BY AgreementStep
<1>2. TypeOK /\ AgreementInv /\ [Next]_vars => [Stable]_vars
    BY StableStep
<1>3. PasswordStable <=> [][Stable]_vars
    <2>1. [\A o \in Objects : Secured(o) /\ dbs'[o].present =>
            /\ dbSecret'[o] = dbSecret[o]
            /\ aws'[o[1]].password # aws[o[1]].password =>
                    \E p \in Owned : p # o /\ p[1] = o[1] /\ dbs'[p].present]_vars
           <=> [Stable]_vars
        BY DEF Stable
    <2> QED
        BY <2>1, PTL DEF PasswordStable
<1> QED
    BY <1>1, <1>2, <1>3, AgreementInit, TypeCorrect, PTL DEF Spec


-----------------------------------------------------------------------------
(* InventorySystem implements MasterCredential, for each of the DBInstances    *)
(* that the operator adopts.                                                   *)

\* A step that changes a DBInstance leaves the Secrets, and of AWS changes no more than
\* that a database goes.
Quiet ==
    dbs' # dbs =>
        /\ dbSecret' = dbSecret
        /\ \A i \in DBIds : aws'[i] = aws[i] \/ aws'[i].status = "gone"

LEMMA QuietUser == ASSUME TypeOK, User PROVE Quiet
<1> USE ObjectFacts DEF Quiet
<1>1. CASE CreateInventory \/ DeleteInventory \/ ChangeCredential \/ Deploy
    BY <1>1 DEF CreateInventory, DeleteInventory, ChangeCredential, Deploy, objects
<1>2. ASSUME NEW o \in Objects, ProvisionDBInstance(o) \/ AdoptByUser(o) PROVE Quiet
    BY <1>2 DEF ProvisionDBInstance, AdoptByUser
<1>3. ASSUME NEW o \in Objects, AckDelete(o) PROVE Quiet
    BY <1>3 DEF AckDelete, TypeOK
<1>4. ASSUME NEW i \in DBIds, AwsCreate(i) \/ AwsBusy(i) \/ AwsDelete(i) PROVE Quiet
    BY <1>4 DEF AwsCreate, AwsBusy, AwsDelete, AwsMoves
<1> QED
    BY <1>1, <1>2, <1>3, <1>4 DEF User

LEMMA QuietCluster == ASSUME Cluster PROVE Quiet
<1> USE ObjectFacts DEF Quiet
<1>1. CASE Resync \/ DeploymentSettles
    BY <1>1 DEF Resync, DeploymentSettles, objects
<1>2. ASSUME NEW k \in Kinds, InformerSync(k) PROVE Quiet
    BY <1>2 DEF InformerSync, objects
<1>3. ASSUME NEW o \in Objects,
             AckManage(o) \/ AckAdopt(o) \/ AckFinalize(o) \/ AckCreate(o) \/ AckStatus(o)
             \/ CollectSecret(o)
      PROVE Quiet
    BY <1>3 DEF AckManage, AckAdopt, AckFinalize, AckCreate, AckStatus, CollectSecret
<1>4. ASSUME NEW i \in DBIds, AwsSettle(i) \/ AwsGone(i) PROVE Quiet
    BY <1>4 DEF AwsSettle, AwsGone, AwsMoves
<1> QED
    BY <1>1, <1>2, <1>3, <1>4 DEF Cluster

LEMMA QuietReconcile == ASSUME Reconcile PROVE Quiet
<1> USE DEF Quiet
<1>1. CASE \/ GetInventory \/ AddFinalizer \/ DeleteAdopted \/ StopController \/ DeleteSecret
           \/ DeleteConfigMap \/ RemoveFinalizer
    BY <1>1 DEF GetInventory, AddFinalizer, DeleteAdopted, StopController, DeleteSecret,
       DeleteConfigMap, RemoveFinalizer, objects
<1>2. CASE \/ ValidateAWSParameter \/ CreateOrUpdateSecret \/ CreateOrUpdateConfigMap
           \/ StartController \/ WaitForController
    BY <1>2 DEF ValidateAWSParameter, CreateOrUpdateSecret, CreateOrUpdateConfigMap,
       StartController, WaitForController, objects
<1>3. CASE DescribeDBInstances \/ ListManaged \/ AdoptionRequested \/ ListAdopted
    BY <1>3 DEF DescribeDBInstances, ListManaged, AdoptionRequested, ListAdopted, objects
<1>4. ASSUME NEW i \in DBIds, CreateAdoptedResource(i) \/ NoNameLeft(i) PROVE Quiet
    BY <1>4 DEF CreateAdoptedResource, NoNameLeft, objects
<1>5. ASSUME NEW o \in Objects, FillConnectionInfo(o) \/ SkipDBInstance(o) \/ SetCredentials(o)
      PROVE Quiet
    BY <1>5 DEF FillConnectionInfo, SkipDBInstance, SetCredentials, objects
<1>6. CASE ModifyDBInstance \/ SaveDBInstance \/ AdoptionChecked
    BY <1>6 DEF ModifyDBInstance, SaveDBInstance, AdoptionChecked, objects
<1>7. CASE SyncInstances \/ UpdateReadyCondition
    BY <1>7 DEF SyncInstances, UpdateReadyCondition, objects
<1> QED
    BY <1>1, <1>2, <1>3, <1>4, <1>5, <1>6, <1>7 DEF Reconcile

LEMMA QuietStep == ASSUME TypeOK, [Next]_vars PROVE Quiet
<1>1. CASE UNCHANGED vars
    BY <1>1 DEF vars, objects, Quiet
<1>2. CASE SetupWithManager \/ Trouble
    BY <1>2 DEF SetupWithManager, Trouble, CallFails, Conflict, Restart, StandbySetup,
       Undeploy, objects, Quiet
<1> QED
    BY <1>1, <1>2, QuietUser, QuietCluster, QuietReconcile DEF Next

-----------------------------------------------------------------------------
\* A step of the system is a step of MasterCredential, or stutters.
LEMMA MasterStep ==
    ASSUME TypeOK, TypeOK', CredentialAgreement', Stable, Quiet, NEW o \in Owned
    PROVE  Master(o)!Next
<1> USE ObjectFacts
<1> DEFINE Database == CASE ~Alive(o[1]) -> "gone"
                         [] Alive(o[1]) /\ aws[o[1]].password = "none" -> "foreign"
                         [] OTHER -> aws[o[1]].password
<1>1. /\ dbSecret'[o] \in Passwords \cup {"none"}
      /\ Database' \in Passwords \cup {"gone", "foreign"}
    BY DEF TypeOK, Databases
<1>2. Secured(o)' => dbSecret'[o] \in Passwords /\ Database' \in {"gone", dbSecret'[o]}
    BY <1>1, ConstantsAssumption DEF CredentialAgreement, Alive
<1>3. Secured(o) # Secured(o)' => dbSecret'[o] = dbSecret[o] /\ Database' \in {Database, "gone"}
    <2>1. SUFFICES ASSUME dbs' # dbs
                   PROVE  dbSecret'[o] = dbSecret[o] /\ Database' \in {Database, "gone"}
        BY DEF Secured
    <2> QED
        BY <2>1 DEF Quiet, Alive
<1>4. CASE ~Secured(o) /\ ~Secured(o)'
    BY <1>1, <1>4 DEF Master!Next, Master!Prepare
<1>5. CASE ~Secured(o) /\ Secured(o)'
    BY <1>2, <1>3, <1>5 DEF Master!Next, Master!Publish, Master!Goes, Master!Agreed
<1>6. CASE Secured(o) /\ Secured(o)'
    BY <1>2, <1>6 DEF Master!Next, Master!Use, Stable, Secured
<1>7. CASE Secured(o) /\ ~Secured(o)'
    BY <1>3, <1>7 DEF Master!Next, Master!Withdraw, Master!Goes
<1> QED
    BY <1>4, <1>5, <1>6, <1>7

LEMMA MasterInit == ASSUME Init, NEW o \in Owned PROVE Master(o)!Init
BY ObjectFacts DEF Init, Master!Init, Secured, NoDB, Alive

\* The reconciler keeps the promise of MasterCredential about every database it adopts:
\* the reference of the DBInstance is set last, and what is published stays.
THEOREM Mastered == Spec => MasterCredentials
<1> DEFINE Step == objects' = objects \/ \A o \in Owned : [Master(o)!Next]_(Master(o)!vars)
           First == \A o \in Owned : Master(o)!Init
<1>1. Init => First
    BY MasterInit
<1>2. ASSUME TypeOK, TypeOK', AgreementInv, AgreementInv', [Next]_vars PROVE Step
    <2>1. CredentialAgreement'
        BY <1>2, AgreementFollows, PTL
    <2>2. \A o \in Owned : Master(o)!Next
        BY <1>2, <2>1, StableStep, QuietStep, MasterStep
    <2> QED
        BY <2>2
<1>3. TypeOK /\ AgreementInv /\ [Next]_vars => AgreementInv'
    BY AgreementStep
<1>4. Spec => []TypeOK
    BY TypeCorrect
<1>5. MasterCredentials <=> First /\ [][Step]_vars
    BY DEF MasterCredentials
<1> HIDE DEF Step, First
<1> QED
    BY <1>1, <1>2, <1>3, <1>4, <1>5, AgreementInit, PTL DEF Spec
=============================================================================
