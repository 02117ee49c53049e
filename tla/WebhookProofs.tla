---------------------------- MODULE WebhookProofs ----------------------------
(* Proofs about InventoryWebhook, for any set of RDSInventories, any number of  *)
(* requests at a time, and a cache that is as old as it likes to be: what the   *)
(* webhook promises fails in a race only.                                       *)
EXTENDS InventoryWebhook, TLAPS

\* An inventory that exists, or is about to, is the only one.
Existing(n) == stored[n] # "absent" \/ request[n] = "admitted"
OneExisting == \A m, n \in Names : Existing(m) /\ Existing(n) => m = n

\* OnlyOne does not survive Persist by itself: OneExisting counts the inventories that
\* were admitted too. The rest holds in a race as well, so that nothing of one is left
\* when all inventories are gone.
Inv ==
    /\ TypeOK
    /\ \A n \in Names : request[n] # "none" => stored[n] = "absent"
    /\ \A n \in ready : stored[n] # "absent"
    /\ ~raced => OneExisting /\ ReadyInstalled

\* An admission that is in no race is that of the only inventory.
LEMMA CleanAdmission ==
    ASSUME Inv, NEW n \in Names, ValidateCreate(n), request'[n] = "admitted", ~raced'
    PROVE  /\ \A m \in Names : stored[m] = "absent"
           /\ \A m \in Names \ {n} : request'[m] # "admitted"
<1>1. ~InventoryExists /\ ~Race /\ request' = [request EXCEPT ![n] = "admitted"]
    BY DEF ValidateCreate, Inv, TypeOK
<1> QED
    BY <1>1 DEF InventoryExists, Race, Inv, TypeOK

LEMMA InvStep == ASSUME Inv, [Next]_vars PROVE Inv'
<1> USE DEF Inv, TypeOK, States, OneExisting, Existing, ReadyInstalled
<1>1. ASSUME NEW n \in Names, Submit(n) PROVE Inv'
    BY <1>1 DEF Submit
<1>2. ASSUME NEW n \in Names, ValidateCreate(n) PROVE Inv'
    <2>1. TypeOK'
        BY <1>2 DEF ValidateCreate, Race
    <2>2. UNCHANGED <<stored, installed, ready>>
        BY <1>2 DEF ValidateCreate
    <2>3. \A m \in Names : request'[m] # "none" => stored'[m] = "absent"
        BY <1>2, <2>2 DEF ValidateCreate
    <2>4. CASE request' = [request EXCEPT ![n] = "none"] /\ raced' = raced
        BY <2>1, <2>2, <2>3, <2>4
    <2>5. CASE request' = [request EXCEPT ![n] = "admitted"] /\ ~raced'
        <3>1. request'[n] = "admitted"
            BY <2>5
        <3>2. /\ \A m \in Names : stored[m] = "absent"
              /\ \A m \in Names \ {n} : request'[m] # "admitted"
            BY <1>2, <2>5, <3>1, CleanAdmission
        <3> QED
            BY <2>1, <2>2, <2>3, <3>2
    <2>6. CASE raced'
        BY <2>1, <2>2, <2>3, <2>6
    <2> QED
        BY <1>2, <2>4, <2>5, <2>6 DEF ValidateCreate
<1>3. ASSUME NEW n \in Names, Persist(n) PROVE Inv'
    <2>1. TypeOK' /\ raced' = raced
        BY <1>3 DEF Persist
    <2>2. \A m \in Names : Existing(m)' <=> Existing(m)
        BY <1>3 DEF Persist
    <2>3. ~raced => \A m \in ready : m = n
        BY <1>3 DEF Persist
    <2>4. \A m \in Names : request'[m] # "none" => stored'[m] = "absent"
        BY <1>3 DEF Persist
    <2>5. ready' = ready /\ installed' = installed /\ \A m \in ready : stored'[m] # "absent"
        BY <1>3 DEF Persist
    <2>6. ~raced => ready = {}
        BY <1>3, <2>3 DEF Persist
    <2> QED
        BY <2>1, <2>2, <2>4, <2>5, <2>6
<1>4. ASSUME NEW n \in Names, Delete(n) PROVE Inv'
    BY <1>4 DEF Delete
<1>5. ASSUME NEW n \in Names, Install(n) PROVE Inv'
    BY <1>5 DEF Install
<1>6. ASSUME NEW n \in Names, TearDown(n) PROVE Inv'
    BY <1>6 DEF TearDown
<1>7. CASE Sync
    BY <1>7 DEF Sync
<1>8. CASE UNCHANGED vars
    BY <1>8 DEF vars
<1> QED
    BY <1>1, <1>2, <1>3, <1>4, <1>5, <1>6, <1>7, <1>8 DEF Next

LEMMA InvInit == Init => Inv
BY WebhookAssumption DEF Init, Inv, TypeOK, States, OneExisting, Existing, ReadyInstalled

LEMMA InvHolds == Spec => []Inv
BY InvInit, InvStep, PTL DEF Spec

\* However many requests there are at a time and however old the webhook's cache is,
\* two RDSInventories exist only after an admission that overlapped with another one or
\* was answered from an old list, the one being deleted counted.
THEOREM OneInventory == Spec => []OnlyOneUnlessRaced
<1>1. Inv => OnlyOneUnlessRaced
    BY DEF Inv, OneExisting, Existing, OnlyOne, OnlyOneUnlessRaced
<1> QED
    BY <1>1, InvHolds, PTL

\* What the ACK controller has installed is the Ready inventory's own, though all
\* inventories install into one Secret, until an admission in a race lets another
\* overwrite it, and again after the next admission that is in none.
THEOREM ReadyIsInstalled == Spec => []ReadyUnlessRaced
<1>1. Inv => ReadyUnlessRaced
    BY DEF Inv, ReadyUnlessRaced
<1> QED
    BY <1>1, InvHolds, PTL
=============================================================================
