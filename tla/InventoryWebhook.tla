--------------------------- MODULE InventoryWebhook ---------------------------
(* The admission webhook that is to keep the RDSInventories of a cluster down  *)
(* to one, the API server that calls it, and what there is only one of: the    *)
(* ACK controller's installation, which every RDSInventory sets up with its    *)
(* own credentials and takes down when it is deleted.                          *)
(*                                                                             *)
(* A pass of the reconciler is one step here, up to the return of a teardown   *)
(* that has deleted something; InventoryReconciler has its calls.              *)
EXTENDS Naturals, FiniteSets

CONSTANTS
    Names,        \* the RDSInventories users try to create
    MaxInFlight,  \* how many of their requests the API server handles at once
    Lag           \* whether the webhook's cache may be behind the API server

ASSUME WebhookAssumption ==
    /\ IsFiniteSet(Names) /\ "none" \notin Names
    /\ MaxInFlight \in Nat
    /\ Lag \in BOOLEAN

VARIABLES
    stored,     \* the RDSInventories in the API server
    cached,     \* what the manager's cache holds of them
    request,    \* how far the API server is with the creation of each
    installed,  \* whose credentials are in the ACK controller's Secret
    ready,      \* the RDSInventories whose SpecSynced condition is true
    raced       \* history: the last admission was in a race

vars == <<stored, cached, request, installed, ready, raced>>

States == {"absent", "live", "deleting"}
Seen == IF Lag THEN cached ELSE stored

Init ==
    /\ stored = [n \in Names |-> "absent"]
    /\ cached = stored
    /\ request = [n \in Names |-> "none"]
    /\ installed = "none"
    /\ ready = {}
    /\ raced = FALSE

-----------------------------------------------------------------------------
\* The API server takes a request, calls the webhook, and stores the object of a
\* request that was admitted.
Submit(n) ==
    /\ stored[n] = "absent" /\ request[n] = "none"
    /\ Cardinality({m \in Names : request[m] # "none"}) < MaxInFlight
    /\ request' = [request EXCEPT ![n] = "sent"]
    /\ UNCHANGED <<stored, cached, installed, ready, raced>>

\* verifyInventoryCreated: the list of the manager's client is not empty.
DeletedIgnored == \E m \in Names : Seen[m] = "live"    \* mutant of InventoryExists
InventoryExists == \E m \in Names : Seen[m] # "absent"

\* What the webhook cannot see: a request that was admitted and is not stored yet, and
\* what its cache is behind.
Race == Seen # stored \/ \E m \in Names : request[m] = "admitted"

\* A denied request is over. So is one whose List fails: the policy is Fail.
ValidateCreate(n) ==
    /\ request[n] = "sent"
    /\ \/ request' = [request EXCEPT ![n] = "none"] /\ raced' = raced
       \/ /\ ~InventoryExists
          /\ request' = [request EXCEPT ![n] = "admitted"]
          /\ raced' = Race
    /\ UNCHANGED <<stored, cached, installed, ready>>

Persist(n) ==
    /\ request[n] = "admitted"
    /\ request' = [request EXCEPT ![n] = "none"]
    /\ stored' = [stored EXCEPT ![n] = "live"]
    /\ UNCHANGED <<cached, installed, ready, raced>>

Sync ==
    /\ cached # stored
    /\ cached' = stored
    /\ UNCHANGED <<stored, request, installed, ready, raced>>

\* ValidateDelete lets every deletion pass.
Delete(n) ==
    /\ stored[n] = "live"
    /\ stored' = [stored EXCEPT ![n] = "deleting"]
    /\ UNCHANGED <<cached, request, installed, ready, raced>>

-----------------------------------------------------------------------------
\* A pass that fails, or waits for the ACK controller, before it has written the
\* Secret, after it, or after all.
Install(n) ==
    /\ stored[n] = "live"
    /\ installed' \in {n, installed}
    /\ ready' = ready \ {n} \/ (installed' = n /\ ready' = ready \cup {n})
    /\ UNCHANGED <<stored, cached, request, raced>>

\* A pass of the teardown deletes the Secret, whoever has written it, and the
\* next one removes the finalizer.
TearDown(n) ==
    /\ stored[n] = "deleting"
    /\ ready' = ready \ {n}
    /\ IF installed # "none" THEN installed' = "none" /\ stored' = stored
       ELSE installed' = installed /\ stored' = [stored EXCEPT ![n] = "absent"]
    /\ UNCHANGED <<cached, request, raced>>

Next ==
    \/ \E n \in Names : \/ Submit(n) \/ ValidateCreate(n) \/ Persist(n)
                        \/ Delete(n) \/ Install(n) \/ TearDown(n)
    \/ Sync

Spec == Init /\ [][Next]_vars

-----------------------------------------------------------------------------
TypeOK ==
    /\ stored \in [Names -> States] /\ cached \in [Names -> States]
    /\ request \in [Names -> {"none", "sent", "admitted"}]
    /\ installed \in Names \cup {"none"}
    /\ ready \subseteq Names
    /\ raced \in BOOLEAN

\* The webhook's message: only one Inventory for RDS can exist in a cluster. One
\* that is being deleted counts until it is gone.
OnlyOne == \A m, n \in Names : stored[m] # "absent" /\ stored[n] # "absent" => m = n

\* The two races are all that breaks it, however many requests there are at a time and
\* however old the cache is: an admission that was in neither finds no inventory left
\* from any race before, and there is one until the next admission that is in a race.
OnlyOneUnlessRaced == ~raced => OnlyOne

\* What the rule is for: an inventory that is Ready has the ACK controller work with its
\* own credentials, not with those of another one, and not without any because another
\* one was deleted. It has so from an admission that was not in a race on.
ReadyInstalled ==
    \A n \in ready : stored[n] = "live" => installed = n
ReadyUnlessRaced == ~raced => ReadyInstalled
=============================================================================
