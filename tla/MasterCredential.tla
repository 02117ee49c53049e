-------------------------- MODULE MasterCredential --------------------------
(* What the operator promises of the master credentials of one database: a     *)
(* DBInstance resource refers to its credential Secret only when the Secret    *)
(* opens the database, or when there is no database yet, and from then on      *)
(* neither the Secret nor the database gets another password. The RDSInventory *)
(* reconciler keeps the promise for the databases it adopts, the RDSInstance   *)
(* reconciler for those it provisions, and the RDSConnection reconciler relies *)
(* on it.                                                                      *)
CONSTANT Passwords  \* the passwords the operator may choose

VARIABLES
    referenced,  \* the DBInstance refers to a Secret that is there
    published,   \* the password in the Secret, or "none"
    database     \* the password of the database, "foreign" before the operator has
                 \* set one, "gone" when there is no database

vars == <<referenced, published, database>>

Agreed == published \in Passwords /\ database \in {"gone", published}

Init ==
    /\ referenced = FALSE
    /\ published = "none"
    /\ database \in {"gone", "foreign"}

\* The database may be deleted at any time.
Goes == database' \in {database, "gone"}

\* Before the reference is set, the Secret and the password are prepared, in as many
\* attempts as it takes.
Prepare ==
    /\ ~referenced /\ ~referenced'
    /\ published' \in Passwords \cup {"none"}
    /\ database' \in Passwords \cup {"gone", "foreign"}

\* The reference comes last, or the Secret it has been waiting for.
Publish ==
    /\ ~referenced /\ referenced'
    /\ published' = published \/ published = "none"
    /\ Goes
    /\ Agreed'

\* A database is made with the password that is published, or has it set again.
Use ==
    /\ referenced /\ referenced'
    /\ published' = published
    /\ database' \in {"gone", published}

\* The DBInstance is deleted, before its Secret is.
Withdraw ==
    /\ referenced /\ ~referenced'
    /\ published' = published /\ Goes

Next == Prepare \/ Publish \/ Use \/ Withdraw

Spec == Init /\ [][Next]_vars
=============================================================================
