----------------------------- MODULE MCInstance -----------------------------
(* InstanceReconciler for the model checker.                                   *)
EXTENDS InstanceReconciler, TLC

\* An engine and an optional parameter that come and go, and a text for a number.
MySQLInstance == [Engine |-> "mysql", DBInstanceIdentifier |-> "db", DBInstanceClass |-> "micro",
                  AllocatedStorage |-> "20", IOPS |-> "40"]
PostgresInstance == [Engine |-> "postgres", DBInstanceIdentifier |-> "db",
                     DBInstanceClass |-> "micro", AllocatedStorage |-> "20"]
InvalidInstance == [PostgresInstance EXCEPT !.AllocatedStorage = "much"]

OneInstance == {MySQLInstance}
EditedInstances == {MySQLInstance, PostgresInstance, InvalidInstance}

\* No definition tells one password from another.
Symmetry == Permutations(Passwords)
=============================================================================
