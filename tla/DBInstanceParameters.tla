------------------------ MODULE DBInstanceParameters ------------------------
(* The parameters a user gives a RDSInstance, and what the code makes of them: *)
(* setDBInstanceSpec writes them into the DBInstance, and the engine among     *)
(* them decides over the names of credential.go and what setConfigMap tells an *)
(* application. A parameter map is a function from some of Names to texts.     *)

Required == {"Engine", "DBInstanceIdentifier", "DBInstanceClass", "AllocatedStorage"}
Integers64 == {"AllocatedStorage", "IOPS", "MaxAllocatedStorage"}
Booleans == {"PubliclyAccessible"}
Names == Required \cup Integers64 \cup Booleans
            \cup {"EngineVersion", "StorageType", "DBSubnetGroupName",
                  "VPCSecurityGroupIDs", "LicenseModel"}

\* strconv.ParseInt and ParseBool accept these of the texts that occur here.
ParseInt(text) == text \in {"1", "20", "40"}
ParseBool(text) == text \in {"1", "true"}

\* A parameter that is missing or not of its type is an error.
Unparsed(params) == TRUE                               \* mutant of Valid
Valid(params) ==
    /\ Required \subseteq DOMAIN params
    /\ \A n \in DOMAIN params : (n \in Integers64 => ParseInt(params[n]))
                             /\ (n \in Booleans => ParseBool(params[n]))

Merged(over, under) ==
    [n \in DOMAIN over \cup DOMAIN under |-> IF n \in DOMAIN over THEN over[n] ELSE under[n]]

\* What is given replaces what the DBInstance has. What is not given stays, so
\* that an optional parameter that is removed does too.
OnlyWhenNew(params, spec) == Merged(spec, params)      \* mutant of Applied
Applied(params, spec) == Merged(params, spec)

-----------------------------------------------------------------------------
PostgreSQL == {"postgres", "aurora-postgresql"}
MySQL == {"mysql", "mariadb", "aurora", "aurora-mysql"}
Oracle == {"oracle-se2", "oracle-se2-cdb", "oracle-ee", "oracle-ee-cdb", "custom-oracle-ee"}
SQLServer == {"sqlserver-ee", "sqlserver-se", "sqlserver-ex", "sqlserver-web"}

GenerateUsername(engine) == IF engine \in PostgreSQL THEN "postgres" ELSE "admin"

GenerateDBName(engine) ==
    CASE engine \in PostgreSQL -> "postgres"
      [] engine \in MySQL      -> "mydb"
      [] engine \in Oracle     -> "ORCL"
      [] OTHER                 -> "none"

NoOracle(engine) ==                                    \* mutant of GenerateBindingType
    CASE engine \in PostgreSQL -> "postgresql"
      [] engine \in MySQL      -> "mysql"
      [] engine \in SQLServer  -> "sqlserver"
      [] OTHER                 -> ""
GenerateBindingType(engine) ==
    CASE engine \in PostgreSQL -> "postgresql"
      [] engine \in MySQL      -> "mysql"
      [] engine \in Oracle     -> "oracle"
      [] engine \in SQLServer  -> "sqlserver"
      [] OTHER                 -> ""

\* The database an application is told of, "none" for no entry.
SetConfigMap(engine, dbName) ==
    [type |-> GenerateBindingType(engine),
     database |-> CASE dbName # "none"       -> dbName
                    [] engine \in SQLServer  -> "master"
                    [] engine \in MySQL      -> "mysql"
                    [] engine \in PostgreSQL -> "postgres"
                    [] engine \in Oracle     -> "ORCL"
                    [] OTHER                 -> "none"]
=============================================================================
