\* A fault of any kind anywhere in a pass, lagging caches of DBInstances and of credential
\* Secrets, credentials that change, and DBInstances that are deleted.
SPECIFICATION Spec
CONSTANTS
    DBIds = {i1}
    MaxCopies = 1
    Creds = {c1, c2}
    Passwords = {p1, p2}
    Lagging = {"dbs", "dbSecret"}
    Events = {"credential", "dbDelete"}
    Faults = {"restart", "call", "conflict"}
    MaxFaults = 1
INVARIANTS TypeOK CredentialAgreement NoOrphans
PROPERTIES ReadyConsistent PasswordStable MasterCredentials
SYMMETRY Symmetry
