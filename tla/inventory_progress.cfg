\* What happens in the end, after a failure at any point or an uninstallation of the ACK
\* controller.
SPECIFICATION FairSpec
CONSTANTS
    DBIds = {i1}
    MaxCopies = 1
    Creds = {c1}
    Passwords = {p1}
    Lagging = {}
    Events = {"credential", "dbDelete"}
    Faults = {"call", "conflict", "restart", "undeploy"}
    MaxFaults = 1
PROPERTIES DeletionCompletes EventuallyAdopted FinalizersServed
