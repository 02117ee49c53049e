\* Room for a second AdoptedResource, the user's own AdoptedResources, and
\* RDSInstances that provision databases.
SPECIFICATION Spec
CONSTANTS
    DBIds = {i1}
    MaxCopies = 2
    Creds = {c1}
    Passwords = {p1}
    Lagging = {}
    Events = {"provision", "foreign", "awsDelete", "busy"}
    Faults = {"restart", "standby", "call", "undeploy"}
    MaxFaults = 1
INVARIANTS AdoptOnce
PROPERTIES ClaimUnmanaged ForeignUntouched
