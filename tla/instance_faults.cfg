\* Two faults anywhere in a pass, edits of valid and invalid parameters, an inventory that
\* is removed, and a cache of Secrets that lags.
SPECIFICATION Spec
CONSTANTS
    Params <- EditedInstances
    Passwords = {p1, p2}
    Lagging = {"secret"}
    Events = {"edit", "removal", "modify", "fail"}
    Faults = {"restart", "call", "conflict"}
    MaxFaults = 2
INVARIANTS TypeOK NothingLeft CredentialsKept
PROPERTIES MasterCredentials
SYMMETRY Symmetry
