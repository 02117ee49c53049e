\* Two connections of the name one after the other, databases that are deleted and
\* made again, an inventory that comes and goes, a RDSInstance with the connection's
\* name, a failed call or a crash, and a cache of ConfigMaps that lags.
SPECIFICATION FairSpec
CONSTANTS
    Databases = {d1, d2}
    Uids = {u1, u2}
    Lagging = {"config"}
    Events = {"inventory", "adopt", "clash"}
    Faults = {"restart", "call"}
    MaxFaults = 1
INVARIANTS TypeOK BoundWhenIdle RefsKept
PROPERTIES ForeignSecretKept EventuallyBound
