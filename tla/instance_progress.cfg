\* What happens in the end, after a fault at any point of a pass, edits of valid and invalid
\* parameters, an inventory that is not Ready for a while, and a cache of Secrets that lags.
SPECIFICATION FairSpec
CONSTANTS
    Params <- EditedInstances
    Passwords = {p1}
    Lagging = {"secret"}
    Events = {"edit", "unready"}
    Faults = {"restart", "call"}
    MaxFaults = 1
PROPERTIES DeletionCompletes EventuallyMirrored
