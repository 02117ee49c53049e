\* Deletion with one restart of the operator.
SPECIFICATION FairSpec
CONSTANTS
    DBIds = {i1}
    MaxCopies = 1
    Creds = {c1}
    Passwords = {p1}
    Lagging = {}
    Events = {}
    Faults = {"restart"}
    MaxFaults = 1
PROPERTIES DeletionSurvives
