\* Two versions, a crash and two failed calls, at any point.
SPECIFICATION FairSpec
CONSTANTS
    MaxVersion = 2
    MaxCrashes = 1
    MaxErrors = 2
INVARIANTS TypeOK Offered
PROPERTIES EventuallyRegistered EventuallyCleaned
\* An operator that is not installed any more has nothing left to do.
CHECK_DEADLOCK FALSE
