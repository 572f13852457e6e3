SPECIFICATION FairSpec
CONSTANTS
    MaxErrors = 5
    MaxAccepts = 4
    EarlyRun = FALSE
INVARIANTS TypeOK PendingIsScheduled PortServed
PROPERTIES RecoversOrOrphaned
\* An open port that meets no more errors has no step left.
CHECK_DEADLOCK FALSE
