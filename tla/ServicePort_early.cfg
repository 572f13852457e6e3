SPECIFICATION Spec
CONSTANTS
    MaxErrors = 0
    MaxAccepts = 1
    EarlyRun = TRUE
INVARIANT PortServed
\* An open port that meets no more errors has no step left.
CHECK_DEADLOCK FALSE
