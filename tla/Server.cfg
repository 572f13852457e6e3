SPECIFICATION FairSpec
CONSTANTS
    Load = Load
    r1 = r1
    r2 = r2
    Reopen <- MCReopen
    Main = Main
    Disp = Disp
    Sched = Sched
    NoTask = NoTask
    MaxTime = 3
    MaxEventId = 2
INVARIANTS ForwardsAreAccepted ThreadsEnded
PROPERTIES ShutdownEndsOrSleeps
\* main() returns, or hangs in a join.
CHECK_DEADLOCK FALSE
