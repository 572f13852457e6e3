SPECIFICATION FairSpec
CONSTANTS
    Load = Load
    r1 = r1
    r2 = r2
    Reopen <- MCOneReopen
    Main = Main
    Disp = Disp
    Sched = Sched
    NoTask = NoTask
    MaxTime = 2
    MaxEventId = 1
PROPERTIES LoadingIsNoticed
\* main() returns, or hangs in a join.
CHECK_DEADLOCK FALSE
