SPECIFICATION FairSpec
CONSTANTS
    t1 = t1
    t2 = t2
    t3 = t3
    t4 = t4
    io = io
    sched = sched
    disp = disp
    Tasks <- MCTasks
    Spawners <- MCSpawners
    Droppable <- MCDroppable
    Callers <- MCCallers
    Main = io
    Disp = disp
    NoTask = NoTask
INVARIANTS TypeOK NoLostWakeup OnePlace RunsOnce NothingLeftBehind
PROPERTIES ImplementsTaskQueue AcceptedRuns
\* The program ends with main(), and a run ends when every task was created.
CHECK_DEADLOCK FALSE
