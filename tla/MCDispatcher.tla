---------------------------- MODULE MCDispatcher ----------------------------
(* Small instances of Dispatcher.  t1 adds tasks from its body, t2 may      *)
(* expire, the rest does neither; the callers are the io/main thread and    *)
(* the scheduler's thread.                                                  *)
EXTENDS Dispatcher

CONSTANTS t1, t2, t3, t4, io, sched, disp

MCTasks == {t1, t2, t3, t4}
MCFewTasks == {t1, t2, t3}
MCSpawners == {t1}
MCDroppable == {t2}
MCCallers == {io, sched}
=============================================================================
