------------------------------- MODULE Server -------------------------------
(***************************************************************************)
(* main(): how the server starts and ends, composed of the dispatcher, the *)
(* scheduler and the first task, mainLoader.                               *)
(*                                                                         *)
(* Main is the thread of main(), and runs io_service while the server is   *)
(* up; Disp and Sched are the threads of the dispatcher and the scheduler. *)
(* mainLoader opens the port on the dispatcher thread; when that fails,    *)
(* ServicePort::open schedules an event that will try again.  A task is    *)
(* mainLoader or one of these events, which Sched hands to addTask.        *)
(*                                                                         *)
(* Definitions marked "Variant" are not part of the specification: each is *)
(* the definition after it with a plausible bug, which some property finds.*)
(***************************************************************************)
EXTENDS Naturals, Sequences

CONSTANTS
    Load,           \* the task of mainLoader
    Reopen,         \* the events of ServicePort::openAcceptor
    Main, Disp, Sched,
    MaxTime, MaxEventId,
    NoTask

ASSUME ServerAssumption ==
    /\ Load \notin Reopen
    /\ NoTask \notin Reopen \cup {Load}
    /\ Main # Disp /\ Main # Sched /\ Disp # Sched

VARIABLES
    dState, taskList, flushing, pc, dHand, dArg,            \* Dispatcher
    submitted, rejected, deleted, runs,
    now, sState, eventList, eventIds, lastEventId, due,     \* Scheduler
    evId, tpc, deadline, sHand, cpc, sArg, made,
    forwarded, discarded, stopped,
    mpc,        \* where main() is
    loaded,     \* mainLoader returned
    opened,     \* the task in execution did its work
    listening   \* an acceptor is open: io_service has work

dVars == <<dState, taskList, flushing, pc, dHand, dArg,
           submitted, rejected, deleted, runs>>
sVars == <<now, sState, eventList, eventIds, lastEventId, due,
           evId, tpc, deadline, sHand, cpc, sArg, made,
           forwarded, discarded, stopped>>
mVars == <<mpc, loaded, opened, listening>>
vars == <<dVars, sVars, mVars>>

D == INSTANCE Dispatcher WITH
         Tasks <- Reopen \cup {Load}, Droppable <- {}, Spawners <- {},
         Callers <- {Main, Sched},
         threadState <- dState, hand <- dHand, arg <- dArg

S == INSTANCE Scheduler WITH
         Events <- Reopen, Callers <- {Main, Disp}, Delays <- {1},
         MinTicks <- 1, NoEvent <- NoTask,
         threadState <- sState, hand <- sHand, arg <- sArg

Init ==
    /\ D!Init
    /\ S!Init
    /\ mpc = "start"
    /\ loaded = FALSE
    /\ opened = FALSE
    /\ listening = FALSE

-----------------------------------------------------------------------------
(* main().                                                                 *)

GoesTo(from, to) == mpc = from /\ mpc' = to

StartThreads ==
    \/ /\ GoesTo("start", "dispatcher") /\ D!Start
       /\ UNCHANGED <<sVars, loaded, opened, listening>>
    \/ /\ GoesTo("dispatcher", "scheduler") /\ S!Start
       /\ UNCHANGED <<dVars, loaded, opened, listening>>
    \/ /\ GoesTo("scheduler", "posting") /\ D!CreateTask(Main, Load)
       /\ UNCHANGED <<sVars, loaded, opened, listening>>

\* g_loaderSignal.wait(): main owns g_loaderLock since static initialisation,
\* mainLoader never takes it, and there is no predicate.
WaitForLoader ==
    /\ GoesTo("posting", "waiting")
    /\ pc[Main] = "idle"
    /\ UNCHANGED <<dVars, sVars, loaded, opened, listening>>

LoaderSpuriousWake ==
    /\ GoesTo("waiting", "woken")
    /\ UNCHANGED <<dVars, sVars, loaded, opened, listening>>

\* servicer.isRunning() is true once add() has put the port in m_acceptors.
Run ==
    /\ GoesTo("woken", IF loaded \/ (opened /\ cpc[Disp] = "idle")
                       THEN "running" ELSE "stopping")
    /\ UNCHANGED <<dVars, sVars, loaded, opened, listening>>

\* io_service::run() returns when nothing is open any more: the acceptor is
\* closed by an error in onAccept, or has never been opened.  It also returns
\* when a handler of a connection throws a system_error, which ServiceManager::run
\* catches and logs; the acceptor then stays open.  It does not have to return.
RunReturns ==
    /\ GoesTo("running", "stopping")
    /\ cpc[Main] = "idle"
    /\ UNCHANGED <<dVars, sVars, loaded, opened, listening>>

\* onAccept closes the acceptor and schedules another attempt.
AcceptError ==
    /\ mpc = "running"
    /\ listening
    /\ listening' = FALSE
    /\ \E e \in Reopen : S!CreateEvent(Main, e, 1)
    /\ UNCHANGED <<dVars, mpc, loaded, opened>>

\* Variant: g_scheduler.shutdown() without waiting for its thread.
StopSchedulerNoJoin ==
    /\ GoesTo("stopping", "stopping dispatcher")
    /\ S!Shutdown
    /\ UNCHANGED <<dVars, loaded, opened, listening>>

\* g_scheduler.shutdownAndWait(), then g_dispatcher.shutdownAndWait().
StopScheduler ==
    \/ /\ GoesTo("stopping", "joining scheduler") /\ S!Shutdown
       /\ UNCHANGED <<dVars, loaded, opened, listening>>
    \/ /\ GoesTo("joining scheduler", "stopping dispatcher") /\ S!Join
       /\ UNCHANGED <<dVars, loaded, opened, listening>>

\* Variant: g_dispatcher.shutdown() without waiting for its thread.
StopDispatcherNoJoin ==
    \/ /\ GoesTo("stopping dispatcher", "joining dispatcher") /\ D!Shutdown
       /\ UNCHANGED <<sVars, loaded, opened, listening>>
    \/ /\ GoesTo("joining dispatcher", "ended")
       /\ pc[Main] = "join"
       /\ UNCHANGED <<dVars, sVars, loaded, opened, listening>>

StopDispatcher ==
    \/ /\ GoesTo("stopping dispatcher", "joining dispatcher") /\ D!Shutdown
       /\ UNCHANGED <<sVars, loaded, opened, listening>>
    \/ /\ GoesTo("joining dispatcher", "ended") /\ D!Join
       /\ UNCHANGED <<sVars, loaded, opened, listening>>

-----------------------------------------------------------------------------
(* The threads of the dispatcher and the scheduler.                        *)

DispatcherSteps ==
    /\ \/ D!LoopTest \/ D!EnterWait \/ D!Take \/ D!TakeNothing \/ D!Execute
    /\ UNCHANGED <<sVars, mVars>>

FlushSteps ==
    /\ D!FlushTask \/ D!FlushDone
    /\ UNCHANGED <<sVars, mVars>>

\* addTask, called by main() for mainLoader and by the scheduler's thread.
AddTaskSteps(p) ==
    /\ D!AddTask(p, FALSE) \/ D!RejectTask(p) \/ D!Notify(p)
    /\ UNCHANGED <<sVars, mVars>>

SchedulerSteps ==
    /\ \/ S!LoopTest \/ S!Wait \/ S!TimedWait \/ S!Timeout \/ S!GoRound
       \/ \E e \in Reopen : S!Pop(e)
    /\ UNCHANGED <<dVars, mVars>>

\* addEvent, called by ServicePort::open() and by onAccept.
AddEventSteps(p) ==
    /\ S!CallerSteps(p)
    /\ UNCHANGED <<dVars, mVars>>

\* g_dispatcher.addTask(task) in the scheduler's thread: the call, which
\* continues in AddTaskSteps, and its return.
ForwardCall ==
    /\ tpc = "forward"
    /\ D!CreateTask(Sched, sHand)
    /\ UNCHANGED <<sVars, mVars>>

ForwardReturn ==
    /\ sHand \in submitted
    /\ pc[Sched] = "idle"
    /\ S!Forward
    /\ UNCHANGED <<dVars, mVars>>

Tick == S!Tick /\ UNCHANGED <<dVars, mVars>>

SpuriousWake ==
    \/ D!SpuriousWake /\ UNCHANGED <<sVars, mVars>>
    \/ S!SpuriousWake /\ UNCHANGED <<dVars, mVars>>

-----------------------------------------------------------------------------
(* The bodies of the tasks: ServicePort::open(), on the dispatcher thread  *)
(* or, in flush(), on Main.                                                *)

OpenPort(p) ==
    /\ pc[p] = "body"
    /\ ~opened
    /\ opened' = TRUE
    /\ listening' = TRUE
    /\ UNCHANGED <<dVars, sVars, mpc, loaded>>

\* The port cannot be opened: another attempt is scheduled ...
OpenFails ==
    /\ pc[Disp] = "body"
    /\ ~opened
    /\ opened' = TRUE
    /\ \E e \in Reopen : S!CreateEvent(Disp, e, 1)
    /\ UNCHANGED <<dVars, mpc, loaded, listening>>

\* ... which the terminated scheduler refuses when flush() runs the task.
OpenFailsInFlush ==
    /\ pc[Main] = "body"
    /\ ~opened
    /\ opened' = TRUE
    /\ UNCHANGED <<dVars, sVars, mpc, loaded, listening>>

\* The task returns.  mainLoader's last act is g_loaderSignal.notify_all().
TaskReturns(p) ==
    /\ opened
    /\ p = Disp => cpc[Disp] = "idle"
    /\ D!EndTask(p)
    /\ opened' = FALSE
    /\ loaded' = (loaded \/ dHand[p] = Load)
    /\ mpc' = IF dHand[p] = Load /\ mpc = "waiting" THEN "woken" ELSE mpc
    /\ UNCHANGED <<sVars, listening>>

-----------------------------------------------------------------------------
MainSteps ==
    \/ StartThreads \/ WaitForLoader \/ Run
    \/ StopScheduler \/ StopDispatcher

TaskSteps ==
    \/ OpenFails \/ OpenFailsInFlush
    \/ \E p \in {Main, Disp} : OpenPort(p) \/ TaskReturns(p)

Next ==
    \/ MainSteps \/ LoaderSpuriousWake \/ RunReturns \/ AcceptError
    \/ DispatcherSteps \/ FlushSteps
    \/ SchedulerSteps \/ ForwardCall \/ ForwardReturn
    \/ \E p \in {Main, Disp} : AddEventSteps(p)
    \/ \E p \in {Main, Sched} : AddTaskSteps(p)
    \/ Tick \/ SpuriousWake
    \/ TaskSteps

Spec == Init /\ [][Next]_vars

\* Every thread that can continue does so, and time passes.
FairSpec ==
    /\ Spec
    /\ WF_vars(MainSteps \/ FlushSteps)
    /\ WF_vars(DispatcherSteps)
    /\ WF_vars(SchedulerSteps \/ ForwardCall \/ ForwardReturn)
    /\ \A p \in {Main, Disp} : WF_vars(AddEventSteps(p))
    /\ \A p \in {Main, Sched} : WF_vars(AddTaskSteps(p))
    /\ WF_vars(Tick)
    /\ WF_vars(TaskSteps)

-----------------------------------------------------------------------------
(* Properties.                                                             *)

\* main() shuts the scheduler down first, so that no event is forwarded to a
\* dispatcher that has ended: an event the scheduler popped is never refused.
ForwardsAreAccepted == rejected = {}

\* When main() returns no thread of the server is left that could use what
\* static destructors tear down.
ThreadsEnded == mpc = "ended" => tpc = "exit" /\ pc[Disp] = "exit"

\* "// Wait for loading to finish" (main.cpp): main() goes on after mainLoader
\* has finished.  It can miss the notification and wait for ever.
LoadingIsNoticed == mpc = "posting" ~> mpc \in {"running", "stopping"}

\* Neither shutdownAndWait() wakes the thread it joins.  main() ends after it
\* has left io_service, unless that thread sleeps without a timeout.
Asleep ==
    \/ mpc = "joining scheduler" /\ tpc = "wait"
    \/ mpc = "joining dispatcher" /\ pc[Disp] = "wait"

ShutdownEndsOrSleeps == mpc = "stopping" ~> mpc = "ended" \/ []Asleep
=============================================================================
