---------------------------- MODULE ServerProofs ----------------------------
(* Proofs about Server, for any number of events that open the port again. *)
EXTENDS Server, TLAPS

-----------------------------------------------------------------------------
(* What each position of main() says about the other threads.              *)

\* The positions of main() at which the dispatcher accepts tasks.
Serving == {"dispatcher", "scheduler", "posting", "waiting", "woken",
            "running", "stopping", "joining scheduler", "stopping dispatcher"}

DispatcherInv ==
    /\ DOMAIN pc = {Main, Disp, Sched} /\ DOMAIN dHand = {Main, Disp, Sched}
    /\ mpc \in Serving \cup {"start", "joining dispatcher", "ended"}
    /\ mpc \in Serving => dState = "RUNNING"

\* Main hands one task to addTask, while it posts mainLoader, and runs tasks
\* only in flush().
MainInv ==
    /\ CASE mpc = "posting" -> pc[Main] \in {"idle", "adding", "notify"}
         [] mpc = "joining dispatcher" -> pc[Main] \in {"flush", "body", "join"}
         [] mpc = "ended" -> pc[Main] = "joined"
         [] OTHER -> pc[Main] = "idle"
    /\ pc[Main] # "body" => dHand[Main] = NoTask
    /\ mpc = "ended" => pc[Disp] = "exit"

\* The scheduler's thread calls addTask while it forwards an event, and has
\* left when the dispatcher is shut down.
SchedulerInv ==
    /\ pc[Sched] \in {"idle", "adding", "notify"}
    /\ pc[Sched] # "idle" => tpc = "forward"
    /\ tpc = "forward" => sHand \in Reopen
    /\ dHand[Sched] = NoTask
    /\ mpc = "start" => tpc = "off"
    /\ mpc \in {"stopping dispatcher", "joining dispatcher", "ended"} =>
          tpc = "exit"

IndInv == DispatcherInv /\ MainInv /\ SchedulerInv /\ ForwardsAreAccepted

\* It holds before main() starts the threads.
LEMMA InitOrder == Init => IndInv
BY ServerAssumption
   DEF Init, D!Init, S!Init, D!Threads, IndInv, DispatcherInv, MainInv,
       SchedulerInv, Serving, ForwardsAreAccepted

\* Every step preserves it: main() joins the scheduler before it terminates
\* the dispatcher.
LEMMA NextOrder == IndInv /\ [Next]_vars => IndInv'
<1> SUFFICES ASSUME IndInv, [Next]_vars
             PROVE  IndInv'
  OBVIOUS
<1> USE ServerAssumption
    DEF IndInv, DispatcherInv, MainInv, SchedulerInv, Serving,
        ForwardsAreAccepted, mVars, GoesTo
<1>1. CASE StartThreads
  <2>1. CASE GoesTo("start", "dispatcher") /\ D!Start /\ UNCHANGED sVars
    BY <2>1 DEF D!Start, sVars
  <2>2. CASE GoesTo("dispatcher", "scheduler") /\ S!Start /\ UNCHANGED dVars
    BY <2>2 DEF S!Start, dVars
  <2>3. CASE /\ GoesTo("scheduler", "posting") /\ D!CreateTask(Main, Load)
             /\ UNCHANGED sVars
    BY <2>3 DEF D!CreateTask, sVars
  <2> QED BY <1>1, <2>1, <2>2, <2>3 DEF StartThreads
<1>2. CASE WaitForLoader \/ LoaderSpuriousWake \/ Run \/ RunReturns
  BY <1>2 DEF WaitForLoader, LoaderSpuriousWake, Run, RunReturns, dVars, sVars
<1>3. CASE AcceptError
  BY <1>3 DEF AcceptError, S!CreateEvent, S!thread, dVars
<1>4. CASE StopScheduler
  BY <1>4 DEF StopScheduler, S!Shutdown, S!Join, S!thread, dVars
<1>5. CASE StopDispatcher
  <2>1. CASE /\ GoesTo("stopping dispatcher", "joining dispatcher")
             /\ D!Shutdown /\ UNCHANGED sVars
    BY <2>1 DEF D!Shutdown, sVars
  <2>2. CASE GoesTo("joining dispatcher", "ended") /\ D!Join /\ UNCHANGED sVars
    BY <2>2 DEF D!Join, sVars
  <2> QED BY <1>5, <2>1, <2>2 DEF StopDispatcher
<1>6. CASE DispatcherSteps
  <2>1. CASE D!LoopTest \/ D!EnterWait \/ D!TakeNothing \/ D!Execute
    BY <1>6, <2>1
       DEF DispatcherSteps, D!LoopTest, D!EnterWait, D!TakeNothing, D!HoldsLock,
           D!Execute, sVars
  <2>2. CASE D!Take
    BY <1>6, <2>2 DEF DispatcherSteps, D!Take, D!HoldsLock, sVars
  <2> QED BY <1>6, <2>1, <2>2 DEF DispatcherSteps
<1>7. CASE FlushSteps
  BY <1>7 DEF FlushSteps, D!FlushTask, D!FlushDone, sVars
<1>8. ASSUME NEW p \in {Main, Sched}, AddTaskSteps(p)
      PROVE  IndInv'
  <2>1. CASE D!AddTask(p, FALSE)
    BY <1>8, <2>1 DEF AddTaskSteps, D!AddTask, D!Caller, sVars
  <2>2. CASE D!RejectTask(p)
    BY <1>8, <2>2 DEF AddTaskSteps, D!RejectTask, D!Accepts
  <2>3. CASE D!Notify(p)
    BY <1>8, <2>3 DEF AddTaskSteps, D!Notify, D!Threads, D!Caller, sVars
  <2> QED BY <1>8, <2>1, <2>2, <2>3 DEF AddTaskSteps
<1>9. CASE SchedulerSteps
  BY <1>9
     DEF SchedulerSteps, S!LoopTest, S!Wait, S!TimedWait, S!Timeout, S!GoRound,
         S!Pop, dVars
<1>10. CASE ForwardCall
  BY <1>10 DEF ForwardCall, D!CreateTask, sVars
<1>11. CASE ForwardReturn
  BY <1>11 DEF ForwardReturn, S!Forward, dVars
<1>12. ASSUME NEW p \in {Main, Disp}, AddEventSteps(p)
       PROVE  IndInv'
  BY <1>12
     DEF AddEventSteps, S!CallerSteps, S!AddEvent, S!RejectEvent, S!Notify,
         S!thread, dVars
<1>13. CASE Tick
  BY <1>13 DEF Tick, S!Tick, S!thread, dVars
<1>14. CASE SpuriousWake
  BY <1>14 DEF SpuriousWake, D!SpuriousWake, S!SpuriousWake, dVars, sVars
<1>15. CASE OpenFails
  BY <1>15 DEF OpenFails, S!CreateEvent, S!thread, dVars
<1>16. CASE OpenFailsInFlush
  BY <1>16 DEF OpenFailsInFlush, dVars, sVars
<1>17. ASSUME NEW p \in {Main, Disp}, OpenPort(p)
       PROVE  IndInv'
  BY <1>17 DEF OpenPort, dVars, sVars
<1>18. ASSUME NEW p \in {Main, Disp}, TaskReturns(p)
       PROVE  IndInv'
  BY <1>18 DEF TaskReturns, D!EndTask, sVars
<1>19. CASE UNCHANGED vars
  BY <1>19 DEF vars, dVars, sVars
<1> QED BY <1>1, <1>2, <1>3, <1>4, <1>5, <1>6, <1>7, <1>8, <1>9, <1>10,
           <1>11, <1>12, <1>13, <1>14, <1>15, <1>16, <1>17, <1>18, <1>19
     DEF Next, MainSteps, TaskSteps

-----------------------------------------------------------------------------
(* The theorems.                                                           *)

\* It is an invariant of the server.
LEMMA Inductive == Spec => []IndInv
BY InitOrder, NextOrder, PTL DEF Spec

\* main() shuts down in the right order: no event that the scheduler forwards,
\* nor mainLoader, is refused by the dispatcher.
THEOREM NothingIsRefused == Spec => []ForwardsAreAccepted
<1>1. IndInv => ForwardsAreAccepted
  BY DEF IndInv
<1> QED BY <1>1, Inductive, PTL

\* main() returns after both threads have ended.
THEOREM NoThreadIsLeft == Spec => []ThreadsEnded
<1>1. IndInv => ThreadsEnded
  BY DEF IndInv, MainInv, SchedulerInv, ThreadsEnded
<1> QED BY <1>1, Inductive, PTL

-----------------------------------------------------------------------------
(* The composition: every step of the server is, for each component, one   *)
(* of its own steps or none.                                               *)

\* main() and the scheduler's thread hand tasks to addTask, one at a time.
LEMMA DispatcherStep == IndInv /\ [Next]_vars => [D!Next]_(D!vars)
<1> SUFFICES ASSUME IndInv, [Next]_vars
             PROVE  [D!Next]_(D!vars)
  OBVIOUS
<1>1. UNCHANGED dVars <=> UNCHANGED D!vars
  BY DEF dVars, D!vars
<1>2. CASE StartThreads
  BY <1>1, <1>2 DEF StartThreads, D!Next, D!Threads
<1>3. CASE \/ WaitForLoader \/ LoaderSpuriousWake \/ Run \/ RunReturns
           \/ AcceptError \/ StopScheduler \/ OpenFails \/ OpenFailsInFlush
           \/ \E p \in {Main, Disp} : OpenPort(p)
  BY <1>1, <1>3
     DEF WaitForLoader, LoaderSpuriousWake, Run, RunReturns, AcceptError,
         StopScheduler, OpenFails, OpenFailsInFlush, OpenPort
<1>4. CASE StopDispatcher
  BY <1>4 DEF StopDispatcher, D!Next, D!ShutdownSteps
<1>5. CASE DispatcherSteps
  BY <1>5 DEF DispatcherSteps, D!Next, D!DispSteps
<1>6. CASE FlushSteps
  BY <1>6 DEF FlushSteps, D!Next, D!ShutdownSteps
<1>7. ASSUME NEW p \in {Main, Sched}, AddTaskSteps(p)
      PROVE  D!Next
  BY <1>7 DEF AddTaskSteps, D!Next, D!AddSteps, D!Threads
<1>8. CASE ForwardCall
  BY <1>8 DEF ForwardCall, D!Next, D!Threads, IndInv, SchedulerInv
<1>9. CASE \/ SchedulerSteps \/ ForwardReturn \/ Tick \/ UNCHANGED vars
           \/ \E p \in {Main, Disp} : AddEventSteps(p)
  BY <1>1, <1>9 DEF SchedulerSteps, ForwardReturn, Tick, AddEventSteps, vars
<1>10. CASE SpuriousWake
  BY <1>1, <1>10 DEF SpuriousWake, D!Next
<1>11. ASSUME NEW p \in {Main, Disp}, TaskReturns(p)
       PROVE  D!Next
  BY <1>11 DEF TaskReturns, D!Next, D!DispSteps, D!ShutdownSteps
<1> QED BY <1>2, <1>3, <1>4, <1>5, <1>6, <1>7, <1>8, <1>9, <1>10, <1>11
     DEF Next, MainSteps, TaskSteps

\* main() and the dispatcher's thread hand events to addEvent.
LEMMA SchedulerStep == [Next]_vars => [S!Next]_(S!vars)
<1> SUFFICES ASSUME [Next]_vars
             PROVE  [S!Next]_(S!vars)
  OBVIOUS
<1>1. UNCHANGED sVars <=> UNCHANGED S!vars
  BY DEF sVars, S!vars, S!thread, S!callers, S!queue, S!history
<1>2. CASE StartThreads
  BY <1>1, <1>2 DEF StartThreads, S!Next
<1>3. CASE \/ WaitForLoader \/ LoaderSpuriousWake \/ Run \/ RunReturns
           \/ StopDispatcher \/ DispatcherSteps \/ FlushSteps \/ ForwardCall
           \/ OpenFailsInFlush \/ UNCHANGED vars
           \/ \E p \in {Main, Sched} : AddTaskSteps(p)
           \/ \E p \in {Main, Disp} : OpenPort(p) \/ TaskReturns(p)
  BY <1>1, <1>3
     DEF WaitForLoader, LoaderSpuriousWake, Run, RunReturns, StopDispatcher,
         DispatcherSteps, FlushSteps, ForwardCall, OpenFailsInFlush,
         AddTaskSteps, OpenPort, TaskReturns, vars
<1>4. CASE AcceptError \/ OpenFails
  <2>1. PICK p \in {Main, Disp}, e \in Reopen : S!CreateEvent(p, e, 1)
    BY <1>4 DEF AcceptError, OpenFails
  <2> QED BY <2>1 DEF S!Next
<1>5. CASE StopScheduler
  BY <1>5 DEF StopScheduler, S!Next
<1>6. CASE SchedulerSteps
  BY <1>6 DEF SchedulerSteps, S!Next, S!ThreadSteps
<1>7. CASE ForwardReturn
  BY <1>7 DEF ForwardReturn, S!Next, S!ThreadSteps
<1>8. ASSUME NEW p \in {Main, Disp}, AddEventSteps(p)
      PROVE  S!Next
  BY <1>8 DEF AddEventSteps, S!Next
<1>9. CASE Tick
  BY <1>9 DEF Tick, S!Next
<1>10. CASE SpuriousWake
  BY <1>1, <1>10 DEF SpuriousWake, S!Next
<1> QED BY <1>2, <1>3, <1>4, <1>5, <1>6, <1>7, <1>8, <1>9, <1>10
     DEF Next, MainSteps, TaskSteps

\* In the server the dispatcher behaves as Dispatcher says, so what is proved
\* of it holds there: main() and the scheduler's thread use it as its callers.
THEOREM DispatcherBehaves == Spec => D!Spec
<1>1. Init => D!Init
  BY DEF Init
<1> QED BY <1>1, Inductive, DispatcherStep, PTL DEF Spec, D!Spec

\* In the server the scheduler behaves as Scheduler says, so what is proved of
\* it holds there: main() and the dispatcher's thread use it as its callers.
THEOREM SchedulerBehaves == Spec => S!Spec
<1>1. Init => S!Init
  BY DEF Init
<1> QED BY <1>1, SchedulerStep, PTL DEF Spec, S!Spec
=============================================================================
