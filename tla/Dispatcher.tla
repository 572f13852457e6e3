----------------------------- MODULE Dispatcher -----------------------------
(***************************************************************************)
(* The task dispatcher (Common/Dispatcher.{h,cpp}): one thread executes    *)
(* the tasks other threads, or the tasks themselves, hand to addTask.      *)
(*                                                                         *)
(* The mutex m_taskLock is held across several steps only by               *)
(* Dispatcher::shutdown, which runs flush() under it; every other critical *)
(* section is one action guarded by the lock being free.  The condition    *)
(* variable m_taskSignal has one waiter, the dispatcher thread: it is in   *)
(* the wait set when its pc is "wait".  A notify_one is a step of its own, *)
(* as addTask calls it after it released the mutex.                        *)
(*                                                                         *)
(* Definitions marked "Variant" are not part of the specification: each is *)
(* the definition after it with a plausible bug, which some property finds.*)
(***************************************************************************)
EXTENDS Naturals, Sequences, SequencesExt

CONSTANTS
    Tasks,      \* the Task objects
    Droppable,  \* the tasks created with an expiration (createTask(ms, f))
    Spawners,   \* the tasks whose body, or the sendAll after it, calls addTask
    Callers,    \* the threads that call addTask, Main among them
    Main,       \* the thread that starts the dispatcher and shuts it down
    Disp,       \* the thread of Dispatcher::dispatcherThread
    NoTask      \* nullptr

ASSUME DispatcherAssumption ==
    /\ Droppable \subseteq Tasks
    /\ Spawners \subseteq Tasks
    /\ Main \in Callers
    /\ Disp \notin Callers
    /\ NoTask \notin Tasks

Threads == Callers \cup {Disp}

VARIABLES
    threadState,    \* m_threadState
    taskList,       \* m_taskList, its front first
    flushing,       \* m_taskLock is held by shutdown(), which is in flush()
    pc,             \* where each thread is
    hand,           \* the task a thread took off the list and is executing
    arg,            \* the task a thread created and is handing to addTask
    submitted,      \* history: the tasks created
    rejected,       \* history: the tasks addTask did not accept (they leak)
    deleted,        \* history: the tasks deleted
    runs            \* history: how often each task's functor was called

vars == <<threadState, taskList, flushing, pc, hand, arg,
          submitted, rejected, deleted, runs>>

States == {"RUNNING", "CLOSING", "TERMINATED"}

DispPCs == {"off", "test", "lock", "wait", "woken", "exec",
            "body", "adding", "notify", "exit"}

CallerPCs == {"idle", "adding", "notify", "flush", "body", "join", "joined"}

Listed == ToSet(taskList)

Init ==
    /\ threadState = "TERMINATED"
    /\ taskList = <<>>
    /\ flushing = FALSE
    /\ pc = [p \in Threads |-> IF p = Disp THEN "off" ELSE "idle"]
    /\ hand = [p \in Threads |-> NoTask]
    /\ arg = [p \in Threads |-> NoTask]
    /\ submitted = {}
    /\ rejected = {}
    /\ deleted = {}
    /\ runs = [t \in Tasks |-> 0]

-----------------------------------------------------------------------------
(* Dispatcher::start: the thread begins at its loop test.                  *)

Start ==
    /\ pc[Main] = "idle"
    /\ pc[Disp] = "off"
    /\ threadState' = "RUNNING"
    /\ pc' = [pc EXCEPT ![Disp] = "test"]
    /\ UNCHANGED <<taskList, flushing, hand, arg,
                   submitted, rejected, deleted, runs>>

-----------------------------------------------------------------------------
(* createTask and Dispatcher::addTask, called by any thread: an idle       *)
(* caller, or a thread inside the body of a task.                          *)

\* Where a thread continues when addTask returns.
Caller(p) == IF hand[p] = NoTask THEN "idle" ELSE "body"

CreateTask(p, t) ==
    /\ pc[Disp] # "off"
    /\ \/ pc[p] = "idle"
       \/ pc[p] = "body" /\ hand[p] \in Spawners
    /\ t \notin submitted
    /\ submitted' = submitted \cup {t}
    /\ arg' = [arg EXCEPT ![p] = t]
    /\ pc' = [pc EXCEPT ![p] = "adding"]
    /\ UNCHANGED <<threadState, taskList, flushing, hand,
                   rejected, deleted, runs>>

\* Variant: do_signal is computed after the push.
DoSignalLate == FALSE

\* do_signal: only the first task of an empty list is announced.
DoSignal == taskList = <<>>

\* Variant: addTask does not look at m_threadState.
AcceptsAlways == TRUE

Accepts == threadState = "RUNNING"

\* The critical section of addTask, when it accepts the task.
AddTask(p, pushFront) ==
    /\ pc[p] = "adding"
    /\ ~flushing
    /\ Accepts
    /\ taskList' = IF pushFront THEN <<arg[p]>> \o taskList
                                ELSE Append(taskList, arg[p])
    /\ arg' = [arg EXCEPT ![p] = NoTask]
    /\ pc' = [pc EXCEPT ![p] = IF DoSignal THEN "notify" ELSE Caller(p)]
    /\ UNCHANGED <<threadState, flushing, hand,
                   submitted, rejected, deleted, runs>>

\* ... and when the dispatcher is not running: the task is not queued, and
\* nobody deletes it.
RejectTask(p) ==
    /\ pc[p] = "adding"
    /\ ~flushing
    /\ ~Accepts
    /\ rejected' = rejected \cup {arg[p]}
    /\ arg' = [arg EXCEPT ![p] = NoTask]
    /\ pc' = [pc EXCEPT ![p] = Caller(p)]
    /\ UNCHANGED <<threadState, taskList, flushing, hand,
                   submitted, deleted, runs>>

\* m_taskSignal.notify_one(): it is lost when the thread does not wait.
Notify(p) ==
    /\ pc[p] = "notify"
    /\ pc' = [q \in Threads |->
                 IF q = p THEN Caller(p)
                 ELSE IF q = Disp /\ pc[Disp] = "wait" THEN "woken"
                 ELSE pc[q]]
    /\ UNCHANGED <<threadState, taskList, flushing, hand, arg,
                   submitted, rejected, deleted, runs>>

-----------------------------------------------------------------------------
(* Dispatcher::dispatcherThread.                                           *)

\* while (m_threadState != STATE_TERMINATED), read without the lock.
LoopTest ==
    /\ pc[Disp] = "test"
    /\ pc' = [pc EXCEPT ![Disp] =
                 IF threadState = "TERMINATED" THEN "exit" ELSE "lock"]
    /\ UNCHANGED <<threadState, taskList, flushing, hand, arg,
                   submitted, rejected, deleted, runs>>

\* Variant: wait() is called whether or not the list is empty.
EnterWaitAlways ==
    /\ pc[Disp] = "lock"
    /\ ~flushing
    /\ pc' = [pc EXCEPT ![Disp] = "wait"]
    /\ UNCHANGED <<threadState, taskList, flushing, hand, arg,
                   submitted, rejected, deleted, runs>>

\* lock(); the list is empty: wait(), which releases the lock.
EnterWait ==
    /\ pc[Disp] = "lock"
    /\ ~flushing
    /\ taskList = <<>>
    /\ pc' = [pc EXCEPT ![Disp] = "wait"]
    /\ UNCHANGED <<threadState, taskList, flushing, hand, arg,
                   submitted, rejected, deleted, runs>>

\* boost::condition_variable::wait may return without a notification.
SpuriousWake ==
    /\ pc[Disp] = "wait"
    /\ pc' = [pc EXCEPT ![Disp] = "woken"]
    /\ UNCHANGED <<threadState, taskList, flushing, hand, arg,
                   submitted, rejected, deleted, runs>>

\* The lock is held, the wait (if any) is over: take the first task, unlock.
HoldsLock ==
    /\ ~flushing
    /\ pc[Disp] = "woken" \/ (pc[Disp] = "lock" /\ taskList # <<>>)

\* Variant: the newest task is taken.
BackTask == Last(taskList)

FrontTask == Head(taskList)

\* Variant: pop_front() is forgotten.
NoPop == taskList

PopFront == Tail(taskList)

Take ==
    /\ HoldsLock
    /\ taskList # <<>>
    /\ threadState # "TERMINATED"
    /\ hand' = [hand EXCEPT ![Disp] = FrontTask]
    /\ taskList' = PopFront
    /\ pc' = [pc EXCEPT ![Disp] = "exec"]
    /\ UNCHANGED <<threadState, flushing, arg,
                   submitted, rejected, deleted, runs>>

\* Variant: "if (task)" is forgotten; a null pointer is executed and deleted.
TakeNull ==
    /\ HoldsLock
    /\ taskList = <<>> \/ threadState = "TERMINATED"
    /\ pc' = [pc EXCEPT ![Disp] = "exec"]
    /\ UNCHANGED <<threadState, taskList, flushing, hand, arg,
                   submitted, rejected, deleted, runs>>

TakeNothing ==
    /\ HoldsLock
    /\ taskList = <<>> \/ threadState = "TERMINATED"
    /\ pc' = [pc EXCEPT ![Disp] = "test"]
    /\ UNCHANGED <<threadState, taskList, flushing, hand, arg,
                   submitted, rejected, deleted, runs>>

\* hasExpired() is false: startExecutionFrame() and the task's functor.
Execute ==
    /\ pc[Disp] = "exec"
    /\ runs' = [runs EXCEPT ![hand[Disp]] = @ + 1]
    /\ pc' = [pc EXCEPT ![Disp] = "body"]
    /\ UNCHANGED <<threadState, taskList, flushing, hand, arg,
                   submitted, rejected, deleted>>

\* Variant: setDontExpire() has no effect.
AllExpire(t) == TRUE

\* Only a task with an expiration can have expired when it is taken.
MayExpire(t) == t \in Droppable

\* hasExpired() is true: the task is deleted without being run.
Expire ==
    /\ pc[Disp] = "exec"
    /\ MayExpire(hand[Disp])
    /\ deleted' = deleted \cup {hand[Disp]}
    /\ hand' = [hand EXCEPT ![Disp] = NoTask]
    /\ pc' = [pc EXCEPT ![Disp] = "test"]
    /\ UNCHANGED <<threadState, taskList, flushing, arg,
                   submitted, rejected, runs>>

\* The functor and OutputMessagePool::sendAll() returned, and the task is
\* deleted (in flush() before sendAll()).  The loop of the dispatcher thread,
\* or of flush(), continues.
EndTask(p) ==
    /\ pc[p] = "body"
    /\ deleted' = deleted \cup {hand[p]}
    /\ hand' = [hand EXCEPT ![p] = NoTask]
    /\ pc' = [pc EXCEPT ![p] = IF p = Disp THEN "test" ELSE "flush"]
    /\ UNCHANGED <<threadState, taskList, flushing, arg,
                   submitted, rejected, runs>>

-----------------------------------------------------------------------------
(* Dispatcher::stop, and shutdownAndWait = shutdown (flush under the lock) *)
(* followed by join.  Neither notifies m_taskSignal.                       *)

Stop ==
    /\ pc[Main] = "idle"
    /\ pc[Disp] # "off"
    /\ threadState' = "CLOSING"
    /\ UNCHANGED <<taskList, flushing, pc, hand, arg,
                   submitted, rejected, deleted, runs>>

Shutdown ==
    /\ pc[Main] = "idle"
    /\ pc[Disp] # "off"
    /\ threadState' = "TERMINATED"
    /\ flushing' = TRUE
    /\ pc' = [pc EXCEPT ![Main] = "flush"]
    /\ UNCHANGED <<taskList, hand, arg, submitted, rejected, deleted, runs>>

\* flush(): the next task is run on the calling thread, expired or not.
FlushTask ==
    /\ pc[Main] = "flush"
    /\ taskList # <<>>
    /\ hand' = [hand EXCEPT ![Main] = FrontTask]
    /\ taskList' = PopFront
    /\ runs' = [runs EXCEPT ![FrontTask] = @ + 1]
    /\ pc' = [pc EXCEPT ![Main] = "body"]
    /\ UNCHANGED <<threadState, flushing, arg, submitted, rejected, deleted>>

\* Variant: shutdown() does not release the mutex.
FlushKeepsLock ==
    /\ pc[Main] = "flush"
    /\ taskList = <<>>
    /\ pc' = [pc EXCEPT ![Main] = "join"]
    /\ UNCHANGED <<threadState, taskList, flushing, hand, arg,
                   submitted, rejected, deleted, runs>>

FlushDone ==
    /\ pc[Main] = "flush"
    /\ taskList = <<>>
    /\ flushing' = FALSE
    /\ pc' = [pc EXCEPT ![Main] = "join"]
    /\ UNCHANGED <<threadState, taskList, hand, arg,
                   submitted, rejected, deleted, runs>>

Join ==
    /\ pc[Main] = "join"
    /\ pc[Disp] = "exit"
    /\ pc' = [pc EXCEPT ![Main] = "joined"]
    /\ UNCHANGED <<threadState, taskList, flushing, hand, arg,
                   submitted, rejected, deleted, runs>>

-----------------------------------------------------------------------------
AddSteps(p) ==
    \/ \E front \in BOOLEAN : AddTask(p, front)
    \/ RejectTask(p)
    \/ Notify(p)

DispSteps ==
    \/ LoopTest \/ EnterWait \/ Take \/ TakeNothing
    \/ Execute \/ Expire \/ EndTask(Disp)

ShutdownSteps == FlushTask \/ EndTask(Main) \/ FlushDone \/ Join

Next ==
    \/ Start \/ Stop \/ Shutdown \/ SpuriousWake
    \/ \E p \in Threads : AddSteps(p) \/ \E t \in Tasks : CreateTask(p, t)
    \/ DispSteps
    \/ ShutdownSteps

Spec == Init /\ [][Next]_vars

\* Every thread that can continue does so: the operating system schedules
\* them all, and a task's body returns.  Whether a caller creates a task, and
\* whether somebody stops the dispatcher, is up to the rest of the server.
Fairness ==
    /\ WF_vars(DispSteps)
    /\ WF_vars(ShutdownSteps)
    /\ \A p \in Threads : WF_vars(AddSteps(p))

FairSpec == Spec /\ Fairness

-----------------------------------------------------------------------------
(* Properties.                                                             *)

\* Type correctness of the dispatcher's fields and of its threads' positions.
TypeOK ==
    /\ threadState \in States
    /\ taskList \in Seq(Tasks)
    /\ flushing \in BOOLEAN
    /\ pc \in [Threads -> DispPCs \cup CallerPCs]
    /\ pc[Disp] \in DispPCs
    /\ \A p \in Callers : pc[p] \in CallerPCs
    /\ hand \in [Threads -> Tasks \cup {NoTask}]
    /\ arg \in [Threads -> Tasks \cup {NoTask}]
    /\ submitted \subseteq Tasks
    /\ rejected \subseteq Tasks
    /\ deleted \subseteq Tasks
    /\ runs \in [Tasks -> Nat]

\* addTask signals only when the list was empty, and after it released the
\* mutex.  Still the dispatcher thread never sleeps on a list that holds a
\* task without a notification on its way (shutdown() drains the list itself).
NoLostWakeup ==
    pc[Disp] = "wait" /\ taskList # <<>> =>
        flushing \/ \E p \in Threads : pc[p] = "notify"

\* The tasks that no thread holds.
Owned == Listed \cup deleted \cup rejected

ListApart ==
    /\ IsInjective(taskList)
    /\ Listed \cap deleted = {}
    /\ Listed \cap rejected = {}
    /\ deleted \cap rejected = {}

HandsApart ==
    \A p \in Threads : hand[p] \notin Owned /\ arg[p] \notin Owned

NotShared ==
    \A p, q \in Threads :
        /\ hand[p] = hand[q] /\ hand[p] # NoTask => p = q
        /\ arg[p] = arg[q] /\ arg[p] # NoTask => p = q
        /\ hand[p] = arg[q] => hand[p] = NoTask

Accounted ==
    \A t \in submitted :
        t \in Owned \/ \E p \in Threads : hand[p] = t \/ arg[p] = t

\* Ownership of the raw Task pointers.  A task that was created is in exactly
\* one place: being handed to addTask, once in the list, in the hands of one
\* thread, deleted, or refused by addTask.  So no pointer is used after
\* delete, deleted twice or dropped from the list, whoever executes it.
OnePlace == ListApart /\ HandsApart /\ NotShared /\ Accounted

\* A task's functor is called at most once, whether by the dispatcher thread
\* or by flush(); and a task that cannot expire is never deleted unexecuted.
RunsOnce ==
    \A t \in Tasks :
        /\ runs[t] <= 1
        /\ t \in deleted /\ t \notin Droppable => runs[t] = 1

\* Once shutdown() released the mutex nothing is queued any more: addTask has
\* refused every later task, so no task waits for a thread that is leaving.
NothingLeftBehind ==
    pc[Main] \in {"join", "joined"} => taskList = <<>>

\* A task addTask accepted is executed or dropped in time, unless the
\* dispatcher is terminated first: signals, spurious wakeups and tasks added
\* from tasks never leave it in the list for ever.
AcceptedRuns ==
    \A t \in Tasks :
        t \in Listed ~> t \in deleted \/ threadState = "TERMINATED"

\* The dispatcher implements the executor of TaskQueue: a deque whose tasks
\* are executed one at a time, in order, until it is terminated.
Active == {hand[p] : p \in Threads} \ {NoTask}

Queue == INSTANCE TaskQueue WITH mode <- threadState, queue <- taskList,
                                 active <- Active, gone <- deleted,
                                 refused <- rejected

ImplementsTaskQueue == Queue!Spec
=============================================================================
