------------------------------ MODULE Scheduler ------------------------------
(***************************************************************************)
(* The event scheduler (Common/Scheduler.{h,cpp}): a thread that hands     *)
(* every event to the dispatcher when its time has come.                   *)
(*                                                                         *)
(* No critical section of m_eventLock calls out, so each one is a single   *)
(* action.  The thread is in the wait set of m_eventSignal when its pc is  *)
(* "wait" (untimed) or "timed"; after a wait it needs the lock again, so   *)
(* waking up ("woken": the wait returned true, "timeout": false) and what  *)
(* it then does are different steps.                                       *)
(*                                                                         *)
(* Definitions marked "Variant" are not part of the specification: each is *)
(* the definition after it with a plausible bug, which some property finds.*)
(***************************************************************************)
EXTENDS Naturals

CONSTANTS
    Events,     \* the SchedulerTask objects
    Callers,    \* the threads that call addEvent and stopEvent
    Main,       \* the one that starts and shuts down the scheduler
    Delays,     \* the delays events are created with
    MinTicks,   \* SCHEDULER_MINTICKS
    MaxEventId, \* the largest value of an event id, 0xFFFFFFFF in the code
    MaxTime,    \* bound: the last instant an event is due
    NoEvent     \* nullptr

ASSUME SchedulerAssumption ==
    /\ Main \in Callers
    /\ Delays \subseteq Nat \ {0}
    /\ MinTicks \in Nat \ {0}
    /\ MaxEventId \in Nat \ {0}
    /\ MaxTime \in Nat
    /\ NoEvent \notin Events

VARIABLES
    now,            \* boost::get_system_time()
    threadState,    \* m_threadState
    eventList,      \* m_eventList, a priority queue: the set of its events
    eventIds,       \* m_eventIds
    lastEventId,    \* m_lastEventId
    due,            \* getCycle() of each event
    evId,           \* getEventId() of each event
    tpc,            \* where the scheduler thread is
    deadline,       \* the instant a timed wait ends
    hand,           \* the event the thread popped and will run
    cpc,            \* where each caller is
    arg,            \* the event a caller is handing to addEvent
    made,           \* history: the events created
    forwarded,      \* history: the events handed to the dispatcher
    discarded,      \* history: the events deleted instead
    stopped         \* history: the events a stopEvent() returned true for

thread == <<tpc, deadline, hand>>
callers == <<cpc, arg, made>>
queue == <<eventList, eventIds, lastEventId, due, evId>>
history == <<forwarded, discarded, stopped>>
vars == <<now, threadState, thread, callers, queue, history>>

States == {"RUNNING", "CLOSING", "TERMINATED"}
ThreadPCs == {"off", "test", "lock", "wait", "timed", "woken", "timeout",
              "forward", "exit"}
CallerPCs == {"idle", "adding", "notify", "join", "joined"}

\* Variant: lessSchedTask compares the wrong way round.
LatestFirst(list) == {e \in list : \A f \in list : due[f] <= due[e]}

\* What top() may return: lessSchedTask puts the earliest event first, and
\* nothing is said about events that are due at the same time.
Tops(list) == {e \in list : \A f \in list : due[e] <= due[f]}

\* A wrap of m_lastEventId needs 2^32 events; every first value stands for
\* the server having scheduled that many events before.
Init ==
    /\ now = 0
    /\ threadState = "TERMINATED"
    /\ eventList = {}
    /\ eventIds = {}
    /\ lastEventId \in 0..MaxEventId
    /\ due = [e \in Events |-> 0]
    /\ evId = [e \in Events |-> 0]
    /\ tpc = "off"
    /\ deadline = 0
    /\ hand = NoEvent
    /\ cpc = [p \in Callers |-> "idle"]
    /\ arg = [p \in Callers |-> NoEvent]
    /\ made = {}
    /\ forwarded = {}
    /\ discarded = {}
    /\ stopped = {}

Tick ==
    /\ now < MaxTime
    /\ now' = now + 1
    /\ UNCHANGED <<threadState, thread, callers, queue, history>>

Start ==
    /\ cpc[Main] = "idle"
    /\ tpc = "off"
    /\ threadState' = "RUNNING"
    /\ tpc' = "test"
    /\ UNCHANGED <<now, deadline, hand, callers, queue, history>>

-----------------------------------------------------------------------------
(* The callers: createSchedulerTask, addEvent, stopEvent.                  *)

\* The delay counts from the creation, and is never less than MinTicks.
CreateEvent(p, e, d) ==
    /\ tpc # "off"
    /\ cpc[p] = "idle"
    /\ e \notin made
    /\ due' = [due EXCEPT ![e] = now + (IF d < MinTicks THEN MinTicks ELSE d)]
    /\ due'[e] <= MaxTime
    /\ made' = made \cup {e}
    /\ arg' = [arg EXCEPT ![p] = e]
    /\ cpc' = [cpc EXCEPT ![p] = "adding"]
    /\ UNCHANGED <<now, threadState, thread, eventList, eventIds, lastEventId,
                   evId, history>>

\* Variant: the wrap of the id is one late.
NextEventIdLate == (IF lastEventId > MaxEventId THEN 0 ELSE lastEventId) + 1

\* Variant: the id is left to overflow.
NextEventIdOverflow == (lastEventId + 1) % (MaxEventId + 1)

NextEventId == (IF lastEventId >= MaxEventId THEN 0 ELSE lastEventId) + 1

\* Variant: only the first event of an empty queue is announced.
DoSignalEmpty(signal, e, list) == signal = (list = {e})

\* Variant: nothing is announced.
DoSignalNever(signal, e, list) == ~signal

\* do_signal = (task == m_eventList.top()); top() may be any of several events
\* that are due at the same time.
DoSignal(signal, e, list) ==
    IF signal THEN e \in Tops(list) ELSE Tops(list) # {e}

AddEvent(p, signal) ==
    LET e == arg[p]
        list == eventList \cup {e}
    IN  /\ cpc[p] = "adding"
        /\ threadState = "RUNNING"
        /\ lastEventId' = NextEventId
        /\ evId' = [evId EXCEPT ![e] = NextEventId]
        /\ eventIds' = eventIds \cup {NextEventId}
        /\ eventList' = list
        /\ DoSignal(signal, e, list)
        /\ arg' = [arg EXCEPT ![p] = NoEvent]
        /\ cpc' = [cpc EXCEPT ![p] = IF signal THEN "notify" ELSE "idle"]
        /\ UNCHANGED <<now, threadState, thread, due, made, history>>

\* The scheduler does not run: the event is not queued, and leaks.
RejectEvent(p) ==
    /\ cpc[p] = "adding"
    /\ threadState # "RUNNING"
    /\ arg' = [arg EXCEPT ![p] = NoEvent]
    /\ cpc' = [cpc EXCEPT ![p] = "idle"]
    /\ UNCHANGED <<now, threadState, thread, made, queue, history>>

\* m_eventSignal.notify_one(), after the lock was released.
Notify(p) ==
    /\ cpc[p] = "notify"
    /\ cpc' = [cpc EXCEPT ![p] = "idle"]
    /\ tpc' = IF tpc \in {"wait", "timed"} THEN "woken" ELSE tpc
    /\ UNCHANGED <<now, threadState, deadline, hand, arg, made,
                   queue, history>>

\* Variant: stopEvent takes the event off the queue as well.
StopEventErases(id) ==
    /\ id \in eventIds
    /\ eventIds' = eventIds \ {id}
    /\ eventList' = {e \in eventList : evId[e] # id}
    /\ stopped' = stopped \cup {e \in eventList : evId[e] = id}
    /\ UNCHANGED <<now, threadState, thread, callers, lastEventId,
                   due, evId, forwarded, discarded>>

\* stopEvent(id) when it finds the id; otherwise it changes nothing.
StopEvent(id) ==
    /\ id \in eventIds
    /\ eventIds' = eventIds \ {id}
    /\ stopped' = stopped \cup {e \in eventList : evId[e] = id}
    /\ UNCHANGED <<now, threadState, thread, callers, eventList, lastEventId,
                   due, evId, forwarded, discarded>>

-----------------------------------------------------------------------------
(* Scheduler::schedulerThread.                                             *)

LoopTest ==
    /\ tpc = "test"
    /\ tpc' = IF threadState = "TERMINATED" THEN "exit" ELSE "lock"
    /\ UNCHANGED <<now, threadState, deadline, hand, callers, queue, history>>

Wait ==
    /\ tpc = "lock"
    /\ eventList = {}
    /\ tpc' = "wait"
    /\ UNCHANGED <<now, threadState, deadline, hand, callers, queue, history>>

TimedWait ==
    /\ tpc = "lock"
    /\ eventList # {}
    /\ \E e \in Tops(eventList) : deadline' = due[e]
    /\ tpc' = "timed"
    /\ UNCHANGED <<now, threadState, hand, callers, queue, history>>

SpuriousWake ==
    /\ tpc \in {"wait", "timed"}
    /\ tpc' = "woken"
    /\ UNCHANGED <<now, threadState, deadline, hand, callers, queue, history>>

\* Variant: any return of timed_wait is taken for a timeout.
TimeoutAnytime ==
    /\ tpc = "timed"
    /\ tpc' = "timeout"
    /\ UNCHANGED <<now, threadState, deadline, hand, callers, queue, history>>

Timeout ==
    /\ tpc = "timed"
    /\ now >= deadline
    /\ tpc' = "timeout"
    /\ UNCHANGED <<now, threadState, deadline, hand, callers, queue, history>>

\* The lock is held again, but the wait did not time out, or the scheduler
\* was terminated meanwhile: unlock and go round.
GoRound ==
    /\ tpc = "woken" \/ (tpc = "timeout" /\ threadState = "TERMINATED")
    /\ tpc' = "test"
    /\ UNCHANGED <<now, threadState, deadline, hand, callers, queue, history>>

\* Variant: a popped event runs whether or not it was stopped.
NotStoppedEver(e) == TRUE

NotStopped(e) == evId[e] \in eventIds

\* The wait timed out: pop the top event and see whether it was stopped.
Pop(e) ==
    /\ tpc = "timeout"
    /\ threadState # "TERMINATED"
    /\ e \in Tops(eventList)
    /\ eventList' = eventList \ {e}
    /\ \/ /\ NotStopped(e)
          /\ eventIds' = eventIds \ {evId[e]}
          /\ hand' = e
          /\ tpc' = "forward"
          /\ UNCHANGED discarded
       \/ /\ ~NotStopped(e)
          /\ discarded' = discarded \cup {e}
          /\ tpc' = "test"
          /\ UNCHANGED <<eventIds, hand>>
    /\ UNCHANGED <<now, threadState, deadline, callers, lastEventId, due, evId,
                   forwarded, stopped>>

\* setDontExpire() and g_dispatcher.addTask(task), outside the lock.
Forward ==
    /\ tpc = "forward"
    /\ forwarded' = forwarded \cup {hand}
    /\ hand' = NoEvent
    /\ tpc' = "test"
    /\ UNCHANGED <<now, threadState, deadline, callers, queue,
                   discarded, stopped>>

-----------------------------------------------------------------------------
(* stop, and shutdownAndWait = shutdown followed by join.  Neither         *)
(* notifies m_eventSignal; the events left in the queue are not deleted.   *)

Stop ==
    /\ cpc[Main] = "idle"
    /\ tpc # "off"
    /\ threadState' = "CLOSING"
    /\ UNCHANGED <<now, thread, callers, queue, history>>

Shutdown ==
    /\ cpc[Main] = "idle"
    /\ tpc # "off"
    /\ threadState' = "TERMINATED"
    /\ eventList' = {}
    /\ eventIds' = {}
    /\ cpc' = [cpc EXCEPT ![Main] = "join"]
    /\ UNCHANGED <<now, thread, arg, made, lastEventId, due, evId, history>>

Join ==
    /\ cpc[Main] = "join"
    /\ tpc = "exit"
    /\ cpc' = [cpc EXCEPT ![Main] = "joined"]
    /\ UNCHANGED <<now, threadState, thread, arg, made, queue, history>>

-----------------------------------------------------------------------------
ThreadSteps ==
    \/ LoopTest \/ Wait \/ TimedWait \/ Timeout \/ GoRound \/ Forward
    \/ \E e \in Events : Pop(e)

CallerSteps(p) ==
    \/ \E signal \in BOOLEAN : AddEvent(p, signal)
    \/ RejectEvent(p)
    \/ Notify(p)

Next ==
    \/ Start \/ Stop \/ Shutdown \/ Join \/ Tick \/ SpuriousWake
    \/ ThreadSteps
    \/ \E p \in Callers : CallerSteps(p)
    \/ \E p \in Callers, e \in Events, d \in Delays : CreateEvent(p, e, d)
    \/ \E id \in 1..MaxEventId : StopEvent(id)

Spec == Init /\ [][Next]_vars

\* Time passes, and a thread that can continue does so.  A timed wait that is
\* entered when its deadline has passed returns false at once, so the thread
\* cannot be woken spuriously for ever instead.
Fairness ==
    /\ WF_vars(Tick)
    /\ SF_vars(Timeout)
    /\ WF_vars(ThreadSteps)
    /\ WF_vars(Join)
    /\ \A p \in Callers : WF_vars(CallerSteps(p))

FairSpec == Spec /\ Fairness

-----------------------------------------------------------------------------
(* Properties.                                                             *)

\* Type correctness of the scheduler's fields and of its threads' positions.
TypeOK ==
    /\ now \in Nat
    /\ threadState \in States
    /\ eventList \subseteq Events
    /\ eventIds \subseteq 1..MaxEventId
    /\ lastEventId \in 0..MaxEventId
    /\ due \in [Events -> Nat]
    /\ evId \in [Events -> 0..MaxEventId]
    /\ tpc \in ThreadPCs
    /\ deadline \in Nat
    /\ hand \in Events \cup {NoEvent}
    /\ cpc \in [Callers -> CallerPCs]
    /\ arg \in [Callers -> Events \cup {NoEvent}]
    /\ made \subseteq Events
    /\ forwarded \subseteq Events
    /\ discarded \subseteq Events
    /\ stopped \subseteq Events

\* "ok we had a timeout, so there has to be an event we have to execute..."
\* (Scheduler.cpp): although the lock was released during the wait, top() is
\* never called on an empty queue, and the top event's time has come.
TimeoutHasEvent ==
    tpc = "timeout" /\ threadState # "TERMINATED" =>
        /\ eventList # {}
        /\ \A e \in Tops(eventList) : due[e] <= now

\* addEvent signals only when the new event is the top one.  Still the thread
\* never sleeps, untimed or towards a later deadline, past an event without a
\* notification on its way.
NoOversleep ==
    \A e \in eventList :
        tpc = "wait" \/ (tpc = "timed" /\ due[e] < deadline) =>
            \E p \in Callers : cpc[p] = "notify"

\* No event reaches the dispatcher before it is due.
NotEarly ==
    \A e \in forwarded \cup {hand} : e # NoEvent => due[e] <= now

\* stopEvent is exact: a stopped event is never run, and only a stopped event
\* is deleted unexecuted.  It depends on live events having different ids,
\* also across the wrap of m_lastEventId.
StopIsExact ==
    /\ discarded \subseteq stopped
    /\ stopped \cap (forwarded \cup {hand}) = {}

\* The id 0 means "no id yet" to addEvent and "invalid" to stopEvent.
ValidIds ==
    /\ 0 \notin {evId[e] : e \in eventList}
    /\ \A e, f \in eventList : evId[e] = evId[f] => e = f

\* An event addEvent accepted is run or, when it was stopped, deleted, unless
\* the scheduler is terminated first.
EventsFire ==
    \A e \in Events :
        e \in eventList ~>
            e \in forwarded \cup discarded \/ threadState = "TERMINATED"

\* The scheduler implements the timer of EventTimer.
Timer == INSTANCE EventTimer WITH
             armed <- {e \in eventList : evId[e] \in eventIds},
             fired <- forwarded \cup ({hand} \ {NoEvent})

ImplementsEventTimer == Timer!Spec
=============================================================================
