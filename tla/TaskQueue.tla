------------------------------ MODULE TaskQueue ------------------------------
(***************************************************************************)
(* What the dispatcher promises to the rest of the server: a task handed   *)
(* over while the executor is open is kept in a deque, leaves it from the  *)
(* front exactly once, is then the only active task, and is gone for good  *)
(* when it ends.  Only the final drain (mode "TERMINATED") may have a      *)
(* second task active.  Nothing is said here about threads, the mutex, the *)
(* condition variable or expiry: those belong to Dispatcher, which is      *)
(* shown to implement this module.                                         *)
(***************************************************************************)
EXTENDS Sequences

CONSTANT Tasks

VARIABLES
    mode,       \* "TERMINATED" (also before the start), "RUNNING", "CLOSING"
    queue,      \* the accepted tasks, in the order they will be taken
    active,     \* the tasks taken and not yet ended
    gone,       \* the tasks that ended
    refused     \* the tasks handed over while the executor was not open

vars == <<mode, queue, active, gone, refused>>

Known == {queue[i] : i \in DOMAIN queue} \cup active \cup gone \cup refused

Init ==
    /\ mode = "TERMINATED"
    /\ queue = <<>>
    /\ active = {}
    /\ gone = {}
    /\ refused = {}

Open ==
    /\ mode = "TERMINATED"
    /\ mode' = "RUNNING"
    /\ UNCHANGED <<queue, active, gone, refused>>

Accept(t) ==
    /\ mode = "RUNNING"
    /\ t \notin Known
    /\ queue' \in {Append(queue, t), <<t>> \o queue}
    /\ UNCHANGED <<mode, active, gone, refused>>

Refuse(t) ==
    /\ mode # "RUNNING"
    /\ t \notin Known
    /\ refused' = refused \cup {t}
    /\ UNCHANGED <<mode, queue, active, gone>>

\* One task at a time, unless the executor is being terminated.
Take ==
    /\ queue # <<>>
    /\ active = {} \/ mode = "TERMINATED"
    /\ queue' = Tail(queue)
    /\ active' = active \cup {Head(queue)}
    /\ UNCHANGED <<mode, gone, refused>>

Finish(t) ==
    /\ t \in active
    /\ active' = active \ {t}
    /\ gone' = gone \cup {t}
    /\ UNCHANGED <<mode, queue, refused>>

Close ==
    /\ mode' \in {"CLOSING", "TERMINATED"}
    /\ UNCHANGED <<queue, active, gone, refused>>

Next ==
    \/ Open \/ Take \/ Close
    \/ \E t \in Tasks : Accept(t) \/ Refuse(t) \/ Finish(t)

Spec == Init /\ [][Next]_vars
=============================================================================
