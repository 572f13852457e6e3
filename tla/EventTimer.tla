------------------------------ MODULE EventTimer -----------------------------
(***************************************************************************)
(* What the scheduler promises: an event that was armed fires at most      *)
(* once, never before it is due, never after it was cancelled, and before  *)
(* every armed event that is due later.  How a thread sleeps until then,   *)
(* and how event ids are recorded, belongs to Scheduler, which is shown to *)
(* implement this module.                                                  *)
(***************************************************************************)
EXTENDS Naturals

CONSTANT Events

VARIABLES
    now,        \* the clock
    due,        \* when each event is due
    armed,      \* the events that will fire
    fired       \* the events that fired

vars == <<now, due, armed, fired>>

Init ==
    /\ now \in Nat
    /\ due \in [Events -> Nat]
    /\ armed = {}
    /\ fired = {}

Tick ==
    /\ now' > now
    /\ UNCHANGED <<due, armed, fired>>

\* The delay of an event is fixed before it is armed.
SetDue(e) ==
    /\ e \notin armed \cup fired
    /\ due'[e] \in Nat
    /\ due' = [due EXCEPT ![e] = due'[e]]
    /\ UNCHANGED <<now, armed, fired>>

Arm(e) ==
    /\ e \notin armed \cup fired
    /\ armed' = armed \cup {e}
    /\ UNCHANGED <<now, due, fired>>

Cancel(e) ==
    /\ armed' = armed \ {e}
    /\ UNCHANGED <<now, due, fired>>

Fire(e) ==
    /\ e \in armed
    /\ due[e] <= now
    /\ \A f \in armed : due[e] <= due[f]
    /\ armed' = armed \ {e}
    /\ fired' = fired \cup {e}
    /\ UNCHANGED <<now, due>>

CancelAll ==
    /\ armed' = {}
    /\ UNCHANGED <<now, due, fired>>

Next ==
    \/ Tick \/ CancelAll
    \/ \E e \in Events : SetDue(e) \/ Arm(e) \/ Cancel(e) \/ Fire(e)

Spec == Init /\ [][Next]_vars
=============================================================================
