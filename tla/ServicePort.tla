----------------------------- MODULE ServicePort ----------------------------
(***************************************************************************)
(* The listener on the server's port (Network/ServicePort): how it opens   *)
(* its acceptors, closes them after an error and opens them again later.   *)
(*                                                                         *)
(* ServicePort::open runs on the dispatcher thread, first for mainLoader,  *)
(* then for each event that the scheduler forwards; onAccept runs on the   *)
(* io thread.  They share m_tcp_acceptors and m_pendingStart, and nothing  *)
(* locks them.  What becomes of an accepted connection is module           *)
(* Connection; here it matters that onAccept calls accept() once more, on  *)
(* an acceptor that close() may have closed meanwhile.                     *)
(*                                                                         *)
(* Definitions marked "Variant" are not part of the specification: each is *)
(* the definition after it with a plausible bug, which some property finds.*)
(***************************************************************************)
EXTENDS Naturals, FiniteSets

CONSTANTS
    MaxErrors,   \* bound: how often accepting fails
    MaxAccepts,  \* bound: how many connections are accepted
    EarlyRun     \* io_service may run before mainLoader has returned: main()
                 \* waits for it without a predicate

ASSUME ServicePortAssumption ==
    /\ MaxErrors \in Nat
    /\ MaxAccepts \in Nat
    /\ EarlyRun \in BOOLEAN

Families == {"v6", "v4"}

VARIABLES
    v6Only,         \* the system does not let a v6 socket accept v4 as well
    acceptors,      \* the acceptor of each family that is open, if any
    pendingStart,   \* m_pendingStart
    opener,         \* where the dispatcher thread is in open()
    loaded,         \* mainLoader added the service and returned
    handlers,       \* onAccept handlers with an error, ready to run
    stale,          \* onAccept handlers with a connection, ready to run, whose
                    \* acceptor was closed after it accepted
    io,             \* where the io thread is in onAccept
    retries,        \* openAcceptor events and tasks on their way
    errors,         \* how often accepting has failed
    accepts         \* how many connections were accepted

counts == <<errors, accepts>>

vars == <<v6Only, acceptors, pendingStart, opener, loaded,
          handlers, stale, io, retries, counts>>

\* open: it has the port; accepting: an async_accept is outstanding;
\* accepted: onAccept with a connection is ready to run;
\* listed: it is in m_tcp_acceptors.
Closed ==
    [open |-> FALSE, accepting |-> FALSE, accepted |-> FALSE, listed |-> FALSE]

OpenerPCs == {"idle", "first", "listFirst", "test", "second", "listSecond"}

\* The family that open() is working on.
Current == IF opener \in {"second", "listSecond"} THEN "v4" ELSE "v6"

Accepting == \E f \in Families : acceptors[f].accepting

\* mainLoader has called open().
Init ==
    /\ v6Only \in BOOLEAN
    /\ acceptors = [f \in Families |-> Closed]
    /\ pendingStart = FALSE
    /\ opener = "first"
    /\ loaded = FALSE
    /\ handlers = 0
    /\ stale = 0
    /\ io = "idle"
    /\ retries = 0
    /\ errors = 0
    /\ accepts = 0

-----------------------------------------------------------------------------
(* ServicePort::open, on the dispatcher thread.                            *)

\* Variant: open() does not reset m_pendingStart.
OpenAgainPending ==
    /\ opener = "idle"
    /\ loaded
    /\ retries > 0
    /\ retries' = retries - 1
    /\ opener' = "first"
    /\ UNCHANGED <<v6Only, acceptors, pendingStart, loaded,
                   handlers, stale, io, counts>>

\* openAcceptor() is run by the dispatcher.
OpenAgain ==
    /\ opener = "idle"
    /\ loaded
    /\ retries > 0
    /\ retries' = retries - 1
    /\ pendingStart' = FALSE
    /\ opener' = "first"
    /\ UNCHANGED <<v6Only, acceptors, loaded, handlers, stale, io, counts>>

\* A port that another acceptor of the server has cannot be bound again.
Free(f) ==
    \A g \in Families : acceptors[g].open => v6Only /\ f # g

\* The constructor opens, binds and listens; accept() follows.
Construct ==
    /\ opener \in {"first", "second"}
    /\ Free(Current)
    /\ acceptors' = [acceptors EXCEPT ![Current] =
                        [Closed EXCEPT !.open = TRUE, !.accepting = TRUE]]
    /\ opener' = IF opener = "first" THEN "listFirst" ELSE "listSecond"
    /\ UNCHANGED <<v6Only, pendingStart, loaded,
                   handlers, stale, io, retries, counts>>

\* The constructor, or an option that cannot be set, throws: try again later.
ConstructThrows ==
    /\ opener \in {"first", "second"}
    /\ pendingStart' = TRUE
    /\ retries' = retries + 1
    /\ opener' = "idle"
    /\ UNCHANGED <<v6Only, acceptors, loaded, handlers, stale, io, counts>>

\* m_tcp_acceptors.push_back(aptr)
PushBack ==
    /\ opener \in {"listFirst", "listSecond"}
    /\ acceptors' = [acceptors EXCEPT ![Current].listed = TRUE]
    /\ opener' = IF opener = "listFirst" THEN "test" ELSE "idle"
    /\ UNCHANGED <<v6Only, pendingStart, loaded,
                   handlers, stale, io, retries, counts>>

\* if (!aptr->is_open() || v6_only)
TestOpen ==
    /\ opener = "test"
    /\ opener' = IF ~acceptors["v6"].open \/ v6Only THEN "second" ELSE "idle"
    /\ UNCHANGED <<v6Only, acceptors, pendingStart, loaded,
                   handlers, stale, io, retries, counts>>

\* addService() and the end of mainLoader, which main() waits for.
Loaded ==
    /\ opener = "idle"
    /\ ~loaded
    /\ loaded' = TRUE
    /\ UNCHANGED <<v6Only, acceptors, pendingStart, opener,
                   handlers, stale, io, retries, counts>>

-----------------------------------------------------------------------------
(* The outstanding async_accepts, and onAccept on the io thread.           *)

\* io_service runs.  With EarlyRun it may do so as soon as add() has listed the
\* port, which is after open() and before addService().
Running == loaded \/ (EarlyRun /\ opener = "idle")

\* The outstanding async_accept fails; its handler is ready to run.
AcceptFails(f) ==
    /\ Running
    /\ errors < MaxErrors
    /\ acceptors[f].accepting
    /\ acceptors' = [acceptors EXCEPT ![f].accepting = FALSE]
    /\ handlers' = handlers + 1
    /\ errors' = errors + 1
    /\ UNCHANGED <<v6Only, pendingStart, opener, loaded, stale, io, retries, accepts>>

\* It has a connection; its handler is ready to run.
AcceptOk(f) ==
    /\ Running
    /\ accepts < MaxAccepts
    /\ acceptors[f].accepting
    /\ acceptors' = [acceptors EXCEPT ![f].accepting = FALSE, ![f].accepted = TRUE]
    /\ accepts' = accepts + 1
    /\ UNCHANGED <<v6Only, pendingStart, opener, loaded,
                   handlers, stale, io, retries, errors>>

\* onAccept with a connection: it accepts the next one, if there is a service.
AcceptNext(f) ==
    /\ io = "idle"
    /\ acceptors[f].accepted
    /\ acceptors' = [acceptors EXCEPT ![f].accepted = FALSE, ![f].accepting = loaded]
    /\ UNCHANGED <<v6Only, pendingStart, opener, loaded,
                   handlers, stale, io, retries, counts>>

\* The same on an acceptor that was closed: async_accept fails at once, and
\* not because it was aborted.
AcceptOnClosed ==
    /\ io = "idle"
    /\ stale > 0
    /\ stale' = stale - 1
    /\ handlers' = IF loaded THEN handlers + 1 ELSE handlers
    /\ UNCHANGED <<v6Only, acceptors, pendingStart, opener, loaded,
                   io, retries, counts>>

\* Variant: close() empties the list and leaves the acceptors open.
ClearedOnly(a) == [a EXCEPT !.listed = FALSE, !.accepting = FALSE]

\* Variant: close() does not empty the list.
NotCleared(a) == [Closed EXCEPT !.listed = TRUE]

\* What close() does to an acceptor in m_tcp_acceptors.
CloseAcceptor(a) == Closed

\* The acceptors that are closed while onAccept has a connection of theirs.
ClosedAccepted == {f \in Families : acceptors[f].listed /\ acceptors[f].accepted}

\* onAccept with an error: close() closes the acceptors in m_tcp_acceptors and
\* clears it.  Their outstanding accepts are aborted, which onAccept ignores.
Close ==
    /\ io = "idle"
    /\ handlers > 0
    /\ handlers' = handlers - 1
    /\ acceptors' = [f \in Families |->
                        IF acceptors[f].listed THEN CloseAcceptor(acceptors[f])
                        ELSE acceptors[f]]
    /\ stale' = stale + Cardinality(ClosedAccepted)
    /\ io' = "closed"
    /\ UNCHANGED <<v6Only, pendingStart, opener, loaded, retries, counts>>

\* Variant: the test of m_pendingStart is the wrong way round.
AttemptsInverted == IF pendingStart THEN retries + 1 ELSE retries

\* if (!m_pendingStart) one more openAcceptor is scheduled.
Attempts == IF pendingStart THEN retries ELSE retries + 1

Reschedule ==
    /\ io = "closed"
    /\ pendingStart' = TRUE
    /\ retries' = Attempts
    /\ io' = "idle"
    /\ UNCHANGED <<v6Only, acceptors, opener, loaded, handlers, stale, counts>>

-----------------------------------------------------------------------------
OpenSteps == OpenAgain \/ PushBack \/ TestOpen \/ Loaded

IoSteps ==
    \/ Close \/ Reschedule \/ AcceptOnClosed
    \/ \E f \in Families : AcceptNext(f)

Next ==
    \/ OpenSteps \/ Construct \/ ConstructThrows
    \/ IoSteps
    \/ \E f \in Families : AcceptFails(f) \/ AcceptOk(f)

Spec == Init /\ [][Next]_vars

\* The threads and the scheduler go on, and a port that is free again and
\* again is bound in the end.
FairSpec ==
    /\ Spec
    /\ WF_vars(OpenSteps)
    /\ WF_vars(Construct \/ ConstructThrows)
    /\ SF_vars(Construct)
    /\ WF_vars(IoSteps)

-----------------------------------------------------------------------------
(* Properties.                                                             *)

\* An acceptor that has no port neither accepts nor is listed.
Acceptors ==
    {a \in [open : BOOLEAN, accepting : BOOLEAN,
            accepted : BOOLEAN, listed : BOOLEAN] : a.open \/ a = Closed}

\* Type correctness of the port and of the two threads that work on it: whatever
\* they do to m_tcp_acceptors, what is in it is open.
TypeOK ==
    /\ v6Only \in BOOLEAN
    /\ acceptors \in [Families -> Acceptors]
    /\ pendingStart \in BOOLEAN
    /\ opener \in OpenerPCs
    /\ loaded \in BOOLEAN
    /\ handlers \in Nat
    /\ stale \in Nat
    /\ io \in {"idle", "closed"}
    /\ retries \in Nat
    /\ errors \in 0..MaxErrors
    /\ accepts \in 0..MaxAccepts

\* m_pendingStart is what makes onAccept do nothing after close(); it is never
\* set without an openAcceptor on its way, whichever of the two threads set or
\* reset it last.
PendingIsScheduled == pendingStart => retries > 0

\* The port is never given up: as long as nothing accepts, open() is about to
\* bind it, will be called again, or a handler is about to accept again or to
\* schedule that.  (With EarlyRun it is: onAccept finds no service and returns.)
PortServed ==
    \/ Accepting
    \/ \E f \in Families : acceptors[f].accepted
    \/ stale > 0
    \/ opener \in {"first", "second"}
    \/ retries > 0
    \/ handlers > 0
    \/ io = "closed"

\* open() starts to accept before it lists the acceptor.  When accepting fails
\* in between, close() misses the acceptor, and it keeps the port.
Orphaned ==
    \E f \in Families :
        acceptors[f].listed /\ ~acceptors[f].accepting /\ ~acceptors[f].accepted

\* After errors the port accepts connections again, with that one exception.
RecoversOrOrphaned == []<>Accepting \/ <>[]Orphaned
=============================================================================
