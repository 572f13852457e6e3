-------------------------- MODULE ServicePortProofs -------------------------
(***************************************************************************)
(* Proofs about ServicePort, for any number of errors and connections.     *)
(* PendingIsScheduled and PortServed are inductive together with the types *)
(* and two facts about the order of the steps: onAccept relies on the flag *)
(* when it schedules nothing, and on a service when it accepts again.      *)
(***************************************************************************)
EXTENDS ServicePort, TLAPS, FiniteSetTheorems

\* What open() is about to list has the port, and is not listed.
ListsOpen ==
    opener \in {"listFirst", "listSecond"} =>
        acceptors[Current].open /\ ~acceptors[Current].listed

\* The conjunction that every step of open() and onAccept preserves.
PortInv == TypeOK /\ ListsOpen /\ PendingIsScheduled

\* Unless io_service runs early, onAccept with a connection has a service.
AfterLoad ==
    stale > 0 \/ (\E f \in Families : acceptors[f].accepted) => loaded

\* What keeps the port served.
IndInv == PortInv /\ AfterLoad /\ PortServed

\* An acceptor that accepts, or has a connection, has the port.
LEMMA AcceptingIsOpen ==
    ASSUME NEW a \in Acceptors, a.accepting \/ a.accepted
    PROVE  a.open
  BY DEF Acceptors, Closed

\* What happens to an open acceptor leaves it one.
LEMMA OpenAcceptor ==
    ASSUME NEW a \in Acceptors, a.open,
           NEW b \in BOOLEAN
    PROVE  /\ [a EXCEPT !.listed = TRUE] \in Acceptors
           /\ [a EXCEPT !.accepting = FALSE] \in Acceptors
           /\ [a EXCEPT !.accepting = FALSE, !.accepted = TRUE] \in Acceptors
           /\ [a EXCEPT !.accepted = FALSE, !.accepting = b] \in Acceptors
  BY DEF Acceptors

\* How many acceptors close() takes with a connection of theirs under way.
LEMMA ClosedAcceptedCount ==
    /\ Cardinality(ClosedAccepted) \in Nat
    /\ Cardinality(ClosedAccepted) > 0 => \E f \in Families : acceptors[f].accepted
  <1>1. IsFiniteSet(Families)
    <2>1. IsFiniteSet({"v6"} \cup {"v4"})
      BY FS_Singleton, FS_AddElement
    <2>2. {"v6"} \cup {"v4"} = Families
      BY DEF Families
    <2> QED
      BY <2>1, <2>2
  <1>2. IsFiniteSet(ClosedAccepted)
    BY <1>1, FS_Subset DEF ClosedAccepted
  <1>3. Cardinality(ClosedAccepted) \in Nat
    BY <1>2, FS_CardinalityType
  <1>4. ClosedAccepted = {} => Cardinality(ClosedAccepted) = 0
    BY FS_EmptySet
  <1> QED
    BY <1>3, <1>4 DEF ClosedAccepted

\* The constructor of ServicePort, and mainLoader's open(), establish it.
LEMMA InitServed == Init => IndInv
  <1> SUFFICES ASSUME Init PROVE IndInv
    OBVIOUS
  <1>1. /\ handlers \in Nat /\ stale \in Nat /\ retries \in Nat
        /\ errors \in 0..MaxErrors /\ accepts \in 0..MaxAccepts
    BY ServicePortAssumption DEF Init
  <1>2. Closed \in Acceptors
    BY DEF Closed, Acceptors
  <1>3. TypeOK
    BY <1>1, <1>2 DEF Init, TypeOK, OpenerPCs
  <1>4. AfterLoad
    BY DEF Init, AfterLoad, Closed
  <1> QED
    BY <1>3, <1>4
    DEF Init, IndInv, PortInv, ListsOpen, PendingIsScheduled, PortServed

\* Every step keeps the fields of the port in their types.
LEMMA NextTyped == PortInv /\ [Next]_vars => TypeOK'
  <1> SUFFICES ASSUME PortInv, [Next]_vars PROVE TypeOK'
    OBVIOUS
  <1> USE DEF PortInv
  <1>0. /\ handlers \in Nat /\ stale \in Nat /\ retries \in Nat
        /\ errors \in 0..MaxErrors /\ accepts \in 0..MaxAccepts
        /\ MaxErrors \in Nat /\ MaxAccepts \in Nat
        /\ acceptors \in [Families -> Acceptors] /\ loaded \in BOOLEAN
    BY ServicePortAssumption DEF TypeOK
  <1>1. CASE OpenAgain
    <2>1. retries' \in Nat
      BY <1>0, <1>1 DEF OpenAgain
    <2> QED
      BY <1>1, <2>1 DEF TypeOK, OpenerPCs, OpenAgain, counts
  <1>2. CASE Construct
    <2>1. Current \in Families
      BY DEF Current, Families
    <2>2. [Closed EXCEPT !.open = TRUE, !.accepting = TRUE] \in Acceptors
      BY DEF Closed, Acceptors
    <2>3. acceptors' \in [Families -> Acceptors]
      BY <1>0, <1>2, <2>1, <2>2 DEF Construct
    <2> QED
      BY <1>2, <2>3 DEF TypeOK, OpenerPCs, Construct, counts
  <1>3. CASE ConstructThrows
    <2>1. retries' \in Nat
      BY <1>0, <1>3 DEF ConstructThrows
    <2> QED
      BY <1>3, <2>1 DEF TypeOK, OpenerPCs, ConstructThrows, counts
  <1>4. CASE PushBack
    <2>1. Current \in Families
      BY DEF Current, Families
    <2>2. [acceptors[Current] EXCEPT !.listed = TRUE] \in Acceptors
      BY <1>0, <1>4, <2>1, OpenAcceptor DEF PushBack, ListsOpen
    <2>3. acceptors' \in [Families -> Acceptors]
      BY <1>0, <1>4, <2>1, <2>2 DEF PushBack
    <2> QED
      BY <1>4, <2>3 DEF TypeOK, OpenerPCs, PushBack, counts
  <1>5. CASE TestOpen
    BY <1>5 DEF TypeOK, OpenerPCs, TestOpen, counts
  <1>6. CASE Loaded
    BY <1>6 DEF TypeOK, OpenerPCs, Loaded, counts
  <1>7. ASSUME NEW f \in Families, AcceptFails(f) PROVE TypeOK'
    <2>1. handlers' \in Nat /\ errors' \in 0..MaxErrors
      BY <1>0, <1>7 DEF AcceptFails
    <2>2. [acceptors[f] EXCEPT !.accepting = FALSE] \in Acceptors
      BY <1>0, <1>7, AcceptingIsOpen, OpenAcceptor DEF AcceptFails
    <2>3. acceptors' \in [Families -> Acceptors]
      BY <1>0, <1>7, <2>2 DEF AcceptFails
    <2> QED
      BY <1>7, <2>1, <2>3 DEF TypeOK, OpenerPCs, AcceptFails
  <1>8. ASSUME NEW f \in Families, AcceptOk(f) PROVE TypeOK'
    <2>1. accepts' \in 0..MaxAccepts
      BY <1>0, <1>8 DEF AcceptOk
    <2>2. [acceptors[f] EXCEPT !.accepting = FALSE, !.accepted = TRUE] \in Acceptors
      BY <1>0, <1>8, AcceptingIsOpen, OpenAcceptor DEF AcceptOk
    <2>3. acceptors' \in [Families -> Acceptors]
      BY <1>0, <1>8, <2>2 DEF AcceptOk
    <2> QED
      BY <1>8, <2>1, <2>3 DEF TypeOK, OpenerPCs, AcceptOk
  <1>9. ASSUME NEW f \in Families, AcceptNext(f) PROVE TypeOK'
    <2>1. [acceptors[f] EXCEPT !.accepted = FALSE, !.accepting = loaded] \in Acceptors
      BY <1>0, <1>9, AcceptingIsOpen, OpenAcceptor DEF AcceptNext
    <2>2. acceptors' \in [Families -> Acceptors]
      BY <1>0, <1>9, <2>1 DEF AcceptNext
    <2> QED
      BY <1>9, <2>2 DEF TypeOK, OpenerPCs, AcceptNext, counts
  <1>10. CASE AcceptOnClosed
    <2>1. handlers' \in Nat /\ stale' \in Nat
      BY <1>0, <1>10 DEF AcceptOnClosed
    <2> QED
      BY <1>10, <2>1 DEF TypeOK, OpenerPCs, AcceptOnClosed, counts
  <1>11. CASE Close
    <2>1. handlers' \in Nat /\ stale' \in Nat
      BY <1>0, <1>11, ClosedAcceptedCount DEF Close
    <2>2. Closed \in Acceptors
      BY DEF Closed, Acceptors
    <2>3. acceptors' \in [Families -> Acceptors]
      BY <1>0, <1>11, <2>2 DEF Close, CloseAcceptor
    <2> QED
      BY <1>11, <2>1, <2>3 DEF TypeOK, OpenerPCs, Close, counts
  <1>12. CASE Reschedule
    <2>1. retries' \in Nat
      BY <1>0, <1>12 DEF Reschedule, Attempts
    <2> QED
      BY <1>12, <2>1 DEF TypeOK, OpenerPCs, Reschedule, counts
  <1>13. CASE UNCHANGED vars
    BY <1>13 DEF TypeOK, OpenerPCs, vars, counts
  <1> QED
    BY <1>1, <1>2, <1>3, <1>4, <1>5, <1>6, <1>7, <1>8, <1>9, <1>10, <1>11, <1>12,
       <1>13
    DEF Next, OpenSteps, IoSteps

\* Every step keeps what open() is about to list open and unlisted, and the flag
\* and the retries together.
LEMMA NextPending == PortInv /\ [Next]_vars => (ListsOpen /\ PendingIsScheduled)'
  <1> SUFFICES ASSUME PortInv, [Next]_vars
               PROVE (ListsOpen /\ PendingIsScheduled)'
    OBVIOUS
  <1> USE DEF ListsOpen, PendingIsScheduled, Families, Current
  <1>0. /\ Current \in Families /\ acceptors \in [Families -> Acceptors]
        /\ retries \in Nat /\ pendingStart \in BOOLEAN
        /\ ListsOpen /\ PendingIsScheduled
    BY DEF PortInv, TypeOK
  <1>1. CASE OpenAgain
    BY <1>0, <1>1 DEF OpenAgain
  <1>2. CASE Construct
    BY <1>0, <1>2 DEF Construct, Closed
  <1>3. CASE ConstructThrows
    <2>1. retries' > 0 /\ opener' = "idle"
      BY <1>0, <1>3 DEF ConstructThrows
    <2> QED
      BY <2>1
  <1>4. CASE PushBack
    BY <1>0, <1>4 DEF PushBack
  <1>5. CASE TestOpen
    BY <1>0, <1>5 DEF TestOpen
  <1>6. CASE Loaded
    BY <1>0, <1>6 DEF Loaded
  <1>7. ASSUME NEW f \in Families, AcceptFails(f)
        PROVE  (ListsOpen /\ PendingIsScheduled)'
    BY <1>0, <1>7 DEF AcceptFails, Acceptors
  <1>8. ASSUME NEW f \in Families, AcceptOk(f)
        PROVE  (ListsOpen /\ PendingIsScheduled)'
    BY <1>0, <1>8 DEF AcceptOk, Acceptors
  <1>9. ASSUME NEW f \in Families, AcceptNext(f)
        PROVE  (ListsOpen /\ PendingIsScheduled)'
    BY <1>0, <1>9 DEF AcceptNext, Acceptors
  <1>10. CASE AcceptOnClosed
    BY <1>0, <1>10 DEF AcceptOnClosed
  <1>11. CASE Close
    BY <1>0, <1>11 DEF Close, CloseAcceptor
  <1>12. CASE Reschedule
    <2>1. retries' > 0
      BY <1>0, <1>12 DEF Reschedule, Attempts
    <2>2. ListsOpen'
      BY <1>0, <1>12 DEF Reschedule
    <2> QED
      BY <2>1, <2>2
  <1>13. CASE UNCHANGED vars
    BY <1>0, <1>13 DEF vars
  <1> QED
    BY <1>1, <1>2, <1>3, <1>4, <1>5, <1>6, <1>7, <1>8, <1>9, <1>10, <1>11, <1>12,
       <1>13
    DEF Next, OpenSteps, IoSteps

\* While io_service waits for mainLoader, every step keeps the port served.
LEMMA NextServed ==
    ASSUME ~EarlyRun
    PROVE  IndInv /\ [Next]_vars => (AfterLoad /\ PortServed)'
  <1> SUFFICES ASSUME IndInv, [Next]_vars PROVE (AfterLoad /\ PortServed)'
    OBVIOUS
  <1> USE DEF IndInv, PortInv, TypeOK, AfterLoad, PortServed, Accepting, Families
  <1>0. \A f \in Families : acceptors[f] \in Acceptors
    OBVIOUS
  <1>1. CASE OpenAgain
    BY <1>1 DEF OpenAgain
  <1>2. CASE Construct
    <2>1. acceptors'[Current].accepting /\ Current \in Families
      BY <1>2 DEF Construct, Current, Closed
    <2>2. \A f \in Families : acceptors'[f].accepted => acceptors[f].accepted
      BY <1>2 DEF Construct, Closed
    <2> QED
      BY <1>2, <2>1, <2>2 DEF Construct
  <1>3. CASE ConstructThrows
    BY <1>3 DEF ConstructThrows
  <1>4. CASE PushBack
    <2>1. \A f \in Families :
             /\ acceptors[f].accepting = acceptors'[f].accepting
             /\ acceptors[f].accepted = acceptors'[f].accepted
      BY <1>0, <1>4 DEF PushBack, Current, Acceptors
    <2> QED
      BY <1>4, <2>1 DEF PushBack
  <1>5. CASE TestOpen
    <2>1. Accepting' <=> Accepting
      BY <1>5 DEF TestOpen
    <2> QED
      BY <1>5, <2>1 DEF TestOpen
  <1>6. CASE Loaded
    BY <1>6 DEF Loaded
  <1>7. ASSUME NEW f \in Families, AcceptFails(f) PROVE (AfterLoad /\ PortServed)'
    BY <1>7 DEF AcceptFails, Running
  <1>8. ASSUME NEW f \in Families, AcceptOk(f) PROVE (AfterLoad /\ PortServed)'
    <2>1. acceptors'[f].accepted
      BY <1>0, <1>8 DEF AcceptOk, Acceptors
    <2> QED
      BY <1>8, <2>1 DEF AcceptOk, Running
  <1>9. ASSUME NEW f \in Families, AcceptNext(f) PROVE (AfterLoad /\ PortServed)'
    <2>1. loaded
      BY <1>9 DEF AcceptNext
    <2>2. acceptors'[f].accepting
      BY <1>0, <1>9, <2>1 DEF AcceptNext, Acceptors
    <2> QED
      BY <1>9, <2>1, <2>2 DEF AcceptNext
  <1>10. CASE AcceptOnClosed
    BY <1>10 DEF AcceptOnClosed
  <1>11. CASE Close
    <2>1. \A f \in Families : acceptors'[f].accepted => acceptors[f].accepted
      BY <1>11 DEF Close, CloseAcceptor, Closed
    <2>2. stale' > 0 => loaded
      BY <1>11, ClosedAcceptedCount DEF Close
    <2> QED
      BY <1>11, <2>1, <2>2 DEF Close
  <1>12. CASE Reschedule
    BY <1>12 DEF Reschedule, Attempts, PendingIsScheduled
  <1>13. CASE UNCHANGED vars
    BY <1>13 DEF vars
  <1> QED
    BY <1>1, <1>2, <1>3, <1>4, <1>5, <1>6, <1>7, <1>8, <1>9, <1>10, <1>11, <1>12,
       <1>13
    DEF Next, OpenSteps, IoSteps

\* The first part of the invariant holds in every reachable state.
LEMMA Inductive == Spec => []PortInv
  <1>1. PortInv /\ [Next]_vars => PortInv'
    BY NextTyped, NextPending DEF PortInv
  <1>2. Init => PortInv
    BY InitServed DEF IndInv
  <1> QED
    BY <1>1, <1>2, PTL DEF Spec

\* The fields of the port keep their types, and what is in m_tcp_acceptors is
\* open: close() and open() never leave a closed acceptor in the list.
THEOREM TypeCorrect == Spec => []TypeOK
  BY Inductive, PTL DEF PortInv

\* m_pendingStart is never set without an openAcceptor on its way, so onAccept
\* may rely on it when it schedules none itself.
THEOREM PendingHasRetry == Spec => []PendingIsScheduled
  BY Inductive, PTL DEF PortInv

\* If io_service waits for mainLoader, then whatever open() and onAccept do to
\* each other, the port is accepting, being opened, or going to be opened.
THEOREM NeverGivenUp ==
    ASSUME ~EarlyRun
    PROVE  Spec => []PortServed
  <1>1. IndInv /\ [Next]_vars => IndInv'
    BY NextTyped, NextPending, NextServed DEF IndInv, PortInv
  <1>2. IndInv => PortServed
    BY DEF IndInv
  <1> QED
    BY InitServed, <1>1, <1>2, PTL DEF Spec
=============================================================================
