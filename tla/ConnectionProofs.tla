--------------------------- MODULE ConnectionProofs ---------------------------
(***************************************************************************)
(* Proofs about Connection, for any set of connections, whoever reads what *)
(* it is sent and however many messages are sent.                          *)
(*                                                                         *)
(* What is under way for a connection is counted: the tasks of the         *)
(* dispatcher, the scheduler's retries and the handlers of io_service.  A  *)
(* step moves one of them from one place to another, so the proofs rest on *)
(* what the operations of the dispatcher's list do to the number of equal  *)
(* tasks in it.                                                            *)
(*                                                                         *)
(* The first part holds for the code as it is.  The second is about what   *)
(* the reference counts of Protocol and Connection mean, and what keeps a  *)
(* protocol alive while messages refer to it.  Its theorems say under which*)
(* conditions the counts can be relied on: addRef() and unRef() are atomic,*)
(* the counter is wide enough for all the messages, and for the last two no*)
(* command acts on a connection whose lock the io thread does not hold.    *)
(***************************************************************************)
EXTENDS Connection, FiniteSetTheorems, FunctionTheorems, SequenceTheorems,
        TLAPS

-----------------------------------------------------------------------------
(* The strengthening that makes the invariants inductive.                  *)

IoSteps == {"addRef", "connect", "unRef", "command", "get", "configure",
            "refProtocol", "refConnection", "send", "writing", "drop",
            "accepted"}
DispStages == TaskOps \cup {"unrefProtocol", "unrefConnection"}

IoRecords == [at : IoSteps, handler : {"accept", "packet"},
              c : Conns, d : Conns, loaded : 0..(RefMod - 1)]
DispRecords == [at : DispStages, c : Conns, loaded : 0..(RefMod - 1)]

\* The two threads: what they keep while they are in a handler or a task.
ThreadsTyped ==
    /\ io = IoIdle \/ io \in IoRecords
    /\ disp = DispIdle \/ disp \in DispRecords

\* A step refers to connections that were accepted, wherever it has them from.
Accepted(c) == conn[c].state # "NONE"

OnlyAccepted ==
    /\ \A c \in Conns : ~Accepted(c) => conn[c] = NoConn /\ c \notin managed
    /\ io # IoIdle => Accepted(io.c) /\ Accepted(io.d)
    /\ disp # DispIdle => Accepted(disp.c)
    /\ \A i \in DOMAIN tasks : Accepted(tasks[i].c)

\* The state of a connection tells the state of its socket and its protocol.
\* Nobody can ask for the close of a connection while it is written to.
StateInv ==
    /\ \A c \in Conns :
          /\ conn[c].state # "CLOSING"
          /\ conn[c].state \in {"OPEN", "REQUEST_CLOSE"} =>
                conn[c].protocol = "attached" /\ c \in managed
          /\ conn[c].state = "CLOSED" =>
                conn[c].protocol \in {"detached", "deleted"}
          /\ conn[c].state = "OPEN" => conn[c].socket = "open"
    /\ io.at = "writing" => conn[io.d].state = "OPEN"

LifeInv == TypeOK /\ ThreadsTyped /\ OnlyAccepted /\ StateInv
             /\ NoPendingWrite /\ CloseOnce

-----------------------------------------------------------------------------
(* The dispatcher's list: how many tasks of a kind its operations leave.   *)

\* The list of tasks is finite, and an empty one has none of any kind.
LEMMA CountType ==
    ASSUME NEW S, NEW s \in Seq(S), NEW x
    PROVE  /\ IsFiniteSet({i \in DOMAIN s : s[i] = x})
           /\ Count(s, x) \in Nat
           /\ s = <<>> => Count(s, x) = 0
  <1> DEFINE A == {i \in DOMAIN s : s[i] = x}
  <1>1. DOMAIN s = 1..Len(s) /\ Len(s) \in Nat
    OBVIOUS
  <1>2. IsFiniteSet(1..Len(s))
    BY <1>1, FS_Interval
  <1>3. IsFiniteSet(A)
    BY <1>1, <1>2, FS_Subset
  <1>4. Count(s, x) \in Nat
    BY <1>3, FS_CardinalityType DEF Count
  <1>5. ASSUME s = <<>> PROVE Count(s, x) = 0
    <2>1. A = {}
      BY <1>5
    <2> QED
      BY <2>1, FS_EmptySet DEF Count
  <1> QED
    BY <1>3, <1>4, <1>5

\* addTask: one more of the kind that is put at the end.
LEMMA CountAppend ==
    ASSUME NEW S, NEW s \in Seq(S), NEW y \in S, NEW x
    PROVE  /\ Append(s, y) \in Seq(S)
           /\ Count(Append(s, y), x) = Count(s, x) + One(y = x)
  <1> DEFINE t == Append(s, y)
             n == Len(s) + 1
             A == {i \in DOMAIN s : s[i] = x}
             B == {i \in DOMAIN t : t[i] = x}
  <1>1. /\ DOMAIN s = 1..Len(s) /\ Len(s) \in Nat
        /\ DOMAIN t = 1..n
        /\ \A i \in 1..Len(s) : t[i] = s[i]
        /\ t[n] = y
        /\ t \in Seq(S)
    OBVIOUS
  <1>2. n \notin A
    BY <1>1
  <1>3. IsFiniteSet(A) /\ Cardinality(A) \in Nat
    BY CountType, FS_CardinalityType
  <1>4. Count(t, x) = Cardinality(B) /\ Count(s, x) = Cardinality(A)
    BY DEF Count
  <1>5. B = IF y = x THEN A \cup {n} ELSE A
    BY <1>1
  <1> HIDE DEF A, B, t, n
  <1>6. Cardinality(A \cup {n}) = Cardinality(A) + 1
    BY <1>2, <1>3, FS_AddElement
  <1>7. Count(t, x) = Count(s, x) + One(y = x)
    BY <1>3, <1>4, <1>5, <1>6 DEF One
  <1> QED
    BY <1>1, <1>7 DEF t

\* addTask with push_front: one more of the kind that is put in front.
LEMMA CountCons ==
    ASSUME NEW S, NEW s \in Seq(S), NEW y \in S, NEW x
    PROVE  /\ (<<y>> \o s) \in Seq(S)
           /\ Count(<<y>> \o s, x) = Count(s, x) + One(y = x)
  <1> DEFINE t == <<y>> \o s
             A == {i \in DOMAIN s : s[i] = x}
             B == {i \in DOMAIN t : t[i] = x}
             C == B \ {1}
             f == [i \in A |-> i + 1]
  <1>1. /\ DOMAIN s = 1..Len(s) /\ Len(s) \in Nat
        /\ DOMAIN t = 1..(Len(s) + 1)
        /\ \A i \in 1..Len(s) : t[i + 1] = s[i]
        /\ t[1] = y
        /\ t \in Seq(S)
    OBVIOUS
  <1>2. IsFiniteSet(A) /\ Cardinality(A) \in Nat
    BY CountType, FS_CardinalityType
  <1>3. Count(t, x) = Cardinality(B) /\ Count(s, x) = Cardinality(A)
    BY DEF Count
  <1>4. f \in [A -> C]
    BY <1>1
  <1>5. \A i, j \in A : f[i] = f[j] => i = j
    BY <1>1
  <1>6. ASSUME NEW k \in C PROVE \E i \in A : f[i] = k
    <2>1. k - 1 \in A
      BY <1>1
    <2>2. f[k - 1] = k
      BY <2>1, <1>1
    <2> QED
      BY <2>1, <2>2
  <1>7. B = (IF y = x THEN C \cup {1} ELSE C) /\ 1 \notin C
    BY <1>1
  <1> HIDE DEF t, A, B, C, f
  <1>8. f \in Bijection(A, C)
    BY <1>4, <1>5, <1>6, Fun_IsBij
  <1>9. IsFiniteSet(C) /\ Cardinality(C) = Cardinality(A)
    BY <1>2, <1>8, FS_Bijection DEF ExistsBijection
  <1>10. Cardinality(C \cup {1}) = Cardinality(A) + 1
    BY <1>7, <1>9, FS_AddElement
  <1>11. Count(t, x) = Count(s, x) + One(y = x)
    BY <1>2, <1>3, <1>7, <1>9, <1>10 DEF One
  <1> QED
    BY <1>1, <1>11 DEF t

\* getTask: the first task is taken off.
LEMMA CountTail ==
    ASSUME NEW S, NEW s \in Seq(S), s # <<>>, NEW x
    PROVE  /\ Head(s) \in S /\ Tail(s) \in Seq(S)
           /\ Count(s, x) = Count(Tail(s), x) + One(Head(s) = x)
  <1>1. Head(s) \in S /\ Tail(s) \in Seq(S) /\ s = <<Head(s)>> \o Tail(s)
    BY HeadTailProperties
  <1> DEFINE h == Head(s)
             r == Tail(s)
  <1> HIDE DEF h, r
  <1>2. Count(<<h>> \o r, x) = Count(r, x) + One(h = x)
    <2>1. h \in S /\ r \in Seq(S)
      BY <1>1 DEF h, r
    <2> QED
      BY <2>1, CountCons
  <1> QED
    BY <1>1, <1>2 DEF h, r

-----------------------------------------------------------------------------
(* What the handlers share: closeSocket() and closeConnection().           *)

\* closeSocket() leaves the state, the protocol and the references alone.
LEMMA CloseSocketFacts ==
    ASSUME NEW r \in ConnRecords
    PROVE  /\ CloseSocket(r) \in ConnRecords
           /\ CloseSocket(r).state = r.state
           /\ CloseSocket(r).protocol = r.protocol
           /\ CloseSocket(r).protoRef = r.protoRef
           /\ CloseSocket(r).connRef = r.connRef
           /\ CloseSocket(r).socket # "open"
           /\ CloseSocket(r).pendingWrite =
                 IF r.socket = "open" THEN 0 ELSE r.pendingWrite
  <1>1. CloseSocket(r) \in ConnRecords
    <2>1. [r EXCEPT !.socket = "closed", !.pendingWrite = 0,
                    !.read = IF @ = "pending" THEN "aborted" ELSE @]
             \in ConnRecords
      BY DEF ConnRecords
    <2> QED
      BY <2>1, Zenon DEF CloseSocket
  <1>2. /\ CloseSocket(r).state = r.state
        /\ CloseSocket(r).protocol = r.protocol
        /\ CloseSocket(r).protoRef = r.protoRef
        /\ CloseSocket(r).connRef = r.connRef
    BY DEF CloseSocket, ConnRecords
  <1>3. /\ CloseSocket(r).socket # "open"
        /\ CloseSocket(r).pendingWrite =
              IF r.socket = "open" THEN 0 ELSE r.pendingWrite
    BY DEF CloseSocket, ConnRecords
  <1> QED
    BY <1>1, <1>2, <1>3

\* closeConnection() hands at most one task to the dispatcher.
LEMMA CloseTasksFacts ==
    ASSUME TypeOK, NEW c \in Conns
    PROVE  /\ CloseTasks(c) \in Seq(Tasks)
           /\ CloseState(c) \in {"NONE", "OPEN", "REQUEST_CLOSE", "CLOSING",
                                  "CLOSED"}
           /\ \A op \in TaskOps, d \in Conns :
                 Count(CloseTasks(c), Task(op, d)) =
                    Count(tasks, Task(op, d))
                       + One(WillClose(c) /\ op = "close" /\ d = c)
           /\ \A i \in DOMAIN CloseTasks(c) :
                 \/ CloseTasks(c)[i].c = c
                 \/ i \in DOMAIN tasks /\ CloseTasks(c)[i] = tasks[i]
  <1>1. tasks \in Seq(Tasks) /\ Task("close", c) \in Tasks
    BY DEF TypeOK, Task, Tasks, TaskOps
  <1>2. CloseTasks(c) \in Seq(Tasks)
    BY <1>1, CountAppend DEF CloseTasks
  <1>3. CloseState(c) \in {"NONE", "OPEN", "REQUEST_CLOSE", "CLOSING", "CLOSED"}
    BY DEF CloseState, WillClose, TypeOK, ConnRecords
  <1>4. ASSUME NEW op \in TaskOps, NEW d \in Conns
        PROVE  Count(CloseTasks(c), Task(op, d)) = Count(tasks, Task(op, d))
                  + One(WillClose(c) /\ op = "close" /\ d = c)
    <2>1. Count(tasks, Task(op, d)) \in Nat
      BY <1>1, CountType
    <2>2. Count(Append(tasks, Task("close", c)), Task(op, d)) =
             Count(tasks, Task(op, d)) + One(Task("close", c) = Task(op, d))
      BY <1>1, CountAppend
    <2>3. Task("close", c) = Task(op, d) <=> op = "close" /\ d = c
      BY DEF Task
    <2> QED
      BY <2>1, <2>2, <2>3 DEF CloseTasks, One
  <1>5. ASSUME NEW i \in DOMAIN CloseTasks(c)
        PROVE  \/ CloseTasks(c)[i].c = c
               \/ i \in DOMAIN tasks /\ CloseTasks(c)[i] = tasks[i]
    BY <1>1 DEF CloseTasks, Task
  <1> QED
    BY <1>2, <1>3, <1>4, <1>5
-----------------------------------------------------------------------------
(* The effect of each action on the fields of a connection that the        *)
(* invariants speak of.                                                    *)

\* Only c changes.
Touches(c) ==
    /\ conn' \in [Conns -> ConnRecords]
    /\ \A d \in Conns \ {c} : conn'[d] = conn[d]

SameLife(c) ==
    conn'[c].state = conn[c].state /\ conn'[c].protocol = conn[c].protocol

SameSocket(c) ==
    /\ conn'[c].socket = conn[c].socket
    /\ conn'[c].pendingWrite = conn[c].pendingWrite

SameRefs(c) ==
    /\ conn'[c].protoRef = conn[c].protoRef
    /\ conn'[c].connRef = conn[c].connRef

\* A step that none of the invariants sees in c.
Quiet(c) == Touches(c) /\ SameLife(c) /\ SameSocket(c) /\ SameRefs(c)

\* closeConnection() of c.
RequestsClose(c) ==
    /\ Touches(c) /\ SameRefs(c)
    /\ conn'[c].state = CloseState(c)
    /\ conn'[c].protocol = conn[c].protocol
    /\ tasks' = CloseTasks(c)

\* An assignment to one connection.
LEMMA Assigned ==
    ASSUME TypeOK, NEW c \in Conns, NEW r \in ConnRecords,
           conn' = [conn EXCEPT ![c] = r]
    PROVE  Touches(c) /\ conn'[c] = r
  BY DEF TypeOK, Touches

\* A thread that is not idle is in a handler, or a task, of some connection.
LEMMA Busy ==
    ASSUME ThreadsTyped
    PROVE  /\ io.at # "idle" => io \in IoRecords
           /\ disp.at # "idle" => disp \in DispRecords
           /\ io = IoIdle <=> io.at = "idle"
           /\ disp = DispIdle <=> disp.at = "idle"
  <1>1. IoIdle.at = "idle" /\ DispIdle.at = "idle"
    BY DEF IoIdle, DispIdle
  <1>2. io \in IoRecords => io.at # "idle"
    BY DEF IoRecords, IoSteps
  <1>3. disp \in DispRecords => disp.at # "idle"
    BY DEF DispRecords, DispStages, TaskOps
  <1> QED
    BY <1>1, <1>2, <1>3 DEF ThreadsTyped

\* Going on to another step of the handler.
LEMMA IoMoves ==
    ASSUME io \in IoRecords, NEW at \in IoSteps
    PROVE  /\ [io EXCEPT !.at = at] \in IoRecords
           /\ [io EXCEPT !.at = at].at = at
           /\ [io EXCEPT !.at = at].handler = io.handler
           /\ [io EXCEPT !.at = at].c = io.c
           /\ [io EXCEPT !.at = at].d = io.d
  BY DEF IoRecords

\* A connection before and after its creation.
LEMMA ConnTypes ==
    /\ NoConn \in ConnRecords /\ NewConn \in ConnRecords
    /\ NoConn.state = "NONE" /\ NoConn.socket = "none"
    /\ NoConn.protocol = "none" /\ NoConn.pendingWrite = 0
    /\ NoConn.protoRef = 0 /\ NoConn.connRef = 0
    /\ NoConn.read = "none" /\ NoConn.timer = "off"
    /\ NewConn.state = "OPEN" /\ NewConn.socket = "open"
    /\ NewConn.protocol = "attached" /\ NewConn.pendingWrite = 0
    /\ NewConn.protoRef = 0 /\ NewConn.connRef = 0
  <1> DEFINE e == NoConn
  <1>1. 0 \in 0..(RefMod - 1)
    BY ConnectionAssumption
  <1>2. e \in ConnRecords
    BY <1>1 DEF NoConn, ConnRecords
  <1>3. /\ e.state = "NONE" /\ e.socket = "none" /\ e.protocol = "none"
        /\ e.pendingWrite = 0 /\ e.protoRef = 0 /\ e.connRef = 0
        /\ e.read = "none" /\ e.timer = "off"
    BY DEF NoConn
  <1>4. NewConn = [e EXCEPT !.state = "OPEN", !.socket = "open",
                            !.protocol = "attached"]
    BY DEF NewConn
  <1> HIDE DEF e
  <1>5. /\ NewConn \in ConnRecords
        /\ NewConn.state = "OPEN" /\ NewConn.socket = "open"
        /\ NewConn.protocol = "attached" /\ NewConn.pendingWrite = 0
        /\ NewConn.protoRef = 0 /\ NewConn.connRef = 0
    BY <1>2, <1>3, <1>4 DEF ConnRecords
  <1> QED
    BY <1>2, <1>3, <1>5 DEF e

\* ServicePort::onAccept makes the connection, and nothing else.
LEMMA AcceptEffect ==
    ASSUME TypeOK, NEW c \in Conns, Accept(c)
    PROVE  Touches(c) /\ conn'[c] = NewConn
  BY ConnTypes, Assigned DEF Accept

\* A packet is taken.
LEMMA ReceiveEffect ==
    ASSUME TypeOK, NEW c \in Conns, Receive(c)
    PROVE  Quiet(c)
  <1> DEFINE r == [conn[c] EXCEPT !.read = "none", !.received = TRUE]
  <1>1. conn[c] \in ConnRecords
    BY DEF TypeOK
  <1>2. /\ r \in ConnRecords
        /\ r.state = conn[c].state /\ r.protocol = conn[c].protocol
        /\ r.socket = conn[c].socket
        /\ r.pendingWrite = conn[c].pendingWrite
        /\ r.protoRef = conn[c].protoRef /\ r.connRef = conn[c].connRef
    BY <1>1 DEF ConnRecords
  <1>3. conn' = [conn EXCEPT ![c] = r]
    BY DEF Receive
  <1> HIDE DEF r
  <1>4. Touches(c) /\ conn'[c] = r
    BY <1>2, <1>3, Assigned
  <1> QED
    BY <1>2, <1>4 DEF Quiet, SameLife, SameSocket, SameRefs

\* parsePacket() for a connection that is not open, or with an error, and
\* disconnect() ask for the close.
LEMMA RequestEffect ==
    ASSUME TypeOK, NEW c \in Conns,
           ReceiveLate(c) \/ ReceiveError(c) \/ Disconnect(c)
    PROVE  RequestsClose(c) /\ SameSocket(c)
  <1> DEFINE s == CloseState(c)
             r1 == [conn[c] EXCEPT !.read = "none", !.state = s]
             r2 == [conn[c] EXCEPT !.read = "none", !.readError = TRUE,
                                   !.state = s]
             r3 == [conn[c] EXCEPT !.state = s]
             Closes(r) == /\ r \in ConnRecords
                          /\ r.state = s /\ r.protocol = conn[c].protocol
                          /\ r.socket = conn[c].socket
                          /\ r.pendingWrite = conn[c].pendingWrite
                          /\ r.protoRef = conn[c].protoRef
                          /\ r.connRef = conn[c].connRef
  <1>1. conn[c] \in ConnRecords
    BY DEF TypeOK
  <1>2. s \in {"NONE", "OPEN", "REQUEST_CLOSE", "CLOSING", "CLOSED"}
    BY CloseTasksFacts
  <1> HIDE DEF s
  <1>3. Closes(r1)
    BY <1>1, <1>2 DEF ConnRecords
  <1>4. Closes(r2)
    BY <1>1, <1>2 DEF ConnRecords
  <1>5. Closes(r3)
    BY <1>1, <1>2 DEF ConnRecords
  <1>6. PICK r \in {r1, r2, r3} : conn' = [conn EXCEPT ![c] = r]
    <2>1. CASE ReceiveLate(c)
      <3>1. conn' = [conn EXCEPT ![c] = r1]
        BY <2>1 DEF ReceiveLate, s
      <3> QED
        BY <3>1
    <2>2. CASE ReceiveError(c)
      <3>1. conn' = [conn EXCEPT ![c] = r2]
        BY <2>2 DEF ReceiveError, s
      <3> QED
        BY <3>1
    <2>3. CASE Disconnect(c)
      <3>1. conn' = [conn EXCEPT ![c] = r3]
        BY <2>3 DEF Disconnect, s
      <3> QED
        BY <3>1
    <2> QED
      BY <2>1, <2>2, <2>3
  <1>7. Closes(r)
    BY <1>3, <1>4, <1>5, <1>6
  <1>8. Touches(c) /\ conn'[c] = r
    BY <1>6, <1>7, Assigned
  <1>9. tasks' = CloseTasks(c)
    BY DEF ReceiveLate, ReceiveError, Disconnect
  <1> QED
    BY <1>7, <1>8, <1>9 DEF RequestsClose, SameSocket, SameRefs, s
\* The write timer closes the socket under a write or after a failed one.
LEMMA WriteTimerEffect ==
    ASSUME TypeOK, NEW c \in Conns, WriteTimer(c)
    PROVE  \/ Quiet(c) /\ tasks' = tasks
           \/ /\ RequestsClose(c)
              /\ conn'[c].pendingWrite =
                    IF conn[c].socket = "open" THEN 0 ELSE conn[c].pendingWrite
  <1> DEFINE s == CloseState(c)
             q == CloseSocket(conn[c])
             r1 == [q EXCEPT !.timer = "off", !.state = s]
             r2 == [conn[c] EXCEPT !.timer = "off"]
  <1>1. conn[c] \in ConnRecords
    BY DEF TypeOK
  <1>2. s \in {"NONE", "OPEN", "REQUEST_CLOSE", "CLOSING", "CLOSED"}
    BY CloseTasksFacts
  <1>3. /\ q \in ConnRecords /\ q.protocol = conn[c].protocol
        /\ q.protoRef = conn[c].protoRef /\ q.connRef = conn[c].connRef
        /\ q.pendingWrite =
              IF conn[c].socket = "open" THEN 0 ELSE conn[c].pendingWrite
    BY <1>1, CloseSocketFacts
  <1>4. \/ conn' = [conn EXCEPT ![c] = r1] /\ tasks' = CloseTasks(c)
        \/ conn' = [conn EXCEPT ![c] = r2] /\ tasks' = tasks
    BY DEF WriteTimer
  <1> HIDE DEF s, q
  <1>5. /\ r1 \in ConnRecords /\ r1.state = s
        /\ r1.protocol = q.protocol /\ r1.pendingWrite = q.pendingWrite
        /\ r1.protoRef = q.protoRef /\ r1.connRef = q.connRef
    BY <1>2, <1>3 DEF ConnRecords
  <1>6. /\ r2 \in ConnRecords
        /\ r2.state = conn[c].state /\ r2.protocol = conn[c].protocol
        /\ r2.socket = conn[c].socket
        /\ r2.pendingWrite = conn[c].pendingWrite
        /\ r2.protoRef = conn[c].protoRef /\ r2.connRef = conn[c].connRef
    BY <1>1 DEF ConnRecords
  <1> HIDE DEF r1, r2
  <1>7. CASE conn' = [conn EXCEPT ![c] = r1] /\ tasks' = CloseTasks(c)
    <2>1. Touches(c) /\ conn'[c] = r1
      BY <1>5, <1>7, Assigned
    <2> QED
      BY <1>3, <1>5, <1>7, <2>1 DEF RequestsClose, SameRefs, s
  <1>8. CASE conn' = [conn EXCEPT ![c] = r2] /\ tasks' = tasks
    <2>1. Touches(c) /\ conn'[c] = r2
      BY <1>6, <1>8, Assigned
    <2> QED
      BY <1>6, <1>8, <2>1 DEF Quiet, SameLife, SameSocket, SameRefs
  <1> QED
    BY <1>4, <1>7, <1>8

\* onStopOperation() closes and deletes the socket.
LEMMA StopEffect ==
    ASSUME TypeOK, NEW c \in Conns, StopOperation(c)
    PROVE  /\ Touches(c) /\ SameLife(c) /\ SameRefs(c)
           /\ conn'[c].pendingWrite =
                 IF conn[c].socket = "open" THEN 0 ELSE conn[c].pendingWrite
  <1> DEFINE q == CloseSocket(conn[c])
             r == DeleteSocket(q)
  <1>1. conn[c] \in ConnRecords
    BY DEF TypeOK
  <1>2. /\ q \in ConnRecords
        /\ q.state = conn[c].state /\ q.protocol = conn[c].protocol
        /\ q.protoRef = conn[c].protoRef /\ q.connRef = conn[c].connRef
        /\ q.pendingWrite =
              IF conn[c].socket = "open" THEN 0 ELSE conn[c].pendingWrite
    BY <1>1, CloseSocketFacts
  <1>3. conn' = [conn EXCEPT ![c] = r]
    BY DEF StopOperation
  <1> HIDE DEF q
  <1>4. /\ r \in ConnRecords
        /\ r.state = q.state /\ r.protocol = q.protocol
        /\ r.protoRef = q.protoRef /\ r.connRef = q.connRef
        /\ r.pendingWrite = q.pendingWrite
    BY <1>2 DEF ConnRecords, DeleteSocket
  <1> HIDE DEF r
  <1>5. Touches(c) /\ conn'[c] = r
    BY <1>3, <1>4, Assigned
  <1> QED
    BY <1>2, <1>4, <1>5 DEF SameLife, SameRefs

\* The next read is started.
LEMMA NextReadEffect ==
    ASSUME TypeOK, io.c \in Conns, NextRead
    PROVE  Quiet(io.c)
  <1> DEFINE c == io.c
             r == [conn[c] EXCEPT !.read =
                      IF conn[c].socket = "open" THEN "pending" ELSE "failed"]
  <1>1. conn[c] \in ConnRecords
    BY DEF TypeOK
  <1>2. /\ r \in ConnRecords
        /\ r.state = conn[c].state /\ r.protocol = conn[c].protocol
        /\ r.socket = conn[c].socket
        /\ r.pendingWrite = conn[c].pendingWrite
        /\ r.protoRef = conn[c].protoRef /\ r.connRef = conn[c].connRef
    BY <1>1 DEF ConnRecords
  <1>3. conn' = [conn EXCEPT ![c] = r]
    BY DEF NextRead
  <1> HIDE DEF r
  <1>4. Touches(c) /\ conn'[c] = r
    BY <1>2, <1>3, Assigned
  <1> QED
    BY <1>2, <1>4 DEF Quiet, SameLife, SameSocket, SameRefs

\* ++ and -- of a reference count, whatever value they have loaded.
LEMMA RefTypes ==
    ASSUME NEW now \in 0..(RefMod - 1), NEW loaded \in 0..(RefMod - 1)
    PROVE  /\ Incremented(now, loaded) \in 0..(RefMod - 1)
           /\ Decremented(now, loaded) \in 0..(RefMod - 1)
  BY ConnectionAssumption DEF Incremented, Decremented

\* addRef() and unRef() of the protocol of c change that count only.
LEMMA ProtoRefEffect ==
    ASSUME TypeOK, NEW c \in Conns, NEW v \in 0..(RefMod - 1),
           conn' = [conn EXCEPT ![c].protoRef = v]
    PROVE  /\ Touches(c) /\ SameLife(c) /\ SameSocket(c)
           /\ conn'[c].protoRef = v /\ conn'[c].connRef = conn[c].connRef
  <1> DEFINE r == [conn[c] EXCEPT !.protoRef = v]
  <1>1. conn[c] \in ConnRecords
    BY DEF TypeOK
  <1>2. /\ r \in ConnRecords
        /\ r.state = conn[c].state /\ r.protocol = conn[c].protocol
        /\ r.socket = conn[c].socket
        /\ r.pendingWrite = conn[c].pendingWrite
        /\ r.protoRef = v /\ r.connRef = conn[c].connRef
    BY <1>1 DEF ConnRecords
  <1>3. conn' = [conn EXCEPT ![c] = r]
    OBVIOUS
  <1> HIDE DEF r
  <1>4. Touches(c) /\ conn'[c] = r
    BY <1>2, <1>3, Assigned
  <1> QED
    BY <1>2, <1>4 DEF SameLife, SameSocket

\* addRef() and unRef() of the connection c.
LEMMA ConnRefEffect ==
    ASSUME TypeOK, NEW c \in Conns, NEW v \in 0..(RefMod - 1),
           conn' = [conn EXCEPT ![c].connRef = v]
    PROVE  /\ Touches(c) /\ SameLife(c) /\ SameSocket(c)
           /\ conn'[c].connRef = v /\ conn'[c].protoRef = conn[c].protoRef
  <1> DEFINE r == [conn[c] EXCEPT !.connRef = v]
  <1>1. conn[c] \in ConnRecords
    BY DEF TypeOK
  <1>2. /\ r \in ConnRecords
        /\ r.state = conn[c].state /\ r.protocol = conn[c].protocol
        /\ r.socket = conn[c].socket
        /\ r.pendingWrite = conn[c].pendingWrite
        /\ r.connRef = v /\ r.protoRef = conn[c].protoRef
    BY <1>1 DEF ConnRecords
  <1>3. conn' = [conn EXCEPT ![c] = r]
    OBVIOUS
  <1> HIDE DEF r
  <1>4. Touches(c) /\ conn'[c] = r
    BY <1>2, <1>3, Assigned
  <1> QED
    BY <1>2, <1>4 DEF SameLife, SameSocket
\* send() counts the write and arms the timer.
LEMMA SendEffect ==
    ASSUME TypeOK, io.d \in Conns, Send
    PROVE  /\ Touches(io.d) /\ SameLife(io.d) /\ SameRefs(io.d)
           /\ conn'[io.d].socket = conn[io.d].socket
           /\ conn'[io.d].pendingWrite = 1
  <1> DEFINE c == io.d
             r == [conn[c] EXCEPT !.pendingWrite = @ + 1, !.timer = "armed"]
  <1>1. conn[c] \in ConnRecords /\ conn[c].pendingWrite = 0
    BY DEF TypeOK, Send
  <1>2. r = [conn[c] EXCEPT !.pendingWrite = 1, !.timer = "armed"]
    BY <1>1
  <1>3. conn' = [conn EXCEPT ![c] = r]
    BY DEF Send
  <1> HIDE DEF r
  <1>4. /\ r \in ConnRecords
        /\ r.state = conn[c].state /\ r.protocol = conn[c].protocol
        /\ r.socket = conn[c].socket /\ r.pendingWrite = 1
        /\ r.protoRef = conn[c].protoRef /\ r.connRef = conn[c].connRef
    BY <1>1, <1>2 DEF ConnRecords
  <1>5. Touches(c) /\ conn'[c] = r
    BY <1>4, <1>3, Assigned
  <1> QED
    BY <1>4, <1>5 DEF SameLife, SameRefs

\* onWriteOperation() without an error counts the write off.
LEMMA WriteOkEffect ==
    ASSUME TypeOK, io.d \in Conns, conn[io.d].pendingWrite = 1, WriteOk
    PROVE  /\ Touches(io.d) /\ SameLife(io.d) /\ SameRefs(io.d)
           /\ conn'[io.d].socket = conn[io.d].socket
           /\ conn'[io.d].pendingWrite = 0
  <1> DEFINE c == io.d
             r == [conn[c] EXCEPT !.pendingWrite = @ - 1, !.timer = "cancelled"]
  <1>1. conn[c] \in ConnRecords /\ conn[c].pendingWrite = 1
    BY DEF TypeOK
  <1>2. r = [conn[c] EXCEPT !.pendingWrite = 0, !.timer = "cancelled"]
    BY <1>1
  <1>3. conn' = [conn EXCEPT ![c] = r]
    BY DEF WriteOk
  <1> HIDE DEF r
  <1>4. /\ r \in ConnRecords
        /\ r.state = conn[c].state /\ r.protocol = conn[c].protocol
        /\ r.socket = conn[c].socket /\ r.pendingWrite = 0
        /\ r.protoRef = conn[c].protoRef /\ r.connRef = conn[c].connRef
    BY <1>1, <1>2 DEF ConnRecords
  <1>5. Touches(c) /\ conn'[c] = r
    BY <1>4, <1>3, Assigned
  <1> QED
    BY <1>4, <1>5 DEF SameLife, SameRefs

\* onWriteOperation() with an error closes the socket, which forgets the
\* pending write.
LEMMA WriteFailsEffect ==
    ASSUME TypeOK, io.d \in Conns, conn[io.d].socket = "open", WriteFails
    PROVE  RequestsClose(io.d) /\ conn'[io.d].pendingWrite = 0
  <1> DEFINE c == io.d
             s == CloseState(c)
             q == CloseSocket(conn[c])
             r == [q EXCEPT !.writeError = TRUE, !.timer = "cancelled",
                            !.state = s]
  <1>1. conn[c] \in ConnRecords
    BY DEF TypeOK
  <1>2. s \in {"NONE", "OPEN", "REQUEST_CLOSE", "CLOSING", "CLOSED"}
    BY CloseTasksFacts
  <1>3. /\ q \in ConnRecords /\ q.protocol = conn[c].protocol
        /\ q.protoRef = conn[c].protoRef /\ q.connRef = conn[c].connRef
        /\ q.pendingWrite = 0
    BY <1>1, CloseSocketFacts
  <1>4. conn' = [conn EXCEPT ![c] = r] /\ tasks' = CloseTasks(c)
    BY DEF WriteFails
  <1> HIDE DEF s, q
  <1>5. /\ r \in ConnRecords /\ r.state = s
        /\ r.protocol = q.protocol /\ r.pendingWrite = 0
        /\ r.protoRef = q.protoRef /\ r.connRef = q.connRef
    BY <1>2, <1>3 DEF ConnRecords
  <1> HIDE DEF r
  <1>6. Touches(c) /\ conn'[c] = r
    BY <1>4, <1>5, Assigned
  <1> QED
    BY <1>3, <1>4, <1>5, <1>6 DEF RequestsClose, SameRefs, s

\* Events added to the scheduler for c, at most one of each kind.
LEMMA RetriesAdded ==
    ASSUME retries \in [RetryOps -> [Conns -> Nat]], NEW c \in Conns,
           NEW x \in BOOLEAN, NEW y \in BOOLEAN,
           retries' = [retries EXCEPT
                  !["releaseProtocol"][c] = IF x THEN @ + 1 ELSE @,
                  !["releaseConnection"][c] = IF y THEN @ + 1 ELSE @]
    PROVE  /\ retries' \in [RetryOps -> [Conns -> Nat]]
           /\ \A d \in Conns : d # c =>
                 \A op \in RetryOps : retries'[op][d] = retries[op][d]
           /\ retries'["releaseProtocol"][c] =
                 retries["releaseProtocol"][c] + One(x)
           /\ retries'["releaseConnection"][c] =
                 retries["releaseConnection"][c] + One(y)
  <1>1. retries' \in [RetryOps -> [Conns -> Nat]]
    BY DEF RetryOps
  <1>2. retries'["releaseProtocol"] =
           [retries["releaseProtocol"] EXCEPT ![c] = IF x THEN @ + 1 ELSE @]
    BY DEF RetryOps
  <1>3. retries'["releaseConnection"] =
           [retries["releaseConnection"] EXCEPT ![c] = IF y THEN @ + 1 ELSE @]
    BY DEF RetryOps
  <1> QED
    BY <1>1, <1>2, <1>3 DEF RetryOps, One

\* The fields that closeConnectionTask() sets.
LEMMA ClosedRecord ==
    ASSUME NEW r \in ConnRecords, NEW p \in {"deleted", "detached"}
    PROVE  LET q == [r EXCEPT !.protocol = p, !.state = "CLOSED"] IN
           /\ q \in ConnRecords
           /\ q.state = "CLOSED" /\ q.protocol = p
           /\ q.pendingWrite = r.pendingWrite
           /\ q.protoRef = r.protoRef /\ q.connRef = r.connRef
  BY DEF ConnRecords

\* closeConnectionTask(), with no write pending, closes at once; it releases
\* protocol and connection or leaves each to a retry.
LEMMA CloseTaskEffect ==
    ASSUME TypeOK, NEW c \in Conns, c = disp.c, CloseTask,
           conn[c].pendingWrite = 0, conn[c].protocol = "attached"
    PROVE  /\ Touches(c) /\ SameRefs(c)
           /\ conn'[c].state = "CLOSED" /\ conn'[c].pendingWrite = 0
           /\ conn'[c].protocol =
                 IF conn[c].protoRef = 0 THEN "deleted" ELSE "detached"
           /\ retries' \in [RetryOps -> [Conns -> Nat]]
           /\ stops' \in [Conns -> Nat]
           /\ \A d \in Conns : d # c =>
                 /\ stops'[d] = stops[d]
                 /\ \A op \in RetryOps : retries'[op][d] = retries[op][d]
           /\ stops'[c] = stops[c] + One(conn[c].connRef = 0)
           /\ retries'["releaseConnection"][c] =
                 retries["releaseConnection"][c] + One(conn[c].connRef # 0)
           /\ retries'["releaseProtocol"][c] =
                 retries["releaseProtocol"][c] + One(conn[c].protoRef # 0)
  <1> DEFINE p == IF conn[c].protoRef = 0 THEN "deleted" ELSE "detached"
             q == [conn[c] EXCEPT !.protocol = p, !.state = "CLOSED"]
             r == CloseSocket(q)
  <1>1. conn[c] \in ConnRecords
    BY DEF TypeOK
  <1>2. p \in {"deleted", "detached"}
    OBVIOUS
  <1>3. conn' = [conn EXCEPT ![c] = r]
    BY DEF CloseTask, ReleaseProtocolNow
  <1> HIDE DEF p
  <1>9. /\ q \in ConnRecords
        /\ q.state = "CLOSED" /\ q.protocol = p
        /\ q.pendingWrite = conn[c].pendingWrite
        /\ q.protoRef = conn[c].protoRef /\ q.connRef = conn[c].connRef
    BY <1>1, <1>2, ClosedRecord DEF q
  <1> HIDE DEF q
  <1>4. /\ r \in ConnRecords
        /\ r.state = "CLOSED" /\ r.protocol = p /\ r.pendingWrite = 0
        /\ r.protoRef = conn[c].protoRef /\ r.connRef = conn[c].connRef
    BY <1>9, CloseSocketFacts
  <1> HIDE DEF r
  <1>5. Touches(c) /\ conn'[c] = r
    BY <1>3, <1>4, Assigned
  <1>6. /\ stops' \in [Conns -> Nat]
        /\ \A d \in Conns : d # c => stops'[d] = stops[d]
        /\ stops'[c] = stops[c] + One(conn[c].connRef = 0)
    BY DEF TypeOK, CloseTask, ReleaseConnectionNow, One
  <1> DEFINE x == conn[c].protocol = "attached" /\ ~ReleaseProtocolNow(c)
             y == /\ conn[c].pendingWrite = 0 \/ conn[c].writeError
                  /\ ~ReleaseConnectionNow(c)
  <1>7. retries' = [retries EXCEPT
             !["releaseProtocol"][c] = IF x THEN @ + 1 ELSE @,
             !["releaseConnection"][c] = IF y THEN @ + 1 ELSE @]
    BY DEF CloseTask
  <1>8. /\ x \in BOOLEAN /\ (x <=> conn[c].protoRef # 0)
        /\ y \in BOOLEAN /\ (y <=> conn[c].connRef # 0)
    BY DEF ReleaseProtocolNow, ReleaseConnectionNow
  <1> HIDE DEF x, y
  <1>10. retries \in [RetryOps -> [Conns -> Nat]]
    BY DEF TypeOK
  <1>11. /\ retries' \in [RetryOps -> [Conns -> Nat]]
         /\ \A d \in Conns : d # c =>
               \A op \in RetryOps : retries'[op][d] = retries[op][d]
         /\ retries'["releaseProtocol"][c] =
               retries["releaseProtocol"][c] + One(x)
         /\ retries'["releaseConnection"][c] =
               retries["releaseConnection"][c] + One(y)
    BY <1>7, <1>8, <1>10, RetriesAdded
  <1>12. Touches(c) /\ SameRefs(c) /\ conn'[c].protocol = p
           /\ conn'[c].state = "CLOSED" /\ conn'[c].pendingWrite = 0
    BY <1>4, <1>5 DEF SameRefs
  <1>13. One(x) = One(conn[c].protoRef # 0) /\ One(y) = One(conn[c].connRef # 0)
    BY <1>8 DEF One
  <1> QED
    BY <1>6, <1>11, <1>12, <1>13 DEF p

\* releaseProtocol() deletes the protocol.
LEMMA DeleteEffect ==
    ASSUME TypeOK, NEW c \in Conns,
           conn' = [conn EXCEPT ![c].protocol = "deleted"]
    PROVE  /\ Touches(c) /\ SameSocket(c) /\ SameRefs(c)
           /\ conn'[c].state = conn[c].state /\ conn'[c].protocol = "deleted"
  <1> DEFINE r == [conn[c] EXCEPT !.protocol = "deleted"]
  <1>1. conn[c] \in ConnRecords
    BY DEF TypeOK
  <1>2. /\ r \in ConnRecords
        /\ r.state = conn[c].state /\ r.protocol = "deleted"
        /\ r.socket = conn[c].socket
        /\ r.pendingWrite = conn[c].pendingWrite
        /\ r.protoRef = conn[c].protoRef /\ r.connRef = conn[c].connRef
    BY <1>1 DEF ConnRecords
  <1>3. conn' = [conn EXCEPT ![c] = r]
    OBVIOUS
  <1> HIDE DEF r
  <1>4. Touches(c) /\ conn'[c] = r
    BY <1>2, <1>3, Assigned
  <1> QED
    BY <1>2, <1>4 DEF SameSocket, SameRefs
-----------------------------------------------------------------------------
(* LifeInv is preserved: first the steps that many actions are.            *)

\* A step inside a handler of accepted connections, no write among them.
IoStep ==
    /\ io.at # "writing"
    /\ \/ io' = IoIdle
       \/ io' \in IoRecords /\ io'.at # "writing"
             /\ Accepted(io'.c) /\ Accepted(io'.d)

\* A step of the dispatcher in a task that only a message waits for.
ReleaseOps == {"close", "releaseProtocol", "releaseConnection"}

MessageStep ==
    /\ disp.at \notin ReleaseOps
    /\ \/ disp' = DispIdle
       \/ disp' \in DispRecords /\ disp'.at \notin ReleaseOps
             /\ Accepted(disp'.c)

\* Accepted connections stay accepted, and the others as they were.
LEMMA StillAccepted ==
    ASSUME OnlyAccepted, NEW c \in Conns, Touches(c), Accepted(c),
           conn'[c].state # "NONE", managed' = managed
    PROVE  /\ \A d \in Conns : Accepted(d) => Accepted(d)'
           /\ \A d \in Conns : ~Accepted(d)' =>
                 conn'[d] = NoConn /\ d \notin managed'
  BY DEF OnlyAccepted, Accepted, Touches

\* So what the threads and the tasks refer to stays accepted.
LEMMA ReferredAccepted ==
    ASSUME TypeOK, ThreadsTyped, OnlyAccepted,
           \A d \in Conns : Accepted(d) => Accepted(d)'
    PROVE  /\ io # IoIdle => /\ io.c \in Conns /\ conn'[io.c].state # "NONE"
                             /\ io.d \in Conns /\ conn'[io.d].state # "NONE"
           /\ disp # DispIdle => /\ disp.c \in Conns
                                 /\ conn'[disp.c].state # "NONE"
           /\ \A i \in DOMAIN tasks : conn'[tasks[i].c].state # "NONE"
  <1>1. \A d \in Conns : Accepted(d) => conn'[d].state # "NONE"
    BY DEF Accepted
  <1>2. io # IoIdle => io.c \in Conns /\ io.d \in Conns
    BY DEF ThreadsTyped, IoRecords
  <1>3. disp # DispIdle => disp.c \in Conns
    BY DEF ThreadsTyped, DispRecords
  <1>4. \A i \in DOMAIN tasks : tasks[i].c \in Conns
    <2>1. \A i \in DOMAIN tasks : tasks[i] \in Tasks
      BY DEF TypeOK
    <2> QED
      BY <2>1 DEF Tasks
  <1> QED
    BY <1>1, <1>2, <1>3, <1>4 DEF OnlyAccepted

\* A step that changes neither the state nor the socket of a connection, nor
\* what is under way for it.
LEMMA QuietStep ==
    ASSUME LifeInv, NEW c \in Conns, Accepted(c),
           Touches(c), SameLife(c), SameSocket(c),
           UNCHANGED <<managed, tasks, retries, stops>>,
           sends' \in 0..MaxSends,
           io' = io \/ IoStep,
           disp' = disp \/ MessageStep
    PROVE  LifeInv'
  <1> USE DEF LifeInv
  <1>1. TypeOK'
    BY DEF TypeOK, Touches
  <1>2. ThreadsTyped'
    BY DEF ThreadsTyped, IoStep, MessageStep
  <1>3. conn'[c].state # "NONE"
    BY DEF Accepted, SameLife
  <1>4. /\ \A d \in Conns : Accepted(d) => Accepted(d)'
        /\ \A d \in Conns : ~Accepted(d)' => conn'[d] = NoConn /\ d \notin managed'
    BY <1>3, StillAccepted
  <1>5. OnlyAccepted'
    <2>1. io' # IoIdle => Accepted(io.c)' /\ Accepted(io.d)'
      BY <1>4, ReferredAccepted DEF IoStep, IoRecords, Accepted
    <2>2. disp' # DispIdle => Accepted(disp.c)'
      BY <1>4, ReferredAccepted DEF MessageStep, DispRecords, Accepted
    <2>3. (\A i \in DOMAIN tasks : Accepted(tasks[i].c))'
      BY <1>4, ReferredAccepted DEF Accepted
    <2> QED
      BY <1>4, <2>1, <2>2, <2>3 DEF OnlyAccepted
  <1>6. \A d \in Conns :
           /\ conn'[d].state = conn[d].state
           /\ conn'[d].protocol = conn[d].protocol
           /\ conn'[d].socket = conn[d].socket
           /\ conn'[d].pendingWrite = conn[d].pendingWrite
    BY DEF Touches, SameLife, SameSocket
  <1>7. /\ io'.at = "writing" <=> io.at = "writing"
        /\ io.at = "writing" => io' = io /\ io.d \in Conns
    <2>1. IoIdle.at = "idle"
      BY DEF IoIdle
    <2> QED
      BY <2>1, Busy DEF IoStep, IoRecords
  <1>8. StateInv'
    BY <1>6, <1>7 DEF StateInv
  <1>9. NoPendingWrite'
    BY <1>6, <1>7 DEF NoPendingWrite, One
  <1>10. \A d \in Conns, op \in ReleaseOps : Queued(op, d)' = Queued(op, d)
    <2>1. DispIdle.at = "idle"
      BY DEF DispIdle
    <2> QED
      BY <2>1 DEF Queued, ReleaseOps, MessageStep, One
  <1>11. CloseOnce'
    BY <1>6, <1>10 DEF CloseOnce, ReleaseOps
  <1> QED
    BY <1>1, <1>2, <1>5, <1>8, <1>9, <1>11
\* closeConnection() of c, from a handler that leaves no write behind.
LEMMA RequestStep ==
    ASSUME LifeInv, NEW c \in Conns, Accepted(c), RequestsClose(c),
           conn'[c].pendingWrite = 0,
           UNCHANGED <<managed, retries, stops, disp, sends>>,
           \/ io.at # "writing" /\ io' = io
           \/ io.at = "writing" /\ io.d = c /\ io' = [io EXCEPT !.at = "drop"]
    PROVE  LifeInv'
  <1> USE DEF LifeInv
  <1>1. TypeOK'
    BY CloseTasksFacts DEF TypeOK, Touches, RequestsClose
  <1>2. /\ io'.at # "writing"
        /\ io' # IoIdle => io # IoIdle /\ io'.c = io.c /\ io'.d = io.d
        /\ io' = IoIdle \/ io' \in IoRecords
    <2>1. CASE io.at # "writing" /\ io' = io
      BY <2>1 DEF ThreadsTyped
    <2>2. CASE io.at = "writing" /\ io' = [io EXCEPT !.at = "drop"]
      <3>1. io \in IoRecords /\ io # IoIdle
        BY <2>2, Busy
      <3>2. "drop" \in IoSteps
        BY DEF IoSteps
      <3> QED
        BY <2>2, <3>1, <3>2, IoMoves
    <2> QED
      BY <2>1, <2>2
  <1>3. ThreadsTyped'
    BY <1>2 DEF ThreadsTyped
  <1>4. /\ conn[c].state \in {"OPEN", "REQUEST_CLOSE", "CLOSED"}
        /\ conn'[c].state \in {"REQUEST_CLOSE", "CLOSED"}
        /\ conn'[c].state = "CLOSED" <=> conn[c].state = "CLOSED"
        /\ conn'[c].protocol = conn[c].protocol
        /\ WillClose(c) <=> conn[c].state = "OPEN"
    BY DEF RequestsClose, CloseState, WillClose, StateInv, Accepted, TypeOK,
           ConnRecords
  <1>5. /\ \A d \in Conns : Accepted(d) => Accepted(d)'
        /\ \A d \in Conns : ~Accepted(d)' => conn'[d] = NoConn /\ d \notin managed'
    BY <1>4, StillAccepted DEF RequestsClose
  <1>6. OnlyAccepted'
    <2>1. io' # IoIdle => Accepted(io.c)' /\ Accepted(io.d)'
      BY <1>2, <1>5, ReferredAccepted DEF Accepted
    <2>2. disp' # DispIdle => Accepted(disp.c)'
      BY <1>5, ReferredAccepted DEF Accepted
    <2>3. (\A i \in DOMAIN tasks : Accepted(tasks[i].c))'
      BY <1>4, <1>5, ReferredAccepted, CloseTasksFacts
      DEF Accepted, RequestsClose
    <2> QED
      BY <1>5, <2>1, <2>2, <2>3 DEF OnlyAccepted
  <1>7. \A d \in Conns : d # c => conn'[d] = conn[d]
    BY DEF RequestsClose, Touches
  <1>8. StateInv'
    BY <1>2, <1>4, <1>7 DEF StateInv, WillClose
  <1>9. NoPendingWrite'
    BY <1>2, <1>7 DEF NoPendingWrite, One
  <1>10. ASSUME NEW d \in Conns
         PROVE  /\ Queued("close", d)' =
                      Queued("close", d) + One(WillClose(c) /\ d = c)
                /\ Queued("releaseConnection", d)' =
                      Queued("releaseConnection", d)
                /\ Queued("releaseProtocol", d)' = Queued("releaseProtocol", d)
    <2>1. \A op \in TaskOps : Count(tasks, Task(op, d)) \in Nat
      BY CountType DEF TypeOK
    <2> QED
      BY <2>1, CloseTasksFacts DEF RequestsClose, Queued, TaskOps, One
  <1>11. CloseOnce'
    <2> SUFFICES ASSUME NEW d \in Conns
                 PROVE  /\ Queued("close", d)' =
                              One(conn'[d].state = "REQUEST_CLOSE")
                        /\ One(conn'[d].state = "CLOSED" /\ d \in managed) =
                              One(conn[d].state = "CLOSED" /\ d \in managed)
                        /\ conn'[d].protocol = conn[d].protocol
      BY <1>10 DEF CloseOnce
    <2>1. CASE d = c
      BY <1>4, <1>10, <2>1 DEF CloseOnce, One
    <2>2. CASE d # c
      BY <1>7, <1>10, <2>2 DEF CloseOnce, One
    <2> QED
      BY <2>1, <2>2
  <1> QED
    BY <1>1, <1>3, <1>6, <1>8, <1>9, <1>11
\* createConnection(): a connection nothing refers to yet.
LEMMA AcceptLife ==
    ASSUME LifeInv, NEW c \in Conns, Accept(c)
    PROVE  LifeInv'
  <1> USE DEF LifeInv
  <1>1. /\ Touches(c) /\ conn'[c] = NewConn /\ conn[c].state = "NONE"
        /\ conn[c] = NoConn /\ c \notin managed
        /\ io.at = "idle" /\ io' = Greets(c) /\ managed' = managed \cup {c}
        /\ UNCHANGED <<disp, tasks, retries, stops, sends>>
    BY AcceptEffect DEF Accept, OnlyAccepted, Accepted
  <1>2. TypeOK'
    BY <1>1 DEF TypeOK, Touches
  <1>3. Greets(c) \in IoRecords /\ Greets(c).at = "get" /\ Greets(c).c = c
           /\ Greets(c).d = c
    BY ConnectionAssumption DEF Greets, IoRecords, IoSteps
  <1>4. ThreadsTyped'
    BY <1>1, <1>3 DEF ThreadsTyped
  <1>5. \A d \in Conns : d # c => conn'[d] = conn[d]
    BY <1>1 DEF Touches
  <1>6. \A d \in Conns : Accepted(d) => Accepted(d)'
    BY <1>1, <1>5 DEF Accepted
  <1>7. OnlyAccepted'
    <2>1. io' # IoIdle => Accepted(io.c)' /\ Accepted(io.d)'
      BY <1>1, <1>3, ConnTypes DEF Accepted
    <2>2. disp' # DispIdle => Accepted(disp.c)'
      BY <1>1, <1>6, ReferredAccepted DEF Accepted
    <2>3. (\A i \in DOMAIN tasks : Accepted(tasks[i].c))'
      BY <1>1, <1>6, ReferredAccepted DEF Accepted
    <2>4. \A d \in Conns : ~Accepted(d)' => conn'[d] = NoConn /\ d \notin managed'
      BY <1>1, <1>5, ConnTypes DEF OnlyAccepted, Accepted
    <2> QED
      BY <2>1, <2>2, <2>3, <2>4 DEF OnlyAccepted
  <1>8. StateInv'
    BY <1>1, <1>3, <1>5, ConnTypes DEF StateInv
  <1>9. NoPendingWrite'
    BY <1>1, <1>3, <1>5, ConnTypes DEF NoPendingWrite, One
  <1>10. \A d \in Conns, op \in TaskOps : Queued(op, d)' = Queued(op, d)
    BY <1>1 DEF Queued
  <1>11. CloseOnce'
    BY <1>1, <1>5, <1>10, ConnTypes DEF CloseOnce, TaskOps, One
  <1> QED
    BY <1>2, <1>4, <1>7, <1>8, <1>9, <1>11

\* onStopOperation() ends the release of a closed connection.
LEMMA StopLife ==
    ASSUME LifeInv, NEW c \in Conns, StopOperation(c)
    PROVE  LifeInv'
  <1> USE DEF LifeInv
  <1>1. /\ Touches(c) /\ SameLife(c) /\ io.at = "idle" /\ stops[c] > 0
        /\ stops' = [stops EXCEPT ![c] = @ - 1] /\ managed' = managed \ {c}
        /\ UNCHANGED <<io, disp, tasks, retries, sends>>
    BY StopEffect DEF StopOperation, Without
  <1>2. /\ conn[c].pendingWrite = 0 /\ conn'[c].pendingWrite = 0
    BY <1>1, StopEffect DEF NoPendingWrite, One
  <1>3. /\ stops' \in [Conns -> Nat] /\ stops'[c] = stops[c] - 1
        /\ \A d \in Conns : d # c => stops'[d] = stops[d]
    BY <1>1 DEF TypeOK
  <1>4. TypeOK'
    BY <1>1, <1>3 DEF TypeOK, Touches
  <1>5. ThreadsTyped'
    BY <1>1 DEF ThreadsTyped
  <1>6. /\ conn[c].state = "CLOSED" /\ c \in managed
        /\ retries["releaseConnection"][c] + Queued("releaseConnection", c) = 0
        /\ stops[c] = 1
    <2>1. Queued("releaseConnection", c) \in Nat
      <3>1. Count(tasks, Task("releaseConnection", c)) \in Nat
        BY CountType DEF TypeOK
      <3> QED
        BY <3>1 DEF Queued, One
    <2>2. retries["releaseConnection"][c] \in Nat /\ stops[c] \in Nat
      BY DEF TypeOK, RetryOps
    <2> QED
      BY <1>1, <2>1, <2>2 DEF CloseOnce, One
  <1>7. \A d \in Conns : /\ conn'[d].state = conn[d].state
                         /\ conn'[d].protocol = conn[d].protocol
                         /\ d # c => conn'[d] = conn[d]
    BY <1>1 DEF Touches, SameLife
  <1>8. OnlyAccepted'
    <2>1. \A d \in Conns : Accepted(d) => Accepted(d)'
      BY <1>7 DEF Accepted
    <2>2. io' # IoIdle => Accepted(io.c)' /\ Accepted(io.d)'
      BY <1>1, <2>1, ReferredAccepted DEF Accepted
    <2>3. disp' # DispIdle => Accepted(disp.c)'
      BY <1>1, <2>1, ReferredAccepted DEF Accepted
    <2>4. (\A i \in DOMAIN tasks : Accepted(tasks[i].c))'
      BY <1>1, <2>1, ReferredAccepted DEF Accepted
    <2>5. \A d \in Conns : ~Accepted(d)' => conn'[d] = NoConn /\ d \notin managed'
      BY <1>1, <1>6, <1>7 DEF OnlyAccepted, Accepted
    <2> QED
      BY <2>2, <2>3, <2>4, <2>5 DEF OnlyAccepted
  <1>9. StateInv'
    BY <1>1, <1>6, <1>7 DEF StateInv
  <1>10. NoPendingWrite'
    BY <1>1, <1>2, <1>7 DEF NoPendingWrite, One
  <1>11. \A d \in Conns, op \in TaskOps : Queued(op, d)' = Queued(op, d)
    BY <1>1 DEF Queued
  <1>12. CloseOnce'
    BY <1>1, <1>3, <1>6, <1>7, <1>11 DEF CloseOnce, TaskOps, One
  <1> QED
    BY <1>4, <1>5, <1>8, <1>9, <1>10, <1>12
\* A write to an open connection begins, or ends without an error.
LEMMA WriteLife ==
    ASSUME LifeInv, Send \/ WriteOk
    PROVE  LifeInv'
  <1> USE DEF LifeInv
  <1> DEFINE c == io.d
  <1>1. io \in IoRecords /\ io # IoIdle /\ c \in Conns
    BY Busy DEF Send, WriteOk, IoRecords
  <1>2. /\ Touches(c) /\ SameLife(c) /\ conn'[c].socket = conn[c].socket
        /\ conn'[c].pendingWrite = One(Send)
        /\ io'.at = (IF Send THEN "writing" ELSE "drop")
        /\ io' \in IoRecords /\ io'.c = io.c /\ io'.d = c
        /\ io.at = (IF Send THEN "send" ELSE "writing")
        /\ Send => conn[c].state = "OPEN"
        /\ UNCHANGED <<managed, disp, tasks, retries, stops, sends>>
    <2>1. "writing" \in IoSteps /\ "drop" \in IoSteps
      BY DEF IoSteps
    <2>2. CASE Send
      BY <1>1, <2>1, <2>2, SendEffect, IoMoves DEF Send, One
    <2>3. CASE WriteOk
      <3>1. conn[c].pendingWrite = 1 /\ io.at = "writing"
        BY <1>1, <2>3 DEF NoPendingWrite, One, WriteOk
      <3>2. ~Send
        BY <3>1 DEF Send
      <3> QED
        BY <1>1, <2>1, <2>3, <3>1, <3>2, WriteOkEffect, IoMoves DEF WriteOk, One
    <2> QED
      BY <2>2, <2>3
  <1> HIDE DEF c
  <1>3. TypeOK'
    BY <1>2 DEF TypeOK, Touches
  <1>4. ThreadsTyped'
    BY <1>2 DEF ThreadsTyped
  <1>5. \A d \in Conns : /\ conn'[d].state = conn[d].state
                         /\ conn'[d].protocol = conn[d].protocol
                         /\ conn'[d].socket = conn[d].socket
                         /\ d # c => conn'[d] = conn[d]
    BY <1>2 DEF Touches, SameLife
  <1>6. OnlyAccepted'
    <2>1. \A d \in Conns : Accepted(d) => Accepted(d)'
      BY <1>5 DEF Accepted
    <2>2. io' # IoIdle => Accepted(io.c)' /\ Accepted(io.d)'
      BY <1>1, <1>2, <2>1, ReferredAccepted DEF Accepted, c
    <2>3. disp' # DispIdle => Accepted(disp.c)'
      BY <1>2, <2>1, ReferredAccepted DEF Accepted
    <2>4. (\A i \in DOMAIN tasks : Accepted(tasks[i].c))'
      BY <1>2, <2>1, ReferredAccepted DEF Accepted
    <2>5. \A d \in Conns : ~Accepted(d)' => conn'[d] = NoConn /\ d \notin managed'
      BY <1>1, <1>2, <1>5 DEF OnlyAccepted, Accepted, c
    <2> QED
      BY <2>2, <2>3, <2>4, <2>5 DEF OnlyAccepted
  <1>7. StateInv'
    BY <1>1, <1>2, <1>5 DEF StateInv
  <1>8. NoPendingWrite'
    BY <1>1, <1>2, <1>5 DEF NoPendingWrite, One, c
  <1>9. \A d \in Conns, op \in TaskOps : Queued(op, d)' = Queued(op, d)
    BY <1>2 DEF Queued
  <1>10. CloseOnce'
    BY <1>2, <1>5, <1>9 DEF CloseOnce, TaskOps, One
  <1> QED
    BY <1>3, <1>4, <1>6, <1>7, <1>8, <1>10

\* What is counted is a number.
LEMMA QueuedType ==
    ASSUME TypeOK
    PROVE  \A op \in TaskOps, d \in Conns : Queued(op, d) \in Nat
  <1>1. \A op \in TaskOps, d \in Conns : Count(tasks, Task(op, d)) \in Nat
    BY CountType DEF TypeOK
  <1> QED
    BY <1>1 DEF Queued, One

\* releaseMessage() adds one "free" task.
LEMMA DropCounts ==
    ASSUME TypeOK, ThreadsTyped, DropMessage
    PROVE  \A op \in TaskOps, d \in Conns :
              Queued(op, d)' = Queued(op, d) + One(op = "free" /\ d = io.d)
  <1> SUFFICES ASSUME NEW d \in Conns, NEW op \in TaskOps
               PROVE  Queued(op, d)' =
                         Queued(op, d) + One(op = "free" /\ d = io.d)
    OBVIOUS
  <1> DEFINE t == Task("free", io.d)
  <1>1. t \in Tasks /\ tasks \in Seq(Tasks)
    BY Busy DEF DropMessage, IoRecords, Task, Tasks, TaskOps, TypeOK
  <1>2. tasks' = <<t>> \o tasks /\ disp' = disp
    BY DEF DropMessage
  <1>3. t = Task(op, d) <=> op = "free" /\ d = io.d
    BY DEF Task
  <1> HIDE DEF t
  <1>4. Count(tasks, Task(op, d)) \in Nat
    BY <1>1, CountType
  <1>5. Count(tasks', Task(op, d)) =
           Count(tasks, Task(op, d)) + One(t = Task(op, d))
    BY <1>1, <1>2, CountCons
  <1> QED
    BY <1>2, <1>3, <1>4, <1>5 DEF Queued, One

\* getTask moves a task from the list to the dispatcher, and is not seen in
\* the sum of both.
LEMMA TakeCounts ==
    ASSUME TypeOK, TakeTask
    PROVE  \A op \in TaskOps, d \in Conns : Queued(op, d)' = Queued(op, d)
  <1> SUFFICES ASSUME NEW d \in Conns, NEW op \in TaskOps
               PROVE  Queued(op, d)' = Queued(op, d)
    OBVIOUS
  <1> DEFINE t == Head(tasks)
  <1>1. tasks \in Seq(Tasks) /\ tasks # <<>> /\ disp.at # op
    BY DEF TypeOK, TakeTask, TaskOps
  <1>2. t \in Tasks /\ tasks' \in Seq(Tasks) /\ tasks' = Tail(tasks)
    BY <1>1, CountTail DEF TakeTask
  <1>3. disp' = [at |-> t.op, c |-> t.c, loaded |-> 0]
    BY DEF TakeTask
  <1>4. Count(tasks, Task(op, d)) =
           Count(tasks', Task(op, d)) + One(t = Task(op, d))
    BY <1>1, <1>2, CountTail
  <1>5. Count(tasks', Task(op, d)) \in Nat
    BY <1>2, CountType
  <1> HIDE DEF t
  <1>6. t = Task(op, d) <=> disp'.at = op /\ disp'.c = d
    BY <1>2, <1>3 DEF Task, Tasks
  <1> QED
    BY <1>1, <1>4, <1>5, <1>6 DEF Queued, One

\* releaseMessage(): its task goes in front of all the others.
LEMMA DropLife ==
    ASSUME LifeInv, DropMessage
    PROVE  LifeInv'
  <1> USE DEF LifeInv
  <1> DEFINE t == Task("free", io.d)
             at == IF io.handler = "accept" THEN "accepted" ELSE "command"
  <1>1. io \in IoRecords /\ io # IoIdle /\ io.d \in Conns /\ io.at = "drop"
    BY Busy DEF DropMessage, IoRecords
  <1>2. t \in Tasks /\ at \in IoSteps /\ at # "writing" /\ t.c = io.d
    BY <1>1 DEF Task, Tasks, TaskOps, IoSteps
  <1>3. /\ tasks' = <<t>> \o tasks /\ io' = [io EXCEPT !.at = at]
        /\ UNCHANGED <<conn, managed, disp, retries, stops, sends>>
    BY DEF DropMessage
  <1>4. /\ io' \in IoRecords /\ io'.at # "writing"
        /\ io'.c = io.c /\ io'.d = io.d
    BY <1>1, <1>2, <1>3, IoMoves
  <1> HIDE DEF at
  <1>5. tasks \in Seq(Tasks) /\ tasks' \in Seq(Tasks)
    BY <1>2, <1>3, CountCons DEF TypeOK
  <1>6. TypeOK'
    BY <1>3, <1>5 DEF TypeOK
  <1>7. ThreadsTyped'
    BY <1>3, <1>4 DEF ThreadsTyped
  <1>8. OnlyAccepted'
    <2>1. \A i \in DOMAIN tasks' :
             tasks'[i] = t \/ \E j \in DOMAIN tasks : tasks'[i] = tasks[j]
      <3> HIDE DEF t
      <3>1. \A i \in DOMAIN tasks' : i # 1 =>
               i - 1 \in DOMAIN tasks /\ tasks'[i] = tasks[i - 1]
        BY <1>3, <1>5
      <3>2. tasks'[1] = t
        BY <1>3, <1>5
      <3> QED
        BY <3>1, <3>2
    <2>2. (\A i \in DOMAIN tasks : Accepted(tasks[i].c))'
      BY <1>1, <1>2, <1>3, <2>1 DEF OnlyAccepted, Accepted
    <2> QED
      BY <1>1, <1>3, <1>4, <2>2 DEF OnlyAccepted, Accepted
  <1>9. StateInv'
    BY <1>3, <1>4 DEF StateInv
  <1>10. NoPendingWrite'
    BY <1>1, <1>3, <1>4 DEF NoPendingWrite, One
  <1>11. \A d \in Conns, op \in ReleaseOps : Queued(op, d)' = Queued(op, d)
    BY DropCounts, QueuedType DEF ReleaseOps, TaskOps, One
  <1>12. CloseOnce'
    BY <1>3, <1>11 DEF CloseOnce, ReleaseOps
  <1> QED
    BY <1>6, <1>7, <1>8, <1>9, <1>10, <1>12

\* getTask: the task leaves the list for the dispatcher's hands.
LEMMA TakeLife ==
    ASSUME LifeInv, TakeTask
    PROVE  LifeInv'
  <1> USE DEF LifeInv
  <1> DEFINE t == Head(tasks)
  <1>1. tasks \in Seq(Tasks) /\ tasks # <<>> /\ disp.at = "idle"
    BY DEF TypeOK, TakeTask
  <1>2. t \in Tasks /\ Tail(tasks) \in Seq(Tasks)
    BY <1>1, CountTail
  <1>3. /\ disp' = [at |-> t.op, c |-> t.c, loaded |-> 0]
        /\ tasks' = Tail(tasks)
        /\ UNCHANGED <<conn, managed, io, retries, stops, sends>>
    BY DEF TakeTask
  <1>4. t = tasks[1] /\ 1 \in DOMAIN tasks
    BY <1>1
  <1> HIDE DEF t
  <1>5. disp' \in DispRecords /\ disp'.at = t.op /\ disp'.c = t.c
    BY <1>2, <1>3, ConnectionAssumption DEF DispRecords, DispStages, Tasks
  <1>6. TypeOK'
    BY <1>2, <1>3 DEF TypeOK
  <1>7. ThreadsTyped'
    BY <1>3, <1>5 DEF ThreadsTyped
  <1>8. OnlyAccepted'
    <2>1. \A i \in DOMAIN tasks' : i + 1 \in DOMAIN tasks
                                   /\ tasks'[i] = tasks[i + 1]
      BY <1>1, <1>3
    <2>2. (\A i \in DOMAIN tasks : Accepted(tasks[i].c))'
      BY <1>3, <2>1 DEF OnlyAccepted, Accepted
    <2> QED
      BY <1>3, <1>4, <1>5, <2>2 DEF OnlyAccepted, Accepted
  <1>9. StateInv'
    BY <1>3 DEF StateInv
  <1>10. NoPendingWrite'
    BY <1>3 DEF NoPendingWrite
  <1>11. \A d \in Conns, op \in TaskOps : Queued(op, d)' = Queued(op, d)
    BY TakeCounts
  <1>12. CloseOnce'
    BY <1>3, <1>11 DEF CloseOnce, TaskOps
  <1> QED
    BY <1>6, <1>7, <1>8, <1>9, <1>10, <1>12
\* Of numbers whose sum is 0 each is 0.
LEMMA NatSums ==
    /\ \A i, j \in Nat : i + j = 0 => i = 0 /\ j = 0
    /\ \A i, j, k \in Nat : i + j + k = 0 => i = 0 /\ j = 0 /\ k = 0
  OBVIOUS

\* closeConnectionTask(): the close that was asked for becomes the releases.
LEMMA CloseLife ==
    ASSUME LifeInv, CloseTask
    PROVE  LifeInv'
  <1> USE DEF LifeInv
  <1> DEFINE c == disp.c
  <1>1. /\ disp.at = "close" /\ disp # DispIdle /\ c \in Conns
        /\ conn[c].state = "REQUEST_CLOSE"
        /\ UNCHANGED <<managed, io, tasks, sends>> /\ disp' = DispIdle
    BY Busy DEF CloseTask, DispRecords
  <1>2. ~(io.at = "writing" /\ io.d = c)
    BY DEF CloseTask, IoLocks
  <1>3. conn[c].pendingWrite = 0 /\ conn[c].protocol = "attached" /\ c \in managed
    BY <1>1, <1>2 DEF NoPendingWrite, One, StateInv
  <1>4. /\ Touches(c) /\ conn'[c].state = "CLOSED"
        /\ conn'[c].pendingWrite = 0
        /\ conn'[c].protocol =
              IF conn[c].protoRef = 0 THEN "deleted" ELSE "detached"
        /\ retries' \in [RetryOps -> [Conns -> Nat]]
        /\ stops' \in [Conns -> Nat]
        /\ \A d \in Conns : d # c =>
              /\ stops'[d] = stops[d]
              /\ \A op \in RetryOps : retries'[op][d] = retries[op][d]
        /\ stops'[c] = stops[c] + One(conn[c].connRef = 0)
        /\ retries'["releaseConnection"][c] =
              retries["releaseConnection"][c] + One(conn[c].connRef # 0)
        /\ retries'["releaseProtocol"][c] =
              retries["releaseProtocol"][c] + One(conn[c].protoRef # 0)
    BY <1>1, <1>3, CloseTaskEffect
  <1>5. TypeOK'
    BY <1>1, <1>4 DEF TypeOK, Touches
  <1>6. ThreadsTyped'
    BY <1>1 DEF ThreadsTyped
  <1>7. \A d \in Conns : d # c => conn'[d] = conn[d]
    BY <1>4 DEF Touches
  <1>8. OnlyAccepted'
    <2>1. \A d \in Conns : Accepted(d) => Accepted(d)'
      BY <1>4, <1>7 DEF Accepted
    <2>2. io' # IoIdle => Accepted(io.c)' /\ Accepted(io.d)'
      BY <1>1, <2>1, ReferredAccepted DEF Accepted
    <2>3. (\A i \in DOMAIN tasks : Accepted(tasks[i].c))'
      BY <1>1, <2>1, ReferredAccepted DEF Accepted
    <2>4. \A d \in Conns : ~Accepted(d)' => conn'[d] = NoConn /\ d \notin managed'
      BY <1>1, <1>4, <1>7 DEF OnlyAccepted, Accepted
    <2> QED
      BY <1>1, <2>2, <2>3, <2>4 DEF OnlyAccepted
  <1>9. StateInv'
    <2>1. io.at = "writing" => io.d \in Conns
      BY Busy DEF IoRecords
    <2> QED
      BY <1>1, <1>2, <1>4, <1>7, <2>1 DEF StateInv
  <1>10. NoPendingWrite'
    BY <1>1, <1>2, <1>4, <1>7 DEF NoPendingWrite, One
  <1>11. \A d \in Conns, op \in ReleaseOps :
            /\ Queued(op, d)' \in Nat
            /\ Queued(op, d) = Queued(op, d)' + One(op = "close" /\ d = c)
    <2>1. DispIdle.at = "idle"
      BY DEF DispIdle
    <2>2. \A op \in TaskOps, d \in Conns : Count(tasks, Task(op, d)) \in Nat
      BY CountType DEF TypeOK
    <2> QED
      BY <1>1, <2>1, <2>2 DEF Queued, ReleaseOps, TaskOps, One
  <1>12. CloseOnce'
    <2> SUFFICES ASSUME NEW d \in Conns
                 PROVE  /\ Queued("close", d)' =
                              One(conn'[d].state = "REQUEST_CLOSE")
                        /\ retries'["releaseConnection"][d]
                              + Queued("releaseConnection", d)' + stops'[d] =
                              One(conn'[d].state = "CLOSED" /\ d \in managed')
                        /\ retries'["releaseProtocol"][d]
                              + Queued("releaseProtocol", d)' =
                              One(conn'[d].protocol = "detached")
      BY DEF CloseOnce
    <2>1. /\ retries["releaseConnection"][d] \in Nat
          /\ retries["releaseProtocol"][d] \in Nat
          /\ stops[d] \in Nat
      BY DEF TypeOK, RetryOps
    <2>6. /\ Queued("close", d)' \in Nat
          /\ Queued("close", d) = Queued("close", d)' + One(d = c)
      BY <1>11 DEF ReleaseOps, One
    <2>2. /\ Queued("releaseConnection", d)' \in Nat
          /\ Queued("releaseConnection", d) = Queued("releaseConnection", d)'
          /\ Queued("releaseProtocol", d)' \in Nat
          /\ Queued("releaseProtocol", d) = Queued("releaseProtocol", d)'
      BY <1>11 DEF ReleaseOps, One
    <2>3. /\ Queued("close", d) = One(conn[d].state = "REQUEST_CLOSE")
          /\ retries["releaseConnection"][d] + Queued("releaseConnection", d)
                + stops[d] = One(conn[d].state = "CLOSED" /\ d \in managed)
          /\ retries["releaseProtocol"][d] + Queued("releaseProtocol", d)
                = One(conn[d].protocol = "detached")
      BY DEF CloseOnce
    <2> HIDE DEF LifeInv
    <2>4. CASE d = c
      <3>1. Queued("close", d)' = 0
        BY <1>1, <2>6, <2>3, <2>4 DEF One
      <3>2. /\ retries["releaseConnection"][d] = 0
            /\ Queued("releaseConnection", d)' = 0 /\ stops[d] = 0
            /\ retries["releaseProtocol"][d] = 0
            /\ Queued("releaseProtocol", d)' = 0
        <4>1. /\ One(conn[d].state = "CLOSED" /\ d \in managed) = 0
              /\ One(conn[d].protocol = "detached") = 0
          BY <1>1, <1>3, <2>4 DEF One
        <4>2. /\ retries["releaseConnection"][d]
                    + Queued("releaseConnection", d)' + stops[d] = 0
              /\ retries["releaseProtocol"][d]
                    + Queued("releaseProtocol", d)' = 0
          BY <2>2, <2>3, <4>1
        <4>3. /\ retries["releaseConnection"][d] = 0
              /\ Queued("releaseConnection", d)' = 0
          BY <2>1, <2>2, <4>2, NatSums, Zenon
        <4>4. stops[d] = 0
          BY <2>1, <4>2, <4>3
        <4>5. /\ retries["releaseProtocol"][d] = 0
              /\ Queued("releaseProtocol", d)' = 0
          BY <2>1, <2>2, <4>2, NatSums, Zenon
        <4> QED
          BY <4>3, <4>4, <4>5
      <3> QED
        BY <1>1, <1>3, <1>4, <2>4, <3>1, <3>2 DEF One
    <2>5. CASE d # c
      <3>1. /\ retries'["releaseConnection"][d] = retries["releaseConnection"][d]
            /\ retries'["releaseProtocol"][d] = retries["releaseProtocol"][d]
            /\ stops'[d] = stops[d]
        BY <1>4, <2>5 DEF RetryOps
      <3>2. Queued("close", d)' = Queued("close", d)
        BY <2>6, <2>5 DEF One
      <3> QED
        BY <1>1, <1>7, <2>2, <2>3, <2>5, <3>1, <3>2
    <2> QED
      BY <2>4, <2>5
  <1> QED
    BY <1>5, <1>6, <1>8, <1>9, <1>10, <1>12
\* A task that ends is no longer counted.
LEMMA DoneCounts ==
    ASSUME TypeOK, tasks' = tasks, disp' = DispIdle,
           NEW op \in TaskOps, NEW d \in Conns
    PROVE  /\ Queued(op, d)' \in Nat
           /\ Queued(op, d) = Queued(op, d)' + One(disp.at = op /\ disp.c = d)
  <1>1. DispIdle.at = "idle"
    BY DEF DispIdle
  <1>2. Count(tasks, Task(op, d)) \in Nat
    BY CountType DEF TypeOK
  <1> QED
    BY <1>1, <1>2 DEF Queued, TaskOps, One

\* releaseProtocol(), called by a retry: it deletes the protocol that was
\* detached, or leaves it to one more retry.
LEMMA ReleaseProtocolLife ==
    ASSUME LifeInv, ReleaseProtocol
    PROVE  LifeInv'
  <1> USE DEF LifeInv
  <1>0. disp.at = "releaseProtocol" /\ disp # DispIdle /\ disp.c \in Conns
    BY Busy DEF ReleaseProtocol, DispRecords
  <1> PICK c \in Conns : c = disp.c
    BY <1>0
  <1> DEFINE now == ReleaseProtocolNow(c)
             R == retries["releaseProtocol"]
  <1>1. /\ disp.at = "releaseProtocol" /\ disp # DispIdle
        /\ disp' = DispIdle /\ tasks' = tasks
        /\ UNCHANGED <<managed, io, stops, sends>>
    BY <1>0 DEF ReleaseProtocol
  <1>2. /\ R[c] \in Nat /\ retries["releaseConnection"] \in [Conns -> Nat]
        /\ R \in [Conns -> Nat]
    BY <1>1 DEF TypeOK, RetryOps
  <1>3. /\ Queued("releaseProtocol", c)' \in Nat
        /\ Queued("releaseProtocol", c) = Queued("releaseProtocol", c)' + 1
        /\ R[c] + Queued("releaseProtocol", c)
              = One(conn[c].protocol = "detached")
    <2>1. "releaseProtocol" \in TaskOps
      BY DEF TaskOps
    <2>2. /\ Queued("releaseProtocol", c)' \in Nat
          /\ Queued("releaseProtocol", c) = Queued("releaseProtocol", c)' +
                One(disp.at = "releaseProtocol" /\ disp.c = c)
      BY <1>1, <2>1, DoneCounts
    <2>3. R[c] + Queued("releaseProtocol", c) = One(conn[c].protocol = "detached")
      BY <1>1 DEF CloseOnce
    <2> QED
      BY <1>1, <2>2, <2>3 DEF One
  <1>4. conn[c].protocol = "detached" /\ R[c] = 0
          /\ Queued("releaseProtocol", c)' = 0
    BY <1>2, <1>3 DEF One
  <1>5. /\ Touches(c) /\ SameSocket(c)
        /\ conn'[c].state = conn[c].state
        /\ conn'[c].protocol = IF now THEN "deleted" ELSE "detached"
    <2>1. CASE now
      BY <1>1, <2>1, DeleteEffect DEF ReleaseProtocol
    <2>2. CASE ~now
      BY <1>1, <1>4, <2>2 DEF ReleaseProtocol, TypeOK, Touches, SameSocket
    <2> QED
      BY <2>1, <2>2
  <1>6. /\ retries' \in [RetryOps -> [Conns -> Nat]]
        /\ retries'["releaseConnection"] = retries["releaseConnection"]
        /\ \A d \in Conns : retries'["releaseProtocol"][d] =
              R[d] + One(d = c /\ ~now)
    <2>1. CASE now
      BY <1>1, <1>2, <2>1 DEF ReleaseProtocol, TypeOK, One
    <2>2. CASE ~now
      <3>1. retries' = [retries EXCEPT !["releaseProtocol"] =
                                         [R EXCEPT ![c] = R[c] + 1]]
        BY <2>2 DEF ReleaseProtocol
      <3>2. [R EXCEPT ![c] = R[c] + 1] \in [Conns -> Nat]
        BY <1>1, <1>2
      <3>3. /\ retries' \in [RetryOps -> [Conns -> Nat]]
            /\ retries'["releaseConnection"] = retries["releaseConnection"]
            /\ retries'["releaseProtocol"] = [R EXCEPT ![c] = R[c] + 1]
        BY <3>1, <3>2 DEF TypeOK, RetryOps
      <3> QED
        BY <1>2, <2>2, <3>3 DEF One
    <2> QED
      BY <2>1, <2>2
  <1>7. TypeOK'
    BY <1>1, <1>5, <1>6 DEF TypeOK, Touches
  <1>8. ThreadsTyped'
    BY <1>1 DEF ThreadsTyped
  <1>9. \A d \in Conns : /\ conn'[d].state = conn[d].state
                         /\ conn'[d].socket = conn[d].socket
                         /\ conn'[d].pendingWrite = conn[d].pendingWrite
                         /\ d # c => conn'[d] = conn[d]
    BY <1>5 DEF Touches, SameSocket
  <1>10. OnlyAccepted'
    <2>1. \A d \in Conns : Accepted(d) => Accepted(d)'
      BY <1>9 DEF Accepted
    <2>2. io' # IoIdle => Accepted(io.c)' /\ Accepted(io.d)'
      BY <1>1, <2>1, ReferredAccepted DEF Accepted
    <2>3. (\A i \in DOMAIN tasks : Accepted(tasks[i].c))'
      BY <1>1, <2>1, ReferredAccepted DEF Accepted
    <2>4. \A d \in Conns : ~Accepted(d)' => conn'[d] = NoConn /\ d \notin managed'
      BY <1>1, <1>9 DEF OnlyAccepted, Accepted
    <2> QED
      BY <1>1, <2>2, <2>3, <2>4 DEF OnlyAccepted
  <1>11. StateInv'
    <2>1. io.at = "writing" => io.d \in Conns
      BY Busy DEF IoRecords
    <2>2. conn[c].state = "CLOSED"
      BY <1>1, <1>4, ConnTypes
      DEF StateInv, TypeOK, ConnRecords, OnlyAccepted, Accepted
    <2> QED
      BY <1>1, <1>5, <1>9, <2>1, <2>2 DEF StateInv
  <1>12. NoPendingWrite'
    BY <1>1, <1>9 DEF NoPendingWrite
  <1>13. CloseOnce'
    <2> SUFFICES ASSUME NEW d \in Conns
                 PROVE  /\ Queued("close", d)' =
                              One(conn'[d].state = "REQUEST_CLOSE")
                        /\ retries'["releaseConnection"][d]
                              + Queued("releaseConnection", d)' + stops'[d] =
                              One(conn'[d].state = "CLOSED" /\ d \in managed')
                        /\ retries'["releaseProtocol"][d]
                              + Queued("releaseProtocol", d)' =
                              One(conn'[d].protocol = "detached")
      BY DEF CloseOnce
    <2>1. /\ Queued("close", d)' = Queued("close", d)
          /\ Queued("releaseConnection", d)' = Queued("releaseConnection", d)
          /\ d # c => Queued("releaseProtocol", d)' = Queued("releaseProtocol", d)
      BY <1>1, DoneCounts DEF TaskOps, One
    <2>2. /\ Queued("close", d)' = One(conn'[d].state = "REQUEST_CLOSE")
          /\ retries'["releaseConnection"][d]
                + Queued("releaseConnection", d)' + stops'[d] =
                One(conn'[d].state = "CLOSED" /\ d \in managed')
      BY <1>1, <1>6, <1>9, <2>1 DEF CloseOnce
    <2>3. ASSUME d = c
          PROVE  retries'["releaseProtocol"][d] + Queued("releaseProtocol", d)' =
                    One(conn'[d].protocol = "detached")
      <3>1. retries'["releaseProtocol"][c] = One(~now)
        BY <1>4, <1>6 DEF One
      <3> QED
        BY <1>4, <1>5, <2>3, <3>1 DEF One
    <2>4. ASSUME d # c
          PROVE  retries'["releaseProtocol"][d] + Queued("releaseProtocol", d)' =
                    One(conn'[d].protocol = "detached")
      <3>1. retries'["releaseProtocol"][d] = R[d]
        BY <1>2, <1>6, <2>4 DEF One
      <3> QED
        BY <1>9, <2>1, <2>4, <3>1 DEF CloseOnce
    <2> QED
      BY <2>2, <2>3, <2>4
  <1> QED
    BY <1>7, <1>8, <1>10, <1>11, <1>12, <1>13
\* releaseConnection(), called by a retry: it posts onStopOperation(), or
\* leaves that to one more retry.
LEMMA ReleaseConnectionLife ==
    ASSUME LifeInv, ReleaseConnection
    PROVE  LifeInv'
  <1> USE DEF LifeInv
  <1>0. disp.at = "releaseConnection" /\ disp # DispIdle /\ disp.c \in Conns
    BY Busy DEF ReleaseConnection, DispRecords
  <1> PICK c \in Conns : c = disp.c
    BY <1>0
  <1> DEFINE now == ReleaseConnectionNow(c)
             R == retries["releaseConnection"]
  <1>1. /\ disp.at = "releaseConnection" /\ disp # DispIdle
        /\ disp' = DispIdle /\ tasks' = tasks
        /\ UNCHANGED <<conn, managed, io, sends>>
    BY <1>0 DEF ReleaseConnection
  <1>2. /\ R[c] \in Nat /\ retries["releaseProtocol"] \in [Conns -> Nat]
        /\ R \in [Conns -> Nat] /\ stops \in [Conns -> Nat]
    BY DEF TypeOK, RetryOps
  <1>3. /\ stops' \in [Conns -> Nat]
        /\ \A d \in Conns : stops'[d] = stops[d] + One(d = c /\ now)
    <2>1. CASE now
      BY <1>2, <2>1 DEF ReleaseConnection, One
    <2>2. CASE ~now
      BY <1>2, <2>2 DEF ReleaseConnection, One
    <2> QED
      BY <2>1, <2>2
  <1>4. /\ retries' \in [RetryOps -> [Conns -> Nat]]
        /\ retries'["releaseProtocol"] = retries["releaseProtocol"]
        /\ \A d \in Conns : retries'["releaseConnection"][d] =
              R[d] + One(d = c /\ ~now)
    <2>1. CASE now
      BY <1>1, <1>2, <2>1 DEF ReleaseConnection, TypeOK, One
    <2>2. CASE ~now
      <3>1. retries' = [retries EXCEPT !["releaseConnection"] =
                                         [R EXCEPT ![c] = R[c] + 1]]
        BY <2>2 DEF ReleaseConnection
      <3>2. [R EXCEPT ![c] = R[c] + 1] \in [Conns -> Nat]
        BY <1>1, <1>2
      <3>3. /\ retries' \in [RetryOps -> [Conns -> Nat]]
            /\ retries'["releaseProtocol"] = retries["releaseProtocol"]
            /\ retries'["releaseConnection"] = [R EXCEPT ![c] = R[c] + 1]
        BY <3>1, <3>2 DEF TypeOK, RetryOps
      <3> QED
        BY <1>2, <2>2, <3>3 DEF One
    <2> QED
      BY <2>1, <2>2
  <1>5. TypeOK'
    BY <1>1, <1>3, <1>4 DEF TypeOK
  <1>6. ThreadsTyped'
    BY <1>1 DEF ThreadsTyped
  <1>7. OnlyAccepted'
    BY <1>1 DEF OnlyAccepted, Accepted
  <1>8. StateInv' /\ NoPendingWrite'
    BY <1>1 DEF StateInv, NoPendingWrite
  <1>9. CloseOnce'
    <2> SUFFICES ASSUME NEW d \in Conns
                 PROVE  /\ Queued("close", d)' =
                              One(conn'[d].state = "REQUEST_CLOSE")
                        /\ retries'["releaseConnection"][d]
                              + Queued("releaseConnection", d)' + stops'[d] =
                              One(conn'[d].state = "CLOSED" /\ d \in managed')
                        /\ retries'["releaseProtocol"][d]
                              + Queued("releaseProtocol", d)' =
                              One(conn'[d].protocol = "detached")
      BY DEF CloseOnce
    <2>1. /\ Queued("close", d)' = Queued("close", d)
          /\ Queued("releaseProtocol", d)' = Queued("releaseProtocol", d)
      BY <1>1, DoneCounts DEF TaskOps, One
    <2>2. /\ Queued("releaseConnection", d)' \in Nat
          /\ Queued("releaseConnection", d) =
                Queued("releaseConnection", d)' + One(d = c)
      <3>1. "releaseConnection" \in TaskOps
        BY DEF TaskOps
      <3>2. /\ Queued("releaseConnection", d)' \in Nat
            /\ Queued("releaseConnection", d) =
                  Queued("releaseConnection", d)' +
                     One(disp.at = "releaseConnection" /\ disp.c = d)
        BY <1>1, <3>1, DoneCounts
      <3> QED
        BY <1>1, <3>2 DEF One
    <2>3. R[d] \in Nat /\ stops[d] \in Nat
      BY <1>2
    <2>4. retries'["releaseConnection"][d] + stops'[d] = R[d] + stops[d] + One(d = c)
      <3>1. /\ retries'["releaseConnection"][d] = R[d] + One(d = c /\ ~now)
            /\ stops'[d] = stops[d] + One(d = c /\ now)
        BY <1>3, <1>4
      <3> HIDE DEF now, R
      <3>2. CASE d = c /\ now
        BY <2>3, <3>1, <3>2 DEF One
      <3>3. CASE d = c /\ ~now
        BY <2>3, <3>1, <3>3 DEF One
      <3>4. CASE d # c
        BY <2>3, <3>1, <3>4 DEF One
      <3> QED
        BY <3>2, <3>3, <3>4
    <2>5. /\ retries'["releaseConnection"][d] \in Nat /\ stops'[d] \in Nat
      BY <1>3, <1>4 DEF RetryOps
    <2>6. retries'["releaseConnection"][d]
             + Queued("releaseConnection", d)' + stops'[d] =
             R[d] + Queued("releaseConnection", d) + stops[d]
      BY <2>2, <2>3, <2>4, <2>5 DEF One
    <2> QED
      BY <1>1, <1>4, <2>1, <2>6 DEF CloseOnce
  <1> QED
    BY <1>5, <1>6, <1>7, <1>8, <1>9

\* The scheduler hands a retry to the dispatcher.
LEMMA RetryLife ==
    ASSUME LifeInv, NEW op \in RetryOps, NEW c \in Conns, Retry(op, c)
    PROVE  LifeInv'
  <1> USE DEF LifeInv
  <1> DEFINE R == retries[op]
             t == Task(op, c)
  <1>1. /\ R[c] > 0 /\ retries' = [retries EXCEPT ![op] = [R EXCEPT ![c] = R[c] - 1]]
        /\ tasks' = Append(tasks, t)
        /\ UNCHANGED <<conn, managed, io, disp, stops, sends>>
    BY DEF Retry
  <1>2. R \in [Conns -> Nat] /\ tasks \in Seq(Tasks)
    BY DEF TypeOK
  <1>3. [R EXCEPT ![c] = R[c] - 1] \in [Conns -> Nat]
    BY <1>1, <1>2
  <1>4. t \in Tasks /\ t.c = c /\ op \in TaskOps
    BY DEF Task, Tasks, RetryOps, TaskOps
  <1>5. tasks' \in Seq(Tasks)
    BY <1>1, <1>2, <1>4, CountAppend
  <1>6. /\ retries' \in [RetryOps -> [Conns -> Nat]]
        /\ \A o \in RetryOps, d \in Conns :
              /\ retries'[o][d] \in Nat /\ retries[o][d] \in Nat
              /\ retries[o][d] = retries'[o][d] + One(o = op /\ d = c)
    BY <1>1, <1>2, <1>3 DEF TypeOK, One
  <1>7. \A o \in TaskOps, d \in Conns :
           /\ Queued(o, d) \in Nat
           /\ Queued(o, d)' = Queued(o, d) + One(o = op /\ d = c)
    <2> SUFFICES ASSUME NEW o \in TaskOps, NEW d \in Conns
                 PROVE  /\ Queued(o, d) \in Nat
                        /\ Queued(o, d)' = Queued(o, d) + One(o = op /\ d = c)
      OBVIOUS
    <2>1. Count(tasks, Task(o, d)) \in Nat
      BY <1>2, CountType
    <2>2. Count(tasks', Task(o, d)) =
             Count(tasks, Task(o, d)) + One(t = Task(o, d))
      BY <1>1, <1>2, <1>4, CountAppend
    <2>3. t = Task(o, d) <=> o = op /\ d = c
      BY DEF Task
    <2> QED
      BY <1>1, <2>1, <2>2, <2>3 DEF Queued, One
  <1>8. TypeOK'
    BY <1>1, <1>5, <1>6 DEF TypeOK
  <1>9. ThreadsTyped'
    BY <1>1 DEF ThreadsTyped
  <1>10. Accepted(c)
    <2>1. retries[op][c] + Queued(op, c) > 0
      BY <1>1, <1>2, <1>4, <1>7
    <2>2. stops[c] \in Nat /\ retries[op][c] \in Nat /\ Queued(op, c) \in Nat
      BY <1>2, <1>4, <1>7 DEF TypeOK
    <2>3. conn[c].state = "CLOSED" \/ conn[c].protocol = "detached"
      <3>1. CASE op = "releaseConnection"
        BY <2>1, <2>2, <3>1 DEF CloseOnce, One
      <3>2. CASE op = "releaseProtocol"
        BY <2>1, <2>2, <3>2 DEF CloseOnce, One
      <3> QED
        BY <3>1, <3>2 DEF RetryOps
    <2> QED
      BY <2>3, ConnTypes DEF Accepted, OnlyAccepted
  <1>11. OnlyAccepted'
    <2> HIDE DEF t
    <2>1. \A i \in DOMAIN tasks' :
             tasks'[i] = t \/ (i \in DOMAIN tasks /\ tasks'[i] = tasks[i])
      <3>1. DOMAIN tasks' = 1..(Len(tasks) + 1) /\ Len(tasks) \in Nat
        BY <1>1, <1>2, AppendProperties
      <3>2. tasks'[Len(tasks) + 1] = t
        BY <1>1, <1>2
      <3>3. \A i \in 1..Len(tasks) : i \in DOMAIN tasks /\ tasks'[i] = tasks[i]
        BY <1>1, <1>2
      <3>4. \A i \in DOMAIN tasks' : i = Len(tasks) + 1 \/ i \in 1..Len(tasks)
        BY <3>1
      <3> QED
        BY <3>2, <3>3, <3>4, Zenon
    <2>2. (\A i \in DOMAIN tasks : Accepted(tasks[i].c))'
      BY <1>1, <1>4, <1>10, <2>1 DEF OnlyAccepted, Accepted
    <2> QED
      BY <1>1, <2>2 DEF OnlyAccepted, Accepted
  <1>12. StateInv' /\ NoPendingWrite'
    BY <1>1 DEF StateInv, NoPendingWrite
  <1>13. CloseOnce'
    <2> SUFFICES ASSUME NEW d \in Conns
                 PROVE  /\ Queued("close", d)' =
                              One(conn'[d].state = "REQUEST_CLOSE")
                        /\ retries'["releaseConnection"][d]
                              + Queued("releaseConnection", d)' + stops'[d] =
                              One(conn'[d].state = "CLOSED" /\ d \in managed')
                        /\ retries'["releaseProtocol"][d]
                              + Queued("releaseProtocol", d)' =
                              One(conn'[d].protocol = "detached")
      BY DEF CloseOnce
    <2>1. Queued("close", d)' = Queued("close", d)
      BY <1>7 DEF TaskOps, RetryOps, One
    <2>2. /\ retries'["releaseConnection"][d] + Queued("releaseConnection", d)'
                = retries["releaseConnection"][d] + Queued("releaseConnection", d)
          /\ retries'["releaseProtocol"][d] + Queued("releaseProtocol", d)'
                = retries["releaseProtocol"][d] + Queued("releaseProtocol", d)
      BY <1>6, <1>7 DEF TaskOps, RetryOps, One
    <2> QED
      BY <1>1, <2>1, <2>2 DEF CloseOnce
  <1> QED
    BY <1>8, <1>9, <1>11, <1>12, <1>13
\* Before the first accept nothing is under way.
LEMMA InitLife == Init => LifeInv
  <1> SUFFICES ASSUME Init PROVE LifeInv
    OBVIOUS
  <1>1. \A c \in Conns : conn[c] = NoConn
    BY DEF Init
  <1>2. conn \in [Conns -> ConnRecords]
    BY ConnTypes DEF Init
  <1>3. tasks = <<>> /\ tasks \in Seq(Tasks)
    BY DEF Init
  <1>4. TypeOK
    BY <1>2, <1>3, ConnectionAssumption DEF Init, TypeOK
  <1>5. ThreadsTyped /\ io.at = "idle" /\ disp.at = "idle"
    BY DEF Init, ThreadsTyped, IoIdle, DispIdle
  <1>6. OnlyAccepted
    BY <1>1, <1>3, ConnTypes DEF Init, OnlyAccepted, Accepted
  <1>7. StateInv
    BY <1>1, <1>5, ConnTypes DEF StateInv
  <1>8. NoPendingWrite
    BY <1>1, <1>5, ConnTypes DEF NoPendingWrite, One
  <1>9. \A op \in TaskOps, c \in Conns : Queued(op, c) = 0
    <2>1. \A op \in TaskOps, c \in Conns : Count(tasks, Task(op, c)) = 0
      BY <1>3, CountType
    <2> QED
      BY <1>5, <2>1 DEF Queued, TaskOps, One
  <1>10. CloseOnce
    BY <1>1, <1>9, ConnTypes DEF Init, CloseOnce, TaskOps, RetryOps, One
  <1> QED
    BY <1>4, <1>5, <1>6, <1>7, <1>8, <1>10 DEF LifeInv

\* One step of the io thread inside a handler.
LEMMA IoStepFacts ==
    ASSUME LifeInv, io.at \notin {"idle", "writing"}, NEW at \in IoSteps,
           at # "writing", io' = [io EXCEPT !.at = at]
    PROVE  IoStep
  <1>1. io \in IoRecords /\ io # IoIdle
    BY Busy DEF LifeInv
  <1> QED
    BY <1>1, IoMoves DEF IoStep, LifeInv, OnlyAccepted

\* addRef() and unRef() of the first packet change the count of its protocol.
LEMMA FirstEffect ==
    ASSUME TypeOK, ThreadsTyped, FirstSteps
    PROVE  /\ io \in IoRecords /\ io.c \in Conns
           /\ io.loaded \in 0..(RefMod - 1)
           /\ Touches(io.c) /\ SameLife(io.c) /\ SameSocket(io.c)
           /\ conn'[io.c].connRef = conn[io.c].connRef
           /\ io' \in IoRecords /\ io'.c = io.c /\ io'.d = io.d
           /\ io'.handler = io.handler
           /\ \/ io.at = "addRef" /\ io'.at = "connect" /\ AddRef
              \/ io.at = "connect" /\ io'.at = "unRef" /\ conn' = conn
              \/ io.at = "unRef" /\ io'.at = "command" /\ UnRef
  <1>1. /\ io \in IoRecords /\ io.c \in Conns
        /\ io.loaded \in 0..(RefMod - 1)
    BY Busy DEF FirstSteps, AddRef, Connect, UnRef, IoRecords
  <1>2. conn[io.c].protoRef \in 0..(RefMod - 1)
    BY <1>1 DEF TypeOK, ConnRecords
  <1>3. /\ Incremented(conn[io.c].protoRef, io.loaded) \in 0..(RefMod - 1)
        /\ Decremented(conn[io.c].protoRef, io.loaded) \in 0..(RefMod - 1)
    BY <1>1, <1>2, RefTypes
  <1>4. "connect" \in IoSteps /\ "unRef" \in IoSteps /\ "command" \in IoSteps
    BY DEF IoSteps
  <1>5. CASE AddRef
    BY <1>1, <1>3, <1>4, <1>5, ProtoRefEffect, IoMoves DEF AddRef
  <1>6. CASE Connect
    <2>1. Touches(io.c) /\ SameLife(io.c) /\ SameSocket(io.c)
      BY <1>6 DEF Connect, TypeOK, Touches, SameLife, SameSocket
    <2>2. /\ io' \in IoRecords /\ io'.at = "unRef" /\ io'.handler = io.handler
          /\ io'.c = io.c /\ io'.d = io.d
      BY <1>1, <1>2, <1>4, <1>6 DEF Connect, IoRecords
    <2> QED
      BY <1>1, <1>6, <2>1, <2>2 DEF Connect
  <1>7. CASE UnRef
    BY <1>1, <1>3, <1>4, <1>7, ProtoRefEffect, IoMoves DEF UnRef
  <1> QED
    BY <1>5, <1>6, <1>7 DEF FirstSteps

LEMMA FirstLife ==
    ASSUME LifeInv, FirstSteps
    PROVE  LifeInv'
  <1>1. /\ io.c \in Conns /\ io' \in IoRecords
        /\ io.at \notin {"idle", "writing"} /\ io'.at # "writing"
        /\ io'.c = io.c /\ io'.d = io.d
        /\ Touches(io.c) /\ SameLife(io.c) /\ SameSocket(io.c)
    BY FirstEffect DEF LifeInv
  <1>2. Accepted(io.c) /\ Accepted(io.d)
    BY <1>1, Busy DEF LifeInv, OnlyAccepted
  <1>3. IoStep
    BY <1>1, <1>2 DEF IoStep
  <1>4. UNCHANGED <<managed, disp, tasks, retries, stops, sends>>
    BY DEF FirstSteps, AddRef, Connect, UnRef
  <1> QED
    BY <1>1, <1>2, <1>3, <1>4, QuietStep DEF LifeInv, TypeOK

\* Every step of either thread preserves LifeInv.
LEMMA NextLife == LifeInv /\ [Next]_vars => LifeInv'
  <1> SUFFICES ASSUME LifeInv, [Next]_vars PROVE LifeInv'
    OBVIOUS
  <1>1. ASSUME NEW c \in Conns, Accept(c) PROVE LifeInv'
    BY <1>1, AcceptLife
  <1>2. ASSUME NEW c \in Conns, Receive(c) PROVE LifeInv'
    <2>1. Quiet(c) /\ Accepted(c)
      BY <1>2, ReceiveEffect DEF LifeInv, Receive, Accepted
    <2>2. IoStep
      <3> DEFINE at == IF conn[c].received THEN "command" ELSE "addRef"
                 r == [at |-> at, handler |-> "packet", c |-> c, d |-> c,
                       loaded |-> conn[c].protoRef]
      <3>1. /\ conn[c].protoRef \in 0..(RefMod - 1)
            /\ at \in IoSteps /\ at # "writing"
        BY DEF LifeInv, TypeOK, ConnRecords, IoSteps
      <3> HIDE DEF at
      <3>2. r \in IoRecords /\ r.at = at /\ r.c = c /\ r.d = c
        BY <3>1 DEF IoRecords
      <3> QED
        BY <1>2, <2>1, <3>1, <3>2 DEF Receive, IoStep, at
    <2> QED
      BY <1>2, <2>1, <2>2, QuietStep DEF Receive, Quiet, LifeInv, TypeOK
  <1>3. ASSUME NEW c \in Conns, ReceiveLate(c) \/ ReceiveError(c) PROVE LifeInv'
    <2>1. RequestsClose(c) /\ SameSocket(c)
      BY <1>3, RequestEffect DEF LifeInv
    <2>2. /\ io.at = "idle" /\ io' = io /\ conn[c].read # "none"
          /\ UNCHANGED <<managed, retries, stops, disp, sends>>
      BY <1>3 DEF ReceiveLate, ReceiveError
    <2>3. Accepted(c)
      BY <2>2, ConnTypes DEF LifeInv, OnlyAccepted
    <2>4. conn'[c].pendingWrite = 0
      BY <2>1, <2>2 DEF LifeInv, NoPendingWrite, SameSocket, One
    <2> QED
      BY <2>1, <2>2, <2>3, <2>4, RequestStep
  <1>4. ASSUME NEW c \in Conns, WriteTimer(c) PROVE LifeInv'
    <2>1. /\ io.at = "idle" /\ io' = io /\ conn[c].timer # "off"
          /\ UNCHANGED <<managed, retries, stops, disp, sends>>
      BY <1>4 DEF WriteTimer
    <2>2. Accepted(c)
      BY <2>1, ConnTypes DEF LifeInv, OnlyAccepted
    <2>3. conn[c].pendingWrite = 0
      BY <2>1 DEF LifeInv, NoPendingWrite, One
    <2>4. CASE Quiet(c) /\ tasks' = tasks
      BY <2>1, <2>2, <2>4, QuietStep DEF Quiet, LifeInv, TypeOK
    <2>5. CASE RequestsClose(c) /\ conn'[c].pendingWrite = 0
      BY <2>1, <2>2, <2>5, RequestStep
    <2> QED
      BY <1>4, <2>3, <2>4, <2>5, WriteTimerEffect DEF LifeInv
  <1>5. ASSUME NEW c \in Conns, StopOperation(c) PROVE LifeInv'
    BY <1>5, StopLife
  <1>6. ASSUME NEW c \in Conns, StartWrite(c) PROVE LifeInv'
    <2>1. io \in IoRecords /\ io # IoIdle /\ Accepted(c)
      <3>1. io.at = "command" /\ conn[c].protocol = "attached"
        BY <1>6 DEF StartWrite
      <3> QED
        BY <3>1, Busy, ConnTypes DEF LifeInv, OnlyAccepted
    <2>2. io' \in IoRecords /\ io'.at = "get" /\ io'.c = io.c /\ io'.d = c
      BY <1>6, <2>1 DEF StartWrite, IoRecords, IoSteps
    <2>3. IoStep
      BY <1>6, <2>1, <2>2 DEF StartWrite, IoStep, LifeInv, OnlyAccepted
    <2>4. sends' \in 0..MaxSends
      BY <1>6, ConnectionAssumption DEF StartWrite, LifeInv, TypeOK
    <2>5. Touches(c) /\ SameLife(c) /\ SameSocket(c)
      BY <1>6 DEF StartWrite, LifeInv, TypeOK, Touches, SameLife, SameSocket
    <2> QED
      BY <1>6, <2>1, <2>3, <2>4, <2>5, QuietStep DEF StartWrite
  <1>7. ASSUME NEW c \in Conns, Disconnect(c) PROVE LifeInv'
    <2>1. RequestsClose(c) /\ SameSocket(c)
      BY <1>7, RequestEffect DEF LifeInv
    <2>2. /\ io.at = "command" /\ io' = io /\ conn[c].protocol = "attached"
          /\ UNCHANGED <<managed, retries, stops, disp, sends>>
      BY <1>7 DEF Disconnect
    <2>3. Accepted(c)
      BY <2>2, ConnTypes DEF LifeInv, OnlyAccepted
    <2>4. conn'[c].pendingWrite = 0
      BY <2>1, <2>2 DEF LifeInv, NoPendingWrite, SameSocket, One
    <2> QED
      BY <2>1, <2>2, <2>3, <2>4, RequestStep
  <1>8. CASE NextRead
    <2>1. io \in IoRecords /\ io # IoIdle
      BY <1>8, Busy DEF LifeInv, NextRead
    <2>2. io.c \in Conns /\ Accepted(io.c)
      BY <2>1 DEF IoRecords, LifeInv, OnlyAccepted
    <2>3. Quiet(io.c)
      BY <1>8, <2>2, NextReadEffect DEF LifeInv
    <2>4. IoStep
      BY <1>8 DEF NextRead, IoStep
    <2> QED
      BY <1>8, <2>2, <2>3, <2>4, QuietStep DEF NextRead, Quiet, LifeInv, TypeOK
  <1>9. CASE GetMessage \/ Configure \/ SendRefused
    <2>1. io.at \in {"get", "configure", "send"}
      BY <1>9 DEF GetMessage, Configure, SendRefused
    <2>2. io \in IoRecords /\ io # IoIdle
      BY <2>1, Busy DEF LifeInv
    <2>3. io.d \in Conns /\ io.c \in Conns /\ Accepted(io.d) /\ Accepted(io.c)
      BY <2>2 DEF IoRecords, LifeInv, OnlyAccepted
    <2>4. /\ io' \in IoRecords /\ io'.at # "writing"
          /\ io'.c = io.c /\ io'.d = io.d
      <3>1. conn[io.d].protoRef \in 0..(RefMod - 1)
        BY <2>3 DEF LifeInv, TypeOK, ConnRecords
      <3>2. CASE Configure
        BY <2>2, <3>1, <3>2 DEF Configure, IoRecords, IoSteps
      <3>3. CASE GetMessage
        BY <2>2, <3>3 DEF GetMessage, IoRecords, IoSteps
      <3>4. CASE SendRefused
        BY <2>2, <3>4 DEF SendRefused, IoRecords, IoSteps
      <3> QED
        BY <1>9, <3>2, <3>3, <3>4
    <2>5. IoStep
      BY <2>1, <2>3, <2>4 DEF IoStep
    <2>6. UNCHANGED <<conn, managed, disp, tasks, retries, stops, sends>>
      BY <1>9 DEF GetMessage, Configure, SendRefused
    <2>7. Touches(io.d) /\ SameLife(io.d) /\ SameSocket(io.d)
      BY <2>6 DEF LifeInv, TypeOK, Touches, SameLife, SameSocket
    <2> QED
      BY <2>3, <2>5, <2>6, <2>7, QuietStep DEF LifeInv, TypeOK
  <1>10. CASE RefProtocol
    <2>1. io \in IoRecords /\ io # IoIdle
      BY <1>10, Busy DEF LifeInv, RefProtocol
    <2>2. /\ io.d \in Conns /\ io.c \in Conns /\ Accepted(io.d) /\ Accepted(io.c)
          /\ io.loaded \in 0..(RefMod - 1)
      BY <2>1 DEF IoRecords, LifeInv, OnlyAccepted
    <2>3. /\ conn[io.d].protoRef \in 0..(RefMod - 1)
          /\ conn[io.d].connRef \in 0..(RefMod - 1)
      BY <2>2 DEF LifeInv, TypeOK, ConnRecords
    <2>4. Touches(io.d) /\ SameLife(io.d) /\ SameSocket(io.d)
      <3>1. Incremented(conn[io.d].protoRef, io.loaded) \in 0..(RefMod - 1)
        BY <2>2, <2>3, RefTypes
      <3> QED
        BY <1>10, <2>2, <3>1, ProtoRefEffect DEF RefProtocol, LifeInv
    <2>5. /\ io' \in IoRecords /\ io'.at # "writing"
          /\ io'.c = io.c /\ io'.d = io.d
      BY <1>10, <2>1, <2>3 DEF RefProtocol, IoRecords, IoSteps
    <2>6. IoStep
      BY <1>10, <2>2, <2>5 DEF IoStep, RefProtocol
    <2> QED
      BY <1>10, <2>2, <2>4, <2>6, QuietStep DEF RefProtocol, LifeInv, TypeOK
  <1>11. CASE RefConnection
    <2>1. io \in IoRecords /\ io # IoIdle
      BY <1>11, Busy DEF LifeInv, RefConnection
    <2>2. io.d \in Conns /\ Accepted(io.d) /\ io.loaded \in 0..(RefMod - 1)
      BY <2>1 DEF IoRecords, LifeInv, OnlyAccepted
    <2>3. conn[io.d].connRef \in 0..(RefMod - 1)
      BY <2>2 DEF LifeInv, TypeOK, ConnRecords
    <2>4. Touches(io.d) /\ SameLife(io.d) /\ SameSocket(io.d)
      <3>1. Incremented(conn[io.d].connRef, io.loaded) \in 0..(RefMod - 1)
        BY <2>2, <2>3, RefTypes
      <3> QED
        BY <1>11, <2>2, <3>1, ConnRefEffect DEF RefConnection, LifeInv
    <2>5. IoStep
      BY <1>11, IoStepFacts DEF RefConnection, IoSteps
    <2> QED
      BY <1>11, <2>2, <2>4, <2>5, QuietStep DEF RefConnection, LifeInv, TypeOK
  <1>12. CASE Send \/ WriteOk
    BY <1>12, WriteLife
  <1>13. CASE WriteFails
    <2>1. io \in IoRecords /\ io # IoIdle /\ io.at = "writing"
      BY <1>13, Busy DEF LifeInv, WriteFails
    <2>2. io.d \in Conns /\ Accepted(io.d) /\ conn[io.d].socket = "open"
      BY <2>1 DEF IoRecords, LifeInv, OnlyAccepted, StateInv
    <2>3. RequestsClose(io.d) /\ conn'[io.d].pendingWrite = 0
      BY <1>13, <2>2, WriteFailsEffect DEF LifeInv
    <2> QED
      BY <1>13, <2>1, <2>2, <2>3, RequestStep DEF WriteFails
  <1>14. CASE DropMessage
    BY <1>14, DropLife
  <1>15. CASE TakeTask
    BY <1>15, TakeLife
  <1>16. CASE CloseTask
    BY <1>16, CloseLife
  <1>17. CASE FreeMessage \/ UnrefProtocol \/ UnrefConnection
    <2>1. disp.at \in {"free", "unrefProtocol", "unrefConnection"}
      BY <1>17 DEF FreeMessage, UnrefProtocol, UnrefConnection
    <2>2. disp \in DispRecords /\ disp # DispIdle
      BY <2>1, Busy DEF LifeInv
    <2>3. /\ disp.c \in Conns /\ Accepted(disp.c)
          /\ disp.loaded \in 0..(RefMod - 1)
      BY <2>2 DEF DispRecords, LifeInv, OnlyAccepted
    <2>4. /\ conn[disp.c].protoRef \in 0..(RefMod - 1)
          /\ conn[disp.c].connRef \in 0..(RefMod - 1)
      BY <2>3 DEF LifeInv, TypeOK, ConnRecords
    <2>5. Touches(disp.c) /\ SameLife(disp.c) /\ SameSocket(disp.c)
      <3>1. /\ Decremented(conn[disp.c].protoRef, disp.loaded) \in 0..(RefMod - 1)
            /\ Decremented(conn[disp.c].connRef, disp.loaded) \in 0..(RefMod - 1)
        BY <2>3, <2>4, RefTypes
      <3>2. CASE FreeMessage
        BY <3>2 DEF FreeMessage, LifeInv, TypeOK, Touches, SameLife, SameSocket
      <3>3. CASE UnrefProtocol
        BY <2>3, <3>1, <3>3, ProtoRefEffect DEF UnrefProtocol, LifeInv
      <3>4. CASE UnrefConnection
        BY <2>3, <3>1, <3>4, ConnRefEffect DEF UnrefConnection, LifeInv
      <3> QED
        BY <1>17, <3>2, <3>3, <3>4
    <2>6. MessageStep
      <3>1. CASE FreeMessage
        <4>1. disp' \in DispRecords /\ disp'.at = "unrefProtocol"
                /\ disp'.c = disp.c
          BY <2>2, <2>4, <3>1 DEF FreeMessage, DispRecords, DispStages
        <4> QED
          BY <2>1, <2>3, <4>1 DEF MessageStep, ReleaseOps
      <3>2. CASE UnrefProtocol
        <4>1. disp' \in DispRecords /\ disp'.at = "unrefConnection"
                /\ disp'.c = disp.c
          BY <2>2, <2>4, <3>2 DEF UnrefProtocol, DispRecords, DispStages
        <4> QED
          BY <2>1, <2>3, <4>1 DEF MessageStep, ReleaseOps
      <3>3. CASE UnrefConnection
        BY <2>1, <3>3 DEF UnrefConnection, MessageStep, ReleaseOps
      <3> QED
        BY <1>17, <3>1, <3>2, <3>3
    <2>7. UNCHANGED <<managed, io, tasks, retries, stops, sends>>
      BY <1>17 DEF FreeMessage, UnrefProtocol, UnrefConnection
    <2> QED
      BY <2>3, <2>5, <2>6, <2>7, QuietStep DEF LifeInv, TypeOK
  <1>18. CASE ReleaseProtocol
    BY <1>18, ReleaseProtocolLife
  <1>19. CASE ReleaseConnection
    BY <1>19, ReleaseConnectionLife
  <1>20. ASSUME NEW op \in RetryOps, NEW c \in Conns, Retry(op, c) PROVE LifeInv'
    BY <1>20, RetryLife
  <1>22. CASE FirstSteps
    BY <1>22, FirstLife
  <1>21. CASE UNCHANGED vars
    BY <1>21
    DEF vars, LifeInv, TypeOK, ThreadsTyped, OnlyAccepted, Accepted, StateInv,
        NoPendingWrite, CloseOnce, Queued
  <1> QED
    BY <1>1, <1>2, <1>3, <1>4, <1>5, <1>6, <1>7, <1>8, <1>9, <1>10, <1>11,
       <1>12, <1>13, <1>14, <1>15, <1>16, <1>17, <1>18, <1>19, <1>20, <1>21,
       <1>22
    DEF Next, Handlers, WriteSteps, DispSteps

\* The life of a connection, whoever sends to whom and however the counts of
\* references are kept.
LEMMA LifeInductive == Spec => []LifeInv
  BY InitLife, NextLife, PTL DEF Spec

\* The connections, the tasks and the retries keep their types; the counts of
\* references stay in 32 bits.
THEOREM TypeCorrect == Spec => []TypeOK
  BY LifeInductive, PTL DEF LifeInv

\* Outside a write there is no pending one: send() never queues a message, and
\* closeConnectionTask() closes at once.
THEOREM WritesEnd == Spec => []NoPendingWrite
  BY LifeInductive, PTL DEF LifeInv

\* One close task for a connection however often closeConnection() is called,
\* and one release of it and of its protocol until they are gone, even when
\* addRef() and unRef() race and when commands act on others' connections.
THEOREM ClosesOnce == Spec => []CloseOnce
  BY LifeInductive, PTL DEF LifeInv

-----------------------------------------------------------------------------
(* What the counts mean.                                                   *)

\* The counters can count every message there may be, those that are sent and
\* the greeting, and the reference of the first packet.
CountersSuffice == AtomicRefs /\ MaxSends + 2 < RefMod

-----------------------------------------------------------------------------
(* Where a message is.                                                     *)

\* With the io thread: before it has references, with one on the protocol
\* only, which the first packet has too, and with both.
Unreferenced == {"get", "configure", "refProtocol"}
Referencing == {"refConnection", "connect", "unRef"}
Referenced == {"send", "writing", "drop"}

NoneYet(c) == One(io.at \in Unreferenced /\ io.d = c)
HalfRef(c) == One(io.at = "refConnection" /\ io.d = c)
BothRefs(c) == One(io.at \in Referenced /\ io.d = c)

\* With the dispatcher, which gives them back in the same order.
UnrefsBoth(c) == One(disp.at = "unrefProtocol" /\ disp.c = c)
UnrefsOne(c) == One(disp.at = "unrefConnection" /\ disp.c = c)

\* The messages that hold both references.
Held(c) == Queued("free", c) + UnrefsBoth(c) + BothRefs(c)

\* The counts, and a bound of the messages there are: each was counted in sends
\* or is the greeting of its connection.
RefsOf(c) ==
    /\ conn[c].protoRef = Held(c) + HalfRef(c) + FirstRef(c)
    /\ conn[c].connRef = Held(c) + UnrefsOne(c)
    /\ Held(c) + UnrefsOne(c) + HalfRef(c) + NoneYet(c)
          <= sends + One(Accepted(c))

RefInv == \A c \in Conns : RefsOf(c)

\* All these are numbers.
LEMMA Numbers ==
    ASSUME TypeOK, NEW c \in Conns
    PROVE  /\ NoneYet(c) \in 0..1 /\ HalfRef(c) \in 0..1
           /\ BothRefs(c) \in 0..1 /\ UnrefsBoth(c) \in 0..1
           /\ UnrefsOne(c) \in 0..1 /\ One(Accepted(c)) \in 0..1
           /\ FirstRef(c) \in 0..1
           /\ Queued("free", c) \in Nat /\ Held(c) \in Nat
           /\ sends \in Nat
  <1>1. /\ NoneYet(c) \in 0..1 /\ HalfRef(c) \in 0..1
        /\ BothRefs(c) \in 0..1 /\ UnrefsBoth(c) \in 0..1
        /\ UnrefsOne(c) \in 0..1 /\ One(Accepted(c)) \in 0..1
        /\ FirstRef(c) \in 0..1
    BY DEF NoneYet, HalfRef, BothRefs, UnrefsBoth, UnrefsOne, FirstRef, One
  <1>2. Queued("free", c) \in Nat
    BY QueuedType DEF TaskOps
  <1>3. sends \in Nat
    BY ConnectionAssumption DEF TypeOK
  <1> QED
    BY <1>1, <1>2, <1>3 DEF Held

\* The invariant counts what the property counts.
LEMMA RefsByPlace ==
    ASSUME TypeOK, RefInv
    PROVE  RefsMatch
  <1> SUFFICES ASSUME NEW c \in Conns
               PROVE  /\ conn[c].protoRef = ProtocolMessages(c) + FirstRef(c)
                      /\ conn[c].connRef = ConnectionMessages(c)
    BY DEF RefsMatch
  <1>1. Queued("free", c) \in Nat
    BY Numbers
  <1>2. ProtocolMessages(c) = Held(c) + HalfRef(c)
    BY <1>1 DEF ProtocolMessages, Held, HalfRef, BothRefs, UnrefsBoth, One,
                Referenced
  <1>3. ConnectionMessages(c) = Held(c) + UnrefsOne(c)
    BY <1>1 DEF ConnectionMessages, Held, UnrefsOne, BothRefs, UnrefsBoth, One,
                Referenced
  <1> QED
    BY <1>2, <1>3 DEF RefInv, RefsOf

\* What addRef() and unRef() compute when they are atomic.
LEMMA Wraps ==
    ASSUME NEW m \in Nat \ {0}, NEW x \in 0..(m - 1)
    PROVE  (x + m) % m = x /\ x % m = x
  OBVIOUS

LEMMA AtomicCounts ==
    ASSUME AtomicRefs, NEW n \in Nat, NEW loaded, n + 1 < RefMod
    PROVE  /\ Incremented(n, loaded) = n + 1
           /\ Decremented(n + 1, loaded) = n
  <1> DEFINE m == RefMod
  <1>1. m \in Nat \ {0}
    BY ConnectionAssumption
  <1>2. n + 1 < m
    OBVIOUS
  <1>3. /\ Incremented(n, loaded) = (n + 1) % m
        /\ Decremented(n + 1, loaded) = ((n + 1) + m - 1) % m
    BY DEF Incremented, Decremented
  <1> HIDE DEF m
  <1>4. (n + 1) + m - 1 = n + m /\ n \in 0..(m - 1) /\ n + 1 \in 0..(m - 1)
    BY <1>1, <1>2
  <1> QED
    BY <1>1, <1>3, <1>4, Wraps

-----------------------------------------------------------------------------
(* The steps that move a message, or none, but change no count.            *)

Kept(c) ==
    /\ SameRefs(c)
    /\ Held(c)' = Held(c)
    /\ UnrefsOne(c)' = UnrefsOne(c)
    /\ HalfRef(c)' = HalfRef(c)
    /\ FirstRef(c)' = FirstRef(c)
    /\ NoneYet(c)' = NoneYet(c)

LEMMA KeptRefs ==
    ASSUME TypeOK, NEW c \in Conns, RefsOf(c), Kept(c),
           Accepted(c) => Accepted(c)', sends' \in Nat, sends <= sends'
    PROVE  RefsOf(c)'
  <1>1. One(Accepted(c)) <= One(Accepted(c)') /\ One(Accepted(c)') \in 0..1
    BY DEF One
  <1>2. One(Accepted(c))' = One(Accepted(c)')
    BY DEF One
  <1>3. sends + One(Accepted(c)) <= sends' + One(Accepted(c))'
    BY <1>1, <1>2, Numbers
  <1> DEFINE all == Held(c) + UnrefsOne(c) + HalfRef(c) + NoneYet(c)
  <1>4. all \in Nat
    BY Numbers
  <1>5. all' = all /\ all <= sends + One(Accepted(c))
    BY DEF Kept, RefsOf
  <1> HIDE DEF all
  <1>6. all <= sends' + One(Accepted(c))'
    BY <1>1, <1>2, <1>3, <1>4, <1>5, Numbers
  <1> QED
    BY <1>5, <1>6 DEF RefsOf, Kept, SameRefs, all

\* The io thread goes on without giving or taking a reference.
LEMMA IoKeeps ==
    ASSUME NEW c \in Conns,
           \/ io' = io
           \/ /\ io.at \notin Unreferenced \cup Referencing \cup Referenced
              /\ io'.at \notin Unreferenced \cup Referencing \cup Referenced
           \/ io.at \in Unreferenced /\ io'.at \in Unreferenced /\ io'.d = io.d
           \/ io.at \in Referenced /\ io'.at \in Referenced /\ io'.d = io.d
    PROVE  /\ NoneYet(c)' = NoneYet(c)
           /\ HalfRef(c)' = HalfRef(c)
           /\ BothRefs(c)' = BothRefs(c)
           /\ FirstRef(c)' = FirstRef(c)
  BY DEF NoneYet, HalfRef, BothRefs, FirstRef, Unreferenced, Referencing,
         Referenced, One

\* The dispatcher does, and the list has the same tasks that free a message.
MessageOps == {"free", "unrefProtocol", "unrefConnection"}

LEMMA DispKeeps ==
    ASSUME NEW c \in Conns,
           \/ disp' = disp
           \/ disp.at \notin MessageOps /\ disp'.at \notin MessageOps,
           Count(tasks, Task("free", c))' = Count(tasks, Task("free", c))
    PROVE  /\ Queued("free", c)' = Queued("free", c)
           /\ UnrefsBoth(c)' = UnrefsBoth(c)
           /\ UnrefsOne(c)' = UnrefsOne(c)
  BY DEF Queued, UnrefsBoth, UnrefsOne, MessageOps, One
-----------------------------------------------------------------------------
(* What each step does to the fields of a connection that matter here.     *)

CountingSteps ==
    \/ RefProtocol \/ RefConnection \/ UnrefProtocol \/ UnrefConnection
    \/ AddRef \/ UnRef

\* A connection stays accepted.  Only closeConnectionTask() takes a protocol off
\* its connection, only a protocol without references is deleted, and only
\* addRef() and unRef() change the counts.
Evolves(c) ==
    /\ Accepted(c) => Accepted(c)'
    /\ conn[c].protocol = "attached" =>
          conn'[c].protocol = "attached" \/ (CloseTask /\ disp.c = c)
    /\ conn'[c].protocol = "deleted" =>
          conn[c].protocol = "deleted" \/ conn[c].protoRef = 0
    /\ CountingSteps \/ SameRefs(c)

\* Most steps leave the protocol, and the state but for a close, as they are.
LEMMA ProtocolKept ==
    ASSUME NEW c \in Conns, Touches(c), CountingSteps \/ SameRefs(c),
           conn'[c].protocol = conn[c].protocol,
           Accepted(c) => conn'[c].state # "NONE"
    PROVE  \A d \in Conns : Evolves(d)
  <1> TAKE d \in Conns
  <1>1. CASE d = c
    BY <1>1 DEF Evolves, Accepted
  <1>2. CASE d # c
    BY <1>2 DEF Evolves, Accepted, Touches, SameRefs
  <1> QED
    BY <1>1, <1>2

LEMMA RequestKeepsProtocol ==
    ASSUME NEW c \in Conns, RequestsClose(c)
    PROVE  \A d \in Conns : Evolves(d)
  <1>1. Accepted(c) => conn'[c].state # "NONE"
    BY DEF RequestsClose, CloseState, WillClose, Accepted
  <1> QED
    BY <1>1, ProtocolKept DEF RequestsClose

LEMMA LifeKeepsProtocol ==
    ASSUME NEW c \in Conns, Touches(c), SameLife(c), CountingSteps \/ SameRefs(c)
    PROVE  \A d \in Conns : Evolves(d)
  BY ProtocolKept DEF SameLife, Accepted

LEMMA ConnUnchanged ==
    ASSUME conn' = conn
    PROVE  \A d \in Conns : Evolves(d)
  BY DEF Evolves, Accepted, SameRefs

\* The thread that acts is in a handler, or a task, of a connection.
LEMMA AtWork ==
    ASSUME LifeInv
    PROVE  /\ io.at # "idle" => io.c \in Conns /\ io.d \in Conns
           /\ io.at = "writing" => conn[io.d].pendingWrite = 1
                                     /\ conn[io.d].socket = "open"
           /\ disp.at # "idle" => disp.c \in Conns
           /\ disp.at = "close" => /\ conn[disp.c].state = "REQUEST_CLOSE"
                                   /\ conn[disp.c].protocol = "attached"
           /\ disp.at = "releaseProtocol" => conn[disp.c].protocol = "detached"
  <1>1. /\ io.at # "idle" => io.c \in Conns /\ io.d \in Conns
        /\ disp.at # "idle" => disp.c \in Conns
    BY Busy DEF LifeInv, IoRecords, DispRecords
  <1>2. io.at = "writing" => /\ conn[io.d].pendingWrite = 1
                             /\ conn[io.d].socket = "open"
    BY <1>1 DEF LifeInv, NoPendingWrite, StateInv, One
  <1>3. ASSUME NEW op \in TaskOps, disp.at = op
        PROVE  Queued(op, disp.c) \in Nat /\ Queued(op, disp.c) # 0
    <2>1. Count(tasks, Task(op, disp.c)) \in Nat
      BY CountType DEF LifeInv, TypeOK
    <2> QED
      BY <1>3, <2>1 DEF Queued, One
  <1>4. disp.at = "close" => conn[disp.c].state = "REQUEST_CLOSE"
    BY <1>1, <1>3 DEF LifeInv, CloseOnce, TaskOps, One
  <1>5. disp.at = "releaseProtocol" => conn[disp.c].protocol = "detached"
    <2>1. SUFFICES ASSUME disp.at = "releaseProtocol",
                          conn[disp.c].protocol # "detached"
                   PROVE  FALSE
      OBVIOUS
    <2> DEFINE q == Queued("releaseProtocol", disp.c)
               r == retries["releaseProtocol"][disp.c]
    <2>2. q \in Nat /\ q # 0 /\ r \in Nat
      BY <1>1, <1>3, <2>1 DEF LifeInv, TypeOK, TaskOps, RetryOps
    <2>3. r + q = 0
      BY <1>1, <2>1 DEF LifeInv, CloseOnce, One
    <2> HIDE DEF q, r
    <2> QED
      BY <2>2, <2>3
  <1> QED
    BY <1>1, <1>2, <1>4, <1>5 DEF LifeInv, StateInv

LEMMA StepEvolves ==
    ASSUME LifeInv, [Next]_vars
    PROVE  \A d \in Conns : Evolves(d)
  <1> USE DEF LifeInv
  <1>1. ASSUME NEW c \in Conns, Accept(c) PROVE \A d \in Conns : Evolves(d)
    <2>1. Touches(c) /\ conn'[c] = NewConn /\ conn[c] = NoConn
      BY <1>1, AcceptEffect DEF Accept, OnlyAccepted, Accepted
    <2> TAKE d \in Conns
    <2>2. CASE d = c
      BY <2>1, <2>2, ConnTypes DEF Evolves, Accepted, SameRefs
    <2>3. CASE d # c
      BY <2>1, <2>3 DEF Evolves, Accepted, Touches, SameRefs
    <2> QED
      BY <2>2, <2>3
  <1>2. ASSUME NEW c \in Conns, Receive(c) PROVE \A d \in Conns : Evolves(d)
    BY <1>2, ReceiveEffect, LifeKeepsProtocol DEF Quiet
  <1>3. ASSUME NEW c \in Conns, ReceiveLate(c) \/ ReceiveError(c) \/ Disconnect(c)
        PROVE  \A d \in Conns : Evolves(d)
    BY <1>3, RequestEffect, RequestKeepsProtocol
  <1>4. ASSUME NEW c \in Conns, WriteTimer(c) PROVE \A d \in Conns : Evolves(d)
    BY <1>4, WriteTimerEffect, RequestKeepsProtocol, LifeKeepsProtocol DEF Quiet
  <1>5. ASSUME NEW c \in Conns, StopOperation(c) PROVE \A d \in Conns : Evolves(d)
    BY <1>5, StopEffect, LifeKeepsProtocol
  <1>6. CASE NextRead
    <2>1. io.c \in Conns
      BY <1>6, AtWork DEF NextRead
    <2> QED
      BY <1>6, <2>1, NextReadEffect, LifeKeepsProtocol DEF Quiet
  <1>7. CASE RefProtocol \/ RefConnection
    <2>1. io.d \in Conns /\ io.loaded \in 0..(RefMod - 1)
      BY <1>7, Busy DEF RefProtocol, RefConnection, IoRecords
    <2>2. /\ conn[io.d].protoRef \in 0..(RefMod - 1)
          /\ conn[io.d].connRef \in 0..(RefMod - 1)
      BY <2>1 DEF TypeOK, ConnRecords
    <2>3. /\ Incremented(conn[io.d].protoRef, io.loaded) \in 0..(RefMod - 1)
          /\ Incremented(conn[io.d].connRef, io.loaded) \in 0..(RefMod - 1)
      BY <2>1, <2>2, RefTypes
    <2>4. Touches(io.d) /\ SameLife(io.d)
      BY <1>7, <2>1, <2>3, ProtoRefEffect, ConnRefEffect
      DEF RefProtocol, RefConnection
    <2> QED
      BY <1>7, <2>1, <2>4, LifeKeepsProtocol DEF CountingSteps
  <1>15. CASE FirstSteps
    <2>1. /\ io.c \in Conns /\ Touches(io.c) /\ SameLife(io.c)
          /\ AddRef \/ UnRef \/ conn' = conn
      BY <1>15, FirstEffect
    <2> QED
      BY <2>1, ConnUnchanged, LifeKeepsProtocol DEF CountingSteps
  <1>8. CASE UnrefProtocol \/ UnrefConnection
    <2>1. disp.c \in Conns /\ disp.loaded \in 0..(RefMod - 1)
      BY <1>8, Busy DEF UnrefProtocol, UnrefConnection, DispRecords
    <2>2. /\ conn[disp.c].protoRef \in 0..(RefMod - 1)
          /\ conn[disp.c].connRef \in 0..(RefMod - 1)
      BY <2>1 DEF TypeOK, ConnRecords
    <2>3. /\ Decremented(conn[disp.c].protoRef, disp.loaded) \in 0..(RefMod - 1)
          /\ Decremented(conn[disp.c].connRef, disp.loaded) \in 0..(RefMod - 1)
      BY <2>1, <2>2, RefTypes
    <2>4. Touches(disp.c) /\ SameLife(disp.c)
      BY <1>8, <2>1, <2>3, ProtoRefEffect, ConnRefEffect
      DEF UnrefProtocol, UnrefConnection
    <2> QED
      BY <1>8, <2>1, <2>4, LifeKeepsProtocol DEF CountingSteps
  <1>9. CASE Send
    <2>1. io.d \in Conns
      BY <1>9, AtWork DEF Send
    <2> QED
      BY <1>9, <2>1, SendEffect, LifeKeepsProtocol
  <1>10. CASE WriteOk
    <2>1. io.d \in Conns /\ conn[io.d].pendingWrite = 1
      BY <1>10, AtWork DEF WriteOk
    <2> QED
      BY <1>10, <2>1, WriteOkEffect, LifeKeepsProtocol
  <1>11. CASE WriteFails
    <2>1. io.d \in Conns /\ conn[io.d].socket = "open"
      BY <1>11, AtWork DEF WriteFails
    <2> QED
      BY <1>11, <2>1, WriteFailsEffect, RequestKeepsProtocol
  <1>12. CASE CloseTask
    <2>1. PICK c \in Conns : c = disp.c
      BY <1>12, AtWork DEF CloseTask
    <2>2. conn[c].protocol = "attached"
      BY <1>12, <2>1, AtWork DEF CloseTask
    <2>3. /\ Touches(c) /\ SameRefs(c) /\ conn'[c].state = "CLOSED"
          /\ conn'[c].protocol =
                IF conn[c].protoRef = 0 THEN "deleted" ELSE "detached"
      <3>1. conn[c].pendingWrite = 0
        BY <1>12, <2>1, AtWork DEF CloseTask, NoPendingWrite, StateInv, One
      <3> QED
        BY <1>12, <2>1, <2>2, <3>1, CloseTaskEffect
    <2> TAKE d \in Conns
    <2>4. CASE d = c
      BY <1>12, <2>1, <2>3, <2>4 DEF Evolves, Accepted
    <2>5. CASE d # c
      BY <2>3, <2>5 DEF Evolves, Accepted, Touches, SameRefs
    <2> QED
      BY <2>4, <2>5
  <1>13. CASE ReleaseProtocol
    <2>1. PICK c \in Conns : c = disp.c
      BY <1>13, AtWork DEF ReleaseProtocol
    <2>2. CASE conn' = conn
      BY <2>2, ConnUnchanged
    <2>3. CASE /\ conn' = [conn EXCEPT ![c].protocol = "deleted"]
               /\ conn[c].protoRef = 0
      <3>1. /\ Touches(c) /\ SameRefs(c) /\ conn'[c].state = conn[c].state
            /\ conn[c].protocol = "detached"
        BY <1>13, <2>1, <2>3, DeleteEffect, AtWork DEF ReleaseProtocol
      <3> TAKE d \in Conns
      <3>2. CASE d = c
        BY <2>3, <3>1, <3>2 DEF Evolves, Accepted
      <3>3. CASE d # c
        BY <3>1, <3>3 DEF Evolves, Accepted, Touches, SameRefs
      <3> QED
        BY <3>2, <3>3
    <2> QED
      BY <1>13, <2>1, <2>2, <2>3 DEF ReleaseProtocol, ReleaseProtocolNow
  <1>14. CASE conn' = conn
    BY <1>14, ConnUnchanged
  <1> QED
    BY <1>1, <1>2, <1>3, <1>4, <1>5, <1>6, <1>7, <1>8, <1>9, <1>10, <1>11,
       <1>12, <1>13, <1>14, <1>15
    DEF Next, Handlers, WriteSteps, DispSteps, vars, StartWrite, GetMessage,
        Configure, SendRefused, DropMessage, TakeTask, FreeMessage,
        ReleaseConnection, Retry
-----------------------------------------------------------------------------
(* What each step does to the places of the messages.                      *)

Placed(c) ==
    /\ Held(c)' = Held(c)
    /\ UnrefsOne(c)' = UnrefsOne(c)
    /\ HalfRef(c)' = HalfRef(c)
    /\ FirstRef(c)' = FirstRef(c)
    /\ NoneYet(c)' = NoneYet(c)

LEMMA ThreadsKeep ==
    ASSUME NEW c \in Conns,
           NoneYet(c)' = NoneYet(c), HalfRef(c)' = HalfRef(c),
           FirstRef(c)' = FirstRef(c),
           BothRefs(c)' = BothRefs(c), UnrefsBoth(c)' = UnrefsBoth(c),
           UnrefsOne(c)' = UnrefsOne(c), Queued("free", c)' = Queued("free", c)
    PROVE  Placed(c)
  BY DEF Placed, Held

\* Closing a connection, or a retry, adds a task that frees no message.
LEMMA ClosesFreeNothing ==
    ASSUME TypeOK, NEW c \in Conns, NEW d \in Conns, tasks' = CloseTasks(d)
    PROVE  Count(tasks, Task("free", c))' = Count(tasks, Task("free", c))
  <1>1. Count(CloseTasks(d), Task("free", c)) =
           Count(tasks, Task("free", c))
              + One(WillClose(d) /\ "free" = "close" /\ c = d)
    BY CloseTasksFacts DEF TaskOps
  <1>2. Count(tasks, Task("free", c)) \in Nat
    BY CountType DEF TypeOK
  <1>3. Count(tasks', Task("free", c)) = Count(tasks, Task("free", c))
    BY <1>1, <1>2 DEF One
  <1> QED
    BY <1>3 DEF Task

LEMMA RetriesFreeNothing ==
    ASSUME TypeOK, NEW c \in Conns, NEW d \in Conns, NEW op \in RetryOps,
           tasks' = Append(tasks, Task(op, d))
    PROVE  Count(tasks, Task("free", c))' = Count(tasks, Task("free", c))
  <1>1. tasks \in Seq(Tasks) /\ Task(op, d) \in Tasks
    BY DEF TypeOK, Tasks, Task, TaskOps, RetryOps
  <1>2. Task(op, d) # Task("free", c)
    BY DEF Task, RetryOps
  <1>3. Count(tasks, Task("free", c)) \in Nat
    BY <1>1, CountType
  <1>4. Count(Append(tasks, Task(op, d)), Task("free", c)) =
           Count(tasks, Task("free", c)) + One(Task(op, d) = Task("free", c))
    BY <1>1, CountAppend
  <1>5. Count(tasks', Task("free", c)) = Count(tasks, Task("free", c))
    BY <1>2, <1>3, <1>4 DEF One
  <1> QED
    BY <1>5 DEF Task

\* Neither the tasks nor the dispatcher change.
LEMMA OnlyIo ==
    ASSUME NEW c \in Conns, tasks' = tasks, disp' = disp
    PROVE  /\ Queued("free", c)' = Queued("free", c)
           /\ UnrefsBoth(c)' = UnrefsBoth(c)
           /\ UnrefsOne(c)' = UnrefsOne(c)
  BY DEF Queued, UnrefsBoth, UnrefsOne, One, Count, Task

\* The handlers of the io thread that send nothing.
LEMMA HandlersPlaced ==
    ASSUME TypeOK, NEW c \in Conns, NEW d \in Conns,
           \/ Receive(d) \/ ReceiveLate(d) \/ ReceiveError(d) \/ WriteTimer(d)
           \/ StopOperation(d) \/ Disconnect(d) \/ NextRead
    PROVE  Placed(c)
  <1>1. disp' = disp /\ (tasks' = tasks \/ tasks' = CloseTasks(d))
    BY DEF Receive, ReceiveLate, ReceiveError, WriteTimer, StopOperation,
           Disconnect, NextRead
  <1>2. Count(tasks, Task("free", c))' = Count(tasks, Task("free", c))
    BY <1>1, ClosesFreeNothing DEF Count, Task
  <1>3. \/ io' = io
        \/ /\ io.at \in {"idle", "command", "accepted"}
           /\ io'.at \in {"idle", "addRef", "command", "accepted"}
    BY DEF Receive, ReceiveLate, ReceiveError, WriteTimer, StopOperation,
           Disconnect, NextRead, IoIdle
  <1>4. /\ NoneYet(c)' = NoneYet(c)
        /\ HalfRef(c)' = HalfRef(c)
        /\ BothRefs(c)' = BothRefs(c)
        /\ FirstRef(c)' = FirstRef(c)
    BY <1>3, IoKeeps DEF Unreferenced, Referencing, Referenced
  <1>5. /\ Queued("free", c)' = Queued("free", c)
        /\ UnrefsBoth(c)' = UnrefsBoth(c)
        /\ UnrefsOne(c)' = UnrefsOne(c)
    BY <1>1, <1>2, DispKeeps
  <1> QED
    BY <1>4, <1>5, ThreadsKeep

\* The steps of a write that take no reference.
LEMMA WritePlaced ==
    ASSUME LifeInv, NEW c \in Conns,
           \/ GetMessage \/ Configure \/ Send \/ SendRefused \/ WriteOk
           \/ WriteFails
    PROVE  Placed(c)
  <1>1. io \in IoRecords /\ io.d \in Conns
    BY Busy DEF LifeInv, GetMessage, Configure, Send, SendRefused, WriteOk,
                WriteFails, IoRecords
  <1>2. disp' = disp /\ (tasks' = tasks \/ tasks' = CloseTasks(io.d))
    BY DEF GetMessage, Configure, Send, SendRefused, WriteOk, WriteFails
  <1>3. Count(tasks, Task("free", c))' = Count(tasks, Task("free", c))
    BY <1>1, <1>2, ClosesFreeNothing DEF Count, Task, LifeInv
  <1>4. /\ io'.d = io.d
        /\ \/ io.at \in Unreferenced /\ io'.at \in Unreferenced
           \/ io.at \in Referenced /\ io'.at \in Referenced
    BY <1>1 DEF GetMessage, Configure, Send, SendRefused, WriteOk, WriteFails,
                IoRecords, Unreferenced, Referenced
  <1>5. /\ NoneYet(c)' = NoneYet(c)
        /\ HalfRef(c)' = HalfRef(c)
        /\ BothRefs(c)' = BothRefs(c)
        /\ FirstRef(c)' = FirstRef(c)
    BY <1>4, IoKeeps
  <1>6. /\ Queued("free", c)' = Queued("free", c)
        /\ UnrefsBoth(c)' = UnrefsBoth(c)
        /\ UnrefsOne(c)' = UnrefsOne(c)
    BY <1>2, <1>3, DispKeeps
  <1> QED
    BY <1>5, <1>6, ThreadsKeep

\* The dispatcher and the scheduler, but for a message that is given back.
LEMMA DispPlaced ==
    ASSUME LifeInv, NEW c \in Conns,
           \/ CloseTask \/ ReleaseProtocol \/ ReleaseConnection
           \/ \E op \in RetryOps, d \in Conns : Retry(op, d)
    PROVE  Placed(c)
  <1>1. io' = io
    BY DEF CloseTask, ReleaseProtocol, ReleaseConnection, Retry
  <1>2. \/ disp' = disp
        \/ disp.at \notin MessageOps /\ disp'.at \notin MessageOps
    BY DEF CloseTask, ReleaseProtocol, ReleaseConnection, Retry, MessageOps,
           DispIdle
  <1>3. Count(tasks, Task("free", c))' = Count(tasks, Task("free", c))
    <2>1. CASE tasks' = tasks
      BY <2>1 DEF Count, Task
    <2>2. ASSUME NEW op \in RetryOps, NEW d \in Conns, Retry(op, d)
          PROVE  Count(tasks, Task("free", c))' = Count(tasks, Task("free", c))
      BY <2>2, RetriesFreeNothing DEF Retry, LifeInv
    <2> QED
      BY <2>1, <2>2 DEF CloseTask, ReleaseProtocol, ReleaseConnection
  <1>4. /\ NoneYet(c)' = NoneYet(c)
        /\ HalfRef(c)' = HalfRef(c)
        /\ BothRefs(c)' = BothRefs(c)
        /\ FirstRef(c)' = FirstRef(c)
    BY <1>1, IoKeeps
  <1>5. /\ Queued("free", c)' = Queued("free", c)
        /\ UnrefsBoth(c)' = UnrefsBoth(c)
        /\ UnrefsOne(c)' = UnrefsOne(c)
    BY <1>2, <1>3, DispKeeps
  <1> QED
    BY <1>4, <1>5, ThreadsKeep

\* releaseMessage() hands both references to a task; the task is taken from the
\* list, and begins to give them back.
LEMMA MessagePlaced ==
    ASSUME LifeInv, NEW c \in Conns, DropMessage \/ TakeTask \/ FreeMessage
    PROVE  Placed(c)
  <1> USE DEF LifeInv
  <1>1. Queued("free", c) \in Nat
    BY Numbers
  <1>2. CASE DropMessage
    <2>1. Queued("free", c)' = Queued("free", c) + One(c = io.d)
      BY <1>2, DropCounts DEF TaskOps, One
    <2>2. /\ io \in IoRecords /\ io.at = "drop"
          /\ io'.at \in {"accepted", "command"}
      BY <1>2, Busy DEF DropMessage, IoRecords
    <2>3. /\ BothRefs(c) = One(c = io.d) /\ BothRefs(c)' = 0
          /\ NoneYet(c)' = NoneYet(c) /\ HalfRef(c)' = HalfRef(c)
          /\ FirstRef(c)' = FirstRef(c)
      BY <2>2 DEF BothRefs, NoneYet, HalfRef, FirstRef, Unreferenced,
                  Referenced, One
    <2>4. UnrefsBoth(c)' = UnrefsBoth(c) /\ UnrefsOne(c)' = UnrefsOne(c)
      BY <1>2 DEF DropMessage, UnrefsBoth, UnrefsOne, One
    <2>5. Held(c)' = Held(c)
      BY <1>1, <2>1, <2>3, <2>4, Numbers DEF Held
    <2> QED
      BY <2>3, <2>4, <2>5 DEF Placed
  <1>3. CASE TakeTask
    <2>1. Queued("free", c)' = Queued("free", c)
      BY <1>3, TakeCounts DEF TaskOps
    <2>2. disp.at = "idle" /\ disp'.at \in TaskOps
      <3>1. Head(tasks) \in Tasks
        BY <1>3, CountTail DEF TakeTask, TypeOK
      <3> QED
        BY <1>3, <3>1 DEF TakeTask, Tasks
    <2>3. UnrefsBoth(c)' = UnrefsBoth(c) /\ UnrefsOne(c)' = UnrefsOne(c)
      BY <2>2 DEF UnrefsBoth, UnrefsOne, TaskOps, One
    <2>4. /\ NoneYet(c)' = NoneYet(c)
          /\ HalfRef(c)' = HalfRef(c)
          /\ BothRefs(c)' = BothRefs(c)
          /\ FirstRef(c)' = FirstRef(c)
      BY <1>3, IoKeeps DEF TakeTask
    <2> QED
      BY <2>1, <2>3, <2>4, ThreadsKeep
  <1>4. CASE FreeMessage
    <2>1. disp \in DispRecords /\ disp.at = "free"
      BY <1>4, Busy DEF FreeMessage
    <2>2. disp'.at = "unrefProtocol" /\ disp'.c = disp.c
      BY <1>4, <2>1 DEF FreeMessage, DispRecords
    <2>3. /\ Queued("free", c) = Queued("free", c)' + One(disp.c = c)
          /\ Queued("free", c)' \in Nat
      <3>1. Count(tasks, Task("free", c)) \in Nat
        BY CountType DEF TypeOK
      <3>2. tasks' = tasks
        BY <1>4 DEF FreeMessage
      <3> QED
        BY <2>1, <2>2, <3>1, <3>2 DEF Queued, One
    <2>4. /\ UnrefsBoth(c)' = One(disp.c = c) /\ UnrefsBoth(c) = 0
          /\ UnrefsOne(c)' = UnrefsOne(c)
      BY <2>1, <2>2 DEF UnrefsBoth, UnrefsOne, One
    <2>5. /\ NoneYet(c)' = NoneYet(c)
          /\ HalfRef(c)' = HalfRef(c)
          /\ BothRefs(c)' = BothRefs(c)
          /\ FirstRef(c)' = FirstRef(c)
      BY <1>4, IoKeeps DEF FreeMessage
    <2>6. One(disp.c = c) \in Nat
      BY DEF One
    <2>7. Held(c)' = Held(c)
      BY <2>3, <2>4, <2>5, <2>6, Numbers DEF Held
    <2> QED
      BY <2>4, <2>5, <2>7 DEF Placed
  <1> QED
    BY <1>2, <1>3, <1>4
-----------------------------------------------------------------------------
(* The steps that count: a message begins, takes references, gives them    *)
(* back.                                                                   *)

LEMMA BeginsRefs ==
    ASSUME LifeInv, NEW c \in Conns, RefsOf(c), Evolves(c), NEW d \in Conns,
           Accept(d) \/ StartWrite(d)
    PROVE  RefsOf(c)'
  <1> USE DEF LifeInv
  <1>1. tasks' = tasks /\ disp' = disp
    BY DEF Accept, StartWrite
  <1>2. /\ Queued("free", c)' = Queued("free", c)
        /\ UnrefsBoth(c)' = UnrefsBoth(c)
        /\ UnrefsOne(c)' = UnrefsOne(c)
    BY <1>1, OnlyIo
  <1>3. /\ io.at \in {"idle", "command"}
        /\ io'.at = "get" /\ io'.d = d
    <2>1. CASE Accept(d)
      BY <2>1 DEF Accept, Greets
    <2>2. CASE StartWrite(d)
      BY <2>2, Busy DEF StartWrite, IoRecords
    <2> QED
      BY <2>1, <2>2
  <1>4. /\ NoneYet(c) = 0 /\ NoneYet(c)' = One(c = d)
        /\ HalfRef(c) = 0 /\ HalfRef(c)' = 0
        /\ BothRefs(c) = 0 /\ BothRefs(c)' = 0
        /\ FirstRef(c)' = FirstRef(c)
    BY <1>3 DEF NoneYet, HalfRef, BothRefs, FirstRef, Unreferenced, Referenced,
                One
  <1>5. Held(c)' = Held(c)
    BY <1>2, <1>4 DEF Held
  <1>6. SameRefs(c)
    <2>1. ~CountingSteps
      BY <1>3 DEF CountingSteps, RefProtocol, RefConnection, UnrefProtocol,
                  UnrefConnection, AddRef, UnRef
    <2> QED
      BY <2>1 DEF Evolves
  <1>7. sends + One(Accepted(c)) + One(c = d) <= sends' + One(Accepted(c))'
    <2>1. CASE Accept(d)
      <3>1. sends' = sends /\ (c = d => ~Accepted(c)) /\ Accepted(d)'
        BY <2>1, AcceptEffect, ConnTypes DEF Accept, Accepted
      <3> QED
        BY <3>1, Numbers DEF Evolves, One
    <2>2. CASE StartWrite(d)
      <3>1. sends' = sends + 1
        BY <2>2 DEF StartWrite
      <3> QED
        BY <3>1, Numbers DEF Evolves, One
    <2> QED
      BY <2>1, <2>2
  <1>8. /\ conn'[c].protoRef = Held(c)' + HalfRef(c)' + FirstRef(c)'
        /\ conn'[c].connRef = Held(c)' + UnrefsOne(c)'
    BY <1>2, <1>4, <1>5, <1>6 DEF RefsOf, SameRefs
  <1>9. Held(c)' + UnrefsOne(c)' + HalfRef(c)' + NoneYet(c)'
           <= sends' + One(Accepted(c))'
    <2>1. One(c = d) \in 0..1
      BY DEF One
    <2>2. sends' \in Nat /\ One(Accepted(c))' \in Nat
      BY Numbers DEF Accept, StartWrite, One
    <2>3. Held(c) + UnrefsOne(c) <= sends + One(Accepted(c))
      BY <1>4, Numbers DEF RefsOf
    <2> QED
      BY <1>2, <1>4, <1>5, <1>7, <2>1, <2>2, <2>3, Numbers
  <1> QED
    BY <1>8, <1>9 DEF RefsOf

\* protocol->addRef() and connection->addRef(): the counters are far from
\* their end.
LEMMA AddsRefs ==
    ASSUME CountersSuffice, LifeInv, NEW c \in Conns, RefsOf(c), Evolves(c),
           RefProtocol \/ RefConnection
    PROVE  RefsOf(c)'
  <1> USE DEF LifeInv
  <1>1. tasks' = tasks /\ disp' = disp /\ sends' = sends
    BY DEF RefProtocol, RefConnection
  <1>2. /\ Queued("free", c)' = Queued("free", c)
        /\ UnrefsBoth(c)' = UnrefsBoth(c)
        /\ UnrefsOne(c)' = UnrefsOne(c)
    BY <1>1, OnlyIo
  <1>3. /\ io \in IoRecords /\ io.d \in Conns
    BY Busy DEF RefProtocol, RefConnection, IoRecords
  <1>4. One(Accepted(c))' >= One(Accepted(c)) /\ One(Accepted(c))' \in 0..1
    BY DEF Evolves, One
  <1>5. CASE RefProtocol
    <2>1. io.at = "refProtocol" /\ io'.at = "refConnection" /\ io'.d = io.d
      BY <1>3, <1>5 DEF RefProtocol, IoRecords
    <2>2. /\ NoneYet(c) = One(c = io.d) /\ NoneYet(c)' = 0
          /\ HalfRef(c) = 0 /\ HalfRef(c)' = One(c = io.d)
          /\ BothRefs(c)' = BothRefs(c)
          /\ FirstRef(c) = 0 /\ FirstRef(c)' = 0
      BY <2>1 DEF NoneYet, HalfRef, BothRefs, FirstRef, Unreferenced,
                  Referenced, One
    <2>3. Held(c)' = Held(c)
      BY <1>2, <2>2 DEF Held
    <2>4. /\ conn'[c].protoRef = conn[c].protoRef + One(c = io.d)
          /\ conn'[c].connRef = conn[c].connRef
      <3>1. /\ conn' = [conn EXCEPT ![io.d].protoRef =
                                   Incremented(conn[io.d].protoRef, io.loaded)]
            /\ Incremented(conn[io.d].protoRef, io.loaded) \in 0..(RefMod - 1)
        <4>1. conn[io.d].protoRef \in 0..(RefMod - 1)
          BY <1>3 DEF TypeOK, ConnRecords
        <4>2. io.loaded \in 0..(RefMod - 1)
          BY <1>3 DEF IoRecords
        <4> QED
          BY <1>5, <4>1, <4>2, RefTypes DEF RefProtocol
      <3>2. /\ Touches(io.d) /\ conn'[io.d].connRef = conn[io.d].connRef
            /\ conn'[io.d].protoRef =
                   Incremented(conn[io.d].protoRef, io.loaded)
        BY <1>3, <3>1, ProtoRefEffect
      <3>3. CASE c = io.d
        <4>1. Held(c) + 1 < RefMod
          <5>1. One(c = io.d) = 1
            BY <3>3 DEF One
          <5>2. sends <= MaxSends /\ MaxSends \in Nat
            BY ConnectionAssumption DEF TypeOK
          <5> QED
            BY <2>2, <5>1, <5>2, Numbers, ConnectionAssumption
            DEF RefsOf, CountersSuffice
        <4>2. conn[c].protoRef = Held(c)
          BY <2>2, Numbers DEF RefsOf
        <4>3. Incremented(Held(c), io.loaded) = Held(c) + 1
          BY <4>1, AtomicCounts, Numbers DEF CountersSuffice
        <4> QED
          BY <3>2, <3>3, <4>2, <4>3 DEF One
      <3>4. CASE c # io.d
        <4>1. conn'[c] = conn[c] /\ conn[c].protoRef \in Nat
          BY <3>2, <3>4 DEF Touches, TypeOK, ConnRecords
        <4> QED
          BY <3>4, <4>1 DEF One
      <3> QED
        BY <3>3, <3>4
    <2>5. One(c = io.d) \in 0..1
      BY DEF One
    <2>6. /\ conn'[c].protoRef = Held(c)' + HalfRef(c)' + FirstRef(c)'
          /\ conn'[c].connRef = Held(c)' + UnrefsOne(c)'
      BY <1>2, <2>2, <2>3, <2>4, <2>5, Numbers DEF RefsOf
    <2>7. Held(c)' + UnrefsOne(c)' + HalfRef(c)' + NoneYet(c)'
             <= sends' + One(Accepted(c))'
      BY <1>1, <1>2, <1>4, <2>2, <2>3, <2>5, Numbers DEF RefsOf
    <2> QED
      BY <2>6, <2>7 DEF RefsOf
  <1>6. CASE RefConnection
    <2>1. io.at = "refConnection" /\ io'.at = "send" /\ io'.d = io.d
      BY <1>3, <1>6 DEF RefConnection, IoRecords
    <2>2. /\ NoneYet(c) = 0 /\ NoneYet(c)' = 0
          /\ HalfRef(c) = One(c = io.d) /\ HalfRef(c)' = 0
          /\ BothRefs(c) = 0 /\ BothRefs(c)' = One(c = io.d)
          /\ FirstRef(c) = 0 /\ FirstRef(c)' = 0
      BY <2>1 DEF NoneYet, HalfRef, BothRefs, FirstRef, Unreferenced,
                  Referenced, One
    <2>3. One(c = io.d) \in 0..1
      BY DEF One
    <2>4. Held(c)' = Held(c) + One(c = io.d)
      BY <1>2, <2>2, <2>3, Numbers DEF Held
    <2>5. /\ conn'[c].connRef = conn[c].connRef + One(c = io.d)
          /\ conn'[c].protoRef = conn[c].protoRef
      <3>1. /\ conn' = [conn EXCEPT ![io.d].connRef =
                                   Incremented(conn[io.d].connRef, io.loaded)]
            /\ Incremented(conn[io.d].connRef, io.loaded) \in 0..(RefMod - 1)
        <4>1. conn[io.d].connRef \in 0..(RefMod - 1)
          BY <1>3 DEF TypeOK, ConnRecords
        <4>2. io.loaded \in 0..(RefMod - 1)
          BY <1>3 DEF IoRecords
        <4> QED
          BY <1>6, <4>1, <4>2, RefTypes DEF RefConnection
      <3>2. /\ Touches(io.d) /\ conn'[io.d].protoRef = conn[io.d].protoRef
            /\ conn'[io.d].connRef =
                   Incremented(conn[io.d].connRef, io.loaded)
        BY <1>3, <3>1, ConnRefEffect
      <3>3. CASE c = io.d
        <4> DEFINE n == Held(c) + UnrefsOne(c)
        <4>1. n \in Nat /\ n + 1 < RefMod
          <5>1. One(c = io.d) = 1
            BY <3>3 DEF One
          <5>2. sends <= MaxSends /\ MaxSends \in Nat
            BY ConnectionAssumption DEF TypeOK
          <5> QED
            BY <2>2, <5>1, <5>2, Numbers, ConnectionAssumption
            DEF RefsOf, CountersSuffice
        <4>2. conn[c].connRef = n
          BY DEF RefsOf
        <4> HIDE DEF n
        <4>3. Incremented(n, io.loaded) = n + 1
          BY <4>1, AtomicCounts DEF CountersSuffice
        <4> QED
          BY <3>2, <3>3, <4>2, <4>3 DEF One
      <3>4. CASE c # io.d
        <4>1. conn'[c] = conn[c] /\ conn[c].connRef \in Nat
          BY <3>2, <3>4 DEF Touches, TypeOK, ConnRecords
        <4> QED
          BY <3>4, <4>1 DEF One
      <3> QED
        BY <3>3, <3>4
    <2>6. /\ conn'[c].protoRef = Held(c)' + HalfRef(c)' + FirstRef(c)'
          /\ conn'[c].connRef = Held(c)' + UnrefsOne(c)'
      BY <1>2, <2>2, <2>3, <2>4, <2>5, Numbers DEF RefsOf
    <2>7. Held(c)' + UnrefsOne(c)' + HalfRef(c)' + NoneYet(c)'
             <= sends' + One(Accepted(c))'
      BY <1>1, <1>2, <1>4, <2>2, <2>3, <2>4, Numbers DEF RefsOf
    <2> QED
      BY <2>6, <2>7 DEF RefsOf
  <1> QED
    BY <1>5, <1>6

\* protocol->unRef() and connection->unRef().
LEMMA GivesRefsBack ==
    ASSUME CountersSuffice, LifeInv, NEW c \in Conns, RefsOf(c), Evolves(c),
           UnrefProtocol \/ UnrefConnection
    PROVE  RefsOf(c)'
  <1> USE DEF LifeInv
  <1>1. tasks' = tasks /\ io' = io /\ sends' = sends
    BY DEF UnrefProtocol, UnrefConnection
  <1>2. /\ disp \in DispRecords /\ disp.c \in Conns
        /\ disp.loaded \in 0..(RefMod - 1)
    BY Busy DEF UnrefProtocol, UnrefConnection, DispRecords
  <1>3. /\ NoneYet(c)' = NoneYet(c) /\ HalfRef(c)' = HalfRef(c)
        /\ BothRefs(c)' = BothRefs(c) /\ FirstRef(c)' = FirstRef(c)
    BY <1>1, IoKeeps
  <1>4. One(Accepted(c))' >= One(Accepted(c)) /\ One(Accepted(c))' \in 0..1
    BY DEF Evolves, One
  <1>5. One(c = disp.c) \in 0..1
    BY DEF One
  <1>6. /\ conn[c].protoRef \in 0..(RefMod - 1)
        /\ conn[c].connRef \in 0..(RefMod - 1)
    BY DEF TypeOK, ConnRecords
  <1>7. /\ Decremented(conn[disp.c].protoRef, disp.loaded) \in 0..(RefMod - 1)
        /\ Decremented(conn[disp.c].connRef, disp.loaded) \in 0..(RefMod - 1)
    <2>1. /\ conn[disp.c].protoRef \in 0..(RefMod - 1)
          /\ conn[disp.c].connRef \in 0..(RefMod - 1)
      BY <1>2 DEF TypeOK, ConnRecords
    <2> QED
      BY <1>2, <2>1, RefTypes
  <1>8. CASE UnrefProtocol
    <2>1. /\ disp.at = "unrefProtocol" /\ disp'.at = "unrefConnection"
          /\ disp'.c = disp.c
      BY <1>2, <1>8 DEF UnrefProtocol, DispRecords
    <2>2. /\ UnrefsBoth(c) = One(c = disp.c) /\ UnrefsBoth(c)' = 0
          /\ UnrefsOne(c) = 0 /\ UnrefsOne(c)' = One(c = disp.c)
          /\ Queued("free", c)' = Queued("free", c)
      BY <1>1, <2>1 DEF UnrefsBoth, UnrefsOne, Queued, Count, Task, One
    <2>3. Held(c) = Held(c)' + One(c = disp.c) /\ Held(c)' \in Nat
      BY <1>3, <1>5, <2>2, Numbers DEF Held
    <2>4. /\ conn[c].protoRef = conn'[c].protoRef + One(c = disp.c)
          /\ conn'[c].connRef = conn[c].connRef
          /\ conn'[c].protoRef \in Nat
      <3>1. /\ Touches(disp.c) /\ conn'[disp.c].connRef = conn[disp.c].connRef
            /\ conn'[disp.c].protoRef =
                   Decremented(conn[disp.c].protoRef, disp.loaded)
        BY <1>2, <1>7, <1>8, ProtoRefEffect DEF UnrefProtocol
      <3>2. CASE c = disp.c
        <4> DEFINE n == Held(c)' + HalfRef(c) + FirstRef(c)
        <4>1. n \in Nat /\ conn[c].protoRef = n + 1 /\ n + 1 < RefMod
          <5>1. One(c = disp.c) = 1
            BY <3>2 DEF One
          <5>2. conn[c].protoRef = Held(c) + HalfRef(c) + FirstRef(c)
            BY DEF RefsOf
          <5> QED
            BY <1>6, <2>3, <5>1, <5>2, Numbers, ConnectionAssumption
        <4> HIDE DEF n
        <4>2. Decremented(n + 1, disp.loaded) = n
          BY <4>1, AtomicCounts DEF CountersSuffice
        <4> QED
          BY <3>1, <3>2, <4>1, <4>2 DEF One
      <3>3. CASE c # disp.c
        <4>1. conn'[c] = conn[c]
          BY <3>1, <3>3 DEF Touches
        <4> QED
          BY <1>6, <3>3, <4>1 DEF One
      <3> QED
        BY <3>2, <3>3
    <2>5. conn'[c].protoRef = Held(c)' + HalfRef(c)' + FirstRef(c)'
      BY <1>3, <1>5, <2>3, <2>4, Numbers DEF RefsOf
    <2>6. conn'[c].connRef = Held(c)' + UnrefsOne(c)'
      BY <1>5, <2>2, <2>3, <2>4, Numbers DEF RefsOf
    <2>7. Held(c)' + UnrefsOne(c)' + HalfRef(c)' + NoneYet(c)'
             <= sends' + One(Accepted(c))'
      BY <1>1, <1>3, <1>4, <1>5, <2>2, <2>3, Numbers DEF RefsOf
    <2> QED
      BY <2>5, <2>6, <2>7 DEF RefsOf
  <1>9. CASE UnrefConnection
    <2>1. disp.at = "unrefConnection" /\ disp'.at = "idle"
      BY <1>9 DEF UnrefConnection, DispIdle
    <2>2. /\ UnrefsBoth(c) = 0 /\ UnrefsBoth(c)' = 0
          /\ UnrefsOne(c) = One(c = disp.c) /\ UnrefsOne(c)' = 0
          /\ Queued("free", c)' = Queued("free", c)
      BY <1>1, <2>1 DEF UnrefsBoth, UnrefsOne, Queued, Count, Task, One
    <2>3. Held(c) = Held(c)'
      BY <1>3, <2>2, Numbers DEF Held
    <2>4. /\ conn[c].connRef = conn'[c].connRef + One(c = disp.c)
          /\ conn'[c].protoRef = conn[c].protoRef
          /\ conn'[c].connRef \in Nat
      <3>1. /\ Touches(disp.c)
            /\ conn'[disp.c].protoRef = conn[disp.c].protoRef
            /\ conn'[disp.c].connRef =
                   Decremented(conn[disp.c].connRef, disp.loaded)
        BY <1>2, <1>7, <1>9, ConnRefEffect DEF UnrefConnection
      <3>2. CASE c = disp.c
        <4> DEFINE n == Held(c)
        <4>1. n \in Nat /\ conn[c].connRef = n + 1 /\ n + 1 < RefMod
          <5>1. One(c = disp.c) = 1
            BY <3>2 DEF One
          <5>2. conn[c].connRef = Held(c) + UnrefsOne(c)
            BY DEF RefsOf
          <5> QED
            BY <1>6, <2>2, <5>1, <5>2, Numbers, ConnectionAssumption
        <4> HIDE DEF n
        <4>2. Decremented(n + 1, disp.loaded) = n
          BY <4>1, AtomicCounts DEF CountersSuffice
        <4> QED
          BY <3>1, <3>2, <4>1, <4>2 DEF One
      <3>3. CASE c # disp.c
        <4>1. conn'[c] = conn[c]
          BY <3>1, <3>3 DEF Touches
        <4> QED
          BY <1>6, <3>3, <4>1 DEF One
      <3> QED
        BY <3>2, <3>3
    <2>5. conn'[c].protoRef = Held(c)' + HalfRef(c)' + FirstRef(c)'
      BY <1>3, <2>3, <2>4 DEF RefsOf
    <2>6. conn'[c].connRef = Held(c)' + UnrefsOne(c)'
      BY <1>5, <2>2, <2>3, <2>4, Numbers DEF RefsOf
    <2>7. Held(c)' + UnrefsOne(c)' + HalfRef(c)' + NoneYet(c)'
             <= sends' + One(Accepted(c))'
      BY <1>1, <1>3, <1>4, <1>5, <2>2, <2>3, Numbers DEF RefsOf
    <2> QED
      BY <2>5, <2>6, <2>7 DEF RefsOf
  <1> QED
    BY <1>8, <1>9

\* addRef() and unRef() of the first packet: no message changes its place.
LEMMA FirstRefs ==
    ASSUME CountersSuffice, LifeInv, NEW c \in Conns, RefsOf(c), Evolves(c),
           FirstSteps
    PROVE  RefsOf(c)'
  <1> USE DEF LifeInv
  <1> DEFINE n == Held(c) + HalfRef(c)
  <1>1. tasks' = tasks /\ disp' = disp /\ sends' = sends
    BY DEF FirstSteps, AddRef, Connect, UnRef
  <1>2. /\ Queued("free", c)' = Queued("free", c)
        /\ UnrefsBoth(c)' = UnrefsBoth(c)
        /\ UnrefsOne(c)' = UnrefsOne(c)
    BY <1>1, OnlyIo
  <1>3. /\ io.c \in Conns /\ Touches(io.c) /\ io'.c = io.c
        /\ conn'[io.c].connRef = conn[io.c].connRef
        /\ \/ io.at = "addRef" /\ io'.at = "connect" /\ AddRef
           \/ io.at = "connect" /\ io'.at = "unRef" /\ conn' = conn
           \/ io.at = "unRef" /\ io'.at = "command" /\ UnRef
    BY FirstEffect
  <1>4. /\ NoneYet(c) = 0 /\ NoneYet(c)' = 0
        /\ HalfRef(c) = 0 /\ HalfRef(c)' = 0
        /\ BothRefs(c) = 0 /\ BothRefs(c)' = 0
    BY <1>3 DEF NoneYet, HalfRef, BothRefs, Unreferenced, Referenced, One
  <1>5. Held(c)' = Held(c)
    BY <1>2, <1>4 DEF Held
  <1>6. One(Accepted(c))' >= One(Accepted(c)) /\ One(Accepted(c))' \in 0..1
    BY DEF Evolves, One
  <1>7. conn'[c].connRef = conn[c].connRef
    BY <1>3 DEF Touches
  <1>8. n \in Nat /\ n + 1 < RefMod
    <2>1. Held(c) <= sends + One(Accepted(c))
      BY <1>4, Numbers DEF RefsOf
    <2>2. sends <= MaxSends /\ MaxSends \in Nat
      BY ConnectionAssumption DEF TypeOK
    <2> QED
      BY <1>4, <2>1, <2>2, Numbers, ConnectionAssumption DEF CountersSuffice
  <1>9. conn'[c].protoRef = n + FirstRef(c)'
    <2>1. conn[c].protoRef = n + FirstRef(c)
      BY DEF RefsOf
    <2>2. CASE c # io.c
      <3>1. FirstRef(c) = 0 /\ FirstRef(c)' = 0 /\ conn'[c] = conn[c]
        BY <1>3, <2>2 DEF FirstRef, One, Touches
      <3> QED
        BY <2>1, <3>1
    <2>3. CASE c = io.c /\ io.at = "addRef"
      <3>1. FirstRef(c) = 0 /\ FirstRef(c)' = 1 /\ AddRef
        BY <1>3, <2>3 DEF FirstRef, One
      <3>2. conn[c].protoRef = n
        BY <1>8, <2>1, <3>1
      <3>3. Incremented(n, io.loaded) = n + 1
        BY <1>8, AtomicCounts DEF CountersSuffice
      <3>4. conn' = [conn EXCEPT ![c].protoRef = n + 1]
        BY <2>3, <3>1, <3>2, <3>3 DEF AddRef
      <3> QED
        BY <1>3, <3>1, <3>4 DEF TypeOK, ConnRecords
    <2>4. CASE c = io.c /\ io.at = "connect"
      <3>1. FirstRef(c) = 1 /\ FirstRef(c)' = 1 /\ conn' = conn
        BY <1>3, <2>4 DEF FirstRef, One
      <3> QED
        BY <2>1, <3>1
    <2>5. CASE c = io.c /\ io.at = "unRef"
      <3>1. FirstRef(c) = 1 /\ FirstRef(c)' = 0 /\ UnRef
        BY <1>3, <2>5 DEF FirstRef, One
      <3>2. conn[c].protoRef = n + 1
        BY <2>1, <3>1
      <3>3. Decremented(n + 1, io.loaded) = n
        BY <1>8, AtomicCounts DEF CountersSuffice
      <3>4. conn' = [conn EXCEPT ![c].protoRef = n]
        BY <2>5, <3>1, <3>2, <3>3 DEF UnRef
      <3> QED
        BY <1>3, <1>8, <3>1, <3>4 DEF TypeOK, ConnRecords
    <2> QED
      BY <1>3, <2>2, <2>3, <2>4, <2>5
  <1>10. /\ conn'[c].protoRef = Held(c)' + HalfRef(c)' + FirstRef(c)'
         /\ conn'[c].connRef = Held(c)' + UnrefsOne(c)'
    BY <1>2, <1>4, <1>5, <1>7, <1>9 DEF RefsOf
  <1>11. Held(c)' + UnrefsOne(c)' + HalfRef(c)' + NoneYet(c)'
            <= sends' + One(Accepted(c))'
    BY <1>1, <1>2, <1>4, <1>5, <1>6, Numbers DEF RefsOf
  <1> QED
    BY <1>10, <1>11 DEF RefsOf

\* At the start nothing is referred to.
LEMMA InitRefs == Init => RefInv
  <1> SUFFICES ASSUME Init, NEW c \in Conns PROVE RefsOf(c)
    BY DEF RefInv
  <1>1. conn[c] = NoConn /\ ~Accepted(c)
    BY ConnTypes DEF Init, Accepted
  <1>2. io.at = "idle" /\ disp.at = "idle" /\ sends = 0
    BY DEF Init, IoIdle, DispIdle
  <1>3. Count(tasks, Task("free", c)) = 0
    <2>1. tasks = <<>> /\ tasks \in Seq(Tasks)
      BY DEF Init
    <2> QED
      BY <2>1, CountType
  <1>4. /\ Held(c) = 0 /\ UnrefsOne(c) = 0 /\ HalfRef(c) = 0 /\ NoneYet(c) = 0
        /\ FirstRef(c) = 0
    BY <1>2, <1>3 DEF Held, Queued, UnrefsOne, UnrefsBoth, HalfRef, NoneYet,
                      BothRefs, FirstRef, Unreferenced, Referenced, One
  <1>5. One(Accepted(c)) \in Nat
    BY DEF One
  <1> QED
    BY <1>1, <1>2, <1>4, <1>5, ConnTypes DEF RefsOf

LEMMA NextRefs ==
    ASSUME CountersSuffice, LifeInv, RefInv, [Next]_vars, LifeInv'
    PROVE  RefInv'
  <1> SUFFICES ASSUME NEW c \in Conns PROVE RefsOf(c)'
    BY DEF RefInv
  <1>1. RefsOf(c) /\ Evolves(c)
    BY StepEvolves DEF RefInv
  <1>2. ASSUME NEW d \in Conns, Accept(d) \/ StartWrite(d) PROVE RefsOf(c)'
    BY <1>1, <1>2, BeginsRefs
  <1>3. CASE RefProtocol \/ RefConnection
    BY <1>1, <1>3, AddsRefs
  <1>4. CASE UnrefProtocol \/ UnrefConnection
    BY <1>1, <1>4, GivesRefsBack
  <1>5. ASSUME Placed(c), ~CountingSteps, sends' = sends PROVE RefsOf(c)'
    <2>1. Kept(c)
      BY <1>1, <1>5 DEF Kept, Placed, Evolves
    <2>2. sends \in Nat
      BY Numbers DEF LifeInv
    <2> QED
      BY <1>1, <1>5, <2>1, <2>2, KeptRefs DEF LifeInv, Evolves
  <1>12. CASE FirstSteps
    BY <1>1, <1>12, FirstRefs
  <1>6. CASE CountingSteps
    BY <1>3, <1>4, <1>6, <1>12 DEF CountingSteps, FirstSteps
  <1>7. ASSUME NEW d \in Conns,
               \/ Receive(d) \/ ReceiveLate(d) \/ ReceiveError(d) \/ WriteTimer(d)
               \/ StopOperation(d) \/ Disconnect(d) \/ NextRead
        PROVE  RefsOf(c)'
    <2>1. sends' = sends
      BY <1>7 DEF Receive, ReceiveLate, ReceiveError, WriteTimer,
                  StopOperation, Disconnect, NextRead
    <2> QED
      BY <1>5, <1>6, <1>7, <2>1, HandlersPlaced DEF LifeInv
  <1>8. CASE \/ GetMessage \/ Configure \/ Send \/ SendRefused \/ WriteOk
             \/ WriteFails
    <2>1. sends' = sends
      BY <1>8 DEF GetMessage, Configure, Send, SendRefused, WriteOk, WriteFails
    <2> QED
      BY <1>5, <1>6, <1>8, <2>1, WritePlaced
  <1>9. CASE \/ CloseTask \/ ReleaseProtocol \/ ReleaseConnection
             \/ \E op \in RetryOps, d \in Conns : Retry(op, d)
    <2>1. sends' = sends
      BY <1>9 DEF CloseTask, ReleaseProtocol, ReleaseConnection, Retry
    <2> QED
      BY <1>5, <1>6, <1>9, <2>1, DispPlaced
  <1>10. CASE DropMessage \/ TakeTask \/ FreeMessage
    <2>1. sends' = sends
      BY <1>10 DEF DropMessage, TakeTask, FreeMessage
    <2> QED
      BY <1>5, <1>6, <1>10, <2>1, MessagePlaced
  <1>11. CASE UNCHANGED vars
    <2>1. /\ NoneYet(c)' = NoneYet(c) /\ HalfRef(c)' = HalfRef(c)
          /\ BothRefs(c)' = BothRefs(c) /\ Queued("free", c)' = Queued("free", c)
          /\ UnrefsBoth(c)' = UnrefsBoth(c) /\ UnrefsOne(c)' = UnrefsOne(c)
          /\ FirstRef(c)' = FirstRef(c)
      BY <1>11, IoKeeps, OnlyIo DEF vars
    <2> QED
      BY <1>5, <1>6, <1>11, <2>1, ThreadsKeep DEF vars
  <1> QED
    BY <1>2, <1>3, <1>4, <1>7, <1>8, <1>9, <1>10, <1>11, <1>12
    DEF Next, Handlers, WriteSteps, DispSteps

\* The counts of references are those of the messages under way: while a
\* message is with a thread or in a task, neither the protocol nor the
\* connection it is for looks unused to releaseProtocol() and
\* releaseConnection().
THEOREM CountsMatch ==
    ASSUME CountersSuffice
    PROVE  Spec => []RefsMatch
  <1>1. LifeInv /\ RefInv /\ [Next]_vars => (LifeInv /\ RefInv)'
    BY NextLife, NextRefs
  <1>2. LifeInv /\ RefInv => RefsMatch
    BY RefsByPlace DEF LifeInv
  <1> QED
    BY <1>1, <1>2, InitLife, InitRefs, PTL DEF Spec
-----------------------------------------------------------------------------
(* Without commands that act on others, the lock keeps the close away.     *)

UsingSteps == {"addRef", "connect", "unRef",
               "get", "configure", "refProtocol", "refConnection", "send"}

\* A handler only sends to the connection it was called for.  A packet's handler
\* holds its lock; for the greeting there is none, but nobody has read from the
\* connection yet and so nobody can have asked for its close.
OwnConnection ==
    /\ io.at # "idle" => io.d = io.c
    /\ io.at \in {"addRef", "connect", "unRef", "command"} =>
          io.handler = "packet"
    /\ io.at \in UsingSteps /\ io.handler = "accept" =>
          conn[io.d].state = "OPEN"
    /\ io.at \in UsingSteps => conn[io.d].protocol = "attached"

\* A step of the io thread that begins or continues a message.
LEMMA SendsOn ==
    ASSUME LifeInv, OwnConnection, io.at \in UsingSteps,
           io'.c = io.c, io'.d = io.d, io'.handler = io.handler,
           io'.at # "idle", io'.at # "command" \/ io.handler = "packet",
           io'.at \in {"addRef", "connect", "unRef"} => io.handler = "packet",
           conn'[io.d].state = conn[io.d].state,
           conn'[io.d].protocol = conn[io.d].protocol
    PROVE  OwnConnection'
  BY DEF OwnConnection, UsingSteps

\* While the io thread sends, the others leave the connection's protocol, and
\* the state of a connection that has only been greeted.
LEMMA OthersStep ==
    ASSUME OwnConnection, io' = io,
           io.at \in UsingSteps =>
              /\ conn'[io.d].protocol = "attached"
              /\ io.handler = "accept" => conn'[io.d].state = "OPEN"
    PROVE  OwnConnection'
  BY DEF OwnConnection, UsingSteps

LEMMA NextOwn ==
    ASSUME ~CrossTalk, LifeInv, OwnConnection, [Next]_vars
    PROVE  OwnConnection'
  <1> USE DEF LifeInv
  <1>1. ASSUME NEW c \in Conns, Accept(c) PROVE OwnConnection'
    <2>1. conn'[c].state = "OPEN" /\ conn'[c].protocol = "attached"
      BY <1>1, AcceptEffect, ConnTypes
    <2>2. /\ io'.at = "get" /\ io'.handler = "accept"
          /\ io'.c = c /\ io'.d = c
      BY <1>1 DEF Accept, Greets
    <2> QED
      BY <2>1, <2>2 DEF OwnConnection, UsingSteps
  <1>2. ASSUME NEW c \in Conns, Receive(c) PROVE OwnConnection'
    <2>1. /\ io'.at \in {"addRef", "command"} /\ io'.handler = "packet"
          /\ io'.c = c /\ io'.d = c
      BY <1>2 DEF Receive
    <2>2. conn'[c].protocol = "attached"
      BY <1>2, ReceiveEffect DEF Receive, Quiet, SameLife, StateInv
    <2> QED
      BY <2>1, <2>2 DEF OwnConnection, UsingSteps
  <1>3. ASSUME NEW c \in Conns,
               \/ ReceiveLate(c) \/ ReceiveError(c) \/ WriteTimer(c)
               \/ StopOperation(c) \/ Disconnect(c)
        PROVE  OwnConnection'
    <2>1. io' = io /\ io.at \in {"idle", "command"}
      BY <1>3 DEF ReceiveLate, ReceiveError, WriteTimer, StopOperation,
                  Disconnect
    <2> QED
      BY <2>1, OthersStep DEF UsingSteps
  <1>4. ASSUME NEW c \in Conns, StartWrite(c) PROVE OwnConnection'
    <2>1. io \in IoRecords /\ io.at = "command" /\ io.handler = "packet"
      BY <1>4, Busy DEF StartWrite, OwnConnection
    <2>2. c = io.c /\ conn'[c] = conn[c] /\ conn[c].protocol = "attached"
      BY <1>4 DEF StartWrite
    <2>3. /\ io'.at = "get" /\ io'.handler = "packet"
          /\ io'.c = io.c /\ io'.d = c
      BY <1>4, <2>1 DEF StartWrite, IoRecords
    <2> QED
      BY <2>2, <2>3 DEF OwnConnection, UsingSteps
  <1>5. CASE NextRead
    <2>1. io'.at = "idle"
      BY <1>5 DEF NextRead, IoIdle
    <2> QED
      BY <2>1 DEF OwnConnection, UsingSteps
  <1>6. CASE GetMessage \/ Configure \/ SendRefused
    <2>1. io \in IoRecords /\ io.at \in UsingSteps
      BY <1>6, Busy DEF GetMessage, Configure, SendRefused, UsingSteps
    <2>2. /\ io'.c = io.c /\ io'.d = io.d /\ io'.handler = io.handler
          /\ io'.at \in {"configure", "refProtocol", "drop"} /\ conn' = conn
      BY <1>6, <2>1 DEF GetMessage, Configure, SendRefused, IoRecords
    <2> QED
      BY <2>1, <2>2, SendsOn
  <1>7. CASE RefProtocol \/ RefConnection
    <2>1. io \in IoRecords /\ io.at \in UsingSteps /\ io.d \in Conns
      BY <1>7, Busy DEF RefProtocol, RefConnection, UsingSteps, IoRecords
    <2>2. /\ io'.c = io.c /\ io'.d = io.d /\ io'.handler = io.handler
          /\ io'.at \in {"refConnection", "send"}
      BY <1>7, <2>1 DEF RefProtocol, RefConnection, IoRecords
    <2>3. SameLife(io.d)
      <3>1. /\ io.loaded \in 0..(RefMod - 1)
            /\ conn[io.d].protoRef \in 0..(RefMod - 1)
            /\ conn[io.d].connRef \in 0..(RefMod - 1)
        BY <2>1 DEF IoRecords, TypeOK, ConnRecords
      <3>2. /\ Incremented(conn[io.d].protoRef, io.loaded) \in 0..(RefMod - 1)
            /\ Incremented(conn[io.d].connRef, io.loaded) \in 0..(RefMod - 1)
        BY <3>1, RefTypes
      <3> QED
        BY <1>7, <2>1, <3>2, ProtoRefEffect, ConnRefEffect
        DEF RefProtocol, RefConnection
    <2> QED
      BY <2>1, <2>2, <2>3, SendsOn DEF SameLife
  <1>8. CASE Send
    <2>1. io \in IoRecords /\ io.at = "send" /\ io.d \in Conns
      BY <1>8, Busy DEF Send, IoRecords
    <2>2. /\ io'.c = io.c /\ io'.d = io.d /\ io'.handler = io.handler
          /\ io'.at = "writing"
      BY <1>8, <2>1 DEF Send, IoRecords
    <2>3. SameLife(io.d)
      BY <1>8, <2>1, SendEffect
    <2> QED
      BY <2>1, <2>2, <2>3, SendsOn DEF SameLife, UsingSteps
  <1>9. CASE WriteOk \/ WriteFails
    <2>1. io \in IoRecords /\ io.at = "writing"
      BY <1>9, Busy DEF WriteOk, WriteFails
    <2>2. io'.c = io.c /\ io'.d = io.d /\ io'.at = "drop"
      BY <1>9, <2>1 DEF WriteOk, WriteFails, IoRecords
    <2> QED
      BY <2>1, <2>2 DEF OwnConnection, UsingSteps
  <1>10. CASE DropMessage
    <2>1. io \in IoRecords /\ io.at = "drop"
      BY <1>10, Busy DEF DropMessage
    <2>2. /\ io'.c = io.c /\ io'.d = io.d /\ io'.handler = io.handler
          /\ io'.at = IF io.handler = "accept" THEN "accepted" ELSE "command"
      BY <1>10, <2>1 DEF DropMessage, IoRecords
    <2>3. io.handler \in {"accept", "packet"}
      BY <2>1 DEF IoRecords
    <2> QED
      BY <2>1, <2>2, <2>3 DEF OwnConnection, UsingSteps
  <1>11. CASE CloseTask
    <2>1. io' = io /\ disp.at = "close"
      BY <1>11 DEF CloseTask
    <2>2. PICK c \in Conns : c = disp.c
      BY <2>1, AtWork
    <2>3. conn[c].state = "REQUEST_CLOSE"
      BY <1>11, <2>2 DEF CloseTask
    <2>4. \A d \in Conns \ {c} : conn'[d] = conn[d]
      BY <1>11, <2>2 DEF CloseTask, TypeOK
    <2>5. ASSUME io.at \in UsingSteps PROVE io.d \in Conns \ {c}
      <3>1. io.d \in Conns /\ io.d = io.c /\ io.handler \in {"accept", "packet"}
        BY <2>5, Busy DEF UsingSteps, OwnConnection, IoRecords
      <3>2. CASE io.handler = "accept"
        BY <2>3, <2>5, <3>1, <3>2 DEF OwnConnection
      <3>3. CASE io.handler = "packet"
        <4>1. IoLocks(io.c)
          BY <2>5, <3>3 DEF IoLocks, UsingSteps
        <4> QED
          BY <1>11, <2>2, <3>1, <4>1 DEF CloseTask
      <3> QED
        BY <3>1, <3>2, <3>3
    <2> QED
      BY <2>1, <2>4, <2>5, OthersStep DEF OwnConnection,
                                          UsingSteps
  <1>12. CASE ReleaseProtocol
    <2>1. io' = io /\ disp.at = "releaseProtocol"
      BY <1>12 DEF ReleaseProtocol
    <2>2. PICK c \in Conns : c = disp.c
      BY <2>1, AtWork
    <2>3. conn[c].protocol = "detached"
      BY <2>1, <2>2, AtWork
    <2>4. \A d \in Conns \ {c} : conn'[d] = conn[d]
      BY <1>12, <2>2 DEF ReleaseProtocol, TypeOK
    <2>5. ASSUME io.at \in UsingSteps PROVE io.d \in Conns \ {c}
      BY <2>3, <2>5, Busy DEF UsingSteps, OwnConnection,
                             IoRecords
    <2> QED
      BY <2>1, <2>4, <2>5, OthersStep DEF OwnConnection,
                                          UsingSteps
  <1>13. CASE UnrefProtocol \/ UnrefConnection
    <2>1. io' = io /\ disp.c \in Conns /\ disp.loaded \in 0..(RefMod - 1)
      BY <1>13, Busy DEF UnrefProtocol, UnrefConnection, DispRecords
    <2>2. Touches(disp.c) /\ SameLife(disp.c)
      <3>1. /\ conn[disp.c].protoRef \in 0..(RefMod - 1)
            /\ conn[disp.c].connRef \in 0..(RefMod - 1)
        BY <2>1 DEF TypeOK, ConnRecords
      <3>2. /\ Decremented(conn[disp.c].protoRef, disp.loaded) \in 0..(RefMod - 1)
            /\ Decremented(conn[disp.c].connRef, disp.loaded) \in 0..(RefMod - 1)
        BY <2>1, <3>1, RefTypes
      <3> QED
        BY <1>13, <2>1, <3>2, ProtoRefEffect, ConnRefEffect
        DEF UnrefProtocol, UnrefConnection
    <2>3. \A d \in Conns : /\ conn'[d].state = conn[d].state
                           /\ conn'[d].protocol = conn[d].protocol
      BY <2>2 DEF Touches, SameLife
    <2>4. io.at \in UsingSteps => io.d \in Conns
      BY Busy DEF UsingSteps, IoRecords
    <2> QED
      BY <2>1, <2>3, <2>4, OthersStep DEF OwnConnection,
                                          UsingSteps
  <1>15. CASE FirstSteps
    <2>1. /\ io.c \in Conns /\ SameLife(io.c)
          /\ io'.c = io.c /\ io'.d = io.d /\ io'.handler = io.handler
          /\ io.at \in {"addRef", "connect", "unRef"}
          /\ io'.at \in {"connect", "unRef", "command"}
      BY <1>15, FirstEffect
    <2>2. io.d = io.c /\ io.handler = "packet"
      BY <2>1 DEF OwnConnection
    <2> QED
      BY <2>1, <2>2, SendsOn DEF SameLife, UsingSteps
  <1>14. CASE conn' = conn /\ io' = io
    BY <1>14, OthersStep DEF OwnConnection, UsingSteps
  <1> QED
    BY <1>1, <1>2, <1>3, <1>4, <1>5, <1>6, <1>7, <1>8, <1>9, <1>10, <1>11,
       <1>12, <1>13, <1>14, <1>15
    DEF Next, Handlers, WriteSteps, DispSteps, vars, TakeTask, FreeMessage,
        ReleaseConnection, Retry

LEMMA InitOwn == Init => OwnConnection
  BY DEF Init, IoIdle, OwnConnection, UsingSteps

\* "assert(connection!=nullptr)" (configureOutputMessage): a command that only
\* acts on its own connection never loses it between its check of the client
\* and the send.  This needs no assumption about the counts.
THEOREM ConnectionStays ==
    ASSUME ~CrossTalk
    PROVE  Spec => []ConnectionPresent
  <1>1. LifeInv /\ OwnConnection /\ [Next]_vars => (LifeInv /\ OwnConnection)'
    BY NextLife, NextOwn
  <1>2. OwnConnection => ConnectionPresent
    BY DEF OwnConnection, ConnectionPresent, UsingSteps
  <1> QED
    BY <1>1, <1>2, InitLife, InitOwn, PTL DEF Spec
-----------------------------------------------------------------------------
(* So a deleted protocol is referred to by none.                           *)

DeletedUnused ==
    \A c \in Conns : conn[c].protocol = "deleted" => conn[c].protoRef = 0

\* A message takes its reference while the protocol is attached, and gives back
\* a reference that is counted.
LEMMA NextDeleted ==
    ASSUME CountersSuffice, LifeInv, RefInv, OwnConnection, DeletedUnused,
           [Next]_vars
    PROVE  DeletedUnused'
  <1> USE DEF LifeInv
  <1> SUFFICES ASSUME NEW c \in Conns, conn'[c].protocol = "deleted"
               PROVE  conn'[c].protoRef = 0
    BY DEF DeletedUnused
  <1>1. conn[c].protoRef = 0 /\ (CountingSteps \/ SameRefs(c))
    BY StepEvolves DEF Evolves, DeletedUnused
  <1>2. CASE SameRefs(c)
    BY <1>1, <1>2 DEF SameRefs
  <1>3. CASE RefProtocol \/ RefConnection
    <2>1. io \in IoRecords /\ io.d \in Conns /\ io.loaded \in 0..(RefMod - 1)
      BY <1>3, Busy DEF RefProtocol, RefConnection, IoRecords
    <2>2. conn[io.d].protocol = "attached"
      BY <1>3 DEF RefProtocol, RefConnection, OwnConnection, UsingSteps
    <2>3. Touches(io.d) /\ SameLife(io.d)
      <3>1. /\ conn[io.d].protoRef \in 0..(RefMod - 1)
            /\ conn[io.d].connRef \in 0..(RefMod - 1)
        BY <2>1 DEF TypeOK, ConnRecords
      <3>2. /\ Incremented(conn[io.d].protoRef, io.loaded) \in 0..(RefMod - 1)
            /\ Incremented(conn[io.d].connRef, io.loaded) \in 0..(RefMod - 1)
        BY <2>1, <3>1, RefTypes
      <3> QED
        BY <1>3, <2>1, <3>2, ProtoRefEffect, ConnRefEffect
        DEF RefProtocol, RefConnection
    <2> QED
      BY <1>1, <2>2, <2>3 DEF Touches, SameLife
  <1>4. CASE UnrefProtocol \/ UnrefConnection
    <2>1. /\ disp \in DispRecords /\ disp.c \in Conns
          /\ disp.loaded \in 0..(RefMod - 1)
      BY <1>4, Busy DEF UnrefProtocol, UnrefConnection, DispRecords
    <2>2. /\ conn[disp.c].protoRef \in 0..(RefMod - 1)
          /\ conn[disp.c].connRef \in 0..(RefMod - 1)
      BY <2>1 DEF TypeOK, ConnRecords
    <2>3. /\ Decremented(conn[disp.c].protoRef, disp.loaded) \in 0..(RefMod - 1)
          /\ Decremented(conn[disp.c].connRef, disp.loaded) \in 0..(RefMod - 1)
      BY <2>1, <2>2, RefTypes
    <2>4. CASE UnrefConnection
      <3>1. /\ Touches(disp.c)
            /\ conn'[disp.c].protoRef = conn[disp.c].protoRef
        BY <2>1, <2>3, <2>4, ConnRefEffect DEF UnrefConnection
      <3> QED
        BY <1>1, <3>1 DEF Touches
    <2>5. CASE UnrefProtocol
      <3>1. c # disp.c
        <4>1. /\ Held(c) = 0
              /\ Queued("free", c) \in Nat /\ UnrefsBoth(c) \in Nat
              /\ BothRefs(c) \in Nat
          BY <1>1, Numbers DEF RefInv, RefsOf
        <4>2. UnrefsBoth(c) = 0
          BY <4>1 DEF Held
        <4> QED
          BY <2>5, <4>2 DEF UnrefProtocol, UnrefsBoth, One
      <3>2. Touches(disp.c)
        BY <2>1, <2>3, <2>5, ProtoRefEffect DEF UnrefProtocol
      <3> QED
        BY <1>1, <3>1, <3>2 DEF Touches
    <2> QED
      BY <1>4, <2>4, <2>5
  <1>5. CASE AddRef \/ UnRef
    <2>1. /\ io.c \in Conns /\ Touches(io.c) /\ SameLife(io.c)
          /\ io.at \in {"addRef", "unRef"}
      BY <1>5, FirstEffect DEF FirstSteps, AddRef, UnRef
    <2>2. conn[io.c].protocol = "attached" /\ c # io.c
      BY <2>1 DEF OwnConnection, UsingSteps, SameLife
    <2> QED
      BY <1>1, <2>1, <2>2 DEF Touches
  <1> QED
    BY <1>1, <1>2, <1>3, <1>4, <1>5 DEF CountingSteps

\* "assert(m_refCount==0)" (Protocol::deleteProtocolTask), for good: once a
\* protocol is deleted, no message that is with a thread or in a task is its.
THEOREM ProtocolsAreReleased ==
    ASSUME CountersSuffice, ~CrossTalk
    PROVE  Spec => []NoDanglingProtocol
  <1> DEFINE Inv == LifeInv /\ RefInv /\ OwnConnection /\ DeletedUnused
  <1>1. Init => Inv
    <2>1. Init => DeletedUnused
      BY ConnTypes DEF Init, DeletedUnused
    <2> QED
      BY <2>1, InitLife, InitRefs, InitOwn
  <1>2. Inv /\ [Next]_vars => Inv'
    BY NextLife, NextRefs, NextOwn, NextDeleted
  <1>3. Inv => NoDanglingProtocol
    BY RefsByPlace DEF LifeInv, RefsMatch, DeletedUnused, NoDanglingProtocol
  <1> QED
    BY <1>1, <1>2, <1>3, PTL DEF Spec
===============================================================================
