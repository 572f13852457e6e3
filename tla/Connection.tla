----------------------------- MODULE Connection -----------------------------
(***************************************************************************)
(* The life of a connection: Network/Connection, ConnectionManager, the    *)
(* release of Protocol (Telnet) and the reference counts that              *)
(* OutputMessagePool keeps on both.                                        *)
(*                                                                         *)
(* Two threads share a connection.  The io thread runs the handlers of     *)
(* io_service one at a time: accepting, reading (with the command          *)
(* processing that a packet causes), the handler of the write timer and    *)
(* onStopOperation.  The dispatcher thread runs the tasks: closing,        *)
(* releasing a message, and the retries that the scheduler forwards.       *)
(* m_connectionLock is held by the io thread while it handles a packet     *)
(* and, for the connection it sends to, while it writes; what the          *)
(* dispatcher does under the lock is one action.                           *)
(*                                                                         *)
(* A connection and the protocol made for it are one record; the           *)
(* OutputMessage a thread works on is known by the connection it is for,   *)
(* as the pool grows when it is empty.                                     *)
(*                                                                         *)
(* Definitions marked "Variant" are not part of the specification: each is *)
(* the definition after it with a plausible bug, which some property finds.*)
(***************************************************************************)
EXTENDS Naturals, Sequences, FiniteSets

CONSTANTS
    Conns,          \* the connections that are accepted
    Peers,          \* those whose peer reads what it is sent
    CrossTalk,      \* commands also act on other users' connections
    AtomicRefs,     \* suppose that addRef and unRef were atomic
    RefMod,         \* 2^32, the modulus of m_refCount
    MaxSends        \* bound: how many messages are sent after the greetings

ASSUME ConnectionAssumption ==
    /\ Peers \subseteq Conns
    /\ CrossTalk \in BOOLEAN
    /\ AtomicRefs \in BOOLEAN
    /\ RefMod \in Nat \ {0, 1}
    /\ MaxSends \in Nat

VARIABLES
    conn,       \* the fields of each Connection and of its Protocol
    managed,    \* ConnectionManager::m_connections
    io,         \* the io thread: the handler it is in, and where
    disp,       \* the dispatcher thread: the task it executes, and where
    tasks,      \* the dispatcher's list
    retries,    \* the scheduler's events: how many of each
    stops,      \* onStopOperation handlers posted to io_service
    sends       \* messages sent so far, at most MaxSends

vars == <<conn, managed, io, disp, tasks, retries, stops, sends>>

TaskOps == {"close", "free", "releaseProtocol", "releaseConnection"}
RetryOps == {"releaseProtocol", "releaseConnection"}
Task(op, c) == [op |-> op, c |-> c]

NoConn == [state |-> "NONE", socket |-> "none", protocol |-> "none",
           protoRef |-> 0, connRef |-> 0, pendingWrite |-> 0,
           writeError |-> FALSE, readError |-> FALSE, received |-> FALSE,
           read |-> "none", timer |-> "off"]

NewConn == [NoConn EXCEPT !.state = "OPEN", !.socket = "open",
                          !.protocol = "attached"]

IoIdle == [at |-> "idle"]
DispIdle == [at |-> "idle"]

Init ==
    /\ conn = [c \in Conns |-> NoConn]
    /\ managed = {}
    /\ io = IoIdle
    /\ disp = DispIdle
    /\ tasks = <<>>
    /\ retries = [op \in RetryOps |-> [c \in Conns |-> 0]]
    /\ stops = [c \in Conns |-> 0]
    /\ sends = 0

-----------------------------------------------------------------------------
(* Parts of the handlers.                                                  *)

\* Variant: closeConnection() only looks for CONNECTION_STATE_REQUEST_CLOSE.
WillCloseAgain(c) == conn[c].state # "REQUEST_CLOSE"

\* closeConnection(): from any state but these two it asks for the close and
\* hands one closeConnectionTask to the dispatcher.
WillClose(c) == conn[c].state \notin {"CLOSED", "REQUEST_CLOSE"}

CloseState(c) == IF WillClose(c) THEN "REQUEST_CLOSE" ELSE conn[c].state

CloseTasks(c) ==
    IF WillClose(c) THEN Append(tasks, Task("close", c)) ELSE tasks

\* Variant: closeSocket() counts one write off instead of all.
CloseSocketCounts(r) ==
    IF r.socket # "open" THEN r
    ELSE [r EXCEPT !.socket = "closed", !.pendingWrite = @ - 1,
                   !.read = IF @ = "pending" THEN "aborted" ELSE @]

\* closeSocket(): a read that is outstanding will be aborted.
CloseSocket(r) ==
    IF r.socket # "open" THEN r
    ELSE [r EXCEPT !.socket = "closed", !.pendingWrite = 0,
                   !.read = IF @ = "pending" THEN "aborted" ELSE @]

\* m_refCount is a plain uint32_t: ++ and -- load it and store it later.
Incremented(now, loaded) == ((IF AtomicRefs THEN now ELSE loaded) + 1) % RefMod

\* Variant: unRef() is forgotten.
NotDecremented(now, loaded) == now

Decremented(now, loaded) ==
    ((IF AtomicRefs THEN now ELSE loaded) + RefMod - 1) % RefMod

\* Variant: parsePacket() and send() do not lock.
IoNeverLocks(c) == FALSE

\* The io thread holds m_connectionLock of c.
IoLocks(c) ==
    \/ io.at # "idle" /\ io.handler = "packet" /\ io.c = c
    \/ io.at = "writing" /\ io.d = c

-----------------------------------------------------------------------------
(* The io thread: handlers begin when it is idle.                          *)

\* Telnet::onConnect sends one message to its own connection, before anything
\* is read.
Greets(c) == [at |-> "get", handler |-> "accept", c |-> c, d |-> c, loaded |-> 0]

\* ServicePort::onAccept: createConnection, makeProtocol, and the greeting.
Accept(c) ==
    /\ io.at = "idle"
    /\ conn[c].state = "NONE"
    /\ conn' = [conn EXCEPT ![c] = NewConn]
    /\ managed' = managed \cup {c}
    /\ io' = Greets(c)
    /\ UNCHANGED <<disp, tasks, retries, stops, sends>>

\* parsePacket() with data: the protocol handles it.  The first packet is for
\* onRecvFirstMessage(), which makes the user before it handles the packet.
Receive(c) ==
    /\ io.at = "idle"
    /\ conn[c].read = "pending"
    /\ conn[c].state = "OPEN" /\ ~conn[c].readError
    /\ conn' = [conn EXCEPT ![c].read = "none", ![c].received = TRUE]
    /\ io' = [at |-> IF conn[c].received THEN "command" ELSE "addRef",
              handler |-> "packet", c |-> c, d |-> c,
              loaded |-> conn[c].protoRef]
    /\ UNCHANGED <<managed, disp, tasks, retries, stops, sends>>

\* parsePacket() with data for a connection that is no longer open.
ReceiveLate(c) ==
    /\ io.at = "idle"
    /\ conn[c].read = "pending"
    /\ conn[c].state # "OPEN" \/ conn[c].readError
    /\ conn' = [conn EXCEPT ![c].read = "none", ![c].state = CloseState(c)]
    /\ tasks' = CloseTasks(c)
    /\ UNCHANGED <<managed, io, disp, retries, stops, sends>>

\* parsePacket() with an error: the peer left, or the read was aborted or
\* started on a closed socket.
ReceiveError(c) ==
    /\ io.at = "idle"
    /\ conn[c].read # "none"
    /\ conn' = [conn EXCEPT ![c].read = "none", ![c].readError = TRUE,
                            ![c].state = CloseState(c)]
    /\ tasks' = CloseTasks(c)
    /\ UNCHANGED <<managed, io, disp, retries, stops, sends>>

\* handleWriteTimeout(): nothing when the timer was cancelled, otherwise
\* onWriteTimeout().
WriteTimer(c) ==
    /\ io.at = "idle"
    /\ conn[c].timer # "off"
    /\ IF conn[c].timer = "armed"
             /\ (conn[c].pendingWrite > 0 \/ conn[c].writeError)
       THEN /\ conn' = [conn EXCEPT ![c] =
                          [CloseSocket(@) EXCEPT !.timer = "off",
                                                 !.state = CloseState(c)]]
            /\ tasks' = CloseTasks(c)
       ELSE /\ conn' = [conn EXCEPT ![c].timer = "off"]
            /\ UNCHANGED tasks
    /\ UNCHANGED <<managed, io, disp, retries, stops, sends>>

\* What is left in the manager after releaseConnection.
Without(c) == managed \ {c}

\* The write timer is cancelled and the socket deleted.
DeleteSocket(r) ==
    [r EXCEPT !.socket = "deleted",
              !.timer = IF @ = "armed" THEN "cancelled" ELSE @]

\* onStopOperation(), posted by deleteConnectionTask(): the socket is deleted
\* and the connection leaves the manager.
StopOperation(c) ==
    /\ io.at = "idle"
    /\ stops[c] > 0
    /\ stops' = [stops EXCEPT ![c] = @ - 1]
    /\ conn' = [conn EXCEPT ![c] = DeleteSocket(CloseSocket(@))]
    /\ managed' = Without(c)
    /\ UNCHANGED <<io, disp, tasks, retries, sends>>

-----------------------------------------------------------------------------
(* The io thread inside a handler: what the protocol does with a packet.   *)

\* parseFirstPacket(): addRef() of the protocol ...
AddRef ==
    /\ io.at = "addRef"
    /\ conn' = [conn EXCEPT ![io.c].protoRef = Incremented(@, io.loaded)]
    /\ io' = [io EXCEPT !.at = "connect"]
    /\ UNCHANGED <<managed, disp, tasks, retries, stops, sends>>

\* ... which connect() takes back at once: it loads the count ...
Connect ==
    /\ io.at = "connect"
    /\ io' = [io EXCEPT !.at = "unRef", !.loaded = conn[io.c].protoRef]
    /\ UNCHANGED <<conn, managed, disp, tasks, retries, stops, sends>>

\* ... and stores it.
UnRef ==
    /\ io.at = "unRef"
    /\ conn' = [conn EXCEPT ![io.c].protoRef = Decremented(@, io.loaded)]
    /\ io' = [io EXCEPT !.at = "command"]
    /\ UNCHANGED <<managed, disp, tasks, retries, stops, sends>>

\* uWrite() to the user of connection d, whom its first packet made;
\* client # nullptr was checked.
StartWrite(d) ==
    /\ io.at = "command"
    /\ d = io.c \/ CrossTalk
    /\ conn[d].received
    /\ conn[d].protocol = "attached"
    /\ sends < MaxSends
    /\ sends' = sends + 1
    /\ io' = [io EXCEPT !.at = "get", !.d = d]
    /\ UNCHANGED <<conn, managed, disp, tasks, retries, stops>>

\* disconnect() or logout() of the user of connection d.
Disconnect(d) ==
    /\ io.at = "command"
    /\ d = io.c \/ CrossTalk
    /\ conn[d].received
    /\ conn[d].protocol = "attached"
    /\ conn' = [conn EXCEPT ![d].state = CloseState(d)]
    /\ tasks' = CloseTasks(d)
    /\ UNCHANGED <<managed, io, disp, retries, stops, sends>>

\* The next async_read_some, as the last thing a handler does.
NextRead ==
    /\ io.at \in {"command", "accepted"}
    /\ conn' = [conn EXCEPT ![io.c].read =
                   IF conn[io.c].socket = "open" THEN "pending" ELSE "failed"]
    /\ io' = IoIdle
    /\ UNCHANGED <<managed, disp, tasks, retries, stops, sends>>

\* getOutputMessage(): the protocol still has its connection.
GetMessage ==
    /\ io.at = "get"
    /\ conn[io.d].protocol = "attached"
    /\ io' = [io EXCEPT !.at = "configure"]
    /\ UNCHANGED <<conn, managed, disp, tasks, retries, stops, sends>>

\* configureOutputMessage(): assert(connection!=nullptr); protocol->addRef()
\* and connection->addRef().
Configure ==
    /\ io.at = "configure"
    /\ conn[io.d].protocol = "attached"
    /\ io' = [io EXCEPT !.at = "refProtocol", !.loaded = conn[io.d].protoRef]
    /\ UNCHANGED <<conn, managed, disp, tasks, retries, stops, sends>>

RefProtocol ==
    /\ io.at = "refProtocol"
    /\ conn' = [conn EXCEPT ![io.d].protoRef = Incremented(@, io.loaded)]
    /\ io' = [io EXCEPT !.at = "refConnection", !.loaded = conn[io.d].connRef]
    /\ UNCHANGED <<managed, disp, tasks, retries, stops, sends>>

RefConnection ==
    /\ io.at = "refConnection"
    /\ conn' = [conn EXCEPT ![io.d].connRef = Incremented(@, io.loaded)]
    /\ io' = [io EXCEPT !.at = "send"]
    /\ UNCHANGED <<managed, disp, tasks, retries, stops, sends>>

\* send() on an open connection: internalSend() arms the write timer and
\* begins a synchronous write.  With a pending write it would queue the message
\* instead; NoPendingWrite says that there is none.
Send ==
    /\ io.at = "send"
    /\ conn[io.d].pendingWrite = 0
    /\ conn[io.d].state = "OPEN" /\ ~conn[io.d].writeError
    /\ conn' = [conn EXCEPT ![io.d].pendingWrite = @ + 1,
                            ![io.d].timer = "armed"]
    /\ io' = [io EXCEPT !.at = "writing"]
    /\ UNCHANGED <<managed, disp, tasks, retries, stops, sends>>

\* send() returns false: the message is dropped.
SendRefused ==
    /\ io.at = "send"
    /\ conn[io.d].state # "OPEN" \/ conn[io.d].writeError
    /\ io' = [io EXCEPT !.at = "drop"]
    /\ UNCHANGED <<conn, managed, disp, tasks, retries, stops, sends>>

\* Variant: --m_pendingWrite is forgotten.
WriteOkUncounted ==
    /\ io.at = "writing"
    /\ conn' = [conn EXCEPT ![io.d].timer = "cancelled"]
    /\ io' = [io EXCEPT !.at = "drop"]
    /\ UNCHANGED <<managed, disp, tasks, retries, stops, sends>>

\* The write returns without an error: onWriteOperation().  The state is
\* still OPEN, as the lock has been held since send() looked at it.
WriteOk ==
    /\ io.at = "writing"
    /\ conn' = [conn EXCEPT ![io.d].pendingWrite = @ - 1,
                            ![io.d].timer = "cancelled"]
    /\ io' = [io EXCEPT !.at = "drop"]
    /\ UNCHANGED <<managed, disp, tasks, retries, stops, sends>>

\* The write fails: onWriteOperation(), handleWriteError(), closeSocket().
WriteFails ==
    /\ io.at = "writing"
    /\ conn' = [conn EXCEPT ![io.d] =
                   [CloseSocket(@) EXCEPT !.writeError = TRUE,
                                          !.timer = "cancelled",
                                          !.state = CloseState(io.d)]]
    /\ tasks' = CloseTasks(io.d)
    /\ io' = [io EXCEPT !.at = "drop"]
    /\ UNCHANGED <<managed, disp, retries, stops, sends>>

\* The last OutputMessage_ptr goes: releaseMessage() puts
\* internalReleaseMessage() in front of the other tasks.
DropMessage ==
    /\ io.at = "drop"
    /\ tasks' = <<Task("free", io.d)>> \o tasks
    /\ io' = [io EXCEPT !.at = IF io.handler = "accept" THEN "accepted"
                                                       ELSE "command"]
    /\ UNCHANGED <<conn, managed, disp, retries, stops, sends>>

-----------------------------------------------------------------------------
(* The dispatcher thread.                                                  *)

TakeTask ==
    /\ disp.at = "idle"
    /\ tasks # <<>>
    /\ disp' = [at |-> Head(tasks).op, c |-> Head(tasks).c, loaded |-> 0]
    /\ tasks' = Tail(tasks)
    /\ UNCHANGED <<conn, managed, io, retries, stops, sends>>

\* Variant: releaseProtocol() does not look at m_refCount.
ReleaseProtocolAnyway(c) == TRUE

\* releaseProtocol(): try again later while messages refer to the protocol.
ReleaseProtocolNow(c) == conn[c].protoRef = 0
ReleaseConnectionNow(c) == conn[c].connRef = 0

\* closeConnectionTask(): it waits for the lock.
CloseTask ==
    LET c == disp.c
        closes == conn[c].pendingWrite = 0 \/ conn[c].writeError
        closing == [conn[c] EXCEPT
                      !.protocol = CASE @ # "attached" -> @
                                     [] ReleaseProtocolNow(c) -> "deleted"
                                     [] OTHER -> "detached",
                      !.state = IF closes THEN "CLOSED" ELSE "CLOSING"]
    IN  /\ disp.at = "close"
        /\ ~IoLocks(c)
        /\ conn[c].state = "REQUEST_CLOSE"
        /\ conn' = [conn EXCEPT ![c] =
                       IF closes THEN CloseSocket(closing) ELSE closing]
        /\ retries' = [retries EXCEPT
               !["releaseProtocol"][c] =
                   IF conn[c].protocol = "attached" /\ ~ReleaseProtocolNow(c)
                   THEN @ + 1 ELSE @,
               !["releaseConnection"][c] =
                   IF closes /\ ~ReleaseConnectionNow(c) THEN @ + 1 ELSE @]
        /\ stops' = [stops EXCEPT ![c] =
               IF closes /\ ReleaseConnectionNow(c) THEN @ + 1 ELSE @]
        /\ disp' = DispIdle
        /\ UNCHANGED <<managed, io, tasks, sends>>

\* internalReleaseMessage(): protocol->unRef(), connection->unRef().
FreeMessage ==
    /\ disp.at = "free"
    /\ disp' = [disp EXCEPT !.at = "unrefProtocol",
                            !.loaded = conn[disp.c].protoRef]
    /\ UNCHANGED <<conn, managed, io, tasks, retries, stops, sends>>

UnrefProtocol ==
    /\ disp.at = "unrefProtocol"
    /\ conn' = [conn EXCEPT ![disp.c].protoRef = Decremented(@, disp.loaded)]
    /\ disp' = [disp EXCEPT !.at = "unrefConnection",
                            !.loaded = conn[disp.c].connRef]
    /\ UNCHANGED <<managed, io, tasks, retries, stops, sends>>

UnrefConnection ==
    /\ disp.at = "unrefConnection"
    /\ conn' = [conn EXCEPT ![disp.c].connRef = Decremented(@, disp.loaded)]
    /\ disp' = DispIdle
    /\ UNCHANGED <<managed, io, tasks, retries, stops, sends>>

\* releaseProtocol(), forwarded by the scheduler: delete the protocol, or
\* schedule the next attempt.
ReleaseProtocol ==
    /\ disp.at = "releaseProtocol"
    /\ IF ReleaseProtocolNow(disp.c)
       THEN /\ conn' = [conn EXCEPT ![disp.c].protocol = "deleted"]
            /\ UNCHANGED retries
       ELSE /\ retries' = [retries EXCEPT !["releaseProtocol"][disp.c] = @ + 1]
            /\ UNCHANGED conn
    /\ disp' = DispIdle
    /\ UNCHANGED <<managed, io, tasks, stops, sends>>

\* releaseConnection(): post onStopOperation(), or schedule the next attempt.
ReleaseConnection ==
    /\ disp.at = "releaseConnection"
    /\ IF ReleaseConnectionNow(disp.c)
       THEN /\ stops' = [stops EXCEPT ![disp.c] = @ + 1]
            /\ UNCHANGED retries
       ELSE /\ retries' = [retries EXCEPT !["releaseConnection"][disp.c] = @ + 1]
            /\ UNCHANGED stops
    /\ disp' = DispIdle
    /\ UNCHANGED <<conn, managed, io, tasks, sends>>

\* The scheduler forwards a retry to the dispatcher when its 20 ms are over.
Retry(op, c) ==
    /\ retries[op][c] > 0
    /\ retries' = [retries EXCEPT ![op][c] = @ - 1]
    /\ tasks' = Append(tasks, Task(op, c))
    /\ UNCHANGED <<conn, managed, io, disp, stops, sends>>

-----------------------------------------------------------------------------
WriteSteps ==
    \/ GetMessage \/ Configure \/ RefProtocol \/ RefConnection
    \/ Send \/ SendRefused \/ DropMessage

FirstSteps == AddRef \/ Connect \/ UnRef

DispSteps ==
    \/ TakeTask \/ CloseTask \/ FreeMessage \/ UnrefProtocol \/ UnrefConnection
    \/ ReleaseProtocol \/ ReleaseConnection

Handlers(c) ==
    \/ Accept(c) \/ Receive(c) \/ ReceiveLate(c) \/ ReceiveError(c)
    \/ WriteTimer(c) \/ StopOperation(c)

Next ==
    \/ \E c \in Conns : Handlers(c) \/ StartWrite(c) \/ Disconnect(c)
    \/ NextRead \/ FirstSteps \/ WriteSteps \/ WriteOk \/ WriteFails
    \/ DispSteps
    \/ \E op \in RetryOps, c \in Conns : Retry(op, c)

Spec == Init /\ [][Next]_vars

\* The threads run; a peer that reads lets a write end; io_service calls the
\* handlers that are ready in their turn, so none is passed over for ever.
Fairness ==
    /\ WF_vars(NextRead)
    /\ WF_vars(FirstSteps)
    /\ WF_vars(WriteSteps)
    /\ WF_vars((WriteOk \/ WriteFails) /\ io.d \in Peers)
    /\ WF_vars(DispSteps)
    /\ \A op \in RetryOps, c \in Conns : WF_vars(Retry(op, c))
    /\ \A c \in Conns :
          /\ SF_vars(StopOperation(c))
          /\ SF_vars(WriteTimer(c))

FairSpec == Spec /\ Fairness
-----------------------------------------------------------------------------
(* Properties.                                                             *)

ConnRecords ==
    [state : {"NONE", "OPEN", "REQUEST_CLOSE", "CLOSING", "CLOSED"},
     socket : {"none", "open", "closed", "deleted"},
     protocol : {"none", "attached", "detached", "deleted"},
     protoRef : 0..(RefMod - 1), connRef : 0..(RefMod - 1),
     pendingWrite : Nat, writeError : BOOLEAN, readError : BOOLEAN,
     received : BOOLEAN,
     read : {"none", "pending", "aborted", "failed"},
     timer : {"off", "armed", "cancelled"}]

Tasks == [op : TaskOps, c : Conns]

\* Type correctness of the connections and of the two threads.
TypeOK ==
    /\ conn \in [Conns -> ConnRecords]
    /\ managed \subseteq Conns
    /\ tasks \in Seq(Tasks)
    /\ retries \in [RetryOps -> [Conns -> Nat]]
    /\ stops \in [Conns -> Nat]
    /\ sends \in 0..MaxSends

One(b) == IF b THEN 1 ELSE 0

Count(s, x) == Cardinality({i \in DOMAIN s : s[i] = x})

\* How many tasks of a kind the dispatcher has for c, the current included.
Queued(op, c) ==
    Count(tasks, Task(op, c)) + One(disp.at = op /\ disp.c = c)

\* How many messages hold a reference on the protocol, or the connection, c.
ProtocolMessages(c) ==
    Queued("free", c)
        + One(disp.at = "unrefProtocol" /\ disp.c = c)
        + One(io.at \in {"refConnection", "send", "writing", "drop"} /\ io.d = c)

ConnectionMessages(c) ==
    Queued("free", c)
        + One(disp.at \in {"unrefProtocol", "unrefConnection"} /\ disp.c = c)
        + One(io.at \in {"send", "writing", "drop"} /\ io.d = c)

\* The reference that the handler of the first packet has on its protocol.
FirstRef(c) == One(io.at \in {"connect", "unRef"} /\ io.c = c)

\* If only addRef and unRef are atomic, the count of a connection is the number
\* of messages that are on their way for it; that of a protocol is one more
\* while the first packet makes the user.
RefsMatch ==
    \A c \in Conns :
        /\ conn[c].protoRef = ProtocolMessages(c) + FirstRef(c)
        /\ conn[c].connRef = ConnectionMessages(c)

\* "assert(m_refCount==0)" (Protocol::deleteProtocolTask): a protocol is not
\* deleted while a message, or the handler of its first packet, refers to it,
\* although the messages are released by tasks that overtake the others and the
\* release is retried by a timer.
NoDanglingProtocol ==
    \A c \in Conns : conn[c].protocol = "deleted" =>
        ProtocolMessages(c) + FirstRef(c) = 0

\* "assert(connection!=nullptr)" (configureOutputMessage): from the check that a
\* user has a client to getConnection()->send(output) (Protocol::write) the
\* protocol keeps its connection.
ConnectionPresent ==
    io.at \in {"get", "configure", "refProtocol", "refConnection", "send"} =>
        conn[io.d].protocol = "attached"

\* That assertion itself, of the message to whomever it is for: a command that
\* says something to another user does not hold the lock of that connection.
ConfiguresConnected ==
    io.at = "configure" => conn[io.d].protocol = "attached"

\* However often and from wherever closeConnection is called, there is one
\* closeConnectionTask.  A closed connection has one release under way, be it
\* a retry, a task or the posted onStopOperation, until it leaves the manager;
\* so has a protocol that was taken off its connection.  Neither is lost nor
\* doubled: the raw pointers in those tasks are valid, and deleted once.
CloseOnce ==
    \A c \in Conns :
        /\ Queued("close", c) = One(conn[c].state = "REQUEST_CLOSE")
        /\ retries["releaseConnection"][c] + Queued("releaseConnection", c)
              + stops[c] = One(conn[c].state = "CLOSED" /\ c \in managed)
        /\ retries["releaseProtocol"][c] + Queued("releaseProtocol", c)
              = One(conn[c].protocol = "detached")

\* Writes are synchronous: outside one there is no pending write, so send()
\* never puts a message on the queue of OutputMessagePool::addToAutoSend, and
\* closeConnectionTask always closes at once.
NoPendingWrite ==
    \A c \in Conns :
        conn[c].pendingWrite = One(io.at = "writing" /\ io.d = c)

\* A connection that is to be closed is released, with its protocol.
ClosedIsReleased ==
    \A c \in Conns :
        conn[c].state = "REQUEST_CLOSE" ~>
            c \notin managed /\ conn[c].protocol = "deleted"

\* "will be closed by onWriteOperation/handleWriteTimeout/handleReadTimeout"
\* (Connection::closeConnectionTask): a pending write ends.  When the peer does
\* not read it does not: the timer's handler needs the thread that writes.
PendingWriteEnds ==
    \A c \in Conns : conn[c].pendingWrite > 0 ~> conn[c].pendingWrite = 0
=============================================================================
