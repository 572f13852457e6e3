# Lotos++ : verification project

Lotos++ is a talker: a telnet server on which users log in, talk and leave.
This directory holds TLA+ models of the parts of the server where threads,
timers and connections meet, the TLC configurations that check them on small
instances, and proofs, checked by TLAPS, of their most important properties.
Paths below are relative to `src/` of the repository.

## The system

Three threads run the server.

* **Main / io.** `main()` starts the other two, waits until the loader task has
  finished, and then runs `io_service`: accepting, reading, writing, the timers
  of the connections and, since a packet is handled where it is read, all
  command processing.
* **The dispatcher** executes tasks: the loader, closing connections, releasing
  messages, and what the scheduler forwards.
* **The scheduler** sleeps until an event is due and hands it to the dispatcher.

| Component | State | Operations | Correct when |
|---|---|---|---|
| Dispatcher (`Common/Dispatcher`, `Task.h`) | deque of raw `Task*`, thread state, mutex, condition variable | start, addTask, thread loop, stop, shutdown + flush, join | no signal is lost; each task has one owner, is run at most once and in order; nothing is queued for a thread that has left |
| Scheduler (`Common/Scheduler`) | priority queue of events, set of valid ids, last id, thread state | start, addEvent, stopEvent, thread loop, stop, shutdown, join | no event is early, overslept, run after it was stopped or dropped without being stopped; ids are unique across the wrap |
| Connection (`Network/Connection`, `ConnectionManager`) | state, socket, pending writes, error flags, reference count, write timer | accept, read, send, close, release | closed once, released once, after the last reference; a closed connection is released |
| OutputMessagePool (`Network/OutputMessage`) | free messages; each message refers to a protocol and a connection | getOutputMessage, send, releaseMessage | the reference counts are the number of messages |
| Protocol, Telnet (`Network/Protocol`, `Protocols/Telnet`) | connection, user, reference count | onConnect, write, disconnect, logout, releaseProtocol, parsePacket | not used after it was released |
| ServicePort (`Network/ServicePort`) | acceptors, `m_pendingStart` | open, accept, onAccept, close, openAcceptor | the port is never given up |
| ServiceManager, main (`Network/ServiceManager`, `main.cpp`) | ports, `io_service` | add, run, start and shutdown of the threads | start completes, shutdown loses nothing and ends |
| User (`Common/User`, `Commands`) | stage, level, attempts, line buffer, registry of users | login, line editor, commands, session swap | a user is one session; the limits hold; a line is what was typed |
| Telnet options (`Common/User`) | buffer of an incomplete option, flags | parseTelopt, getTermsize, getTermtype | the result does not depend on how packets split it |
| Talker, AutoID, AutoList, Thing | registries, ids, reference counts | add, remove, FreeThing | ids are unique; what is freed is not listed |
| Database, IOUser | connection, transaction state | query, begin, commit, load, create | a failed step leaves no half-done account |
| NetworkMessage, Strings (`Splitline`, `misc`) | buffer, positions; words of a line | GetRaw, AddString, cleanString, parse, wordptr | a packet is read whole; the words are those of the line |
| Blowfish, Logger, ExceptionHandler, enums | | pure functions, output | |

Interactions: everybody calls `addTask` and `addEvent`; the scheduler's thread
calls `addTask`; a task may call both.  A connection, its protocol and its
messages hold each other through shared pointers, raw pointers and two
hand-made reference counts, and are released by the dispatcher while the io
thread uses them.  `ServicePort` is used by the io thread and the dispatcher
without a lock.

What is hard: the notifications of both condition variables are sent after the
mutex is released and only when the code believes that somebody must be woken;
`shutdown` executes tasks on another thread while it holds the mutex; releases
are retried by a timer; writes are synchronous on the only io thread; what a
peer says arrives in packets that are cut anywhere; and any step towards an
account may fail, while the login goes on.
`PROJECT.json` lists these hazards with their lines.

## Modules

`Variant` definitions: next to some definitions stands one marked *Variant*, the
same definition with a plausible bug.  It is not part of the specification; it
documents which property notices that bug.

**Dispatcher** models `Common/Dispatcher.cpp` and `Task.h`.  Each critical section
is one action; `shutdown` holds the mutex over the whole of `flush`, so the mutex
is a variable (`flushing`) that only it keeps.  `pc` says where each thread is;
`notify_one` is a step of its own.  `CreateTask`, `AddTask`, `RejectTask` and
`Notify` are `addTask` by any thread, inside a task's body too; `LoopTest`,
`EnterWait`, `Take`, `TakeNothing`, `Execute`, `Expire` and `EndTask` are the
thread; `Shutdown`, `FlushTask`, `FlushDone` and `Join` are `shutdownAndWait`.
Condition variables may wake spuriously.  **TaskQueue** is what the dispatcher
promises: a deque whose tasks are taken from the front, one active at a time
unless it is being terminated, and gone when they end.

**Scheduler** models `Common/Scheduler.{h,cpp}` with a clock.  The priority queue
is a set: `Tops` is what `top()` may return, since events due at the same time
have no order.  Ids are counted modulo `MaxEventId`, and the counter may start
anywhere, so that wraps happen.  **EventTimer** is its abstract specification: an
armed event fires once, not early, in the order of the due times, and not after
it was cancelled.

**Connection** models a connection with its protocol and the messages on their
way (`Connection.cpp`, `ConnectionManager.cpp`, `Protocol.cpp`, `Telnet.cpp`,
`OutputMessage.cpp`, the accepting part of `ServicePort.cpp`).  The io thread runs
one handler at a time; a handler that writes goes through `GetMessage`,
`Configure`, `RefProtocol`, `RefConnection`, `Send`, `WriteOk`/`WriteFails`,
`DropMessage`.  The first packet takes a reference of the protocol and gives it
back (`AddRef`, `Connect`, `UnRef`) before it is handled like any other.  The
dispatcher takes one task at a time: `CloseTask`,
`FreeMessage`..`UnrefConnection`, `ReleaseProtocol`, `ReleaseConnection`.
`++m_refCount` is a load and a store unless `AtomicRefs` supposes otherwise;
`CrossTalk` says whether commands touch other users' connections.
The dispatcher and the scheduler appear by what they promise: a deque, and
events that are forwarded some time later.

**ServicePort** models `ServicePort.cpp` for one port: `open` on the dispatcher
thread (`OpenAgain`, `Construct`, `ConstructThrows`, `PushBack`, `TestOpen`) and
`onAccept` with an error on the io thread (`Close`, `Reschedule`), whose steps
interleave since nothing is locked.  `onAccept` with a connection accepts the next
one (`AcceptNext`), also on an acceptor that was closed meanwhile, which is one
more error (`AcceptOnClosed`), and not at all before the service was added.  That
is possible only if `main()` does not wait for mainLoader, which `EarlyRun` allows.
Whether a v6 socket also accepts v4 is up
to the system.  The vector's own consistency under concurrent use (undefined
behaviour in the code) is not modelled.

**Server** composes Dispatcher and Scheduler (both instantiated unchanged) with
`main()` and `mainLoader`: starting the threads, waiting for the loader, running
`io_service`, opening the port with its retries, and the two `shutdownAndWait`.
`run()` may return at any time, since a handler may throw a `system_error`.

**Session** models what the lines of a packet do to the users (`User.cpp`,
`Telnet.cpp`, `IOUser.cpp`, `Quit.cpp`): `FirstPacket`, `NextPacket` and
`EndPacket` bracket a packet; `LoginQuit`, `BadInput`, `EnterName`, `NewPassword`,
`Register`, `RightPassword` and `Swap` are the branches of `login()` with
`attempt()` and `uConnect()`; `GotTelopt` is the end of the telnet negotiation,
which may come at any time; `LeaveStage` and `Quit` are `parseLine()`; `CloseTask`
and `DeleteProtocol` are what the dispatcher thread does to a user.  Passwords and
names are values; hashing is taken to tell passwords apart.  A connection is
reduced to its states, which Connection models in full.  `Conversions` says what
`UserLevel::fromInteger` does with a valid level.  As the code is, it throws
(`enum.h:243` has its test inverted, against the comment above it), nobody
catches the exception, and the process ends: `LevelThrows`.  The run `session`
allows both this and the conversion that is meant, so that what comes after a
login is checked as well; `session_level` has the code as it is.

**Database** is the table of users as Session uses it: `Load` and `Create` of
`IOUser`, on `Query`, `BeginTransaction`, `InsertRow`, `Commit` and `Rollback` of
the driver.  A database is a record (what is committed, what the open transaction
holds, `m_connected`), and each call to the server takes an outcome: done,
refused, the connection lost before the server did it, or lost after it did and
before it answered.  A COMMIT without an answer is permanent, and so is an INSERT
without an answer if its BEGIN was refused.  `mysql_real_query` does not connect
again inside a transaction, so a lost connection takes the transaction with it.

**Input** models how bytes become options and lines (`User.cpp`: `uRead`,
`parseTelopt`, `getTermsize`, `getTermtype`, `parseLine`, `runCmdLine`;
`NetworkMessage`: `GetRaw`, `AddString`; `Say.cpp`).  The peer says tokens, text
and options; `Packet` delivers any number of their bytes; then `uRead` takes one
step per byte (`Ignore`, `Rubout`, `Char`, `LoginLine`, `CommandLineRead`), and
from an IAC on moves the rest to `buff` (`Stash`), where `parseTelopt` takes one
option per step (`OneOption`) until it finds one that is cut (`CutOption`) or none
(`OptionsDone`).  A read behind the end of a string (`ReadPastEnd`, `OptionPastEnd`)
is a state of its own, `pc = "undefined"`, from which nothing is concluded; an
exception nobody catches, also that of `std::string::replace` in `Stash` after a
packet that filled the buffer, is `pc = "terminated"`.  `Meaning` is the reference: what the tokens say, read
token by token, without bytes and packets.  `login()` is Session's; here a line
may or may not end it, and one that registers the user makes the next line no
command.

**CommandLine** holds the pure functions on a line: `Clean` (`cleanString`), `Parse`
with `GetWords`, `WordAt` and `AddWord` (`Splitline`), `Printed` (`uPrintf`), and
their references, which read a line character by character with a mode
(`ReadLine`).  A loop of the code is a recursive function over the positions it
visits, or the least position at which it stops: the word at a position ends at
the first of `BlankEnds` or `QuoteEnds`, `Searches` are the positions at which
`parse` calls `getWord`, `Skipped` are the percent signs over which `cleanString`
steps.

**MCDispatcher, MCScheduler, MCConnection, MCServer, MCSession, MCInput** give the
constants their values; ServicePort needs none.

The theorems are in modules of their own: **DispatcherProofs**,
**SchedulerProofs**, **ConnectionProofs**, **ServicePortProofs**,
**ServerProofs**, **SessionProofs** (with Database), **CommandLineProofs** and
**InputProofs** (which extends it).

## Runs

| Run | Instance | Shows |
|---|---|---|
| dispatcher | 4 tasks (one may expire, one adds tasks from its body), 2 calling threads | invariants, refinement of TaskQueue, and that accepted tasks run |
| scheduler | 2 events, ids 1..2 with every start of the counter, clock to 4, 2 callers | invariants, refinement of EventTimer, and that accepted events are run or were stopped |
| connection_safety | 2 connections, 2 messages beside the greetings, atomic counts, commands touch their own connection | close and release happen once; references match |
| connection_live | 2 connections, greetings only | a close ends in the release of connection and protocol |
| server | 2 retries of opening the port, clock to 3 | shutdown order and termination |
| service_port | up to 5 failing accepts and 4 connections | the port is never given up, and accepts again |
| session | 2 connections, 2 names (one with a digit), 2 passwords, 2 attempts (counted to 3), 1 failing call to the database | users and protocols point to each other; accounts, sessions, attempts, passwords and ids |
| input | 2799 sessions: lines of up to 5 characters, up to 2 options in a row, options inside a line, all four options in every order, packets that fill the buffer, control codes and bytes above 127; every way to cut them into packets | lines, options and words are what the peer said, and the handling of a packet ends |
| connection_refs | violation | with plain counts a protocol is deleted under a message |
| connection_stall | violation | a write to a peer that does not read never ends |
| server_loader | violation | `main()` can miss the loader's notification |
| session_level | violation | the right password of an existing account ends the process |

Why these bounds are enough.  The dispatcher's interesting cases need a task in
execution, one in the list, one being added and one refused: four.  The
scheduler's need an event it sleeps for and an earlier or later one that is
added, stopped or due meanwhile, and ids that wrap: two events and two ids.  An
id is not given a second time there; that this does no harm is not shown.  A connection interacts with another only
through the two threads and the task list, so two are enough to have a close
between the tasks of another; two messages let one be released while the next
takes its references.  Delays of 1 and 3 lie below and above `MinTicks` = 2.
`RefMod` stands for 2^32 and exceeds every count a run reaches.

In Session every conflict is between two users of one name; the second name is
for a user who starts over, and its digit for attempts that are counted while the
name is accepted.  One failing call lets every single step of `create` and `load` fail, and a
lost connection makes all later ones fail too.  Several that fail by themselves, as
a BEGIN that is refused before an INSERT whose answer is lost, are covered by the
theorems, which hold for any number.

Input is one user, since users share nothing there.  An option has at most 13
bytes, and what matters of two is where the first ends in the packet; four
options in a row let the negotiation end.  `MaxSize` = 24 is below the longest
scripts, so that packets below and at the limit both occur; `MaxText` = 6
lets one text of the scripts be too long.  The words of a line depend on blanks,
quotes, backslashes and their neighbours, which five characters combine.

Deadlock is not checked: every run ends, with `main()`, with the last bounded
input, or with all connections gone.

### What the violations mean

* **connection_refs**: `assert(m_refCount==0)` in `Protocol::deleteProtocolTask`.
  `addRef` (io thread) and `unRef` (dispatcher thread) race; a lost increment lets
  the count reach 0 with a message outstanding.
* **connection_stall**: the comment in `closeConnectionTask` expects a write
  timeout to end a pending write; its handler needs the thread that is writing.
* **server_loader**: "Wait for loading to finish" in `main()`: the notification is
  sent without the mutex, waited for without a predicate, and can be missed.
* **session_level**: "will throw if the value is invalid" above
  `Enum::fromInteger`: it throws if the value is valid.  A registration does not
  convert a level and works; the next login of that account does not.
The passing runs of Connection therefore state their suppositions
(`AtomicRefs`, `~CrossTalk`): they show that these two races are what stands
between the code and its assertions, and that nothing else does.

### Configurations beside the runs

Five more configurations stand beside the runs.  Each has the code as it is, or one
of the suppositions above removed, and TLC finds its property violated
(`tlc -config X.cfg M`):

| Configuration | Property | What TLC finds |
|---|---|---|
| `Connection_crosstalk.cfg` of MCConnection | `ConfiguresConnected` | `assert(connection!=nullptr)` in `configureOutputMessage` fails: `say` writes to all users, only the lock of the speaker's connection is held, and another user's connection may be taken off its protocol after `getOutputMessage` looked at it |
| `ServicePort_early.cfg` of ServicePort | `PortServed` | "Wait for loading to finish" once more: a spurious wake lets `io_service` run when `ServiceManager::add` has listed the port and not yet added the service; `onAccept` then returns without another `accept()`, and the port is given up |
| `Session_swap.cfg` of MCSession | `SwitchesToSession` | "already logged in - switching to old session ...": after `uConnect` the protocol's user is the old session, and `Telnet::parsePacket` deletes the protocol's user; the connection stays open without one, and the old protocol points to a deleted user.  Since the level's conversion throws, it takes a query that fails at the right password |
| `Input_wordptr.cfg` of MCInput | `SayIsHeard` | "Set wordptr to point to the start of the word in the actual string": `reset()` leaves the positions of earlier lines in front, so that after the line `s` others hear `s a` of `s a` |
| `Input_control.cfg` of MCInput | `ControlCodesRemoved` | "Also remove certain ASCII control codes": the assignment that should do it stands behind a `break` |

### What the properties of Input except, and why

`Understood` is about a peer that avoids what the code cannot handle
(`CarefulPacket`); every condition there was found by TLC or by a proof attempt, and without it the
property is violated:

* a sub option other than NAWS and TERM, or one cut behind its second byte (the
  third is read without a test, `User.cpp:452`), takes no bytes: `parseTelopt`
  loops for ever on the io thread (`Stuck`, which `PacketsEnd` excepts as well);
* bytes behind a terminal's name in the same packet are cut off `buff`
  (`User.cpp:665`) but still counted by `bpos`: `uRead` loses them or reads behind
  the end of its string;
* a terminal size that is cut behind its ninth byte leaves the incomplete size
  (`User.cpp:581`).  That is mended when the rest comes, unless the rest sets no
  size: one with a zero, for which the incomplete size is then the default, or
  one that does not end with IAC SE;
* a packet that fills the buffer is read as an empty string (`NetworkMessage.cpp:56`).

`CommandIsLine` excepts a quote that is left open (the word is then the line from
its second character on, wherever the quote starts, `Splitline.cpp:85`).  For what
others hear of a `say` it excepts every session in which an earlier line, even one
that was no command, had a word (`FirstWords`): `reset()` leaves `wordPtr` as it is,
so `wordptr(1)` is a position in those lines, and gives a wrong text or throws
`std::out_of_range` that nobody catches.  The model follows the code there, too, and
`Input_wordptr.cfg` checks `SayIsHeard`, which has no such exception.  The line a
command is compared with is `CleanReference`, in which control codes stay, as the
code has it; `Input_control.cfg` is about what its comment says.

## Fairness

Threads that can continue do so (weak fairness of each thread's steps), and time
passes.  Whether somebody creates a task, stops the server or sends a packet is
not assumed.  A timed wait that is entered after its deadline returns at once,
hence strong fairness of `Timeout` against spurious wakeups.  `io_service` calls
ready handlers in turn: strong fairness of `StopOperation` and `WriteTimer`
against the reads that compete for the thread.  A write ends only for a
connection in `Peers`, whose peer reads.  In ServicePort a port that is free
again and again is bound in the end (strong fairness of `Construct`); that is an
assumption on the operating system.  In Input the io thread goes on with a packet
it has (weak fairness of `Handle`); that more packets come is not assumed.

## Proofs

The theorems hold for every value of the constants that the `ASSUME`s of the
modules allow: any number of tasks, threads, events, connections, names,
messages and failing queries.  Where a theorem needs more, it says so in its
own `ASSUME`:

| Assumption | Needed by | Why |
|---|---|---|
| `FewEvents` (Scheduler): no more events than ids | `StopsExactly`, `IdsAreValid`, `Refinement` | an id is given again after 2^32 - 1 others; the first id is any, so that the wrap itself is covered |
| `CountersSuffice` (Connection): `++`/`--m_refCount` are atomic and count to more than there are messages | `CountsMatch`, `ProtocolsAreReleased` | run `connection_refs` shows what the race of the two does |
| `~CrossTalk` (Connection): commands act on their own connection | `ConnectionStays`, `ProtocolsAreReleased` | `Connection_crosstalk.cfg` shows what happens otherwise |
| `~EarlyRun` (ServicePort): `io_service` runs after mainLoader has returned | `NeverGivenUp` | `ServicePort_early.cfg` shows what happens otherwise |
| `SpeaksTelnet` (Input): a text has no IAC (it is doubled), an option has one of four verbs, a size is ended by two bytes, a terminal's name comes with IS and has no IAC SE in it | `UnderstoodCorrect` | a token that breaks this is not one to a reader of bytes; all sessions of run `input` do it (`TelnetPeers` in MCInput, which TLC evaluates) |

`ServerAssumption` says that the three threads and the tasks are different ones.

**DispatcherProofs.**  The inductive invariant is
`TypeOK /\ PCInv /\ Ownership /\ Wakeups`.  `PCInv` says what each position of a
thread implies (who holds a task, who holds the mutex).  `Ownership` is `OnePlace`
with `HistoryInv`: a task's owner decides how often it may have run, which
`RunsOnce` alone does not say.  `Wakeups` is `NoLostWakeup` with
`NothingLeftBehind`.  Lemmas on `Append`, a new front and `Tail` (what the
elements are, that the list stays injective) carry the steps of the list.
From it: `TypeCorrect`, `WakeupsNotLost`, `SingleOwner`, `ExecutedOnce`,
`Drained`, and `Refinement`: every step is a step of TaskQueue or a stutter.

**SchedulerProofs.**  `TypeOK /\ PCInv /\ WaitInv /\ NoOversleep /\ NotEarly`.
`WaitInv` is what the thread knows while it sleeps with a deadline: as long as
the scheduler is not terminated an event is queued that is due no later than
the deadline.  Without it a timeout could not be known to find its event.
From it: `TypeCorrect`, `TimeoutFindsEvent`, `NeverOversleeps`, `NeverEarly`.
`StopIsExact` needs two more parts.  `IdInv` gives every id an `Age`, the number of
ids given after it, which is less than the number of events that have one; so
`NextEventId`, whose age would be `MaxEventId - 1`, is in nobody's use, also
when the counter starts over.  `StopInv` says that `m_eventIds` has the ids of
exactly the queued events that were not stopped, so that taking back an id
stops one event and no other.  From these `StopsExactly`, `IdsAreValid` and
`Refinement`: every step is a step of EventTimer or a stutter.

**ConnectionProofs.**  `LifeInv`, for the code as it is, however the counters race
and whoever commands act on: the types, what the two threads hold, that every
step refers to an accepted connection, that a connection's state tells those of
its socket and its protocol (`StateInv`), `NoPendingWrite`, and `CloseOnce`, which
counts the tasks, retries and handlers that are under way for a connection.
Lemmas say what `addTask` and taking the front do to the number of equal tasks in
the list.  From it: `TypeCorrect`, `WritesEnd`, `ClosesOnce`.

The second part of the module is about the reference counts.  `RefInv` splits the messages of a connection by how many
references they hold: none yet, the protocol's only, both, or the connection's
only, in the order in which `configureOutputMessage` takes and
`internalReleaseMessage` gives them back; and it bounds them by `MaxSends`, so that
no counter wraps.  The handler of the first packet holds one more of the protocol's
(`FirstRef`).  `OwnConnection` says that a handler acts on its own connection,
and that a connection which is greeted is open.  From them: `CountsMatch`,
`ConnectionStays`, `ProtocolsAreReleased`.

**ServicePortProofs.**  `PortInv` is `TypeOK /\ PendingIsScheduled` with `ListsOpen`:
the acceptor that `open` is about to list is open, since `close` only closes what
is listed.  From it, for the code as it is: `TypeCorrect` (no closed acceptor stays
in `m_tcp_acceptors`) and `PendingHasRetry`.  With `~EarlyRun` nothing was accepted
before the service was added (`AfterLoad`), and `PortServed` is inductive beside the
others; it needs `PendingIsScheduled`, because `onAccept` relies on the flag to
schedule nothing.  From it: `NeverGivenUp`.

**ServerProofs.**  `IndInv` says, for every position of `main()`, what the
dispatcher's state is, where `main()` is in the calls it makes, and that the
scheduler's thread calls `addTask` only while it forwards and has left before the
dispatcher is terminated.  From it: `NothingIsRefused`, `NoThreadIsLeft`.
`DispatcherBehaves` and `SchedulerBehaves` state that the server makes, of each
component, only steps of that component's module, so that the theorems above
hold for the components within the server.

**SessionProofs.**  Three invariants, each of which uses the one before.  `UserInv`
is `Fits` for every connection: what its state, its protocol's pointer, the user
made for it and the packet being read say of each other; the pointers agree
because everything that undoes one of them is in `Fits`.  `DbInv` is `Settled`: the
database between two lines.  `AccountInv` is about who knows what: `Fine` relates
what a user has typed and been told to the rows of his name; `Apart` says that two
users of one name are not both on their way through a login and, while no query
has failed, not both logged in; and the rows of a name are counted against the
failed queries.  TLC
checked `AccountInv` on the instance of run `session` before it was proved.
From them: `TypeCorrect`, `PointersAreMutual`, `LimitIsKept`, `AccountsAreUnique`,
`SessionsAreUnique`, `IdentityIsProved`, `IdsAreOwn`.  The module begins with lemmas
on what each call to the database returns and leaves, with every outcome of
the calls it consists of; `SetInduction`, which follows from the well-foundedness
of the natural numbers, gives the effect of any number of attempts in a row.

**CommandLineProofs.**  The recursive functions of CommandLine and their references
compute the same, for lines of any length.  The induction theorems of the library
take operators, which cannot be instantiated here; `Recursion` (a function with a
given first value and a given step exists), `IntervalInduction` and `StaysIn` (what
holds at the first position and is kept by each step holds at all) are about
sets and functions, and follow from `SetInduction`.  Every recursive function is
first shown to satisfy its equation, then its loop is followed:

* `CleanIsReference`: cleanString, which steps over the second sign of a pair,
  keeps the signs that stand at an odd place of their row and are followed by
  another, or at an even one.
* `WordsRead`: between two calls of `getWord` the reader that goes character by
  character is between words, or at the end of one, and has collected the words
  found so far (`Ready`).  `ReadBlanks`, `ReadPlainWord` and `ReadQuote` follow it over
  what one call passes; in a quote, what it has collected is the text so far
  without the backslashes before quotes (`Typed`).
* `PrintedLine`: after each character what was sent is the text so far, without
  the slash that is held back.

**InputProofs.**  `TypeInv` has, beside the types, what the steps need: `tel` and `com`
are records of the right kind, and the text buffers hold no line feed (the editor
drops them), which is what `PrintedLine` needs.  `OptionTypes` is the contract of an
option's parser: it takes no more bytes than `bpos` counts.  `ComInv` says that
`com` is what the last command line gives, with the positions of earlier lines in
front of its own, and that what others were told is the text of that line.  From
them: `TypeCorrect`, and with the theorems of CommandLineProofs `CommandCorrect`.

`UnderstoodCorrect` is about bytes on one side and tokens on the other.  Its
invariant, `UnderstandInv`, says that at any time the parser is behind the first
`i` tokens (`ParsedUpto`):

* what has arrived behind them is, byte by byte, `buff` up to `bpos` and then the
  rest of `input` (`Pending`), and what has not is `wire`; an idle parser has a
  cut token there;
* lines, text, terminal and flags are what `i` tokens mean (`Meant`).  The size is
  excepted while one is next that sets both sides: a cut size leaves the
  incomplete value, which that token mends (`SizeNext`).  Flags need two meanings,
  one for a user who is logging in and one for a user who has logged in, since
  a size sets `TERMSIZE` only for the former (`FlagsAre`);
* the last packet ended at a careful place (`CarefulEnd`), a name that is not yet
  read ends it (`NamesLast`), and `GOT_TELOPT_INFO` is set exactly when all
  options are, except while options are read (`GotAll`).

The parser need not stop at the end of a token.  Of a terminal type without a name
`parseTelopt` takes four of six bytes (`Lame`), and the IAC SE that is left
is the next option to it, which it drops; so the invariant allows it to be two
bytes behind (`r = 2`).  TLC checked the invariant on run `input` before it was proved.

`OptionRead` is the lemma on the parser: given the first bytes of an option,
`parseTelopt` asks for more exactly if the option is not complete, or else takes
it and does what its token means.  `EncodedHead` and the lemmas on `BytesUpto`
lead from a place in the bytes to the token there.  Then there is one lemma for
each step: a packet moves bytes, `Stash` and the end of a packet move the parser
over nothing, `OneOption` and each step of the editor move it over one token.

The proof attempt is what found the third exception above in its second form: a
size with another ending than IAC SE that is cut in front of its last byte.

Only model-checked is liveness, with the fairness it needs, which the proof system
does not handle: `AcceptedRuns`, `EventsFire`, `ClosedIsReleased`,
`ShutdownEndsOrSleeps`, `RecoversOrOrphaned`, `PacketsEnd`.

## Not modelled

The allocation of ids (`AutoID`: ids are taken to be unique; the search for a free
one does not end once 16 million are in use), `Talker`'s lists of creatures, which
are never filled, and the escaping of SQL strings.  Blowfish, logging, the
exception handler, the generated enums and the configuration have no state that
a property could tell apart.  `ServiceManager::stop` is called by the destructor
only (`Talker::shutdown` is called by nobody), when `io_service` has returned, so that
neither the handlers it posts nor `die` are ever run.
`ConnectionManager::closeAll`, `ServiceManager::remove`, the read timer, the auto-send queue, `IOUser::save`,
`Splitline::shift` and the other readers and writers of `NetworkMessage` are never
used by the program.  Memory itself is modelled by ownership only: a leak (refused
tasks, events left at shutdown) is visible in the models and is not called an
error.

Seen while modelling, and not stated by a property: after one lost connection to the database `m_connected` stays false, although
`MySQL.cpp:23` asks for an automatic reconnect, and every later login becomes a
registration that is not saved; `addEvent` reads the event after it released the
lock (`Scheduler.cpp:149`).

## Plan

An abstract specification of Session, a table of who is logged in as whom, with
the refinement proved from `AccountInv`.
