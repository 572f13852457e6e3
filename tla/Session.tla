------------------------------- MODULE Session ------------------------------
(***************************************************************************)
(* What packets mean to the users (Common/User, Network/Protocols/Telnet): *)
(* logging in, registering, taking over an older session and leaving, for  *)
(* several connections that share the list of users and the table of users.*)
(*                                                                         *)
(* A packet is handled on the io thread under the lock of its connection.  *)
(* It may hold several lines, and each line is one step here; between them *)
(* the dispatcher thread may release other connections.  The connection    *)
(* itself is module Connection; here it is open, closing (its close is a   *)
(* task of the dispatcher), closed (its protocol has lost it and waits for *)
(* the references to it) or released.                                      *)
(*                                                                         *)
(* A user is named by the connection whose first packet created it.  What  *)
(* "who", "version" and "say" print changes nothing and is left out.       *)
(*                                                                         *)
(* Definitions marked "Variant" are not part of the specification: each is *)
(* the definition after it with a plausible bug, which some property finds.*)
(***************************************************************************)
EXTENDS Database, FiniteSets

CONSTANTS
    Conns,          \* the connections that may come
    Names,          \* user names of an accepted length, in their normal form
    BadLetters,     \* how many characters of a name are no letters
    Pwds,           \* passwords of an accepted length
    MaxAttempts,    \* MAX_LOGIN_ATTEMPTS
    Conversions,    \* what UserLevel::fromInteger may do with a valid level:
                    \* as it is it "throws"; it should "convert"
    MaxDbErrors,    \* bound: how many queries fail
    AttemptBound,   \* bound: how far one packet may raise the attempts
    Nothing         \* a null pointer

ASSUME SessionAssumption ==
    /\ BadLetters \in [Names -> Nat]
    /\ MaxAttempts \in Nat \ {0}
    /\ Conversions \subseteq {"throws", "converts"}
    /\ MaxDbErrors \in Nat
    /\ AttemptBound \in Nat
    /\ Nothing \notin Conns \cup Names \cup Pwds

VARIABLES
    up,             \* the process has not been terminated
    conn,           \* the state of each connection
    reading,        \* the connection whose packet is being handled
    protocolUser,   \* Protocol::user of each connection's protocol
    user,           \* the User created for each connection
    db              \* the table of users and the connection to it

vars == <<up, conn, reading, protocolUser, user, db>>

\* LOGIN_ID and LOGIN_NAME are always handled alike and are one stage here.
LoginStages == {"LOGIN_NAME", "LOGIN_PWD", "LOGIN_REENTER_PWD"}
Stages == LoginStages \cup {"LOGIN_PROMPT", "CMD_LINE"}

\* A User as parseFirstPacket leaves it.  life: not yet created, there or
\* deleted; negotiated: the telnet options are known; guid: the login of the
\* row that User::guid is the id of, Nothing for 0.  proved is not in the
\* code: the name for which the user gave the right password or registered.
NewUser(c) ==
    [life |-> "there", client |-> c, listed |-> TRUE, stage |-> "LOGIN_NAME",
     level |-> "LOGIN", name |-> Nothing, password |-> Nothing,
     attempts |-> 0, negotiated |-> FALSE, guid |-> Nothing,
     proved |-> Nothing]

\* No User: before its creation, and after its destructor.
NoUser(life) ==
    [NewUser(Nothing) EXCEPT !.life = life, !.listed = FALSE]

Init ==
    /\ up = TRUE
    /\ conn = [c \in Conns |-> "none"]
    /\ reading = Nothing
    /\ protocolUser = [c \in Conns |-> Nothing]
    /\ user = [c \in Conns |-> NoUser("none")]
    /\ db \in {NewDatabase(TRUE), NewDatabase(FALSE)}
    /\ db.failed <= MaxDbErrors

-----------------------------------------------------------------------------
(* What the steps have in common.                                          *)

\* closeConnection for the connections in C, of which some may be Nothing.
Closing(C) ==
    [c \in Conns |->
        IF c \in C /\ conn[c] = "open" THEN "closing" ELSE conn[c]]

\* The clients of the users in U: those connections a kick of them closes.
Clients(U) == {user[u].client : u \in U}

\* IOUser::load of n, and what it leaves of the database.
Loads(n, o) ==
    /\ Load(db, n, o).db.failed <= MaxDbErrors
    /\ db' = Load(db, n, o).db

VariantAttempt(r) ==
    IF r.attempts + 1 > MaxAttempts
    THEN [r EXCEPT !.attempts = @ + 1, !.listed = FALSE]
    ELSE [r EXCEPT !.attempts = @ + 1, !.stage = "LOGIN_NAME",
                   !.password = Nothing]

\* User::attempt, but for the kick: the attempt that reaches the limit keeps
\* the stage and the password.
Attempt(r) ==
    IF r.attempts + 1 = MaxAttempts
    THEN [r EXCEPT !.attempts = @ + 1, !.listed = FALSE]
    ELSE [r EXCEPT !.attempts = @ + 1, !.stage = "LOGIN_NAME",
                   !.password = Nothing]

Attempts(r, k) ==
    LET after[i \in 0..k] == IF i = 0 THEN r ELSE Attempt(after[i - 1])
    IN  after[k]

\* The attempts that turned r into s took the user off the list: a kick.
Kicked(r, s) == r.listed /\ ~s.listed

\* uRead calls login for a line of c's packet in one of the given stages.
LoginLine(c, stages) ==
    /\ up /\ reading = c
    /\ protocolUser[c] # Nothing
    /\ user[protocolUser[c]].level = "LOGIN"
    /\ user[protocolUser[c]].stage \in stages

\* The line changes c's user to s; a kick closes the connection.
Becomes(c, s) ==
    LET u == protocolUser[c] IN
    /\ user' = [user EXCEPT ![u] = s]
    /\ conn' = Closing(IF Kicked(user[u], s) THEN {user[u].client} ELSE {})

-----------------------------------------------------------------------------
(* Connections and packets.                                                *)

Connect(c) ==
    /\ up /\ conn[c] = "none"
    /\ conn' = [conn EXCEPT ![c] = "open"]
    /\ UNCHANGED <<reading, protocolUser, user, db, up>>

\* A packet arrives; the first one creates the user.
FirstPacket(c) ==
    /\ up /\ reading = Nothing
    /\ conn[c] = "open" /\ user[c].life = "none"
    /\ reading' = c
    /\ protocolUser' = [protocolUser EXCEPT ![c] = c]
    /\ user' = [user EXCEPT ![c] = NewUser(c)]
    /\ UNCHANGED <<conn, db, up>>

\* Without a user the protocol ignores the packet.
NextPacket(c) ==
    /\ up /\ reading = Nothing
    /\ conn[c] = "open" /\ user[c].life # "none"
    /\ protocolUser[c] # Nothing
    /\ reading' = c
    /\ UNCHANGED <<conn, protocolUser, user, db, up>>

EndPacket(c) ==
    /\ up /\ reading = c
    /\ reading' = Nothing
    /\ UNCHANGED <<conn, protocolUser, user, db, up>>

\* The peer is gone or a write to it fails.
ConnectionLost(c) ==
    /\ up /\ conn[c] = "open"
    /\ conn' = Closing({c})
    /\ UNCHANGED <<reading, protocolUser, user, db, up>>

VariantCloseTask(c) ==
    /\ up /\ conn[c] = "closing" /\ reading # c
    /\ conn' = [conn EXCEPT ![c] = "closed"]
    /\ UNCHANGED <<reading, protocolUser, user, db, up>>

\* closeConnectionTask, on the dispatcher thread: it waits for the lock of
\* the connection, and releaseProtocol tells the user.  A user that was
\* deleted has no client any more.
CloseTask(c) ==
    /\ up /\ conn[c] = "closing" /\ reading # c
    /\ conn' = [conn EXCEPT ![c] = "closed"]
    /\ user' = [u \in Conns |->
            IF protocolUser[c] = u /\ user[u].client = c
            THEN [user[u] EXCEPT !.client = Nothing] ELSE user[u]]
    /\ UNCHANGED <<reading, protocolUser, db, up>>

\* deleteProtocolTask.  FreeThing only remembers the user: cleanup, which
\* would delete it, is never called, and it stays in the list.
DeleteProtocol(c) ==
    /\ up /\ conn[c] = "closed"
    /\ conn' = [conn EXCEPT ![c] = "released"]
    /\ protocolUser' = [protocolUser EXCEPT ![c] = Nothing]
    /\ UNCHANGED <<reading, user, db, up>>

-----------------------------------------------------------------------------
(* Lines of a user who is logging in.                                      *)

\* "quit": login throws DISCONNECT and parsePacket deletes the user.
LoginQuit(c) ==
    /\ LoginLine(c, {"LOGIN_NAME"})
    /\ conn' = Closing(Clients({protocolUser[c]}))
    /\ user' = [user EXCEPT ![protocolUser[c]] = NoUser("deleted")]
    /\ protocolUser' = [protocolUser EXCEPT ![c] = Nothing]
    /\ reading' = Nothing
    /\ UNCHANGED <<db, up>>

\* A name or password that is too short or too long, a wrong password, or a
\* second password that differs from the first.
BadInput(c) ==
    /\ LoginLine(c, LoginStages)
    /\ user[protocolUser[c]].attempts < AttemptBound
    /\ Becomes(c, Attempt(user[protocolUser[c]]))
    /\ UNCHANGED <<reading, protocolUser, db, up>>

\* Others who are logging in under the same name, and are kicked for it.
HungLogins(u, n) ==
    {w \in Conns : /\ w # u /\ user[w].listed
                   /\ user[w].level = "LOGIN" /\ user[w].name = n}

VariantNamed(r, n, found) ==
    [r EXCEPT !.name = n, !.stage = "LOGIN_PWD",
              !.guid = IF found THEN n ELSE @,
              !.password = IF @ # Nothing \/ ~found
                           THEN @ ELSE StoredPassword(db, n)]

\* The user r after it gave the name n: a preload replaces its id and its
\* password if there is a row for n, and else leaves older ones in place.
Named(r, n, found) ==
    [r EXCEPT !.name = n, !.stage = "LOGIN_PWD",
              !.guid = IF found THEN n ELSE @,
              !.password = IF found THEN StoredPassword(db, n) ELSE @]

VariantEnterName(c, n, o) ==
    LET u == protocolUser[c]
        r == user[u]
        s == Attempts(r, BadLetters[n])
    IN  /\ LoginLine(c, {"LOGIN_NAME"})
        /\ s.attempts <= AttemptBound
        /\ Loads(n, o)
        /\ user' = [user EXCEPT ![u] = Named(s, n, Load(db, n, o).found)]
        /\ conn' = Closing(Clients(IF Kicked(r, s) THEN {u} ELSE {}))
        /\ UNCHANGED <<reading, protocolUser, up>>

\* A name.  Each character that is no letter costs an attempt, and the name
\* is taken all the same.
EnterName(c, n, o) ==
    LET u == protocolUser[c]
        r == user[u]
        s == Attempts(r, BadLetters[n])
    IN  /\ LoginLine(c, {"LOGIN_NAME"})
        /\ s.attempts <= AttemptBound
        /\ Loads(n, o)
        /\ user' = [user EXCEPT ![u] = Named(s, n, Load(db, n, o).found)]
        /\ conn' = Closing(Clients(HungLogins(u, n) \cup
                                   (IF Kicked(r, s) THEN {u} ELSE {})))
        /\ UNCHANGED <<reading, protocolUser, up>>

\* No account is known: the password is to be that of a new one.
NewPassword(c, p) ==
    LET u == protocolUser[c] IN
    /\ LoginLine(c, {"LOGIN_PWD"})
    /\ user[u].password = Nothing
    /\ user' = [user EXCEPT ![u].password = p,
                            ![u].stage = "LOGIN_REENTER_PWD"]
    /\ UNCHANGED <<conn, reading, protocolUser, db, up>>

\* The second password agrees.  The login goes on whatever create returns.
Register(c, o) ==
    LET u == protocolUser[c]
        n == user[u].name
        made == Create(db, [login |-> n, password |-> user[u].password], o)
    IN  /\ LoginLine(c, {"LOGIN_REENTER_PWD"})
        /\ made.db.failed <= MaxDbErrors
        /\ db' = made.db
        /\ user' = [user EXCEPT ![u].level = "NOVICE",
                                ![u].password = Nothing,
                                ![u].stage = "LOGIN_PROMPT",
                                ![u].guid = IF made.id THEN n ELSE Nothing,
                                ![u].proved = n]
        /\ UNCHANGED <<conn, reading, protocolUser, up>>

\* The user r after the right password, once its account was looked up again.
LoggedIn(r, found) ==
    [r EXCEPT !.password = Nothing, !.stage = "CMD_LINE",
              !.guid = IF found THEN r.name ELSE @,
              !.level = IF found THEN "NOVICE" ELSE @,
              !.proved = IF /\ found
                            /\ r.password = StoredPassword(db, r.name)
                         THEN r.name ELSE @]

VariantOthers(u) ==
    {w \in Conns \ {u} : /\ user[w].listed /\ user[w].level = "LOGIN"
                         /\ user[w].name = user[u].name}

\* Other users in the list with the name of u, logged in or not.
Others(u) ==
    {w \in Conns \ {u} : user[w].listed /\ user[w].name = user[u].name}

\* The right password, and the account is read again.  If there is a level
\* in it, its conversion may throw, which nobody catches.
RightPassword(c, o) ==
    LET u == protocolUser[c]
        found == Load(db, user[u].name, o).found
    IN  /\ LoginLine(c, {"LOGIN_PWD"})
        /\ user[u].password # Nothing
        /\ Loads(user[u].name, o)
        /\ found => "converts" \in Conversions
        /\ Others(u) = {}
        /\ user' = [user EXCEPT ![u] = LoggedIn(@, found)]
        /\ UNCHANGED <<conn, reading, protocolUser, up>>

LevelThrows(c) ==
    LET u == protocolUser[c] IN
    /\ LoginLine(c, {"LOGIN_PWD"})
    /\ user[u].password # Nothing
    /\ Load(db, user[u].name, "ok").found
    /\ "throws" \in Conversions
    /\ up' = FALSE
    /\ UNCHANGED <<conn, reading, protocolUser, user, db>>

\* The right password, but w has the name already.  uConnect closes w's
\* connection and gives w to this one, whose user it leaves behind; then
\* parsePacket, for SWAPPED, deletes the protocol's user, which is w by now.
\* The protocol that w had before still points to it.
Swap(c, w, o) ==
    LET u == protocolUser[c]
        found == Load(db, user[u].name, o).found
    IN  /\ LoginLine(c, {"LOGIN_PWD"})
        /\ user[u].password # Nothing
        /\ Loads(user[u].name, o)
        /\ found => "converts" \in Conversions
        /\ w \in Others(u)
        /\ conn' = Closing(Clients({w}))
        /\ user' = [user EXCEPT
               ![u] = [LoggedIn(@, found) EXCEPT !.client = Nothing,
                                                 !.listed = FALSE],
               ![w] = NoUser("deleted")]
        /\ protocolUser' = [protocolUser EXCEPT ![c] = Nothing]
        /\ reading' = Nothing
        /\ UNCHANGED up

-----------------------------------------------------------------------------
(* Telnet options and the command line.                                    *)

VariantGotTelopt(c) ==
    LET u == protocolUser[c] IN
    /\ up /\ reading = c /\ u # Nothing
    /\ ~user[u].negotiated
    /\ user' = [user EXCEPT ![u].negotiated = TRUE, ![u].stage = "NEW"]
    /\ UNCHANGED <<conn, reading, protocolUser, db, up>>

\* The last telnet option arrives, at whatever stage the user is.
GotTelopt(c) ==
    LET u == protocolUser[c] IN
    /\ up /\ reading = c /\ u # Nothing
    /\ ~user[u].negotiated
    /\ user' = [user EXCEPT ![u].negotiated = TRUE,
                            ![u].stage = "LOGIN_NAME"]
    /\ UNCHANGED <<conn, reading, protocolUser, db, up>>

\* parseLine at a stage that it does not know.
LeaveStage(c) ==
    LET u == protocolUser[c] IN
    /\ up /\ reading = c /\ u # Nothing
    /\ user[u].level # "LOGIN" /\ user[u].stage # "CMD_LINE"
    /\ user' = [user EXCEPT ![u].stage = "CMD_LINE"]
    /\ UNCHANGED <<conn, reading, protocolUser, db, up>>

\* The command "quit".
Quit(c) ==
    LET u == protocolUser[c] IN
    /\ up /\ reading = c /\ u # Nothing
    /\ user[u].level # "LOGIN" /\ user[u].stage = "CMD_LINE"
    /\ conn' = Closing(Clients({u}))
    /\ user' = [user EXCEPT ![u].listed = FALSE]
    /\ UNCHANGED <<reading, protocolUser, db, up>>

Next ==
    \E c \in Conns :
        \/ Connect(c) \/ FirstPacket(c) \/ NextPacket(c) \/ EndPacket(c)
        \/ ConnectionLost(c) \/ CloseTask(c) \/ DeleteProtocol(c)
        \/ LoginQuit(c) \/ BadInput(c)
        \/ \E n \in Names, o \in Outcomes : EnterName(c, n, o)
        \/ \E p \in Pwds : NewPassword(c, p)
        \/ \E o \in CreateOutcomes : Register(c, o)
        \/ \E o \in Outcomes : RightPassword(c, o)
        \/ LevelThrows(c)
        \/ \E w \in Conns, o \in Outcomes : Swap(c, w, o)
        \/ GotTelopt(c) \/ LeaveStage(c) \/ Quit(c)

Spec == Init /\ [][Next]_vars

-----------------------------------------------------------------------------
(* Properties.                                                             *)

UserRecords ==
    [life : {"none", "there", "deleted"}, client : Conns \cup {Nothing},
     listed : BOOLEAN, stage : Stages, level : {"LOGIN", "NOVICE"},
     name : Names \cup {Nothing}, password : Pwds \cup {Nothing},
     attempts : 0..AttemptBound, negotiated : BOOLEAN,
     guid : Names \cup {Nothing}, proved : Names \cup {Nothing}]

\* The type invariant.
TypeOK ==
    /\ up \in BOOLEAN
    /\ conn \in [Conns -> {"none", "open", "closing", "closed", "released"}]
    /\ reading \in Conns \cup {Nothing}
    /\ protocolUser \in [Conns -> Conns \cup {Nothing}]
    /\ user \in [Conns -> UserRecords]
    /\ db.rows \in Seq([login : Names, password : Pwds])
    /\ db.pending = <<>> /\ db.ok
    /\ {db.connected, db.inTrans} \subseteq BOOLEAN
    /\ db.failed \in 0..MaxDbErrors

\* A user and its protocol point to each other: whoever writes to a user in
\* the list reaches a protocol that still exists and that will tell the user
\* when it goes.  releaseProtocol, ~User and the swap each undo one half.
PointersAgree ==
    \A u \in Conns :
        /\ user[u].listed => user[u].life = "there"
        /\ user[u].client # Nothing =>
            /\ protocolUser[user[u].client] = u
            /\ conn[user[u].client] \in {"open", "closing"}

\* "already logged in - switching to old session" (User::uConnect): a connection
\* that has had a user and stays open has one, whom its packets are for.
SwitchesToSession ==
    \A c \in Conns :
        conn[c] = "open" /\ user[c].life # "none" => protocolUser[c] # Nothing

\* One account per name, though the table does not demand it: the hung logins
\* that EnterName kicks are what could register a name twice.  A query that
\* fails looks like a name without account; each may cost one more.
OneAccount == \A n \in Names : Cardinality(RowsOf(db, n)) <= 1 + db.failed

\* At most one user in the list is logged in under a name: who registers has
\* kicked the others, and uConnect removes one of two.
OneSession ==
    db.failed = 0 =>
        \A n \in Names :
            Cardinality({u \in Conns : /\ user[u].listed /\ user[u].name = n
                                       /\ user[u].level # "LOGIN"}) <= 1

\* Whoever used up the attempts is out: no further packet is read for him.
LimitCloses ==
    \A c \in Conns :
        protocolUser[c] # Nothing
            /\ user[protocolUser[c]].attempts >= MaxAttempts
            => conn[c] # "open"

\* A user who is logged in gave the password of the very account whose name
\* he bears, or registered it, even if telnet options arrived late and made
\* him start over with another name.
Authenticated ==
    db.failed = 0 =>
        \A u \in Conns :
            user[u].level # "LOGIN" => user[u].proved = user[u].name

\* The id of a user who is logged in is that of a row that is there for good,
\* under his own name: whatever fails on the way (BEGIN, INSERT, COMMIT, the
\* connection) and whichever names he gave before, create and load leave him
\* with this id or with none.
OwnRowOrNone ==
    \A u \in Conns :
        user[u].level # "LOGIN" /\ user[u].guid # Nothing =>
            /\ user[u].guid = user[u].name
            /\ \E i \in DOMAIN db.rows : db.rows[i].login = user[u].guid

\* The process survives every login.
LoginSurvives == up
=============================================================================
