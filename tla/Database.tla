------------------------------ MODULE Database ------------------------------
(***************************************************************************)
(* The table of users behind IOUser (Common/IOUser, Database/Driver,       *)
(* Drivers/MySQL, Transaction and Insert).  Every operator gives the state *)
(* after a call, for each way the call may end:                            *)
(*                                                                         *)
(*   "ok"          the server did it;                                      *)
(*   "error"       the server refused it;                                  *)
(*   "lost"        the connection to the server broke before it did it;    *)
(*   "unanswered"  it broke after that and before the answer came.         *)
(*                                                                         *)
(* A database is a record: connected is MySQL::m_connected; inTrans and    *)
(* pending are the transaction that the server holds for the connection    *)
(* and the rows inserted in it; rows is what is committed; ok is the       *)
(* result of the last call; failed counts the calls that failed.           *)
(*                                                                         *)
(* IOUser::save is left out: nothing calls it.                             *)
(***************************************************************************)
EXTENDS Naturals, Sequences

Outcomes == {"ok", "error", "lost", "unanswered"}

\* The driver after its constructor: it connects once, or never.
NewDatabase(reached) ==
    [connected |-> reached, inTrans |-> FALSE, pending |-> <<>>,
     rows |-> <<>>, ok |-> TRUE, failed |-> IF reached THEN 0 ELSE 1]

\* The server drops what the transaction holds.
Dropped(d) == [d EXCEPT !.inTrans = FALSE, !.pending = <<>>]

\* The server makes what the transaction holds permanent.
Committed(d) ==
    [d EXCEPT !.inTrans = FALSE, !.pending = <<>>, !.rows = @ \o d.pending]

Fails(d) == [d EXCEPT !.ok = FALSE, !.failed = @ + 1]

\* internalQuery: done is the database if the server does it.  When the
\* connection breaks the server drops an open transaction, while a row that was
\* inserted without one stays.  From then on no query reaches the server any
\* more, although the client library could connect again.
Query(d, o, done) ==
    CASE ~d.connected -> [d EXCEPT !.ok = FALSE]
      [] d.connected /\ o = "ok" -> [done EXCEPT !.ok = TRUE]
      [] d.connected /\ o = "error" -> Fails(d)
      [] d.connected /\ o = "lost" ->
            [Fails(Dropped(d)) EXCEPT !.connected = FALSE]
      [] d.connected /\ o = "unanswered" ->
            [Fails(Dropped(done)) EXCEPT !.connected = FALSE]

\* BEGIN; it commits a transaction that is still open.
BeginTransaction(d, o) ==
    Query(d, o, [Committed(d) EXCEPT !.inTrans = TRUE])

\* INSERT; without a transaction the row is permanent at once.
InsertRow(d, row, o) ==
    Query(d, o, IF d.inTrans THEN [d EXCEPT !.pending = Append(@, row)]
                             ELSE [d EXCEPT !.rows = Append(@, row)])

\* commit and rollback do not notice that the connection is lost: the
\* library connects again with the next query.
Commit(d, o) ==
    CASE ~d.connected -> [d EXCEPT !.ok = FALSE]
      [] d.connected /\ o = "ok" -> [Committed(d) EXCEPT !.ok = TRUE]
      [] d.connected /\ o \in {"error", "lost"} -> Fails(Dropped(d))
      [] d.connected /\ o = "unanswered" -> Fails(Committed(d))

Rollback(d, o) ==
    CASE ~d.connected -> [d EXCEPT !.ok = FALSE]
      [] d.connected /\ o = "ok" -> [Dropped(d) EXCEPT !.ok = TRUE]
      [] d.connected /\ o = "error" -> Fails(d)
      [] d.connected /\ o \in {"lost", "unanswered"} -> Fails(Dropped(d))

Rows(d) == d.rows \o d.pending

\* The rows of a login that a SELECT finds, by their numbers.
RowsOf(d, login) == {i \in DOMAIN Rows(d) : Rows(d)[i].login = login}

First(S) == CHOOSE i \in S : \A j \in S : i <= j

\* What getDataString gives of the first row.
StoredPassword(d, login) == Rows(d)[First(RowsOf(d, login))].password

\* IOUser::load up to its test: the result is the first row, and there is
\* none if the query fails.
Load(d, login, o) ==
    LET q == Query(d, o, d) IN
    [db |-> [q EXCEPT !.ok = TRUE],
     found |-> q.ok /\ RowsOf(d, login) # {}]

\* What create asks of the server.  BEGIN's result is ignored; the
\* destructor of a transaction that was not committed rolls it back.
CreateCalls == {"begin", "insert", "commit", "rollback"}

\* How these calls may end.  Only one of the last two is made.
CreateOutcomes ==
    {o \in [CreateCalls -> Outcomes] :
        o[IF o["insert"] = "ok" THEN "rollback" ELSE "commit"] = "ok"}

VariantCreate(d, row, o) ==
    LET inserted == InsertRow(BeginTransaction(d, o["begin"]), row, o["insert"])
        committed == Commit(inserted, o["commit"])
        end == IF inserted.ok THEN committed
               ELSE Rollback(inserted, o["rollback"])
    IN  [db |-> [end EXCEPT !.ok = TRUE], id |-> inserted.ok]

\* IOUser::create; id says whether it returns the id of the row, or 0.
Create(d, row, o) ==
    LET inserted == InsertRow(BeginTransaction(d, o["begin"]), row, o["insert"])
        committed == Commit(inserted, o["commit"])
        end == IF inserted.ok THEN committed
               ELSE Rollback(inserted, o["rollback"])
    IN  [db |-> [end EXCEPT !.ok = TRUE],
         id |-> inserted.ok /\ committed.ok]
=============================================================================
