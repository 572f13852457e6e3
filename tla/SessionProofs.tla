---------------------------- MODULE SessionProofs -----------------------------
(***************************************************************************)
(* Proofs about Session, for any number of connections, names and          *)
(* passwords, any limit of attempts, and queries that fail whenever they   *)
(* like.                                                                   *)
(*                                                                         *)
(* First comes what the calls of the database driver may do, for any table *)
(* and however they end.  The first of any number of rows is the one that  *)
(* is read, which needs induction.  The induction theorems of the library  *)
(* are about operators; SetInduction is about sets, and follows from WFMin.*)
(***************************************************************************)
EXTENDS Session, FiniteSetTheorems, WellFoundedInduction, TLAPS

-----------------------------------------------------------------------------
(* Induction.                                                              *)

\* A set of numbers has a smallest one.
LEMMA Minimum ==
    ASSUME NEW T \in SUBSET Nat, T # {}
    PROVE  \E x \in T : \A y \in T : x <= y
  <1> DEFINE R == {p \in Nat \X Nat : p[1] < p[2]}
  <1>1. IsWellFoundedOn(R, Nat)
    BY NatLessThanWellFounded, Zenon DEF OpToRel
  <1>2. \A x, y \in Nat : x < y => <<x, y>> \in R
    OBVIOUS
  <1> HIDE DEF R
  <1>3. PICK x \in T : \A y \in T : ~(<<y, x>> \in R)
    BY <1>1, WFMin, Zenon
  <1>4. \A y \in T : ~(y < x)
    BY <1>2, <1>3
  <1> QED
    BY <1>4

LEMMA SetInduction ==
    ASSUME NEW S, 0 \in S, \A i \in Nat : i \in S => i + 1 \in S
    PROVE  Nat \subseteq S
  <1> DEFINE T == Nat \ S
  <1> SUFFICES ASSUME T # {} PROVE FALSE
    OBVIOUS
  <1>1. PICK x \in T : \A y \in T : x <= y
    BY Minimum
  <1>2. x # 0 /\ x - 1 \in Nat /\ x - 1 \notin T
    BY <1>1
  <1> QED
    BY <1>2

-----------------------------------------------------------------------------
(* The calls of the database driver.                                       *)

RowRecords == [login : Names, password : Pwds]

Databases ==
    [connected : BOOLEAN, inTrans : BOOLEAN, pending : Seq(RowRecords),
     rows : Seq(RowRecords), ok : BOOLEAN, failed : Nat]

\* A database between two calls: nothing is pending, and only a failure loses
\* the connection.
Settled(d) ==
    /\ d \in Databases
    /\ d.pending = <<>> /\ d.ok
    /\ ~d.connected => d.failed > 0

LEMMA DatabaseFields ==
    ASSUME NEW d \in Databases
    PROVE  /\ d.connected \in BOOLEAN /\ d.inTrans \in BOOLEAN
           /\ d.pending \in Seq(RowRecords) /\ d.rows \in Seq(RowRecords)
           /\ d.ok \in BOOLEAN /\ d.failed \in Nat
  BY DEF Databases

LEMMA DroppedFacts ==
    ASSUME NEW d \in Databases
    PROVE  LET e == Dropped(d) IN
           /\ e \in Databases /\ e.pending = <<>> /\ ~e.inTrans
           /\ e.rows = d.rows /\ e.connected = d.connected
           /\ e.ok = d.ok /\ e.failed = d.failed
  <1>1. <<>> \in Seq(RowRecords)
    OBVIOUS
  <1> QED
    BY <1>1 DEF Dropped, Databases

LEMMA CommittedFacts ==
    ASSUME NEW d \in Databases
    PROVE  LET e == Committed(d) IN
           /\ e \in Databases /\ e.pending = <<>> /\ ~e.inTrans
           /\ e.rows = d.rows \o d.pending /\ e.connected = d.connected
           /\ e.ok = d.ok /\ e.failed = d.failed
  <1> DEFINE all == d.rows \o d.pending
             e == [d EXCEPT !.inTrans = FALSE, !.pending = <<>>, !.rows = all]
  <1>1. <<>> \in Seq(RowRecords) /\ all \in Seq(RowRecords)
    BY DatabaseFields
  <1>2. Committed(d) = e
    BY DEF Committed, Databases
  <1> HIDE DEF all
  <1>3. /\ e \in Databases /\ e.pending = <<>> /\ ~e.inTrans
        /\ e.rows = all /\ e.connected = d.connected
        /\ e.ok = d.ok /\ e.failed = d.failed
    BY <1>1 DEF Databases
  <1> HIDE DEF e
  <1> QED
    BY <1>2, <1>3 DEF all

LEMMA FailsFacts ==
    ASSUME NEW d \in Databases
    PROVE  LET e == Fails(d) IN
           /\ e \in Databases /\ ~e.ok /\ e.failed = d.failed + 1
           /\ e.rows = d.rows /\ e.connected = d.connected
           /\ e.inTrans = d.inTrans /\ e.pending = d.pending
  <1> DEFINE n == d.failed + 1
             e == [d EXCEPT !.ok = FALSE, !.failed = n]
  <1>1. n \in Nat
    BY DatabaseFields
  <1>2. Fails(d) = e
    BY DEF Fails
  <1> HIDE DEF n
  <1>3. /\ e \in Databases /\ ~e.ok /\ e.failed = n
        /\ e.rows = d.rows /\ e.connected = d.connected
        /\ e.inTrans = d.inTrans /\ e.pending = d.pending
    BY <1>1 DEF Databases
  <1> HIDE DEF e
  <1> QED
    BY <1>2, <1>3 DEF n

LEMMA OkFacts ==
    ASSUME NEW d \in Databases, NEW b \in BOOLEAN
    PROVE  LET e == [d EXCEPT !.ok = b] IN
           /\ e \in Databases /\ e.ok = b
           /\ e.rows = d.rows /\ e.connected = d.connected
           /\ e.inTrans = d.inTrans /\ e.pending = d.pending
           /\ e.failed = d.failed
  BY DEF Databases

LEMMA LostFacts ==
    ASSUME NEW d \in Databases
    PROVE  LET e == [d EXCEPT !.connected = FALSE] IN
           /\ e \in Databases /\ ~e.connected
           /\ e.rows = d.rows /\ e.ok = d.ok
           /\ e.inTrans = d.inTrans /\ e.pending = d.pending
           /\ e.failed = d.failed
  BY DEF Databases

LEMMA InTransFacts ==
    ASSUME NEW d \in Databases
    PROVE  LET e == [d EXCEPT !.inTrans = TRUE] IN
           /\ e \in Databases /\ e.inTrans
           /\ e.rows = d.rows /\ e.ok = d.ok
           /\ e.connected = d.connected /\ e.pending = d.pending
           /\ e.failed = d.failed
  BY DEF Databases

\* A later state of the driver: failures are counted, and nothing else loses
\* the connection.
Declines(d, e) ==
    /\ d.failed <= e.failed
    /\ e.connected => d.connected
    /\ e.failed = d.failed => e.connected = d.connected

\* A query does all or nothing, and what fails is counted.  One that fails may
\* have been done.
Queried(d, done, q) ==
    /\ q \in Databases
    /\ \/ /\ q.ok /\ d.connected
          /\ q.rows = done.rows /\ q.pending = done.pending
          /\ q.connected = done.connected /\ q.failed = done.failed
       \/ /\ ~q.ok /\ ~d.connected /\ ~q.connected
          /\ q.rows = d.rows /\ q.pending = d.pending /\ q.failed = d.failed
       \/ /\ ~q.ok /\ d.connected
          /\ q.rows \in {d.rows, done.rows} /\ q.pending \in {d.pending, <<>>}
          /\ q.failed = d.failed + 1

LEMMA QueryFacts ==
    ASSUME NEW d \in Databases, NEW done \in Databases, NEW o \in Outcomes,
           done.failed = d.failed
    PROVE  Queried(d, done, Query(d, o, done))
  <1> DEFINE q == Query(d, o, done)
  <1>1. CASE ~d.connected
    <2>1. q = [d EXCEPT !.ok = FALSE]
      BY <1>1, Zenon DEF Query
    <2> HIDE DEF q
    <2>2. /\ q \in Databases /\ q.ok = FALSE /\ q.rows = d.rows
          /\ q.pending = d.pending /\ q.connected = d.connected
          /\ q.failed = d.failed
      BY <2>1, OkFacts
    <2> QED
      BY <1>1, <2>2 DEF q, Queried
  <1>2. CASE d.connected /\ o = "ok"
    <2>1. q = [done EXCEPT !.ok = TRUE]
      BY <1>2 DEF Query
    <2> HIDE DEF q
    <2>2. /\ q \in Databases /\ q.ok = TRUE /\ q.rows = done.rows
          /\ q.pending = done.pending /\ q.connected = done.connected
          /\ q.failed = done.failed
      BY <2>1, OkFacts
    <2> QED
      BY <1>2, <2>2 DEF q, Queried
  <1>3. CASE d.connected /\ o = "error"
    <2>1. q = Fails(d)
      BY <1>3 DEF Query
    <2> HIDE DEF q
    <2>2. /\ q \in Databases /\ ~q.ok /\ q.rows = d.rows
          /\ q.pending = d.pending /\ q.failed = d.failed + 1
      BY <2>1, FailsFacts
    <2> QED
      BY <1>3, <2>2 DEF q, Queried
  <1>4. CASE d.connected /\ o = "lost"
    <2> DEFINE f == Fails(Dropped(d))
    <2>1. q = [f EXCEPT !.connected = FALSE]
      BY <1>4 DEF Query
    <2>2. /\ f \in Databases /\ ~f.ok /\ f.failed = d.failed + 1
          /\ f.rows = d.rows /\ f.pending = <<>>
      BY DroppedFacts, FailsFacts
    <2> HIDE DEF q, f
    <2>3. /\ q \in Databases /\ ~q.connected /\ q.rows = f.rows /\ q.ok = f.ok
          /\ q.pending = f.pending /\ q.failed = f.failed
      BY <2>1, <2>2, LostFacts
    <2> QED
      BY <1>4, <2>2, <2>3 DEF q, Queried
  <1>5. CASE d.connected /\ o = "unanswered"
    <2> DEFINE f == Fails(Dropped(done))
    <2>1. q = [f EXCEPT !.connected = FALSE]
      BY <1>5 DEF Query
    <2>2. /\ f \in Databases /\ ~f.ok /\ f.failed = done.failed + 1
          /\ f.rows = done.rows /\ f.pending = <<>>
      BY DroppedFacts, FailsFacts
    <2> HIDE DEF q, f
    <2>3. /\ q \in Databases /\ ~q.connected /\ q.rows = f.rows /\ q.ok = f.ok
          /\ q.pending = f.pending /\ q.failed = f.failed
      BY <2>1, <2>2, LostFacts
    <2> QED
      BY <1>5, <2>2, <2>3 DEF q, Queried
  <1> QED
    BY <1>1, <1>2, <1>3, <1>4, <1>5, DatabaseFields DEF Outcomes

LEMMA StaysSettled ==
    ASSUME NEW d, Settled(d), NEW e \in Databases,
           e.pending = <<>>, e.ok, Declines(d, e)
    PROVE  Settled(e)
  <1>1. d.failed \in Nat /\ e.failed \in Nat
    BY DatabaseFields DEF Settled
  <1> QED
    BY <1>1 DEF Settled, Declines

\* IOUser::load changes no row, and finds the row if there is one and nothing
\* fails.
Loaded(d, n, l) ==
    /\ Settled(l.db) /\ l.db.rows = d.rows /\ Declines(d, l.db)
    /\ l.found \in BOOLEAN
    /\ l.found => RowsOf(d, n) # {}
    /\ RowsOf(d, n) # {} /\ d.connected /\ l.db.failed = d.failed => l.found

LEMMA LoadFacts ==
    ASSUME NEW d, Settled(d), NEW n, NEW o \in Outcomes
    PROVE  Loaded(d, n, Load(d, n, o))
  <1> DEFINE q == Query(d, o, d)
             e == [q EXCEPT !.ok = TRUE]
             l == Load(d, n, o)
  <1>1. d \in Databases /\ d.failed \in Nat /\ d.pending = <<>>
    BY DatabaseFields DEF Settled
  <1>2. l.db = e /\ l.found = (q.ok /\ RowsOf(d, n) # {})
    BY DEF Load
  <1>3. Queried(d, d, q)
    BY <1>1, QueryFacts
  <1> HIDE DEF q, l
  <1>4. /\ e \in Databases /\ e.ok = TRUE /\ e.rows = q.rows
        /\ e.pending = q.pending /\ e.connected = q.connected
        /\ e.failed = q.failed
    BY <1>3, OkFacts DEF Queried
  <1> HIDE DEF e
  <1>5. /\ q.ok \in BOOLEAN /\ q.failed \in Nat
        /\ q.connected \in BOOLEAN /\ d.connected \in BOOLEAN
    BY <1>1, <1>3, DatabaseFields DEF Queried
  <1>6. e.pending = <<>> /\ Declines(d, e) /\ e.rows = d.rows
    BY <1>1, <1>3, <1>4, <1>5 DEF Queried, Declines
  <1>7. Settled(e)
    BY <1>4, <1>6, StaysSettled
  <1>8. ASSUME d.connected, e.failed = d.failed, ~q.ok PROVE FALSE
    <2>1. q.failed = d.failed + 1
      BY <1>3, <1>8 DEF Queried
    <2>2. q.failed = d.failed
      BY <1>4, <1>8, Zenon
    <2>3. d.failed \in Nat
      BY <1>1
    <2> QED
      BY <2>1, <2>2, <2>3
  <1> QED
    BY <1>2, <1>5, <1>6, <1>7, <1>8 DEF l, Loaded

LEMMA DeclinesAgain ==
    ASSUME NEW d \in Databases, NEW e \in Databases, NEW f \in Databases,
           Declines(d, e), Declines(e, f)
    PROVE  Declines(d, f)
  <1>1. d.failed \in Nat /\ e.failed \in Nat /\ f.failed \in Nat
    BY DatabaseFields
  <1>2. d.failed <= f.failed
    BY <1>1 DEF Declines
  <1>3. f.failed = d.failed => e.failed = d.failed
    BY <1>1 DEF Declines
  <1> QED
    BY <1>2, <1>3 DEF Declines

\* The calls of IOUser::create.
LEMMA BeginFacts ==
    ASSUME NEW d \in Databases, d.pending = <<>>, NEW o \in Outcomes
    PROVE  LET b == BeginTransaction(d, o) IN
           /\ b \in Databases /\ b.rows = d.rows /\ b.pending = <<>>
           /\ Declines(d, b)
  <1> DEFINE e == Committed(d)
             begun == [e EXCEPT !.inTrans = TRUE]
             b == BeginTransaction(d, o)
  <1>1. /\ e \in Databases /\ e.pending = <<>> /\ e.rows = d.rows \o d.pending
        /\ e.connected = d.connected /\ e.failed = d.failed
    BY CommittedFacts
  <1>2. d.rows \o d.pending = d.rows
    BY DatabaseFields
  <1> HIDE DEF e
  <1>3. /\ begun \in Databases /\ begun.pending = <<>> /\ begun.rows = d.rows
        /\ begun.connected = d.connected /\ begun.failed = d.failed
    BY <1>1, <1>2, InTransFacts
  <1> HIDE DEF begun
  <1>4. b = Query(d, o, begun)
    BY DEF BeginTransaction, begun, e
  <1> HIDE DEF b
  <1>5. Queried(d, begun, b)
    BY <1>3, <1>4, QueryFacts
  <1>6. /\ d.failed \in Nat /\ b.failed \in Nat
        /\ b.connected \in BOOLEAN /\ d.connected \in BOOLEAN
    BY <1>5, DatabaseFields DEF Queried
  <1>7. /\ b \in Databases /\ b.rows = d.rows /\ b.pending = <<>>
        /\ Declines(d, b)
    BY <1>3, <1>5, <1>6 DEF Queried, Declines
  <1> QED
    BY <1>7 DEF b

\* A row that is inserted is in the transaction or, without one, permanent; then
\* also if the answer does not come.
Inserted(b, row, i) ==
    /\ i \in Databases /\ Declines(b, i)
    /\ \/ /\ i.ok /\ i.connected /\ b.connected /\ i.failed = b.failed
          /\ i.rows \in {b.rows, Append(b.rows, row)}
          /\ i.rows \o i.pending = Append(b.rows, row)
       \/ /\ ~i.ok /\ i.pending = <<>>
          /\ i.rows \in {b.rows, Append(b.rows, row)}
          /\ ~b.connected => i.rows = b.rows
          /\ b.connected => i.failed = b.failed + 1

LEMMA InsertFacts ==
    ASSUME NEW b \in Databases, b.pending = <<>>, NEW row \in RowRecords,
           NEW o \in Outcomes
    PROVE  Inserted(b, row, InsertRow(b, row, o))
  <1> DEFINE i == InsertRow(b, row, o)
             one == Append(b.pending, row)
             some == Append(b.rows, row)
             done == IF b.inTrans THEN [b EXCEPT !.pending = one]
                                  ELSE [b EXCEPT !.rows = some]
  <1>1. /\ one = <<row>> /\ b.rows \in Seq(RowRecords)
        /\ one \in Seq(RowRecords) /\ some \in Seq(RowRecords)
    BY DatabaseFields
  <1>2. i = Query(b, o, done)
    BY DEF InsertRow
  <1>3. b.inTrans \in BOOLEAN /\ b.failed \in Nat /\ b.connected \in BOOLEAN
    BY DatabaseFields
  <1>4. b.rows \o one = some /\ some \o <<>> = some
    BY <1>1
  <1>5. /\ done \in Databases
        /\ done.connected = b.connected /\ done.failed = b.failed
        /\ done.rows \in {b.rows, some}
        /\ done.rows \o done.pending = some
    <2> HIDE DEF one, some
    <2>1. CASE b.inTrans
      <3> DEFINE f == [b EXCEPT !.pending = one]
      <3>1. /\ f \in Databases /\ f.rows = b.rows /\ f.pending = one
            /\ f.connected = b.connected /\ f.failed = b.failed
        BY <1>1 DEF Databases
      <3>2. done = f
        BY <2>1
      <3> HIDE DEF f
      <3> QED
        BY <1>4, <3>1, <3>2
    <2>2. CASE ~b.inTrans
      <3> DEFINE f == [b EXCEPT !.rows = some]
      <3>1. /\ f \in Databases /\ f.rows = some /\ f.pending = b.pending
            /\ f.connected = b.connected /\ f.failed = b.failed
        BY <1>1 DEF Databases
      <3>2. done = f
        BY <2>2
      <3> HIDE DEF f
      <3> QED
        BY <1>4, <3>1, <3>2
    <2> QED
      BY <1>3, <2>1, <2>2
  <1> HIDE DEF done, one, i
  <1>6. Queried(b, done, i)
    BY <1>2, <1>5, QueryFacts
  <1>7. i \in Databases
    BY <1>6 DEF Queried
  <1>8. i.failed \in Nat /\ i.connected \in BOOLEAN /\ i.ok \in BOOLEAN
    BY <1>7, DatabaseFields
  <1>9. Declines(b, i)
    BY <1>3, <1>5, <1>6, <1>8 DEF Queried, Declines
  <1>10. CASE i.ok
    <2>1. /\ b.connected /\ i.rows = done.rows /\ i.pending = done.pending
          /\ i.connected = done.connected /\ i.failed = done.failed
      BY <1>6, <1>10 DEF Queried
    <2> QED
      BY <1>5, <1>7, <1>9, <1>10, <2>1, Zenon DEF Inserted, i
  <1>11. CASE ~i.ok
    <2>1. /\ i.pending = <<>> /\ i.rows \in {b.rows, some}
          /\ ~b.connected => i.rows = b.rows
      BY <1>5, <1>6, <1>11 DEF Queried
    <2>2. b.connected => i.failed = b.failed + 1
      BY <1>3, <1>6, <1>11 DEF Queried
    <2> QED
      BY <1>7, <1>9, <1>11, <2>1, <2>2, Zenon DEF Inserted, i
  <1> QED
    BY <1>8, <1>10, <1>11

\* A COMMIT that fails may have been done.
CommitEnds(i, k) ==
    /\ k \in Databases /\ k.pending = <<>> /\ k.connected = i.connected
    /\ k.rows \in {i.rows, i.rows \o i.pending}
    /\ \/ k.ok /\ k.failed = i.failed /\ k.rows = i.rows \o i.pending
       \/ ~k.ok /\ k.failed = i.failed + 1

LEMMA CommitFacts ==
    ASSUME NEW i \in Databases, i.connected, NEW o \in Outcomes
    PROVE  CommitEnds(i, Commit(i, o))
  <1> DEFINE k == Commit(i, o)
             c == Committed(i)
             e == Dropped(i)
  <1>1. /\ c \in Databases /\ c.pending = <<>> /\ c.rows = i.rows \o i.pending
        /\ c.connected = i.connected /\ c.failed = i.failed
    BY CommittedFacts
  <1>2. /\ e \in Databases /\ e.pending = <<>> /\ e.rows = i.rows
        /\ e.connected = i.connected /\ e.failed = i.failed
    BY DroppedFacts
  <1>3. CASE o = "ok"
    <2>1. k = [c EXCEPT !.ok = TRUE]
      BY <1>3 DEF Commit
    <2> HIDE DEF k, c
    <2>2. /\ k \in Databases /\ k.ok = TRUE /\ k.rows = c.rows
          /\ k.pending = c.pending /\ k.connected = c.connected
          /\ k.failed = c.failed
      BY <1>1, <2>1, OkFacts
    <2> QED
      BY <1>1, <2>2, Zenon DEF CommitEnds, k
  <1>4. CASE o \in {"error", "lost"}
    <2>1. k = Fails(e)
      BY <1>4 DEF Commit
    <2> HIDE DEF k, e
    <2>2. /\ k \in Databases /\ ~k.ok /\ k.rows = e.rows
          /\ k.pending = e.pending /\ k.connected = e.connected
          /\ k.failed = e.failed + 1
      BY <1>2, <2>1, FailsFacts
    <2> QED
      BY <1>2, <2>2, Zenon DEF CommitEnds, k
  <1>5. CASE o = "unanswered"
    <2>1. k = Fails(c)
      BY <1>5 DEF Commit
    <2> HIDE DEF k, c
    <2>2. /\ k \in Databases /\ ~k.ok /\ k.rows = c.rows
          /\ k.pending = c.pending /\ k.connected = c.connected
          /\ k.failed = c.failed + 1
      BY <1>1, <2>1, FailsFacts
    <2> QED
      BY <1>1, <2>2, Zenon DEF CommitEnds, k
  <1> QED
    BY <1>3, <1>4, <1>5 DEF Outcomes

LEMMA RollbackFacts ==
    ASSUME NEW i \in Databases, i.pending = <<>>, NEW o \in Outcomes
    PROVE  LET z == Rollback(i, o) IN
           /\ z \in Databases /\ z.pending = <<>> /\ z.rows = i.rows
           /\ z.connected = i.connected
           /\ z.failed = i.failed \/ z.failed = i.failed + 1
  <1> DEFINE z == Rollback(i, o)
             e == Dropped(i)
  <1> SUFFICES /\ z \in Databases /\ z.pending = <<>> /\ z.rows = i.rows
               /\ z.connected = i.connected
               /\ (z.failed = i.failed \/ z.failed = i.failed + 1)
    BY Zenon
  <1>1. /\ e \in Databases /\ e.pending = <<>> /\ e.rows = i.rows
        /\ e.connected = i.connected /\ e.failed = i.failed
    BY DroppedFacts
  <1>2. CASE ~i.connected
    <2>1. z = [i EXCEPT !.ok = FALSE]
      BY <1>2, Zenon DEF Rollback
    <2> HIDE DEF z
    <2>2. /\ z \in Databases /\ z.rows = i.rows /\ z.pending = i.pending
          /\ z.connected = i.connected /\ z.failed = i.failed
      BY <2>1, OkFacts
    <2> QED
      BY <2>2
  <1>3. CASE i.connected /\ o = "ok"
    <2>1. z = [e EXCEPT !.ok = TRUE]
      BY <1>3 DEF Rollback
    <2> HIDE DEF z, e
    <2>2. /\ z \in Databases /\ z.rows = e.rows /\ z.pending = e.pending
          /\ z.connected = e.connected /\ z.failed = e.failed
      BY <1>1, <2>1, OkFacts
    <2> QED
      BY <1>1, <2>2
  <1>4. CASE i.connected /\ o = "error"
    <2>1. z = Fails(i)
      BY <1>4 DEF Rollback
    <2> HIDE DEF z
    <2> QED
      BY <2>1, FailsFacts
  <1>5. CASE i.connected /\ o \in {"lost", "unanswered"}
    <2>1. z = Fails(e)
      BY <1>5 DEF Rollback
    <2> HIDE DEF z, e
    <2>2. /\ z \in Databases /\ z.rows = e.rows /\ z.pending = e.pending
          /\ z.connected = e.connected /\ z.failed = e.failed + 1
      BY <1>1, <2>1, FailsFacts
    <2> QED
      BY <1>1, <2>2, Zenon
  <1>6. i.connected \in BOOLEAN
    BY DatabaseFields
  <1> QED
    BY <1>2, <1>3, <1>4, <1>5, <1>6 DEF Outcomes

\* IOUser::create adds the row or not, and has it when it returns its id.  It
\* does if nothing fails.
Created(d, row, m) ==
    /\ Settled(m.db) /\ Declines(d, m.db)
    /\ m.id \in BOOLEAN
    /\ m.db.rows \in {d.rows, Append(d.rows, row)}
    /\ m.id => m.db.rows = Append(d.rows, row)
    /\ ~d.connected => m.db.rows = d.rows
    /\ d.connected /\ m.db.failed = d.failed => m.id

LEMMA CreateFacts ==
    ASSUME NEW d, Settled(d), NEW row \in RowRecords, NEW o \in CreateOutcomes
    PROVE  Created(d, row, Create(d, row, o))
  <1> DEFINE b == BeginTransaction(d, o["begin"])
             i == InsertRow(b, row, o["insert"])
             k == Commit(i, o["commit"])
             z == Rollback(i, o["rollback"])
             end == IF i.ok THEN k ELSE z
             last == [end EXCEPT !.ok = TRUE]
             m == Create(d, row, o)
             all == Append(d.rows, row)
  <1>1. /\ o["begin"] \in Outcomes /\ o["insert"] \in Outcomes
        /\ o["commit"] \in Outcomes /\ o["rollback"] \in Outcomes
    BY DEF CreateOutcomes, CreateCalls
  <1>2. d \in Databases /\ d.pending = <<>>
    BY DEF Settled
  <1>3. m.db = last /\ m.id = (i.ok /\ k.ok)
    BY Zenon DEF Create
  <1> HIDE DEF m
  <1>4. /\ b \in Databases /\ b.rows = d.rows /\ b.pending = <<>>
        /\ Declines(d, b)
    BY <1>1, <1>2, BeginFacts
  <1> HIDE DEF b
  <1>5. Inserted(b, row, i)
    BY <1>1, <1>4, InsertFacts
  <1> HIDE DEF i
  <1>6. i \in Databases /\ Declines(d, i)
    BY <1>2, <1>4, <1>5, DeclinesAgain DEF Inserted
  <1>7. /\ d.failed \in Nat /\ b.failed \in Nat /\ i.failed \in Nat
        /\ d.connected \in BOOLEAN /\ b.connected \in BOOLEAN
        /\ i.ok \in BOOLEAN /\ i.connected \in BOOLEAN
    BY <1>2, <1>4, <1>6, DatabaseFields
  <1>8. CASE i.ok
    <2>1. /\ i.connected /\ b.connected /\ i.failed = b.failed
          /\ i.rows \in {d.rows, all} /\ i.rows \o i.pending = all
      BY <1>4, <1>5, <1>8, Zenon DEF Inserted
    <2>2. CommitEnds(i, k)
      BY <1>1, <1>6, <2>1, CommitFacts
    <2> HIDE DEF k
    <2>3. k \in Databases /\ end = k
      BY <1>8, <2>2 DEF CommitEnds
    <2> HIDE DEF end
    <2>4. /\ last \in Databases /\ last.ok = TRUE /\ last.rows = end.rows
          /\ last.pending = end.pending /\ last.connected = end.connected
          /\ last.failed = end.failed
      BY <2>3, OkFacts
    <2> HIDE DEF last
    <2>5. k.ok \in BOOLEAN /\ k.failed \in Nat /\ k.connected \in BOOLEAN
      BY <2>3, DatabaseFields
    <2>6. Declines(i, last)
      <3>1. k.failed = i.failed \/ k.failed = i.failed + 1
        BY <2>2 DEF CommitEnds
      <3>2. k.connected = i.connected
        BY <2>2 DEF CommitEnds
      <3>3. last.failed = k.failed /\ last.connected = i.connected
        BY <2>3, <2>4, <3>2, Zenon
      <3>4. i.failed <= k.failed
        BY <1>7, <3>1
      <3> QED
        BY <3>3, <3>4 DEF Declines
    <2>7. Declines(d, last)
      BY <1>2, <1>6, <2>4, <2>6, DeclinesAgain
    <2>8. Settled(last)
      <3>1. last.pending = <<>>
        BY <2>2, <2>3, <2>4, Zenon DEF CommitEnds
      <3> QED
        BY <2>4, <2>7, <3>1, StaysSettled
    <2>9. last.rows \in {d.rows, all} /\ (k.ok => last.rows = all)
      <3>1. k.rows \in {i.rows, all} /\ (k.ok => k.rows = all)
        BY <2>1, <2>2, Zenon DEF CommitEnds
      <3>2. last.rows = k.rows
        BY <2>3, <2>4, Zenon
      <3> QED
        BY <2>1, <3>1, <3>2, Zenon
    <2>10. d.connected
      BY <1>4, <2>1 DEF Declines
    <2>11. ASSUME last.failed = d.failed, ~k.ok PROVE FALSE
      <3>1. k.failed = i.failed + 1 /\ last.failed = k.failed
        BY <2>2, <2>3, <2>4, <2>11, Zenon DEF CommitEnds
      <3>2. k.failed = d.failed
        BY <2>11, <3>1, Zenon
      <3>3. d.failed <= i.failed
        BY <1>6 DEF Declines
      <3> QED
        BY <1>7, <3>1, <3>2, <3>3
    <2>12. m.id = k.ok
      BY <1>3, <1>8, <2>5
    <2> HIDE DEF all
    <2>13. /\ m.db = last /\ m.id \in BOOLEAN
           /\ m.id => last.rows = all
           /\ last.failed = d.failed => m.id
      BY <1>3, <2>5, <2>9, <2>11, <2>12
    <2> QED
      BY <2>7, <2>8, <2>9, <2>10, <2>13, Zenon DEF m, Created, all
  <1>9. CASE ~i.ok
    <2>1. /\ i.rows \in {d.rows, all} /\ i.pending = <<>>
          /\ ~b.connected => i.rows = d.rows
          /\ b.connected => i.failed = b.failed + 1
      BY <1>4, <1>5, <1>9, Zenon DEF Inserted
    <2>2. /\ z \in Databases /\ z.pending = <<>> /\ z.rows = i.rows
          /\ z.connected = i.connected
          /\ (z.failed = i.failed \/ z.failed = i.failed + 1)
      BY <1>1, <1>6, <2>1, RollbackFacts
    <2> HIDE DEF z
    <2>3. end = z
      BY <1>9
    <2> HIDE DEF end
    <2>4. /\ last \in Databases /\ last.ok = TRUE /\ last.rows = end.rows
          /\ last.pending = end.pending /\ last.connected = end.connected
          /\ last.failed = end.failed
      BY <2>2, <2>3, OkFacts
    <2> HIDE DEF last
    <2>5. z.failed \in Nat /\ z.connected \in BOOLEAN
      BY <2>2, DatabaseFields
    <2>6. last.failed = z.failed /\ last.connected = i.connected
      BY <2>2, <2>3, <2>4, Zenon
    <2>7. i.failed <= last.failed
      BY <1>7, <2>2, <2>6
    <2>8. Declines(d, last)
      <3>1. Declines(i, last)
        BY <2>6, <2>7 DEF Declines
      <3> QED
        BY <1>2, <1>6, <2>4, <3>1, DeclinesAgain
    <2>9. Settled(last)
      <3>1. last.pending = <<>>
        BY <2>2, <2>3, <2>4, Zenon
      <3> QED
        BY <2>4, <2>8, <3>1, StaysSettled
    <2>10. /\ last.rows \in {d.rows, all}
           /\ ~d.connected => last.rows = d.rows
      <3>1. last.rows = i.rows
        BY <2>2, <2>3, <2>4, Zenon
      <3>2. ~d.connected => ~b.connected
        BY <1>4 DEF Declines
      <3> QED
        BY <2>1, <3>1, <3>2, Zenon
    <2>11. ASSUME d.connected, last.failed = d.failed PROVE FALSE
      <3>1. d.failed <= b.failed /\ (b.failed = d.failed => b.connected)
        BY <1>4, <2>11 DEF Declines
      <3>2. b.failed <= i.failed
        BY <1>5 DEF Inserted, Declines
      <3>3. i.failed <= d.failed
        BY <2>7, <2>11, Zenon
      <3>4. b.failed = d.failed /\ i.failed = b.failed
        BY <1>7, <3>1, <3>2, <3>3
      <3>5. i.failed = b.failed + 1
        BY <2>1, <3>1, <3>4
      <3> QED
        BY <1>7, <3>4, <3>5
    <2>12. m.id = FALSE
      BY <1>3, <1>9
    <2>13. m.db = last
      BY <1>3
    <2> QED
      BY <2>8, <2>9, <2>10, <2>11, <2>12, <2>13, Zenon DEF m, Created, all
  <1> QED
    BY <1>7, <1>8, <1>9

-----------------------------------------------------------------------------
(* The rows of a login.                                                    *)

LEMMA FirstFacts ==
    ASSUME NEW S \in SUBSET Nat, S # {}
    PROVE  First(S) \in S /\ \A j \in S : First(S) <= j
  <1>1. \E i \in S : \A j \in S : i <= j
    BY Minimum
  <1> QED
    BY <1>1, Zenon DEF First

LEMMA RowsFacts ==
    ASSUME NEW d, Settled(d)
    PROVE  /\ Rows(d) = d.rows /\ Rows(d) \in Seq(RowRecords)
           /\ Len(d.rows) \in Nat /\ DOMAIN d.rows = 1..Len(d.rows)
  BY DatabaseFields DEF Rows, Settled

LEMMA RowsOfFacts ==
    ASSUME NEW d, Settled(d), NEW n
    PROVE  /\ RowsOf(d, n) \in SUBSET (1..Len(d.rows))
           /\ IsFiniteSet(RowsOf(d, n))
           /\ Cardinality(RowsOf(d, n)) \in Nat
           /\ RowsOf(d, n) # {} => Cardinality(RowsOf(d, n)) >= 1
  <1>1. RowsOf(d, n) \in SUBSET (1..Len(d.rows))
    BY RowsFacts DEF RowsOf
  <1>2. IsFiniteSet(1..Len(d.rows))
    BY RowsFacts, FS_Interval
  <1>3. IsFiniteSet(RowsOf(d, n))
    BY <1>1, <1>2, FS_Subset
  <1>4. Cardinality(RowsOf(d, n)) \in Nat
    BY <1>3, FS_CardinalityType
  <1>5. Cardinality(RowsOf(d, n)) = 0 <=> RowsOf(d, n) = {}
    BY <1>3, FS_EmptySet
  <1> QED
    BY <1>1, <1>3, <1>4, <1>5

LEMMA StoredFacts ==
    ASSUME NEW d, Settled(d), NEW n, RowsOf(d, n) # {}
    PROVE  /\ First(RowsOf(d, n)) \in RowsOf(d, n)
           /\ StoredPassword(d, n) \in Pwds
           /\ \E i \in DOMAIN d.rows : d.rows[i].login = n
  <1> DEFINE S == RowsOf(d, n)
             f == First(S)
  <1>1. S \in SUBSET Nat /\ S # {}
    BY RowsOfFacts
  <1>2. f \in S
    BY <1>1, FirstFacts
  <1> HIDE DEF f
  <1>3. /\ f \in DOMAIN Rows(d) /\ Rows(d)[f].login = n
        /\ Rows(d)[f] \in RowRecords
    BY <1>2, RowsFacts DEF RowsOf
  <1>4. Rows(d)[f].password \in Pwds
    BY <1>3 DEF RowRecords
  <1>5. f \in DOMAIN d.rows /\ d.rows[f].login = n
    BY <1>3, RowsFacts
  <1> QED
    BY <1>2, <1>4, <1>5 DEF StoredPassword, f

LEMMA SameRows ==
    ASSUME NEW d, Settled(d), NEW e, Settled(e), e.rows = d.rows, NEW n
    PROVE  RowsOf(e, n) = RowsOf(d, n) /\ StoredPassword(e, n) = StoredPassword(d, n)
  <1>1. Rows(e) = Rows(d)
    BY RowsFacts
  <1> QED
    BY <1>1 DEF RowsOf, StoredPassword

\* A row that is added is the last one: only a login without a row gets another
\* first row.
LEMMA OneMoreRow ==
    ASSUME NEW d, Settled(d), NEW e, Settled(e), NEW row \in RowRecords,
           e.rows = Append(d.rows, row), NEW n
    PROVE  /\ row.login # n => /\ RowsOf(e, n) = RowsOf(d, n)
                               /\ Cardinality(RowsOf(e, n)) =
                                     Cardinality(RowsOf(d, n))
           /\ row.login = n => Cardinality(RowsOf(e, n)) =
                                     Cardinality(RowsOf(d, n)) + 1
           /\ row.login = n => RowsOf(e, n) # {}
           /\ RowsOf(d, n) # {} =>
                 /\ RowsOf(e, n) # {}
                 /\ StoredPassword(e, n) = StoredPassword(d, n)
  <1> DEFINE len == Len(d.rows)
             S == RowsOf(d, n)
             T == RowsOf(e, n)
  <1>1. /\ Rows(e) = Append(d.rows, row) /\ Rows(d) = d.rows
        /\ d.rows \in Seq(RowRecords) /\ len \in Nat
    BY RowsFacts
  <1>2. /\ DOMAIN Rows(d) = 1..len /\ DOMAIN Rows(e) = 1..(len + 1)
        /\ Rows(e)[len + 1] = row
        /\ \A i \in 1..len : Rows(e)[i] = Rows(d)[i]
    BY <1>1
  <1> HIDE DEF len
  <1>3. row.login # n => T = S
    BY <1>1, <1>2 DEF RowsOf
  <1>4. row.login = n => T = S \cup {len + 1}
    BY <1>1, <1>2 DEF RowsOf
  <1>5. S \in SUBSET (1..len) /\ IsFiniteSet(S) /\ Cardinality(S) \in Nat
    BY RowsOfFacts DEF len
  <1>6. len + 1 \notin S
    BY <1>1, <1>5
  <1>7. Cardinality(S \cup {len + 1}) = Cardinality(S) + 1
    BY <1>5, <1>6, FS_AddElement
  <1>8. ASSUME S # {}
        PROVE  T # {} /\ First(T) = First(S) /\ First(S) \in 1..len
    <2>1. First(S) \in S /\ \A j \in S : First(S) <= j
      BY <1>5, <1>8, FirstFacts
    <2>2. T # {} /\ T \in SUBSET Nat /\ S \subseteq T
      BY <1>1, <1>3, <1>4, <1>5, <1>8
    <2>3. First(T) \in T /\ \A j \in T : First(T) <= j
      BY <2>2, FirstFacts
    <2>4. First(S) \in 1..len /\ First(S) \in Nat
      BY <1>5, <2>1
    <2>5. First(T) \in S
      BY <1>1, <1>3, <1>4, <2>1, <2>2, <2>3, <2>4
    <2>6. First(S) <= First(T) /\ First(T) <= First(S)
      BY <2>1, <2>2, <2>3, <2>5
    <2>7. First(S) = First(T)
      BY <2>2, <2>3, <2>4, <2>6
    <2> QED
      BY <2>2, <2>4, <2>7
  <1>9. S # {} => StoredPassword(e, n) = StoredPassword(d, n)
    BY <1>2, <1>8 DEF StoredPassword
  <1> HIDE DEF S, T
  <1>10. row.login = n => T # {}
    BY <1>4
  <1> QED
    BY <1>3, <1>4, <1>7, <1>8, <1>9, <1>10 DEF S, T

-----------------------------------------------------------------------------
(* Failed attempts to log in.                                              *)

\* A user, whatever the number of its attempts.
AnyUsers ==
    [life : {"none", "there", "deleted"}, client : Conns \cup {Nothing},
     listed : BOOLEAN, stage : Stages, level : {"LOGIN", "NOVICE"},
     name : Names \cup {Nothing}, password : Pwds \cup {Nothing},
     attempts : Nat, negotiated : BOOLEAN,
     guid : Names \cup {Nothing}, proved : Names \cup {Nothing}]

LEMMA UserTypes ==
    \A r : r \in UserRecords <=> r \in AnyUsers /\ r.attempts <= AttemptBound
  BY SessionAssumption DEF UserRecords, AnyUsers

\* s is r after attempts: they only count, forget what was typed and, when they
\* reach the limit, take the user off the list.
Tried(r, s) ==
    /\ s \in AnyUsers
    /\ s.life = r.life /\ s.client = r.client
    /\ s.level = r.level /\ s.name = r.name
    /\ s.negotiated = r.negotiated /\ s.guid = r.guid /\ s.proved = r.proved
    /\ r.attempts <= s.attempts
    /\ s.listed => r.listed
    /\ r.attempts < MaxAttempts /\ MaxAttempts <= s.attempts => ~s.listed
    /\ \/ s.stage = r.stage /\ s.password = r.password
       \/ s.stage = "LOGIN_NAME" /\ s.password = Nothing

LEMMA AttemptTries ==
    ASSUME NEW r \in AnyUsers
    PROVE  Tried(r, Attempt(r))
  <1> DEFINE n == r.attempts + 1
  <1>0. n \in Nat /\ r.attempts \in Nat /\ n = r.attempts + 1
    BY DEF AnyUsers
  <1>1. CASE r.attempts + 1 = MaxAttempts
    <2> DEFINE s == [r EXCEPT !.attempts = n, !.listed = FALSE]
    <2> HIDE DEF n
    <2>1. s \in AnyUsers
      BY <1>0 DEF AnyUsers
    <2>2. /\ s.life = r.life /\ s.client = r.client
          /\ s.level = r.level /\ s.name = r.name
          /\ s.negotiated = r.negotiated /\ s.guid = r.guid
          /\ s.proved = r.proved /\ s.attempts = n
          /\ s.listed = FALSE
          /\ s.stage = r.stage /\ s.password = r.password
      BY DEF AnyUsers
    <2>3. Attempt(r) = s
      BY <1>1 DEF Attempt, n
    <2> HIDE DEF s
    <2> QED
      BY <1>0, <2>1, <2>2, <2>3 DEF Tried
  <1>2. CASE r.attempts + 1 # MaxAttempts
    <2> DEFINE s == [r EXCEPT !.attempts = n,
                              !.stage = "LOGIN_NAME", !.password = Nothing]
    <2> HIDE DEF n
    <2>1. s \in AnyUsers
      BY <1>0 DEF AnyUsers, Stages, LoginStages
    <2>2. /\ s.life = r.life /\ s.client = r.client
          /\ s.level = r.level /\ s.name = r.name
          /\ s.negotiated = r.negotiated /\ s.guid = r.guid
          /\ s.proved = r.proved /\ s.attempts = n
          /\ s.listed = r.listed
          /\ s.stage = "LOGIN_NAME" /\ s.password = Nothing
      BY DEF AnyUsers
    <2>3. Attempt(r) = s
      BY <1>2 DEF Attempt, n
    <2> HIDE DEF s
    <2> QED
      BY <1>0, <1>2, <2>1, <2>2, <2>3, SessionAssumption DEF Tried
  <1> QED
    BY <1>1, <1>2

LEMMA TriedAgain ==
    ASSUME NEW r \in AnyUsers, NEW s, NEW t, Tried(r, s), Tried(s, t)
    PROVE  Tried(r, t)
  <1>1. /\ r.attempts \in Nat /\ s.attempts \in Nat /\ t.attempts \in Nat
        /\ MaxAttempts \in Nat
    BY SessionAssumption DEF AnyUsers, Tried
  <1>2. r.attempts <= t.attempts
    BY <1>1 DEF Tried
  <1>3. r.attempts < MaxAttempts /\ MaxAttempts <= t.attempts => ~t.listed
    BY <1>1 DEF Tried
  <1> QED
    BY <1>2, <1>3 DEF Tried

\* The users after each of k attempts.
Runs(f, r, k) ==
    f = [i \in 0..k |-> IF i = 0 THEN r ELSE Attempt(f[i - 1])]

LEMMA RunsExist ==
    ASSUME NEW r
    PROVE  \A k \in Nat : \E f : Runs(f, r, k)
  <1> DEFINE S == {k \in Nat : \E f : Runs(f, r, k)}
  <1>1. 0 \in S
    <2>1. Runs([i \in 0..0 |-> r], r, 0)
      BY DEF Runs
    <2> QED
      BY <2>1
  <1>2. ASSUME NEW k \in Nat, k \in S PROVE k + 1 \in S
    <2>1. PICK f : Runs(f, r, k)
      BY <1>2
    <2> DEFINE g == [i \in 0..(k + 1) |->
                        IF i = k + 1 THEN Attempt(f[k]) ELSE f[i]]
    <2>2. \A i \in 0..k : g[i] = f[i]
      OBVIOUS
    <2>3. \A i \in 0..k : f[i] = IF i = 0 THEN r ELSE Attempt(f[i - 1])
      BY <2>1 DEF Runs
    <2>4. ASSUME NEW i \in 0..(k + 1)
          PROVE  g[i] = IF i = 0 THEN r ELSE Attempt(g[i - 1])
      <3>1. CASE i = k + 1
        <4>1. g[i] = Attempt(f[k]) /\ i - 1 = k /\ i # 0
          BY <3>1
        <4>2. g[k] = f[k]
          BY <2>2
        <4> HIDE DEF g
        <4> QED
          BY <4>1, <4>2
      <3>2. CASE i # k + 1
        <4>1. i \in 0..k /\ (i # 0 => i - 1 \in 0..k)
          BY <3>2
        <4> HIDE DEF g
        <4> QED
          BY <2>2, <2>3, <4>1
      <3> QED
        BY <3>1, <3>2
    <2>5. g = [i \in 0..(k + 1) |-> g[i]]
      OBVIOUS
    <2> HIDE DEF g
    <2>6. Runs(g, r, k + 1)
      BY <2>4, <2>5 DEF Runs
    <2> QED
      BY <2>6
  <1> HIDE DEF S
  <1>3. Nat \subseteq S
    BY <1>1, <1>2, SetInduction
  <1> QED
    BY <1>3 DEF S

\* However many characters of a name are no letters.
LEMMA AttemptsTry ==
    ASSUME NEW r \in AnyUsers, NEW k \in Nat
    PROVE  Tried(r, Attempts(r, k))
  <1> DEFINE f == CHOOSE g :
                     g = [i \in 0..k |-> IF i = 0 THEN r ELSE Attempt(g[i - 1])]
  <1>1. f = [i \in 0..k |-> IF i = 0 THEN r ELSE Attempt(f[i - 1])]
    <2>1. \E g : g = [i \in 0..k |-> IF i = 0 THEN r ELSE Attempt(g[i - 1])]
      BY RunsExist DEF Runs
    <2> QED
      BY <2>1, Zenon
  <1>2. Attempts(r, k) = f[k]
    BY Zenon DEF Attempts
  <1> HIDE DEF f
  <1>3. \A i \in 0..k : f[i] = IF i = 0 THEN r ELSE Attempt(f[i - 1])
    BY <1>1
  <1> DEFINE S == {i \in Nat : i \in 0..k => Tried(r, f[i])}
  <1>4. 0 \in S
    <2>1. r.attempts \in Nat /\ f[0] = r
      BY <1>3 DEF AnyUsers
    <2>2. Tried(r, r)
      BY <2>1, SessionAssumption DEF Tried
    <2> QED
      BY <2>1, <2>2
  <1>5. ASSUME NEW i \in Nat, i \in S PROVE i + 1 \in S
    <2>1. CASE i + 1 \in 0..k
      <3>1. Tried(r, f[i]) /\ f[i + 1] = Attempt(f[i])
        <4>1. i + 1 # 0 /\ (i + 1) - 1 = i /\ i \in 0..k
          BY <2>1
        <4> QED
          BY <1>3, <1>5, <2>1, <4>1
      <3>2. Tried(f[i], f[i + 1])
        BY <3>1, AttemptTries DEF Tried
      <3> QED
        BY <3>1, <3>2, TriedAgain
    <2> QED
      BY <2>1
  <1> HIDE DEF S
  <1>6. Nat \subseteq S
    BY <1>4, <1>5, SetInduction
  <1> QED
    BY <1>2, <1>6 DEF S
-----------------------------------------------------------------------------
(* A connection, the pointer of its protocol and the user made for it.     *)

\* What was typed at a stage is there at the next.
StageData(u) ==
    /\ u.stage \in {"LOGIN_PWD", "LOGIN_REENTER_PWD"} => u.name \in Names
    /\ u.stage = "LOGIN_REENTER_PWD" => u.password \in Pwds
    /\ u.level # "LOGIN" => u.name \in Names

\* c's connection is in the given state, r's packet is being read, p is the
\* user of c's protocol, and u the one that was made for c.
Fits(c, state, r, p, u) ==
    /\ p \in {c, Nothing} /\ u.client \in {c, Nothing}
    /\ state = "none" => u.life = "none"
    /\ u.life = "none" => p = Nothing /\ u = NoUser("none")
    /\ r = c => state \in {"open", "closing"} /\ p = c
    /\ p = c /\ state = "open" =>
          u.client = c /\ u.listed /\ u.attempts < MaxAttempts
    /\ p = c /\ (state = "open" \/ r = c) => u.life = "there"
    /\ u.listed => u.life = "there"
    /\ u.client = c => p = c /\ state \in {"open", "closing"}
    /\ StageData(u)

ConnStates == {"none", "open", "closing", "closed", "released"}

UsersTyped ==
    /\ up \in BOOLEAN
    /\ conn \in [Conns -> ConnStates]
    /\ reading \in Conns \cup {Nothing}
    /\ protocolUser \in [Conns -> Conns \cup {Nothing}]
    /\ user \in [Conns -> UserRecords]

UserInv ==
    /\ UsersTyped
    /\ \A c \in Conns : Fits(c, conn[c], reading, protocolUser[c], user[c])

\* A user before it is created, when it is, and after it was deleted.
LEMMA NewUserFacts ==
    ASSUME NEW c \in Conns \cup {Nothing}
    PROVE  LET u == NewUser(c) IN
           /\ u \in UserRecords
           /\ u.life = "there" /\ u.client = c /\ u.listed
           /\ u.stage = "LOGIN_NAME" /\ u.level = "LOGIN"
           /\ u.name = Nothing /\ u.password = Nothing /\ u.attempts = 0
           /\ u.guid = Nothing /\ u.proved = Nothing
  <1>1. 0 \in 0..AttemptBound
    BY SessionAssumption
  <1> QED
    BY <1>1 DEF NewUser, UserRecords, Stages, LoginStages

LEMMA NoUserFacts ==
    ASSUME NEW life \in {"none", "there", "deleted"}
    PROVE  LET u == NoUser(life) IN
           /\ u \in UserRecords
           /\ u.life = life /\ u.client = Nothing /\ ~u.listed
           /\ u.stage = "LOGIN_NAME" /\ u.level = "LOGIN"
           /\ u.name = Nothing /\ u.password = Nothing /\ u.attempts = 0
           /\ u.guid = Nothing /\ u.proved = Nothing
  <1> DEFINE e == NewUser(Nothing)
             u == [e EXCEPT !.life = life, !.listed = FALSE]
  <1>1. /\ e \in UserRecords
        /\ e.client = Nothing
        /\ e.stage = "LOGIN_NAME" /\ e.level = "LOGIN"
        /\ e.name = Nothing /\ e.password = Nothing /\ e.attempts = 0
        /\ e.guid = Nothing /\ e.proved = Nothing
    BY NewUserFacts
  <1> HIDE DEF e
  <1>2. /\ u \in UserRecords
        /\ u.life = life /\ u.client = Nothing /\ ~u.listed
        /\ u.stage = "LOGIN_NAME" /\ u.level = "LOGIN"
        /\ u.name = Nothing /\ u.password = Nothing /\ u.attempts = 0
        /\ u.guid = Nothing /\ u.proved = Nothing
    BY <1>1 DEF UserRecords
  <1>3. NoUser(life) = u
    BY DEF NoUser, e
  <1> HIDE DEF u
  <1> QED
    BY <1>2, <1>3

\* No user fits a connection that has none any more.
LEMMA NoUserFits ==
    ASSUME NEW c \in Conns, NEW state \in ConnStates \ {"none"}, NEW r,
           r # c
    PROVE  Fits(c, state, r, Nothing, NoUser("deleted"))
  <1>1. Nothing # c
    BY SessionAssumption
  <1> QED
    BY <1>1, NoUserFacts DEF Fits, StageData

\* A connection may be closed, and the reader may finish, at any time.
LEMMA StillFits ==
    ASSUME NEW c \in Conns, NEW state, NEW r, NEW p, NEW u,
           Fits(c, state, r, p, u),
           NEW state2, state2 = state \/ (state = "open" /\ state2 = "closing"),
           NEW r2, r2 = c => r = c
    PROVE  Fits(c, state2, r2, p, u)
  BY DEF Fits

\* What a line may do to the user u who gave it.
Line(u, s) ==
    /\ s \in UserRecords
    /\ s.life = u.life /\ s.client = u.client
    /\ s.listed => u.listed
    /\ u.attempts < MaxAttempts /\ MaxAttempts <= s.attempts => ~s.listed
    /\ StageData(s)

LEMMA LineFits ==
    ASSUME NEW c \in Conns, NEW u \in UserRecords, NEW s, Line(u, s),
           NEW state, Fits(c, state, c, c, u),
           NEW state2, state2 = state \/ (state = "open" /\ state2 = "closing"),
           u.listed /\ ~s.listed => state2 # "open"
    PROVE  Fits(c, state2, c, c, s)
  <1>1. c # Nothing /\ MaxAttempts \in Nat
    BY SessionAssumption
  <1>2. u.attempts \in Nat /\ s.attempts \in Nat
    BY UserTypes DEF Line, AnyUsers
  <1>3. s.life = "there" /\ u.life = "there"
    BY DEF Fits, Line
  <1>4. state2 = "open" => s.listed /\ u.attempts < MaxAttempts /\ u.listed
    BY <1>1 DEF Fits, Line
  <1>5. state2 = "open" => s.attempts < MaxAttempts
    BY <1>1, <1>2, <1>4 DEF Line
  <1> QED
    BY <1>1, <1>3, <1>4, <1>5 DEF Fits, Line

DbInv ==
    /\ Settled(db)
    /\ db.failed <= MaxDbErrors

LEMMA ClosingFacts ==
    ASSUME UsersTyped, NEW C
    PROVE  /\ Closing(C) \in [Conns -> ConnStates]
           /\ \A c \in Conns :
                 /\ \/ Closing(C)[c] = conn[c]
                    \/ conn[c] = "open" /\ Closing(C)[c] = "closing"
                 /\ c \in C => Closing(C)[c] # "open"
  BY DEF Closing, UsersTyped, ConnStates

\* Whoever gives a line does it through its own protocol.
LEMMA ReaderFits ==
    ASSUME UserInv, NEW c \in Conns, reading = c
    PROVE  /\ c # Nothing /\ protocolUser[c] = c
           /\ user[c] \in UserRecords
           /\ Fits(c, conn[c], c, c, user[c])
           /\ conn[c] = "open" => user[c].client = c
           /\ user[c].life = "there" /\ StageData(user[c])
  <1>1. Fits(c, conn[c], c, protocolUser[c], user[c]) /\ c # Nothing
    BY SessionAssumption DEF UserInv
  <1>2. protocolUser[c] = c
    BY <1>1 DEF Fits
  <1>3. user[c] \in UserRecords
    BY DEF UserInv, UsersTyped
  <1>4. Fits(c, conn[c], c, c, user[c])
    BY <1>1, <1>2
  <1> QED
    BY <1>1, <1>2, <1>3, <1>4 DEF Fits

\* A line that changes its user to s, and closes the connections C.
LEMMA LineStep ==
    ASSUME UserInv, NEW c \in Conns, reading = c,
           NEW s, Line(user[c], s),
           NEW C, conn' = Closing(C),
           user[c].listed /\ ~s.listed => user[c].client \in C,
           user' = [user EXCEPT ![c] = s],
           reading' = reading, protocolUser' = protocolUser, up' = up
    PROVE  UserInv'
  <1>1. /\ protocolUser[c] = c /\ user[c] \in UserRecords
        /\ Fits(c, conn[c], c, c, user[c])
        /\ conn[c] = "open" => user[c].client = c
    BY ReaderFits
  <1>2. /\ conn' \in [Conns -> ConnStates]
        /\ \A d \in Conns :
              /\ \/ conn'[d] = conn[d]
                 \/ conn[d] = "open" /\ conn'[d] = "closing"
              /\ d \in C => conn'[d] # "open"
    BY ClosingFacts DEF UserInv
  <1>3. UsersTyped'
    BY <1>2 DEF UserInv, UsersTyped, Line
  <1>4. user'[c] = s /\ \A d \in Conns \ {c} : user'[d] = user[d]
    BY DEF UserInv, UsersTyped
  <1>5. user[c].listed /\ ~s.listed => conn'[c] # "open"
    BY <1>1, <1>2
  <1>6. Fits(c, conn'[c], c, c, s)
    BY <1>1, <1>2, <1>5, LineFits
  <1>7. ASSUME NEW d \in Conns, d # c
        PROVE  Fits(d, conn'[d], reading, protocolUser[d], user[d])
    <2>1. Fits(d, conn[d], reading, protocolUser[d], user[d])
      BY DEF UserInv
    <2> QED
      BY <1>2, <2>1, StillFits
  <1>8. \A d \in Conns :
            Fits(d, conn'[d], reading', protocolUser'[d], user'[d])
    <2> SUFFICES ASSUME NEW d \in Conns
                 PROVE  Fits(d, conn'[d], reading', protocolUser'[d], user'[d])
      OBVIOUS
    <2>1. CASE d = c
      BY <1>1, <1>4, <1>6, <2>1
    <2>2. CASE d # c
      BY <1>4, <1>7, <2>2
    <2> QED
      BY <2>1, <2>2
  <1> QED
    BY <1>3, <1>8 DEF UserInv

LEMMA NoAttempt ==
    ASSUME NEW u \in UserRecords, NEW s \in UserRecords,
           s.life = u.life, s.client = u.client, s.listed => u.listed,
           s.attempts = u.attempts, StageData(s)
    PROVE  Line(u, s)
  <1>1. u.attempts \in Nat /\ MaxAttempts \in Nat
    BY UserTypes, SessionAssumption DEF AnyUsers
  <1> QED
    BY <1>1 DEF Line

LEMMA NoneCloses == UserInv => Closing({}) = conn
  BY DEF Closing, UserInv, UsersTyped

LEMMA BadInputStep ==
    ASSUME UserInv, NEW c \in Conns, BadInput(c)
    PROVE  UserInv'
  <1> DEFINE r == user[c]
             s == Attempt(r)
             C == IF Kicked(r, s) THEN {r.client} ELSE {}
  <1>1. /\ reading = c /\ protocolUser[c] = c
        /\ r \in UserRecords /\ StageData(r)
    BY ReaderFits DEF BadInput, LoginLine
  <1>2. /\ conn' = Closing(C) /\ user' = [user EXCEPT ![c] = s]
        /\ r.attempts < AttemptBound
    BY <1>1 DEF BadInput, Becomes
  <1>3. Tried(r, s)
    BY <1>1, AttemptTries, UserTypes
  <1>4. s.attempts = r.attempts + 1 /\ r.attempts \in Nat
    <2> DEFINE n == r.attempts + 1
    <2>1. r \in AnyUsers
      BY <1>1, UserTypes
    <2>2. CASE n = MaxAttempts
      <3>1. s = [r EXCEPT !.attempts = n, !.listed = FALSE]
        BY <2>2 DEF Attempt
      <3> HIDE DEF n
      <3>2. s.attempts = n
        BY <2>1, <3>1 DEF AnyUsers
      <3> QED
        BY <2>1, <3>2 DEF n, AnyUsers
    <2>3. CASE n # MaxAttempts
      <3>1. s = [r EXCEPT !.attempts = n, !.stage = "LOGIN_NAME",
                          !.password = Nothing]
        BY <2>3 DEF Attempt
      <3> HIDE DEF n
      <3>2. s.attempts = n
        BY <2>1, <3>1 DEF AnyUsers
      <3> QED
        BY <2>1, <3>2 DEF n, AnyUsers
    <2> QED
      BY <2>2, <2>3
  <1> HIDE DEF s, C
  <1>5. s.attempts <= AttemptBound
    BY <1>2, <1>4, SessionAssumption
  <1>6. s \in UserRecords
    BY <1>3, <1>5, UserTypes DEF Tried
  <1>7. StageData(s)
    BY <1>1, <1>3 DEF Tried, StageData
  <1>8. Line(r, s)
    BY <1>3, <1>6, <1>7 DEF Line, Tried
  <1>9. r.listed /\ ~s.listed => r.client \in C
    BY DEF C, Kicked
  <1> HIDE DEF r
  <1>10. reading' = reading /\ protocolUser' = protocolUser /\ up' = up
    BY DEF BadInput
  <1> QED
    BY <1>1, <1>2, <1>8, <1>9, <1>10, LineStep DEF r

\* A user who gave a name.
LEMMA NamedFacts ==
    ASSUME Settled(db), NEW r \in UserRecords, NEW n \in Names,
           NEW found \in BOOLEAN, found => RowsOf(db, n) # {}
    PROVE  LET s == Named(r, n, found) IN
           /\ s \in UserRecords
           /\ s.life = r.life /\ s.client = r.client /\ s.level = r.level
           /\ s.attempts = r.attempts /\ s.listed = r.listed
           /\ s.name = n /\ s.stage = "LOGIN_PWD" /\ s.proved = r.proved
           /\ found => /\ s.password = StoredPassword(db, n) /\ s.guid = n
           /\ ~found => /\ s.password = r.password /\ s.guid = r.guid
  <1>1. found => StoredPassword(db, n) \in Pwds
    BY StoredFacts
  <1> DEFINE p == IF found THEN StoredPassword(db, n) ELSE r.password
             g == IF found THEN n ELSE r.guid
             s == [r EXCEPT !.name = n, !.stage = "LOGIN_PWD", !.guid = g,
                            !.password = p]
  <1>2. Named(r, n, found) = s
    BY DEF Named
  <1>3. p \in Pwds \cup {Nothing} /\ g \in Names \cup {Nothing}
    BY <1>1 DEF UserRecords
  <1> HIDE DEF p, g
  <1>4. /\ s \in UserRecords
        /\ s.life = r.life /\ s.client = r.client /\ s.level = r.level
        /\ s.attempts = r.attempts /\ s.listed = r.listed
        /\ s.name = n /\ s.stage = "LOGIN_PWD" /\ s.proved = r.proved
        /\ s.password = p /\ s.guid = g
    BY <1>3 DEF UserRecords, Stages, LoginStages
  <1> HIDE DEF s
  <1> QED
    BY <1>2, <1>4 DEF p, g

LEMMA EnterNameStep ==
    ASSUME UserInv, Settled(db), NEW c \in Conns, NEW n \in Names,
           NEW o \in Outcomes, EnterName(c, n, o)
    PROVE  UserInv'
  <1> DEFINE r == user[c]
             s == Attempts(r, BadLetters[n])
             found == Load(db, n, o).found
             t == Named(s, n, found)
             C == Clients(HungLogins(c, n) \cup
                          (IF Kicked(r, s) THEN {c} ELSE {}))
  <1>1. /\ reading = c /\ protocolUser[c] = c
        /\ r \in UserRecords /\ StageData(r)
    BY ReaderFits DEF EnterName, LoginLine
  <1>2. /\ s.attempts <= AttemptBound
        /\ conn' = Closing(C) /\ user' = [user EXCEPT ![c] = t]
        /\ reading' = reading /\ protocolUser' = protocolUser /\ up' = up
    BY <1>1 DEF EnterName
  <1>3. Tried(r, s)
    BY <1>1, AttemptsTry, UserTypes, SessionAssumption
  <1>4. s \in UserRecords
    BY <1>2, <1>3, UserTypes DEF Tried
  <1>5. found \in BOOLEAN /\ (found => RowsOf(db, n) # {})
    BY LoadFacts DEF Loaded
  <1> HIDE DEF s, found
  <1>6. /\ t \in UserRecords
        /\ t.life = s.life /\ t.client = s.client /\ t.level = s.level
        /\ t.attempts = s.attempts /\ t.listed = s.listed
        /\ t.name = n /\ t.stage = "LOGIN_PWD"
    BY <1>4, <1>5, NamedFacts
  <1> HIDE DEF t
  <1>7. StageData(t)
    BY <1>6 DEF StageData
  <1>8. Line(r, t)
    BY <1>3, <1>6, <1>7 DEF Line, Tried
  <1>9. r.listed /\ ~t.listed => r.client \in C
    BY <1>6 DEF Kicked, Clients
  <1> HIDE DEF C, r
  <1> QED
    BY <1>1, <1>2, <1>8, <1>9, LineStep DEF r

LEMMA NewPasswordStep ==
    ASSUME UserInv, NEW c \in Conns, NEW p \in Pwds, NewPassword(c, p)
    PROVE  UserInv'
  <1> DEFINE r == user[c]
             s == [r EXCEPT !.password = p, !.stage = "LOGIN_REENTER_PWD"]
  <1>1. /\ reading = c /\ protocolUser[c] = c
        /\ r \in UserRecords /\ StageData(r)
    BY ReaderFits DEF NewPassword, LoginLine
  <1>2. /\ conn' = conn /\ user' = [user EXCEPT ![c] = s]
        /\ reading' = reading /\ protocolUser' = protocolUser /\ up' = up
        /\ r.stage = "LOGIN_PWD" /\ r.level = "LOGIN"
    BY <1>1 DEF NewPassword, LoginLine, UserInv, UsersTyped
  <1>3. /\ s \in UserRecords
        /\ s.life = r.life /\ s.client = r.client /\ s.level = r.level
        /\ s.attempts = r.attempts /\ s.listed = r.listed
        /\ s.name = r.name /\ s.stage = "LOGIN_REENTER_PWD"
        /\ s.password = p
    BY <1>1 DEF UserRecords, Stages, LoginStages
  <1> HIDE DEF s
  <1>4. StageData(s)
    BY <1>1, <1>2, <1>3 DEF StageData
  <1>5. Line(r, s)
    BY <1>1, <1>3, <1>4, NoAttempt
  <1>6. conn' = Closing({})
    BY <1>2, NoneCloses
  <1>7. r.listed /\ ~s.listed => r.client \in {}
    BY <1>3
  <1> HIDE DEF r
  <1> QED
    BY <1>1, <1>2, <1>5, <1>6, <1>7, LineStep DEF r

LEMMA RegisterStep ==
    ASSUME UserInv, NEW c \in Conns, NEW o \in CreateOutcomes, Register(c, o)
    PROVE  UserInv'
  <1> DEFINE r == user[c]
             n == r.name
             id == Create(db, [login |-> n, password |-> r.password], o).id
             g == IF id THEN n ELSE Nothing
             s == [r EXCEPT !.level = "NOVICE", !.password = Nothing,
                            !.stage = "LOGIN_PROMPT", !.guid = g,
                            !.proved = n]
  <1>1. /\ reading = c /\ protocolUser[c] = c
        /\ r \in UserRecords /\ StageData(r)
    BY ReaderFits DEF Register, LoginLine
  <1>2. /\ conn' = conn /\ user' = [user EXCEPT ![c] = s]
        /\ reading' = reading /\ protocolUser' = protocolUser /\ up' = up
        /\ r.stage = "LOGIN_REENTER_PWD"
    BY <1>1 DEF Register, LoginLine, UserInv, UsersTyped
  <1>3. n \in Names
    BY <1>1, <1>2 DEF StageData
  <1>4. g \in Names \cup {Nothing}
    BY <1>3
  <1> HIDE DEF g
  <1>5. /\ s \in UserRecords
        /\ s.life = r.life /\ s.client = r.client
        /\ s.attempts = r.attempts /\ s.listed = r.listed
        /\ s.name = n /\ s.stage = "LOGIN_PROMPT"
    BY <1>1, <1>3, <1>4 DEF UserRecords, Stages, LoginStages
  <1> HIDE DEF s
  <1>6. StageData(s)
    BY <1>3, <1>5 DEF StageData
  <1>7. Line(r, s)
    BY <1>1, <1>5, <1>6, NoAttempt
  <1>8. conn' = Closing({})
    BY <1>2, NoneCloses
  <1>9. r.listed /\ ~s.listed => r.client \in {}
    BY <1>5
  <1> HIDE DEF r
  <1> QED
    BY <1>1, <1>2, <1>7, <1>8, <1>9, LineStep DEF r

\* A user who gave the right password.
LEMMA LoggedInFacts ==
    ASSUME NEW r \in UserRecords, r.name \in Names, NEW found \in BOOLEAN
    PROVE  LET s == LoggedIn(r, found) IN
           /\ s \in UserRecords /\ StageData(s)
           /\ s.life = r.life /\ s.client = r.client
           /\ s.attempts = r.attempts /\ s.listed = r.listed
           /\ s.name = r.name /\ s.stage = "CMD_LINE"
           /\ ~found => /\ s.level = r.level /\ s.guid = r.guid
                        /\ s.proved = r.proved
           /\ found => /\ s.level = "NOVICE" /\ s.guid = r.name
                       /\ r.password = StoredPassword(db, r.name)
                          => s.proved = r.name
  <1> DEFINE g == IF found THEN r.name ELSE r.guid
             l == IF found THEN "NOVICE" ELSE r.level
             p == IF found /\ r.password = StoredPassword(db, r.name)
                  THEN r.name ELSE r.proved
             s == [r EXCEPT !.password = Nothing, !.stage = "CMD_LINE",
                            !.guid = g, !.level = l, !.proved = p]
  <1>1. LoggedIn(r, found) = s
    BY DEF LoggedIn
  <1>2. /\ g \in Names \cup {Nothing} /\ l \in {"LOGIN", "NOVICE"}
        /\ p \in Names \cup {Nothing}
    BY DEF UserRecords
  <1> HIDE DEF g, l, p
  <1>3. /\ s \in UserRecords
        /\ s.life = r.life /\ s.client = r.client
        /\ s.attempts = r.attempts /\ s.listed = r.listed
        /\ s.name = r.name /\ s.stage = "CMD_LINE"
        /\ s.level = l /\ s.guid = g /\ s.proved = p
    BY <1>2 DEF UserRecords, Stages, LoginStages
  <1> HIDE DEF s
  <1>4. StageData(s)
    BY <1>3 DEF StageData
  <1> QED
    BY <1>1, <1>3, <1>4 DEF g, l, p

LEMMA RightPasswordStep ==
    ASSUME UserInv, Settled(db), NEW c \in Conns, NEW o \in Outcomes,
           RightPassword(c, o)
    PROVE  UserInv'
  <1> DEFINE r == user[c]
             found == Load(db, r.name, o).found
             s == LoggedIn(r, found)
  <1>1. /\ reading = c /\ protocolUser[c] = c
        /\ r \in UserRecords /\ StageData(r)
    BY ReaderFits DEF RightPassword, LoginLine
  <1>2. /\ conn' = conn /\ user' = [user EXCEPT ![c] = s]
        /\ reading' = reading /\ protocolUser' = protocolUser /\ up' = up
        /\ r.stage = "LOGIN_PWD"
    BY <1>1 DEF RightPassword, LoginLine, UserInv, UsersTyped
  <1>3. r.name \in Names /\ found \in BOOLEAN
    BY <1>1, <1>2, LoadFacts DEF StageData, Loaded
  <1> HIDE DEF found
  <1>4. /\ s \in UserRecords /\ StageData(s)
        /\ s.life = r.life /\ s.client = r.client
        /\ s.attempts = r.attempts /\ s.listed = r.listed
    BY <1>1, <1>3, LoggedInFacts
  <1> HIDE DEF s
  <1>5. Line(r, s)
    BY <1>1, <1>4, NoAttempt
  <1>6. conn' = Closing({})
    BY <1>2, NoneCloses
  <1>7. r.listed /\ ~s.listed => r.client \in {}
    BY <1>4
  <1> HIDE DEF r
  <1> QED
    BY <1>1, <1>2, <1>5, <1>6, <1>7, LineStep DEF r

LEMMA TelnetStep ==
    ASSUME UserInv, NEW c \in Conns,
           GotTelopt(c) \/ LeaveStage(c) \/ Quit(c)
    PROVE  UserInv'
  <1> DEFINE r == user[c]
  <1>1. /\ reading = c /\ protocolUser[c] = c
        /\ r \in UserRecords /\ StageData(r)
    BY ReaderFits DEF GotTelopt, LeaveStage, Quit
  <1>2. /\ reading' = reading /\ protocolUser' = protocolUser /\ up' = up
    BY DEF GotTelopt, LeaveStage, Quit
  <1>3. CASE GotTelopt(c)
    <2> DEFINE s == [r EXCEPT !.negotiated = TRUE, !.stage = "LOGIN_NAME"]
    <2>1. conn' = Closing({}) /\ user' = [user EXCEPT ![c] = s]
      BY <1>1, <1>3, NoneCloses DEF GotTelopt, UserInv, UsersTyped
    <2>2. /\ s \in UserRecords
          /\ s.life = r.life /\ s.client = r.client /\ s.level = r.level
          /\ s.attempts = r.attempts /\ s.listed = r.listed
          /\ s.name = r.name /\ s.stage = "LOGIN_NAME"
      BY <1>1 DEF UserRecords, Stages, LoginStages
    <2> HIDE DEF s
    <2>3. StageData(s)
      BY <1>1, <2>2 DEF StageData
    <2>4. Line(r, s)
      BY <1>1, <2>2, <2>3, NoAttempt
    <2>5. r.listed /\ ~s.listed => r.client \in {}
      BY <2>2
    <2> HIDE DEF r
    <2> QED
      BY <1>1, <1>2, <2>1, <2>4, <2>5, LineStep DEF r
  <1>4. CASE LeaveStage(c)
    <2> DEFINE s == [r EXCEPT !.stage = "CMD_LINE"]
    <2>1. conn' = Closing({}) /\ user' = [user EXCEPT ![c] = s]
      BY <1>1, <1>4, NoneCloses DEF LeaveStage, UserInv, UsersTyped
    <2>2. /\ s \in UserRecords
          /\ s.life = r.life /\ s.client = r.client /\ s.level = r.level
          /\ s.attempts = r.attempts /\ s.listed = r.listed
          /\ s.name = r.name /\ s.stage = "CMD_LINE"
      BY <1>1 DEF UserRecords, Stages, LoginStages
    <2> HIDE DEF s
    <2>3. StageData(s)
      BY <1>1, <2>2 DEF StageData
    <2>4. Line(r, s)
      BY <1>1, <2>2, <2>3, NoAttempt
    <2>5. r.listed /\ ~s.listed => r.client \in {}
      BY <2>2
    <2> HIDE DEF r
    <2> QED
      BY <1>1, <1>2, <2>1, <2>4, <2>5, LineStep DEF r
  <1>5. CASE Quit(c)
    <2> DEFINE s == [r EXCEPT !.listed = FALSE]
               C == Clients({c})
    <2>1. conn' = Closing(C) /\ user' = [user EXCEPT ![c] = s]
      BY <1>1, <1>5 DEF Quit, UserInv, UsersTyped
    <2>2. /\ s \in UserRecords
          /\ s.life = r.life /\ s.client = r.client /\ s.level = r.level
          /\ s.attempts = r.attempts /\ ~s.listed /\ s.password = r.password
          /\ s.name = r.name /\ s.stage = r.stage
      BY <1>1 DEF UserRecords
    <2> HIDE DEF s
    <2>3. StageData(s)
      BY <1>1, <2>2 DEF StageData
    <2>4. Line(r, s)
      BY <1>1, <2>2, <2>3, NoAttempt
    <2>5. r.listed /\ ~s.listed => r.client \in C
      BY DEF Clients
    <2> HIDE DEF r, C
    <2> QED
      BY <1>1, <1>2, <2>1, <2>4, <2>5, LineStep DEF r
  <1> QED
    BY <1>3, <1>4, <1>5

\* A step of c's own: to the others it is at most the end of a packet, or
\* their connection is closed.
LEMMA OwnStep ==
    ASSUME UserInv, UsersTyped', NEW c \in Conns,
           Fits(c, conn'[c], reading', protocolUser'[c], user'[c]),
           \A d \in Conns \ {c} :
              /\ \/ conn'[d] = conn[d]
                 \/ conn[d] = "open" /\ conn'[d] = "closing"
              /\ reading' = d => reading = d
              /\ protocolUser'[d] = protocolUser[d]
              /\ user'[d] = user[d]
    PROVE  UserInv'
  <1>1. \A d \in Conns :
            Fits(d, conn'[d], reading', protocolUser'[d], user'[d])
    <2> SUFFICES ASSUME NEW d \in Conns, d # c
                 PROVE  Fits(d, conn'[d], reading', protocolUser'[d], user'[d])
      OBVIOUS
    <2>1. Fits(d, conn[d], reading, protocolUser[d], user[d])
      BY DEF UserInv
    <2>2. /\ \/ conn'[d] = conn[d]
             \/ conn[d] = "open" /\ conn'[d] = "closing"
          /\ reading' = d => reading = d
          /\ protocolUser'[d] = protocolUser[d]
          /\ user'[d] = user[d]
      OBVIOUS
    <2> QED
      BY <2>1, <2>2, StillFits
  <1> QED
    BY <1>1 DEF UserInv

LEMMA PacketStep ==
    ASSUME UserInv, NEW c \in Conns,
           Connect(c) \/ FirstPacket(c) \/ NextPacket(c) \/ EndPacket(c)
    PROVE  UserInv'
  <1>0. /\ c # Nothing /\ MaxAttempts \in Nat \ {0}
        /\ UsersTyped /\ Fits(c, conn[c], reading, protocolUser[c], user[c])
        /\ \A d \in Conns : d # Nothing
    BY SessionAssumption DEF UserInv
  <1>1. CASE Connect(c)
    <2>1. UsersTyped'
      BY <1>0, <1>1 DEF Connect, UsersTyped, ConnStates
    <2>2. Fits(c, conn'[c], reading', protocolUser'[c], user'[c])
      <3>1. /\ conn'[c] = "open" /\ conn[c] = "none"
            /\ reading' = reading /\ protocolUser' = protocolUser
            /\ user' = user
        BY <1>0, <1>1 DEF Connect, UsersTyped
      <3> QED
        BY <1>0, <3>1 DEF Fits
    <2> QED
      BY <1>0, <1>1, <2>1, <2>2, OwnStep DEF Connect, UsersTyped
  <1>2. CASE FirstPacket(c)
    <2>1. UsersTyped'
      BY <1>0, <1>2, NewUserFacts DEF FirstPacket, UsersTyped
    <2>2. Fits(c, conn'[c], reading', protocolUser'[c], user'[c])
      <3>1. /\ conn'[c] = "open" /\ reading' = c /\ protocolUser'[c] = c
            /\ user'[c] = NewUser(c)
        BY <1>0, <1>2 DEF FirstPacket, UsersTyped
      <3> DEFINE u == NewUser(c)
      <3>2. /\ u \in UserRecords
            /\ u.life = "there" /\ u.client = c /\ u.listed
            /\ u.stage = "LOGIN_NAME" /\ u.level = "LOGIN"
            /\ u.attempts = 0
        BY NewUserFacts
      <3> HIDE DEF u
      <3>3. Fits(c, "open", c, c, u)
        BY <1>0, <3>2 DEF Fits, StageData
      <3> QED
        BY <3>1, <3>3 DEF u
    <2> QED
      BY <1>0, <1>2, <2>1, <2>2, OwnStep DEF FirstPacket, UsersTyped
  <1>3. CASE NextPacket(c)
    <2>1. UsersTyped'
      BY <1>0, <1>3 DEF NextPacket, UsersTyped
    <2>2. Fits(c, conn'[c], reading', protocolUser'[c], user'[c])
      BY <1>0, <1>3 DEF NextPacket, Fits
    <2> QED
      BY <1>0, <1>3, <2>1, <2>2, OwnStep DEF NextPacket, UsersTyped
  <1>4. CASE EndPacket(c)
    <2>1. UsersTyped'
      BY <1>0, <1>4 DEF EndPacket, UsersTyped
    <2>2. Fits(c, conn'[c], reading', protocolUser'[c], user'[c])
      BY <1>0, <1>4 DEF EndPacket, Fits
    <2> QED
      BY <1>0, <1>4, <2>1, <2>2, OwnStep DEF EndPacket, UsersTyped
  <1> QED
    BY <1>1, <1>2, <1>3, <1>4

LEMMA ReleaseStep ==
    ASSUME UserInv, NEW c \in Conns,
           ConnectionLost(c) \/ CloseTask(c) \/ DeleteProtocol(c)
    PROVE  UserInv'
  <1>0. /\ c # Nothing /\ UsersTyped
        /\ Fits(c, conn[c], reading, protocolUser[c], user[c])
        /\ \A d \in Conns : /\ d # Nothing
                            /\ protocolUser[c] = d => d = c
    BY SessionAssumption DEF UserInv, Fits
  <1>1. CASE ConnectionLost(c)
    <2>1. /\ conn' \in [Conns -> ConnStates]
          /\ \A d \in Conns :
                \/ conn'[d] = conn[d]
                \/ conn[d] = "open" /\ conn'[d] = "closing"
      BY <1>0, <1>1, ClosingFacts DEF ConnectionLost
    <2>2. UsersTyped'
      BY <1>0, <1>1, <2>1 DEF ConnectionLost, UsersTyped
    <2>3. Fits(c, conn'[c], reading', protocolUser'[c], user'[c])
      <3>1. /\ reading' = reading /\ protocolUser' = protocolUser
            /\ user' = user
        BY <1>1 DEF ConnectionLost
      <3> QED
        BY <1>0, <2>1, <3>1, StillFits
    <2> QED
      BY <1>1, <2>1, <2>2, <2>3, OwnStep DEF ConnectionLost
  <1>2. CASE CloseTask(c)
    <2> DEFINE r == user[c]
               s == [r EXCEPT !.client = Nothing]
    <2>1. /\ r \in UserRecords
          /\ s \in UserRecords /\ s.life = r.life /\ s.client = Nothing
          /\ s.listed = r.listed /\ s.stage = r.stage /\ s.level = r.level
          /\ s.name = r.name /\ s.password = r.password
      BY <1>0 DEF UsersTyped, UserRecords
    <2>2. user' = [u \in Conns |->
                IF protocolUser[c] = u /\ user[u].client = c
                THEN [user[u] EXCEPT !.client = Nothing] ELSE user[u]]
      BY <1>2 DEF CloseTask
    <2>3. /\ user'[c] = IF protocolUser[c] = c /\ r.client = c THEN s ELSE r
          /\ \A d \in Conns \ {c} : user'[d] = user[d]
      BY <1>0, <2>2
    <2>4. user' \in [Conns -> UserRecords]
      <3>1. \A u \in Conns : [user[u] EXCEPT !.client = Nothing] \in UserRecords
        BY <1>0 DEF UsersTyped, UserRecords
      <3>2. \A u \in Conns : user[u] \in UserRecords
        BY <1>0 DEF UsersTyped
      <3> QED
        BY <2>2, <3>1, <3>2
    <2>5. /\ conn[c] = "closing" /\ conn'[c] = "closed" /\ reading # c
          /\ reading' = reading /\ protocolUser' = protocolUser
          /\ \A d \in Conns \ {c} : conn'[d] = conn[d]
      BY <1>0, <1>2 DEF CloseTask, UsersTyped
    <2>6. UsersTyped'
      BY <1>0, <1>2, <2>4 DEF CloseTask, UsersTyped, ConnStates
    <2>7. Fits(c, "closed", reading, protocolUser[c], user'[c])
      <3>1. Fits(c, "closing", reading, protocolUser[c], r)
        BY <1>0, <2>5
      <3>2. CASE protocolUser[c] = c /\ r.client = c
        <4>1. user'[c] = s /\ r.life # "none"
          BY <1>0, <2>3, <3>1, <3>2 DEF Fits
        <4> HIDE DEF s, r
        <4>2. Fits(c, "closed", reading, protocolUser[c], s)
          BY <1>0, <2>1, <2>5, <3>1, <3>2, <4>1 DEF Fits, StageData
        <4> QED
          BY <4>1, <4>2
      <3>3. CASE ~(protocolUser[c] = c /\ r.client = c)
        <4>1. user'[c] = r
          BY <2>3, <3>3
        <4> HIDE DEF r
        <4>2. Fits(c, "closed", reading, protocolUser[c], r)
          BY <1>0, <2>5, <3>1, <3>3 DEF Fits
        <4> QED
          BY <4>1, <4>2
      <3> QED
        BY <3>2, <3>3
    <2> QED
      BY <2>3, <2>5, <2>6, <2>7, OwnStep
  <1>3. CASE DeleteProtocol(c)
    <2>1. UsersTyped'
      BY <1>0, <1>3 DEF DeleteProtocol, UsersTyped, ConnStates
    <2>2. /\ conn[c] = "closed" /\ conn'[c] = "released"
          /\ protocolUser'[c] = Nothing
          /\ reading' = reading /\ user' = user
          /\ \A d \in Conns \ {c} : /\ conn'[d] = conn[d]
                                    /\ protocolUser'[d] = protocolUser[d]
      BY <1>0, <1>3 DEF DeleteProtocol, UsersTyped
    <2>3. Fits(c, conn'[c], reading', protocolUser'[c], user'[c])
      BY <1>0, <2>2 DEF Fits
    <2> QED
      BY <2>1, <2>2, <2>3, OwnStep
  <1> QED
    BY <1>1, <1>2, <1>3

LEMMA LoginQuitStep ==
    ASSUME UserInv, NEW c \in Conns, LoginQuit(c)
    PROVE  UserInv'
  <1>1. reading = c /\ protocolUser[c] = c
    BY ReaderFits DEF LoginQuit, LoginLine
  <1>2. /\ UsersTyped /\ c # Nothing
        /\ \A d \in Conns : d # Nothing
        /\ Fits(c, conn[c], reading, c, user[c])
    BY <1>1, SessionAssumption DEF UserInv
  <1>3. /\ conn' \in [Conns -> ConnStates]
        /\ \A d \in Conns :
              \/ conn'[d] = conn[d]
              \/ conn[d] = "open" /\ conn'[d] = "closing"
    BY <1>2, ClosingFacts DEF LoginQuit
  <1>4. /\ user'[c] = NoUser("deleted") /\ protocolUser'[c] = Nothing
        /\ reading' = Nothing
        /\ \A d \in Conns \ {c} : /\ user'[d] = user[d]
                                  /\ protocolUser'[d] = protocolUser[d]
    BY <1>1, <1>2 DEF LoginQuit, UsersTyped
  <1>5. UsersTyped'
    BY <1>1, <1>2, <1>3, NoUserFacts DEF LoginQuit, UsersTyped
  <1>6. conn'[c] \in ConnStates \ {"none"}
    BY <1>1, <1>2, <1>3 DEF Fits, ConnStates
  <1>7. Fits(c, conn'[c], reading', protocolUser'[c], user'[c])
    BY <1>2, <1>4, <1>6, NoUserFits
  <1> QED
    BY <1>2, <1>3, <1>4, <1>5, <1>7, OwnStep

\* The swap changes two users: c's, who is left behind, and w, who is deleted
\* although w's protocol still points to it.
LEMMA SwapStep ==
    ASSUME UserInv, Settled(db), NEW c \in Conns, NEW w \in Conns,
           NEW o \in Outcomes, Swap(c, w, o)
    PROVE  UserInv'
  <1> DEFINE r == user[c]
             found == Load(db, r.name, o).found
             l == LoggedIn(r, found)
             s == [l EXCEPT !.client = Nothing, !.listed = FALSE]
             gone == NoUser("deleted")
  <1>1. /\ reading = c /\ protocolUser[c] = c
        /\ r \in UserRecords /\ StageData(r)
    BY ReaderFits DEF Swap, LoginLine
  <1>2. /\ UsersTyped /\ w # c
        /\ \A d \in Conns : d # Nothing
        /\ Fits(c, conn[c], c, c, r)
        /\ Fits(w, conn[w], c, protocolUser[w], user[w])
        /\ user[w].listed
    BY <1>1, SessionAssumption DEF UserInv, Swap, Others
  <1>3. r.name \in Names /\ found \in BOOLEAN
    BY <1>1, LoadFacts DEF StageData, Loaded, Swap, LoginLine
  <1>4. /\ l \in UserRecords /\ StageData(l) /\ l.life = r.life
    BY <1>1, <1>3, LoggedInFacts
  <1>5. /\ conn' = Closing(Clients({w}))
        /\ user' = [user EXCEPT ![c] = s, ![w] = gone]
        /\ protocolUser' = [protocolUser EXCEPT ![c] = Nothing]
        /\ reading' = Nothing /\ up' = up
    BY <1>1, <1>2 DEF Swap, UsersTyped
  <1> HIDE DEF l
  <1>6. /\ s \in UserRecords /\ StageData(s) /\ s.life = r.life
        /\ s.client = Nothing /\ ~s.listed
    <2>1. /\ s \in UserRecords /\ s.life = l.life /\ s.client = Nothing
          /\ ~s.listed /\ s.stage = l.stage /\ s.level = l.level
          /\ s.name = l.name /\ s.password = l.password
      BY <1>4 DEF UserRecords
    <2> HIDE DEF s
    <2> QED
      BY <1>4, <2>1 DEF StageData
  <1>7. gone \in UserRecords
    BY NoUserFacts
  <1>8. /\ gone.life = "deleted" /\ gone.client = Nothing /\ ~gone.listed
        /\ gone.stage = "LOGIN_NAME" /\ gone.level = "LOGIN"
    BY NoUserFacts
  <1> HIDE DEF s, gone
  <1>9. /\ user'[c] = s /\ user'[w] = gone
        /\ \A d \in Conns \ {c, w} : user'[d] = user[d]
        /\ protocolUser'[c] = Nothing
        /\ \A d \in Conns \ {c} : protocolUser'[d] = protocolUser[d]
    BY <1>2, <1>5 DEF UsersTyped
  <1>10. /\ conn' \in [Conns -> ConnStates]
         /\ \A d \in Conns :
               /\ \/ conn'[d] = conn[d]
                  \/ conn[d] = "open" /\ conn'[d] = "closing"
               /\ d \in Clients({w}) => conn'[d] # "open"
    BY <1>2, <1>5, ClosingFacts
  <1>11. UsersTyped'
    BY <1>2, <1>5, <1>6, <1>7, <1>10 DEF UsersTyped
  <1>12. Fits(c, conn'[c], Nothing, Nothing, s)
    <2>1. conn'[c] # "none" /\ r.life = "there"
      BY <1>2, <1>10 DEF Fits
    <2> HIDE DEF r
    <2> QED
      BY <1>2, <1>6, <2>1 DEF Fits
  <1>13. Fits(w, conn'[w], Nothing, protocolUser[w], gone)
    <2>1. conn'[w] # "none"
      BY <1>2, <1>10 DEF Fits
    <2>2. protocolUser[w] = w => conn'[w] # "open"
      BY <1>2, <1>10 DEF Fits, Clients
    <2>3. StageData(gone)
      BY <1>8 DEF StageData
    <2>4. protocolUser[w] \in {w, Nothing}
      BY <1>2 DEF Fits
    <2> QED
      BY <1>2, <1>8, <2>1, <2>2, <2>3, <2>4 DEF Fits
  <1>14. \A d \in Conns :
            Fits(d, conn'[d], reading', protocolUser'[d], user'[d])
    <2> SUFFICES ASSUME NEW d \in Conns
                 PROVE  Fits(d, conn'[d], reading', protocolUser'[d], user'[d])
      OBVIOUS
    <2>1. CASE d = c
      BY <1>5, <1>9, <1>12, <2>1
    <2>2. CASE d = w
      BY <1>2, <1>5, <1>9, <1>13, <2>2
    <2>3. CASE d # c /\ d # w
      <3>1. Fits(d, conn[d], c, protocolUser[d], user[d])
        BY <1>1 DEF UserInv
      <3>2. Fits(d, conn'[d], Nothing, protocolUser[d], user[d])
        BY <1>2, <1>10, <3>1, StillFits
      <3> QED
        BY <1>5, <1>9, <2>3, <3>2
    <2> QED
      BY <2>1, <2>2, <2>3
  <1> QED
    BY <1>11, <1>14 DEF UserInv

\* Only what asks the database changes it.
LEMMA DbStep ==
    ASSUME UserInv, DbInv, [Next]_vars
    PROVE  DbInv'
  <1>1. \A n, o : o \in Outcomes /\ Loads(n, o) => DbInv'
    BY LoadFacts DEF Loads, DbInv, Loaded
  <1>2. ASSUME NEW c \in Conns, NEW o \in CreateOutcomes, Register(c, o)
        PROVE  DbInv'
    <2> DEFINE row == [login |-> user[c].name, password |-> user[c].password]
    <2>1. /\ reading = c /\ protocolUser[c] = c
          /\ user[c].stage = "LOGIN_REENTER_PWD"
          /\ StageData(user[c])
      BY <1>2, ReaderFits DEF Register, LoginLine
    <2>2. row \in RowRecords
      BY <2>1 DEF StageData, RowRecords
    <2>3. /\ db' = Create(db, row, o).db
          /\ Create(db, row, o).db.failed <= MaxDbErrors
      BY <1>2, <2>1 DEF Register
    <2> HIDE DEF row
    <2>4. Settled(Create(db, row, o).db)
      BY <2>2, CreateFacts DEF DbInv, Created
    <2> QED
      BY <2>3, <2>4 DEF DbInv
  <1>3. db' = db => DbInv'
    BY DEF DbInv
  <1>4. CASE UNCHANGED vars
    BY <1>3, <1>4 DEF vars
  <1>5. ASSUME NEW c \in Conns,
               \/ Connect(c) \/ FirstPacket(c) \/ NextPacket(c) \/ EndPacket(c)
               \/ ConnectionLost(c) \/ CloseTask(c) \/ DeleteProtocol(c)
               \/ LoginQuit(c) \/ BadInput(c)
               \/ \E p \in Pwds : NewPassword(c, p)
               \/ LevelThrows(c) \/ GotTelopt(c) \/ LeaveStage(c) \/ Quit(c)
        PROVE  DbInv'
    BY <1>3, <1>5
    DEF Connect, FirstPacket, NextPacket, EndPacket, ConnectionLost, CloseTask,
        DeleteProtocol, LoginQuit, BadInput, NewPassword, LevelThrows,
        GotTelopt, LeaveStage, Quit
  <1>6. ASSUME NEW c \in Conns,
               \/ \E n \in Names, o \in Outcomes : EnterName(c, n, o)
               \/ \E o \in Outcomes : RightPassword(c, o)
               \/ \E w \in Conns, o \in Outcomes : Swap(c, w, o)
        PROVE  DbInv'
    BY <1>1, <1>6 DEF EnterName, RightPassword, Swap
  <1> QED
    BY <1>2, <1>4, <1>5, <1>6 DEF Next

LEMMA UserStep ==
    ASSUME UserInv, DbInv, [Next]_vars
    PROVE  UserInv'
  <1>0. Settled(db)
    BY DEF DbInv
  <1>1. CASE UNCHANGED vars
    <2>1. /\ up' = up /\ conn' = conn /\ reading' = reading
          /\ protocolUser' = protocolUser /\ user' = user
      BY <1>1 DEF vars
    <2> QED
      BY <2>1 DEF UserInv, UsersTyped
  <1>2. ASSUME NEW c \in Conns, LevelThrows(c) PROVE UserInv'
    <2>1. /\ up' = FALSE /\ conn' = conn /\ reading' = reading
          /\ protocolUser' = protocolUser /\ user' = user
      BY <1>2 DEF LevelThrows
    <2> QED
      BY <2>1 DEF UserInv, UsersTyped
  <1>3. ASSUME NEW c \in Conns,
               \/ Connect(c) \/ FirstPacket(c) \/ NextPacket(c) \/ EndPacket(c)
               \/ ConnectionLost(c) \/ CloseTask(c) \/ DeleteProtocol(c)
               \/ LoginQuit(c) \/ BadInput(c)
        PROVE  UserInv'
    BY <1>3, PacketStep, ReleaseStep, LoginQuitStep, BadInputStep
  <1>4. ASSUME NEW c \in Conns,
               \/ \E n \in Names, o \in Outcomes : EnterName(c, n, o)
               \/ \E p \in Pwds : NewPassword(c, p)
               \/ \E o \in CreateOutcomes : Register(c, o)
               \/ \E o \in Outcomes : RightPassword(c, o)
               \/ \E w \in Conns, o \in Outcomes : Swap(c, w, o)
        PROVE  UserInv'
    BY <1>0, <1>4, EnterNameStep, NewPasswordStep, RegisterStep,
       RightPasswordStep, SwapStep
  <1>5. ASSUME NEW c \in Conns, GotTelopt(c) \/ LeaveStage(c) \/ Quit(c)
        PROVE  UserInv'
    BY <1>5, TelnetStep
  <1> QED
    BY <1>1, <1>2, <1>3, <1>4, <1>5 DEF Next

LEMMA NewDatabaseFacts ==
    ASSUME NEW reached \in BOOLEAN
    PROVE  Settled(NewDatabase(reached)) /\ NewDatabase(reached).rows = <<>>
  BY DEF NewDatabase, Settled, Databases

LEMMA InitInv == Init => UserInv /\ DbInv
  <1> SUFFICES ASSUME Init PROVE UserInv /\ DbInv
    OBVIOUS
  <1>1. DbInv
    BY NewDatabaseFacts DEF Init, DbInv
  <1>2. UsersTyped
    BY NoUserFacts DEF Init, UsersTyped, ConnStates
  <1>3. ASSUME NEW c \in Conns
        PROVE  Fits(c, conn[c], reading, protocolUser[c], user[c])
    <2> DEFINE u == NoUser("none")
    <2>1. /\ u.life = "none" /\ u.client = Nothing /\ ~u.listed
          /\ u.stage = "LOGIN_NAME" /\ u.level = "LOGIN"
      BY NoUserFacts
    <2>2. /\ conn[c] = "none" /\ reading = Nothing /\ c # Nothing
          /\ protocolUser[c] = Nothing /\ user[c] = u
      BY SessionAssumption DEF Init
    <2>3. u = NoUser("none")
      OBVIOUS
    <2> HIDE DEF u
    <2> QED
      BY <2>1, <2>2, <2>3 DEF Fits, StageData
  <1> QED
    BY <1>1, <1>2, <1>3 DEF UserInv

LEMMA UsersInvariant == Spec => [](UserInv /\ DbInv)
  <1>1. UserInv /\ DbInv /\ [Next]_vars => (UserInv /\ DbInv)'
    BY UserStep, DbStep
  <1> QED
    BY InitInv, <1>1, PTL DEF Spec

\* Every variable has its type, and between two lines the database holds no
\* open transaction of ours: create always ends it.
THEOREM TypeCorrect == Spec => []TypeOK
  <1>1. UserInv /\ DbInv => TypeOK
    <2> SUFFICES ASSUME UserInv, DbInv PROVE TypeOK
      OBVIOUS
    <2>1. /\ db.rows \in Seq([login : Names, password : Pwds])
          /\ db.pending = <<>> /\ db.ok
          /\ db.connected \in BOOLEAN /\ db.inTrans \in BOOLEAN
          /\ db.failed \in Nat
      BY DatabaseFields DEF DbInv, Settled, RowRecords
    <2>2. db.failed \in 0..MaxDbErrors
      BY <2>1, SessionAssumption DEF DbInv
    <2> QED
      BY <2>1, <2>2 DEF TypeOK, UserInv, UsersTyped, ConnStates
  <1> QED
    BY UsersInvariant, <1>1, PTL

\* A user and its protocol point to each other, whatever close, quit, kick and
\* swap each undo of it.
THEOREM PointersAreMutual == Spec => []PointersAgree
  <1>1. UserInv /\ DbInv => PointersAgree
    BY DEF UserInv, Fits, PointersAgree
  <1> QED
    BY UsersInvariant, <1>1, PTL

\* No packet is read for whoever used up the attempts, however many attempts
\* one name costs.
THEOREM LimitIsKept == Spec => []LimitCloses
  <1>1. UserInv /\ DbInv => LimitCloses
    <2> SUFFICES ASSUME UserInv, NEW c \in Conns,
                        protocolUser[c] # Nothing,
                        user[protocolUser[c]].attempts >= MaxAttempts,
                        conn[c] = "open"
                 PROVE  FALSE
      BY DEF LimitCloses
    <2>1. Fits(c, conn[c], reading, protocolUser[c], user[c])
      BY DEF UserInv
    <2>2. protocolUser[c] = c /\ user[c].attempts < MaxAttempts
      BY <2>1 DEF Fits
    <2>3. user[c].attempts \in Nat /\ MaxAttempts \in Nat
      BY SessionAssumption, UserTypes DEF UserInv, UsersTyped, AnyUsers
    <2> QED
      BY <2>2, <2>3
  <1> QED
    BY UsersInvariant, <1>1, PTL

-----------------------------------------------------------------------------
(* Accounts and who is logged in.                                          *)

\* Lines of c's user are still read, or may be.
Acts(c) == protocolUser[c] = c /\ (conn[c] = "open" \/ reading = c)

\* The user will have no password to give but that of a new account.
Registering(u) ==
    \/ u.stage = "LOGIN_REENTER_PWD"
    \/ u.stage = "LOGIN_PWD" /\ u.password = Nothing

\* What u knows of the accounts agrees with the table.  Whoever registers has
\* found no row, or a query failed for each row that there is.
Fine(d, act, u) ==
    /\ act /\ u.level = "LOGIN" /\ Registering(u) /\ d.connected =>
          Cardinality(RowsOf(d, u.name)) <= d.failed
    /\ /\ d.failed = 0 /\ act /\ u.level = "LOGIN"
       /\ u.stage = "LOGIN_PWD" /\ u.password # Nothing
       /\ RowsOf(d, u.name) # {}
       => u.password = StoredPassword(d, u.name)
    /\ d.failed = 0 /\ u.level # "LOGIN" =>
          RowsOf(d, u.name) # {} /\ u.proved = u.name
    /\ u.level # "LOGIN" /\ u.guid # Nothing =>
          u.guid = u.name /\ RowsOf(d, u.guid) # {}

\* Two users do not log in under one name, and are not logged in under it.
Apart(d, act1, u1, act2, u2) ==
    u1.name = u2.name /\ u1.name # Nothing =>
        /\ ~(act1 /\ u1.level = "LOGIN" /\ act2 /\ u2.level = "LOGIN")
        /\ d.failed = 0 =>
              ~(/\ u1.listed /\ u1.level # "LOGIN"
                /\ u2.listed /\ u2.level # "LOGIN")

AccountInv ==
    /\ \A n \in Names : Cardinality(RowsOf(db, n)) <= 1 + db.failed
    /\ \A c \in Conns : Fine(db, Acts(c), user[c])
    /\ \A c, d \in Conns :
          c # d => Apart(db, Acts(c), user[c], Acts(d), user[d])

\* A step that tells the user u nothing new about the accounts.
Quiet(u, s) ==
    /\ s.level = "LOGIN" /\ s.name # Nothing =>
          u.level = "LOGIN" /\ u.name = s.name
    /\ s.level # "LOGIN" =>
          /\ u.level # "LOGIN" /\ u.name = s.name /\ u.proved = s.proved
          /\ u.guid = s.guid /\ (s.listed => u.listed)
    /\ s.stage = "LOGIN_PWD" =>
          u.stage = "LOGIN_PWD" /\ u.password = s.password
    /\ s.stage = "LOGIN_REENTER_PWD" => Registering(u)

LEMMA FineStays ==
    ASSUME NEW d, Settled(d), NEW e, Settled(e), Declines(d, e),
           NEW u, NEW s \in UserRecords, Quiet(u, s), StageData(s),
           NEW act \in BOOLEAN, NEW act2 \in BOOLEAN,
           act2 => act \/ s.name = Nothing,
           Fine(d, act, u),
           \A n : RowsOf(d, n) # {} => RowsOf(e, n) # {},
           act2 /\ s.level = "LOGIN" /\ s.name # Nothing =>
              /\ RowsOf(e, s.name) = RowsOf(d, s.name)
              /\ RowsOf(d, s.name) # {} =>
                    StoredPassword(e, s.name) = StoredPassword(d, s.name)
    PROVE  Fine(e, act2, s)
  <1>1. \A n \in Names : n # Nothing
    BY SessionAssumption
  <1>2. /\ d.failed \in Nat /\ e.failed \in Nat /\ d.failed <= e.failed
        /\ e.connected => d.connected
    BY DatabaseFields DEF Settled, Declines
  <1>3. e.failed = 0 => d.failed = 0
    BY <1>2
  <1>4. Registering(s) \/ s.stage = "LOGIN_PWD" =>
            s.name \in Names /\ s.name # Nothing
    BY <1>1 DEF StageData, Registering
  <1>5. ASSUME act2, s.level = "LOGIN", Registering(s), e.connected
        PROVE  Cardinality(RowsOf(e, s.name)) <= e.failed
    <2>1. act /\ u.level = "LOGIN" /\ u.name = s.name /\ Registering(u)
      BY <1>4, <1>5 DEF Quiet, Registering
    <2>2. Cardinality(RowsOf(d, s.name)) <= d.failed
      BY <1>2, <1>5, <2>1 DEF Fine
    <2>3. RowsOf(e, s.name) = RowsOf(d, s.name)
      BY <1>4, <1>5
    <2>4. Cardinality(RowsOf(d, s.name)) \in Nat
      BY RowsOfFacts
    <2> QED
      BY <1>2, <2>2, <2>3, <2>4
  <1>6. ASSUME e.failed = 0, act2, s.level = "LOGIN", s.stage = "LOGIN_PWD",
               s.password # Nothing, RowsOf(e, s.name) # {}
        PROVE  s.password = StoredPassword(e, s.name)
    <2>1. /\ act /\ u.level = "LOGIN" /\ u.name = s.name
          /\ u.stage = "LOGIN_PWD" /\ u.password = s.password
      BY <1>4, <1>6 DEF Quiet
    <2>2. RowsOf(d, s.name) # {}
      BY <1>4, <1>6
    <2>3. s.password = StoredPassword(d, s.name)
      BY <1>3, <1>6, <2>1, <2>2 DEF Fine
    <2> QED
      BY <1>4, <1>6, <2>2, <2>3
  <1>7. ASSUME s.level # "LOGIN"
        PROVE  /\ e.failed = 0 => RowsOf(e, s.name) # {} /\ s.proved = s.name
               /\ s.guid # Nothing => s.guid = s.name /\ RowsOf(e, s.guid) # {}
    <2>1. /\ u.level # "LOGIN" /\ u.name = s.name /\ u.proved = s.proved
          /\ u.guid = s.guid
      BY <1>7 DEF Quiet
    <2>2. e.failed = 0 => RowsOf(d, s.name) # {} /\ s.proved = s.name
      BY <1>3, <2>1 DEF Fine
    <2>3. s.guid # Nothing => s.guid = s.name /\ RowsOf(d, s.guid) # {}
      BY <2>1 DEF Fine
    <2> QED
      BY <2>2, <2>3
  <1> QED
    BY <1>5, <1>6, <1>7 DEF Fine

LEMMA ApartStays ==
    ASSUME NEW d, NEW e, e.failed = 0 => d.failed = 0,
           NEW u, NEW s, Quiet(u, s), NEW v, NEW t, Quiet(v, t),
           NEW act1, NEW act2, act2 => act1 \/ s.name = Nothing,
           NEW act3, NEW act4, act4 => act3 \/ t.name = Nothing,
           Apart(d, act1, u, act3, v)
    PROVE  Apart(e, act2, s, act4, t)
  BY DEF Quiet, Apart

LEMMA ApartSymmetric ==
    ASSUME NEW d, NEW act1, NEW u, NEW act2, NEW v, Apart(d, act1, u, act2, v)
    PROVE  Apart(d, act2, v, act1, u)
  BY DEF Apart

\* A step of c that leaves the others as they are, or resets them.
LEMMA AccountStep ==
    ASSUME NEW c \in Conns, AccountInv, Settled(db), Settled(db'),
           Declines(db, db'),
           \A n \in Names : Cardinality(RowsOf(db', n)) <= 1 + db'.failed,
           Fine(db', Acts(c)', user'[c]),
           \A d \in Conns \ {c} :
              /\ Quiet(user[d], user'[d])
              /\ Acts(d)' => Acts(d) \/ user'[d].name = Nothing
              /\ Fine(db', Acts(d)', user'[d])
              /\ Apart(db', Acts(c)', user'[c], Acts(d)', user'[d])
    PROVE  AccountInv'
  <1>1. \A d \in Conns : Fine(db', Acts(d)', user'[d])
    OBVIOUS
  <1>2. db'.failed = 0 => db.failed = 0
    <2>1. db.failed \in Nat /\ db'.failed \in Nat /\ db.failed <= db'.failed
      BY DatabaseFields DEF Settled, Declines
    <2> QED
      BY <2>1
  <1>3. ASSUME NEW d \in Conns, NEW e \in Conns, d # e
        PROVE  Apart(db', Acts(d)', user'[d], Acts(e)', user'[e])
    <2>1. CASE d = c
      BY <1>3, <2>1
    <2>2. CASE e = c
      BY <1>3, <2>2, ApartSymmetric
    <2>3. CASE d # c /\ e # c
      <3>1. Apart(db, Acts(d), user[d], Acts(e), user[e])
        BY <1>3 DEF AccountInv
      <3>2. /\ Quiet(user[d], user'[d]) /\ Quiet(user[e], user'[e])
            /\ Acts(d)' => Acts(d) \/ user'[d].name = Nothing
            /\ Acts(e)' => Acts(e) \/ user'[e].name = Nothing
        BY <2>3
      <3> QED
        BY <1>2, <3>1, <3>2, ApartStays
    <2> QED
      BY <2>1, <2>2, <2>3
  <1> QED
    BY <1>1, <1>3 DEF AccountInv

LEMMA QuietSame ==
    ASSUME NEW u
    PROVE  Quiet(u, u)
  BY DEF Quiet, Registering

\* Users who are reset.
LEMMA QuietReset ==
    ASSUME NEW u, NEW s, s.level = "LOGIN", s.name = Nothing,
           s.stage = "LOGIN_NAME"
    PROVE  Quiet(u, s)
  BY DEF Quiet

LEMMA SameCount ==
    ASSUME AccountInv, Settled(db), Settled(db'), db'.rows = db.rows,
           Declines(db, db')
    PROVE  \A n \in Names : Cardinality(RowsOf(db', n)) <= 1 + db'.failed
  <1> SUFFICES ASSUME NEW n \in Names
               PROVE  Cardinality(RowsOf(db', n)) <= 1 + db'.failed
    OBVIOUS
  <1>1. RowsOf(db', n) = RowsOf(db, n) /\ Cardinality(RowsOf(db, n)) \in Nat
    BY SameRows, RowsOfFacts
  <1>2. db.failed \in Nat /\ db'.failed \in Nat /\ db.failed <= db'.failed
    BY DatabaseFields DEF Settled, Declines
  <1>3. Cardinality(RowsOf(db, n)) <= 1 + db.failed
    BY DEF AccountInv
  <1> QED
    BY <1>1, <1>2, <1>3

\* A user to whom nothing happens while the rows stay.
LEMMA QuietFine ==
    ASSUME AccountInv, UserInv', Settled(db), Settled(db'),
           db'.rows = db.rows, Declines(db, db'),
           NEW d \in Conns, Quiet(user[d], user'[d]),
           Acts(d)' => Acts(d) \/ user'[d].name = Nothing
    PROVE  Fine(db', Acts(d)', user'[d])
  <1>1. Fine(db, Acts(d), user[d])
    BY DEF AccountInv
  <1>2. user'[d] \in UserRecords /\ StageData(user'[d])
    BY DEF UserInv, UsersTyped, Fits
  <1>3. \A n : /\ RowsOf(db', n) = RowsOf(db, n)
               /\ StoredPassword(db', n) = StoredPassword(db, n)
    BY SameRows
  <1>4. Acts(d) \in BOOLEAN /\ Acts(d)' \in BOOLEAN
    BY DEF Acts
  <1> QED
    BY <1>1, <1>2, <1>3, <1>4, FineStays

LEMMA QuietStep ==
    ASSUME AccountInv, UserInv', Settled(db), Settled(db'),
           db'.rows = db.rows, Declines(db, db'),
           \A d \in Conns : /\ Quiet(user[d], user'[d])
                            /\ Acts(d)' => Acts(d) \/ user'[d].name = Nothing
    PROVE  AccountInv'
  <1>1. \A d \in Conns : Fine(db', Acts(d)', user'[d])
    BY QuietFine
  <1>2. db'.failed = 0 => db.failed = 0
    <2>1. db.failed \in Nat /\ db'.failed \in Nat /\ db.failed <= db'.failed
      BY DatabaseFields DEF Settled, Declines
    <2> QED
      BY <2>1
  <1>3. ASSUME NEW d \in Conns, NEW e \in Conns, d # e
        PROVE  Apart(db', Acts(d)', user'[d], Acts(e)', user'[e])
    <2>1. Apart(db, Acts(d), user[d], Acts(e), user[e])
      BY <1>3 DEF AccountInv
    <2> QED
      BY <1>2, <2>1, ApartStays
  <1> QED
    BY <1>1, <1>3, SameCount DEF AccountInv

\* A step that does not ask the database either.
LEMMA SilentStep ==
    ASSUME AccountInv, UserInv', Settled(db), db' = db,
           \A d \in Conns : /\ Quiet(user[d], user'[d])
                            /\ Acts(d)' => Acts(d) \/ user'[d].name = Nothing
    PROVE  AccountInv'
  <1>1. Declines(db, db')
    <2>1. db.failed \in Nat
      BY DatabaseFields DEF Settled
    <2> QED
      BY <2>1 DEF Declines
  <1> QED
    BY <1>1, QuietStep

\* Connections, packets and whoever leaves.
LEMMA QuietPackets ==
    ASSUME UserInv, UserInv', DbInv, AccountInv, NEW c \in Conns,
           \/ Connect(c) \/ FirstPacket(c) \/ NextPacket(c) \/ EndPacket(c)
           \/ ConnectionLost(c) \/ DeleteProtocol(c) \/ LevelThrows(c)
    PROVE  AccountInv'
  <1>0. UsersTyped /\ Settled(db) /\ \A d \in Conns : d # Nothing
    BY SessionAssumption DEF UserInv, DbInv
  <1>1. CASE Connect(c)
    <2>1. protocolUser[c] # c /\ reading # c
      BY <1>0, <1>1 DEF Connect, UserInv, Fits
    <2>2. /\ user' = user /\ db' = db
          /\ \A d \in Conns : Acts(d)' => Acts(d)
      BY <1>0, <1>1, <2>1 DEF Connect, Acts, UsersTyped
    <2> QED
      BY <1>0, <2>2, QuietSame, SilentStep
  <1>2. CASE FirstPacket(c)
    <2>1. /\ user'[c] = NewUser(c) /\ db' = db
          /\ \A d \in Conns \ {c} : user'[d] = user[d] /\ (Acts(d)' => Acts(d))
      BY <1>0, <1>2 DEF FirstPacket, Acts, UsersTyped
    <2>2. user'[c].name = Nothing /\ Quiet(user[c], user'[c])
      BY <2>1, NewUserFacts, QuietReset
    <2> QED
      BY <1>0, <2>1, <2>2, QuietSame, SilentStep
  <1>3. CASE NextPacket(c) \/ EndPacket(c) \/ LevelThrows(c)
    <2>1. /\ user' = user /\ db' = db
          /\ \A d \in Conns : Acts(d)' => Acts(d)
      BY <1>0, <1>3 DEF NextPacket, EndPacket, LevelThrows, Acts
    <2> QED
      BY <1>0, <2>1, QuietSame, SilentStep
  <1>4. CASE ConnectionLost(c) \/ DeleteProtocol(c)
    <2>1. /\ user' = user /\ db' = db
          /\ \A d \in Conns : Acts(d)' => Acts(d)
      <3>1. CASE ConnectionLost(c)
        <4>1. \A d \in Conns : conn'[d] = "open" => conn[d] = "open"
          BY <1>0, <3>1, ClosingFacts DEF ConnectionLost
        <4> QED
          BY <3>1, <4>1 DEF ConnectionLost, Acts
      <3>2. CASE DeleteProtocol(c)
        BY <1>0, <3>2 DEF DeleteProtocol, Acts, UsersTyped
      <3> QED
        BY <1>4, <3>1, <3>2
    <2> QED
      BY <1>0, <2>1, QuietSame, SilentStep
  <1> QED
    BY <1>1, <1>2, <1>3, <1>4

LEMMA QuietCloseTask ==
    ASSUME UserInv, UserInv', DbInv, AccountInv, NEW c \in Conns, CloseTask(c)
    PROVE  AccountInv'
  <1>1. /\ db' = db /\ Settled(db) /\ UsersTyped
        /\ user' = [u \in Conns |->
                IF protocolUser[c] = u /\ user[u].client = c
                THEN [user[u] EXCEPT !.client = Nothing] ELSE user[u]]
    BY DEF CloseTask, DbInv, UserInv
  <1>2. ASSUME NEW d \in Conns
        PROVE  Quiet(user[d], user'[d]) /\ (Acts(d)' => Acts(d))
    <2> DEFINE r == user[d]
               s == [r EXCEPT !.client = Nothing]
    <2>1. user'[d] = s \/ user'[d] = r
      BY <1>1
    <2>2. /\ r \in UserRecords
          /\ s.level = r.level /\ s.name = r.name /\ s.stage = r.stage
          /\ s.password = r.password /\ s.guid = r.guid
          /\ s.proved = r.proved /\ s.listed = r.listed
      BY <1>1 DEF UsersTyped, UserRecords
    <2> HIDE DEF s, r
    <2>3. Quiet(r, s) /\ Quiet(r, r)
      BY <2>2, QuietSame DEF Quiet, Registering
    <2>4. Acts(d)' => Acts(d)
      BY <1>1 DEF CloseTask, Acts, UsersTyped
    <2> QED
      BY <2>1, <2>3, <2>4 DEF r
  <1> QED
    BY <1>1, <1>2, SilentStep

\* A line that does not ask the database.
LEMMA QuietLine ==
    ASSUME UserInv, UserInv', DbInv, AccountInv, NEW c \in Conns,
           NEW s, Quiet(user[c], s), user' = [user EXCEPT ![c] = s],
           NEW C, conn' = Closing(C),
           reading' = reading, protocolUser' = protocolUser, db' = db
    PROVE  AccountInv'
  <1>1. UsersTyped /\ Settled(db)
    BY DEF UserInv, DbInv
  <1>2. \A d \in Conns : conn'[d] = "open" => conn[d] = "open"
    BY <1>1, ClosingFacts
  <1>3. \A d \in Conns : Quiet(user[d], user'[d]) /\ (Acts(d)' => Acts(d))
    BY <1>1, <1>2, QuietSame DEF UsersTyped, Acts
  <1> QED
    BY <1>1, <1>3, SilentStep

LEMMA QuietLines ==
    ASSUME UserInv, UserInv', DbInv, AccountInv, NEW c \in Conns,
           \/ LoginQuit(c) \/ BadInput(c)
           \/ GotTelopt(c) \/ LeaveStage(c) \/ Quit(c)
           \/ \E p \in Pwds : NewPassword(c, p)
    PROVE  AccountInv'
  <1> DEFINE r == user[c]
  <1>0. /\ UsersTyped /\ Settled(db)
        /\ \A d \in Conns : d # Nothing
        /\ conn = Closing({})
    BY SessionAssumption, NoneCloses DEF UserInv, DbInv
  <1>1. reading = c
    BY DEF LoginQuit, BadInput, GotTelopt, LeaveStage, Quit, NewPassword,
           LoginLine
  <1>2. protocolUser[c] = c /\ r \in UserRecords /\ StageData(r)
    BY <1>1, ReaderFits
  <1>3. CASE LoginQuit(c)
    <2>1. /\ user'[c] = NoUser("deleted") /\ db' = db
          /\ \A d \in Conns \ {c} : user'[d] = user[d]
      BY <1>0, <1>2, <1>3 DEF LoginQuit, UsersTyped
    <2>2. Quiet(user[c], user'[c])
      BY <2>1, NoUserFacts, QuietReset
    <2>3. \A d \in Conns : conn'[d] = "open" => conn[d] = "open"
      BY <1>0, <1>3, ClosingFacts DEF LoginQuit
    <2>4. \A d \in Conns : Acts(d)' => Acts(d)
      BY <1>0, <1>3, <2>3 DEF LoginQuit, Acts, UsersTyped
    <2> QED
      BY <1>0, <2>1, <2>2, <2>4, QuietSame, SilentStep
  <1>4. CASE BadInput(c)
    <2> DEFINE s == Attempt(r)
               C == IF Kicked(r, s) THEN {r.client} ELSE {}
    <2>1. /\ conn' = Closing(C) /\ user' = [user EXCEPT ![c] = s]
          /\ reading' = reading /\ protocolUser' = protocolUser /\ db' = db
      BY <1>2, <1>4 DEF BadInput, Becomes
    <2>2. Tried(r, s)
      BY <1>2, AttemptTries, UserTypes
    <2> HIDE DEF s, C, r
    <2>3. Quiet(r, s)
      BY <2>2 DEF Tried, Quiet, Registering
    <2> QED
      BY <2>1, <2>3, QuietLine DEF r
  <1>5. CASE \E p \in Pwds : NewPassword(c, p)
    <2>1. PICK p \in Pwds : NewPassword(c, p)
      BY <1>5
    <2> DEFINE s == [r EXCEPT !.password = p, !.stage = "LOGIN_REENTER_PWD"]
    <2>2. /\ conn' = conn /\ user' = [user EXCEPT ![c] = s]
          /\ reading' = reading /\ protocolUser' = protocolUser /\ db' = db
          /\ r.stage = "LOGIN_PWD" /\ r.password = Nothing
      BY <1>0, <1>2, <2>1 DEF NewPassword, LoginLine, UsersTyped
    <2>3. /\ s.level = r.level /\ s.name = r.name /\ s.proved = r.proved
          /\ s.guid = r.guid /\ s.listed = r.listed
          /\ s.stage = "LOGIN_REENTER_PWD"
      BY <1>2 DEF UserRecords
    <2> HIDE DEF s, r
    <2>4. Quiet(r, s)
      BY <2>2, <2>3 DEF Quiet, Registering
    <2> QED
      BY <1>0, <2>2, <2>4, QuietLine DEF r
  <1>6. CASE GotTelopt(c)
    <2> DEFINE s == [r EXCEPT !.negotiated = TRUE, !.stage = "LOGIN_NAME"]
    <2>1. /\ conn' = conn /\ user' = [user EXCEPT ![c] = s]
          /\ reading' = reading /\ protocolUser' = protocolUser /\ db' = db
      BY <1>0, <1>2, <1>6 DEF GotTelopt, UsersTyped
    <2>2. /\ s.level = r.level /\ s.name = r.name /\ s.proved = r.proved
          /\ s.guid = r.guid /\ s.listed = r.listed
          /\ s.stage = "LOGIN_NAME"
      BY <1>2 DEF UserRecords
    <2> HIDE DEF s, r
    <2>3. Quiet(r, s)
      BY <2>2 DEF Quiet, Registering
    <2> QED
      BY <1>0, <2>1, <2>3, QuietLine DEF r
  <1>7. CASE LeaveStage(c)
    <2> DEFINE s == [r EXCEPT !.stage = "CMD_LINE"]
    <2>1. /\ conn' = conn /\ user' = [user EXCEPT ![c] = s]
          /\ reading' = reading /\ protocolUser' = protocolUser /\ db' = db
      BY <1>0, <1>2, <1>7 DEF LeaveStage, UsersTyped
    <2>2. /\ s.level = r.level /\ s.name = r.name /\ s.proved = r.proved
          /\ s.guid = r.guid /\ s.listed = r.listed
          /\ s.stage = "CMD_LINE"
      BY <1>2 DEF UserRecords
    <2> HIDE DEF s, r
    <2>3. Quiet(r, s)
      BY <2>2 DEF Quiet, Registering
    <2> QED
      BY <1>0, <2>1, <2>3, QuietLine DEF r
  <1>8. CASE Quit(c)
    <2> DEFINE s == [r EXCEPT !.listed = FALSE]
               C == Clients({c})
    <2>1. /\ conn' = Closing(C) /\ user' = [user EXCEPT ![c] = s]
          /\ reading' = reading /\ protocolUser' = protocolUser /\ db' = db
      BY <1>0, <1>2, <1>8 DEF Quit, UsersTyped
    <2>2. /\ s.level = r.level /\ s.name = r.name /\ s.proved = r.proved
          /\ s.guid = r.guid /\ ~s.listed /\ s.password = r.password
          /\ s.stage = r.stage
      BY <1>2 DEF UserRecords
    <2> HIDE DEF s, r, C
    <2>3. Quiet(r, s)
      BY <2>2 DEF Quiet, Registering
    <2> QED
      BY <1>0, <2>1, <2>3, QuietLine DEF r
  <1> QED
    BY <1>3, <1>4, <1>5, <1>6, <1>7, <1>8

\* Whoever is logging in under the name is in the list, and is kicked.
LEMMA EnterNameAccounts ==
    ASSUME UserInv, UserInv', DbInv, DbInv', AccountInv,
           NEW c \in Conns, NEW n \in Names, NEW o \in Outcomes,
           EnterName(c, n, o)
    PROVE  AccountInv'
  <1> DEFINE r == user[c]
             s == Attempts(r, BadLetters[n])
             l == Load(db, n, o)
             found == l.found
             t == Named(s, n, found)
             H == HungLogins(c, n)
             C == Clients(H \cup (IF Kicked(r, s) THEN {c} ELSE {}))
  <1>1. /\ reading = c /\ protocolUser[c] = c /\ c # Nothing
        /\ r \in UserRecords /\ r.level = "LOGIN"
    BY ReaderFits DEF EnterName, LoginLine
  <1>2. /\ s.attempts <= AttemptBound /\ db' = l.db
        /\ conn' = Closing(C) /\ user' = [user EXCEPT ![c] = t]
        /\ reading' = reading /\ protocolUser' = protocolUser
    BY <1>1 DEF EnterName, Loads
  <1>3. Tried(r, s)
    BY <1>1, AttemptsTry, UserTypes, SessionAssumption
  <1>4. s \in UserRecords /\ s.level = "LOGIN"
    BY <1>1, <1>2, <1>3, UserTypes DEF Tried
  <1>5. UsersTyped /\ Settled(db) /\ Settled(db')
    BY DEF UserInv, DbInv
  <1>6. Loaded(db, n, l)
    BY <1>5, LoadFacts
  <1> HIDE DEF s, l
  <1>7. /\ db'.rows = db.rows /\ Declines(db, db')
        /\ found \in BOOLEAN /\ (found => RowsOf(db, n) # {})
        /\ RowsOf(db, n) # {} /\ db.connected /\ db'.failed = db.failed => found
    BY <1>2, <1>6 DEF Loaded
  <1> HIDE DEF found
  <1>8. /\ t \in UserRecords /\ t.level = "LOGIN"
        /\ t.name = n /\ t.stage = "LOGIN_PWD"
        /\ found => t.password = StoredPassword(db, n)
    BY <1>4, <1>5, <1>7, NamedFacts
  <1> HIDE DEF t
  <1>9. /\ user'[c] = t /\ \A d \in Conns \ {c} : user'[d] = user[d]
        /\ \A d \in Conns : /\ conn'[d] = "open" => conn[d] = "open"
                            /\ d \in C => conn'[d] # "open"
    BY <1>2, <1>5, ClosingFacts DEF UsersTyped
  <1>10. /\ RowsOf(db', n) = RowsOf(db, n)
         /\ StoredPassword(db', n) = StoredPassword(db, n)
         /\ Cardinality(RowsOf(db, n)) \in Nat
         /\ Cardinality(RowsOf(db, n)) = 0 <=> RowsOf(db, n) = {}
    BY <1>5, <1>7, SameRows, RowsOfFacts, FS_EmptySet
  <1>11. /\ db.failed \in Nat /\ db'.failed \in Nat /\ db.failed <= db'.failed
         /\ db'.connected => db.connected
         /\ ~db.connected => db.failed > 0
    BY <1>5, <1>7, DatabaseFields DEF Settled, Declines
  <1>12. Fine(db', Acts(c)', t)
    <2>1. ASSUME t.password = Nothing, db'.connected
          PROVE  Cardinality(RowsOf(db', n)) <= db'.failed
      <3>1. ~found
        BY <1>5, <1>7, <1>8, <2>1, StoredFacts, SessionAssumption
      <3>2. CASE RowsOf(db, n) = {}
        BY <1>10, <1>11, <3>2
      <3>3. CASE RowsOf(db, n) # {}
        <4>1. db'.failed # db.failed
          BY <1>7, <1>11, <2>1, <3>1, <3>3
        <4>2. Cardinality(RowsOf(db, n)) <= 1 + db.failed
          BY DEF AccountInv
        <4> QED
          BY <1>10, <1>11, <4>1, <4>2
      <3> QED
        BY <3>2, <3>3
    <2>2. ASSUME db'.failed = 0, RowsOf(db', n) # {}
          PROVE  t.password = StoredPassword(db', n)
      <3>1. db.failed = 0 /\ db.connected
        BY <1>11, <2>2
      <3>2. found
        BY <1>7, <1>10, <2>2, <3>1
      <3> QED
        BY <1>8, <1>10, <3>2
    <2> QED
      BY <1>8, <2>1, <2>2 DEF Fine, Registering
  <1>13. ASSUME NEW d \in Conns \ {c}
         PROVE  /\ Quiet(user[d], user'[d])
                /\ Acts(d)' => Acts(d)
                /\ Fine(db', Acts(d)', user'[d])
                /\ Apart(db', Acts(c)', user'[c], Acts(d)', user'[d])
    <2>1. Quiet(user[d], user'[d])
      BY <1>9, QuietSame
    <2>2. Acts(d)' => Acts(d)
      BY <1>2, <1>9 DEF Acts
    <2>3. Fine(db', Acts(d)', user'[d])
      BY <1>5, <1>7, <2>1, <2>2, QuietFine
    <2>4. ASSUME Acts(d)', user[d].level = "LOGIN", user[d].name = n
          PROVE  FALSE
      <3>1. conn'[d] = "open" /\ conn[d] = "open" /\ protocolUser[d] = d
        BY <1>1, <1>2, <1>9, <2>4 DEF Acts
      <3>2. user[d].listed /\ user[d].client = d
        BY <3>1 DEF UserInv, Fits
      <3>3. d \in H
        BY <2>4, <3>2 DEF HungLogins
      <3>4. d \in C
        BY <3>2, <3>3 DEF Clients
      <3> QED
        BY <1>9, <3>1, <3>4
    <2>5. Apart(db', Acts(c)', t, Acts(d)', user'[d])
      BY <1>8, <1>9, <2>4 DEF Apart
    <2> QED
      BY <1>9, <2>1, <2>2, <2>3, <2>5
  <1>14. \A m \in Names : Cardinality(RowsOf(db', m)) <= 1 + db'.failed
    BY <1>5, <1>7, SameCount
  <1> HIDE DEF C, r
  <1>15. Fine(db', Acts(c)', user'[c])
    BY <1>9, <1>12
  <1> QED
    BY <1>5, <1>7, <1>13, <1>14, <1>15, AccountStep

\* The row that is added may be the only one of its login, unless a query failed
\* for each other.
LEMMA RegisterAccounts ==
    ASSUME UserInv, UserInv', DbInv, DbInv', AccountInv,
           NEW c \in Conns, NEW o \in CreateOutcomes, Register(c, o)
    PROVE  AccountInv'
  <1> DEFINE r == user[c]
             n == r.name
             row == [login |-> n, password |-> r.password]
             m == Create(db, row, o)
             g == IF m.id THEN n ELSE Nothing
             s == [r EXCEPT !.level = "NOVICE", !.password = Nothing,
                            !.stage = "LOGIN_PROMPT", !.guid = g,
                            !.proved = n]
  <1>1. /\ reading = c /\ protocolUser[c] = c /\ c # Nothing
        /\ r \in UserRecords /\ StageData(r)
        /\ r.level = "LOGIN" /\ r.stage = "LOGIN_REENTER_PWD"
    BY ReaderFits DEF Register, LoginLine
  <1>2. UsersTyped /\ Settled(db) /\ Settled(db')
    BY DEF UserInv, DbInv
  <1>3. n \in Names /\ n # Nothing /\ r.password \in Pwds
    BY <1>1, SessionAssumption DEF StageData
  <1>4. row \in RowRecords /\ row.login = n
    BY <1>3 DEF RowRecords
  <1>5. /\ conn' = conn /\ user' = [user EXCEPT ![c] = s] /\ db' = m.db
        /\ reading' = reading /\ protocolUser' = protocolUser
    BY <1>1, <1>2 DEF Register, UsersTyped
  <1> HIDE DEF row
  <1>6. Created(db, row, m)
    BY <1>2, <1>4, CreateFacts
  <1> HIDE DEF m
  <1>7. g \in Names \cup {Nothing}
    BY <1>3
  <1> HIDE DEF g
  <1>8. /\ s.level = "NOVICE" /\ s.name = n /\ s.proved = n /\ s.guid = g
    BY <1>1 DEF UserRecords
  <1> HIDE DEF s
  <1>9. /\ Declines(db, db') /\ m.id \in BOOLEAN
        /\ db'.rows \in {db.rows, Append(db.rows, row)}
        /\ m.id => db'.rows = Append(db.rows, row)
        /\ ~db.connected => db'.rows = db.rows
        /\ db.connected /\ db'.failed = db.failed => m.id
    BY <1>5, <1>6 DEF Created
  <1>10. /\ db.failed \in Nat /\ db'.failed \in Nat /\ db.failed <= db'.failed
         /\ ~db.connected => db.failed > 0
    BY <1>2, <1>9, DatabaseFields DEF Settled, Declines
  <1>11. /\ user'[c] = s
         /\ \A d \in Conns \ {c} : user'[d] = user[d]
         /\ \A d \in Conns : Acts(d)' = Acts(d)
    BY <1>2, <1>5 DEF UsersTyped, Acts
  <1>12. /\ \A k : RowsOf(db, k) # {} => RowsOf(db', k) # {}
         /\ \A k : k # n => RowsOf(db', k) = RowsOf(db, k)
         /\ \A k : RowsOf(db, k) # {} =>
                      StoredPassword(db', k) = StoredPassword(db, k)
         /\ m.id => RowsOf(db', n) # {}
    <2>1. CASE db'.rows = db.rows /\ ~m.id
      BY <1>2, <2>1, SameRows
    <2>2. CASE db'.rows = Append(db.rows, row)
      BY <1>2, <1>4, <2>2, OneMoreRow
    <2> QED
      BY <1>9, <2>1, <2>2
  <1>13. db.connected => Cardinality(RowsOf(db, n)) <= db.failed
    BY <1>1 DEF AccountInv, Fine, Registering, Acts
  <1>14. ASSUME NEW k \in Names
         PROVE  Cardinality(RowsOf(db', k)) <= 1 + db'.failed
    <2>1. /\ Cardinality(RowsOf(db, k)) \in Nat
          /\ Cardinality(RowsOf(db, k)) <= 1 + db.failed
      BY <1>2, RowsOfFacts DEF AccountInv
    <2>2. CASE k # n
      BY <1>10, <1>12, <2>1, <2>2
    <2>3. CASE k = n /\ db'.rows = db.rows
      BY <1>2, <1>10, <2>1, <2>3, SameRows
    <2>4. CASE k = n /\ db'.rows = Append(db.rows, row)
      <3>1. db.connected
        BY <1>2, <1>9, <2>4, DatabaseFields DEF Settled
      <3>2. Cardinality(RowsOf(db', n)) = Cardinality(RowsOf(db, n)) + 1
        BY <1>2, <1>4, <2>4, OneMoreRow
      <3> QED
        BY <1>10, <1>13, <2>1, <2>4, <3>1, <3>2
    <2> QED
      BY <1>9, <2>2, <2>3, <2>4
  <1>15. Fine(db', Acts(c)', s)
    <2>1. db'.failed = 0 => m.id
      BY <1>9, <1>10
    <2>2. g # Nothing => m.id /\ g = n
      BY DEF g
    <2> QED
      BY <1>8, <1>12, <2>1, <2>2 DEF Fine
  <1>16. ASSUME NEW d \in Conns \ {c}
         PROVE  /\ Quiet(user[d], user'[d])
                /\ Acts(d)' => Acts(d)
                /\ Fine(db', Acts(d)', user'[d])
                /\ Apart(db', Acts(c)', user'[c], Acts(d)', user'[d])
    <2>1. /\ user'[d] = user[d] /\ Quiet(user[d], user'[d])
          /\ Acts(d)' = Acts(d)
      BY <1>11, QuietSame
    <2>2. Fine(db, Acts(d), user[d]) /\ StageData(user[d])
      BY DEF AccountInv, UserInv, Fits
    <2>3. ~(Acts(d) /\ user[d].level = "LOGIN" /\ user[d].name = n)
      <3>1. Apart(db, Acts(c), user[c], Acts(d), user[d])
        BY DEF AccountInv
      <3> QED
        BY <1>1, <1>3, <3>1 DEF Apart, Acts
    <2>4. Acts(d) \in BOOLEAN /\ user[d] \in UserRecords
      BY <1>2 DEF Acts, UsersTyped
    <2>5. Fine(db', Acts(d)', user'[d])
      <3> DEFINE u == user[d]
                 act == Acts(d)
      <3>1. /\ u \in UserRecords /\ act \in BOOLEAN
            /\ StageData(u) /\ Fine(db, act, u) /\ Quiet(u, u)
        BY <2>1, <2>2, <2>4
      <3>2. act /\ u.level = "LOGIN" /\ u.name # Nothing =>
               /\ RowsOf(db', u.name) = RowsOf(db, u.name)
               /\ RowsOf(db, u.name) # {} =>
                     StoredPassword(db', u.name) = StoredPassword(db, u.name)
        BY <1>12, <2>3
      <3>3. \A k : RowsOf(db, k) # {} => RowsOf(db', k) # {}
        BY <1>12
      <3> HIDE DEF u, act
      <3>4. Settled(db) /\ Settled(db') /\ Declines(db, db')
        BY <1>2, <1>9
      <3>5. act => act \/ u.name = Nothing
        OBVIOUS
      <3>6. Fine(db', act, u)
        BY <3>1, <3>2, <3>3, <3>4, <3>5, FineStays, SMTT(30)
      <3> QED
        BY <2>1, <3>6 DEF u, act
    <2>6. ASSUME db'.failed = 0, user[d].level # "LOGIN", user[d].name = n
          PROVE  FALSE
      <3>1. db.failed = 0 /\ db.connected
        BY <1>2, <1>10, <2>6, DatabaseFields DEF Settled
      <3>2. RowsOf(db, n) # {}
        BY <2>2, <2>6, <3>1 DEF Fine
      <3>3. Cardinality(RowsOf(db, n)) >= 1 /\ Cardinality(RowsOf(db, n)) \in Nat
        BY <1>2, <3>2, RowsOfFacts
      <3> QED
        BY <1>13, <3>1, <3>3
    <2>7. Apart(db', Acts(c)', s, Acts(d)', user[d])
      BY <1>8, <2>6 DEF Apart
    <2> QED
      BY <1>11, <2>1, <2>5, <2>7
  <1> HIDE DEF r
  <1>17. Fine(db', Acts(c)', user'[c])
    BY <1>11, <1>15
  <1> QED
    BY <1>2, <1>9, <1>14, <1>16, <1>17, AccountStep

\* The password is that of the account, or the account was not found again.
LEMMA RightPasswordAccounts ==
    ASSUME UserInv, UserInv', DbInv, DbInv', AccountInv,
           NEW c \in Conns, NEW o \in Outcomes, RightPassword(c, o)
    PROVE  AccountInv'
  <1> DEFINE r == user[c]
             n == r.name
             l == Load(db, n, o)
             found == l.found
             s == LoggedIn(r, found)
  <1>1. /\ reading = c /\ protocolUser[c] = c /\ c # Nothing
        /\ r \in UserRecords /\ StageData(r)
        /\ r.level = "LOGIN" /\ r.stage = "LOGIN_PWD" /\ r.password # Nothing
    BY ReaderFits DEF RightPassword, LoginLine
  <1>2. UsersTyped /\ Settled(db) /\ Settled(db')
    BY DEF UserInv, DbInv
  <1>3. n \in Names /\ n # Nothing
    BY <1>1, SessionAssumption DEF StageData
  <1>4. /\ conn' = conn /\ user' = [user EXCEPT ![c] = s] /\ db' = l.db
        /\ reading' = reading /\ protocolUser' = protocolUser
        /\ Others(c) = {}
    BY <1>1, <1>2 DEF RightPassword, Loads, UsersTyped
  <1>5. Loaded(db, n, l)
    BY <1>2, LoadFacts
  <1> HIDE DEF l
  <1>6. /\ db'.rows = db.rows /\ Declines(db, db')
        /\ found \in BOOLEAN /\ (found => RowsOf(db, n) # {})
    BY <1>4, <1>5 DEF Loaded
  <1> HIDE DEF found
  <1>7. /\ s \in UserRecords /\ s.name = n /\ s.stage = "CMD_LINE"
        /\ s.listed = r.listed
        /\ ~found => /\ s.level = r.level /\ s.guid = r.guid
                     /\ s.proved = r.proved
        /\ found => /\ s.level = "NOVICE" /\ s.guid = n
                    /\ r.password = StoredPassword(db, n) => s.proved = n
    BY <1>1, <1>3, <1>6, LoggedInFacts
  <1> HIDE DEF s
  <1>8. /\ user'[c] = s
        /\ \A d \in Conns \ {c} : user'[d] = user[d]
        /\ \A d \in Conns : Acts(d)' = Acts(d)
    BY <1>2, <1>4 DEF UsersTyped, Acts
  <1>9. CASE ~found
    <2>1. Quiet(r, s)
      BY <1>1, <1>3, <1>7, <1>9 DEF Quiet
    <2>2. \A d \in Conns : Quiet(user[d], user'[d]) /\ (Acts(d)' => Acts(d))
      BY <1>8, <2>1, QuietSame
    <2> QED
      BY <1>2, <1>6, <2>2, QuietStep
  <1>10. CASE found
    <2>1. db'.failed = 0 => db.failed = 0
      <3>1. db.failed \in Nat /\ db'.failed \in Nat /\ db.failed <= db'.failed
        BY <1>2, <1>6, DatabaseFields DEF Settled, Declines
      <3> QED
        BY <3>1
    <2>2. db.failed = 0 => r.password = StoredPassword(db, n)
      BY <1>1, <1>6, <1>10 DEF AccountInv, Fine, Acts
    <2>3. RowsOf(db', n) # {}
      BY <1>2, <1>6, <1>10, SameRows
    <2>4. Fine(db', Acts(c)', s)
      BY <1>7, <1>10, <2>1, <2>2, <2>3 DEF Fine
    <2>5. ASSUME NEW d \in Conns \ {c}
          PROVE  /\ Quiet(user[d], user'[d])
                 /\ Acts(d)' => Acts(d)
                 /\ Fine(db', Acts(d)', user'[d])
                 /\ Apart(db', Acts(c)', user'[c], Acts(d)', user'[d])
      <3>1. Quiet(user[d], user'[d]) /\ (Acts(d)' => Acts(d))
        BY <1>8, QuietSame
      <3>2. Fine(db', Acts(d)', user'[d])
        BY <1>2, <1>6, <3>1, QuietFine
      <3>3. ~(user[d].listed /\ user[d].name = n)
        BY <1>4 DEF Others
      <3>4. Apart(db', Acts(c)', s, Acts(d)', user'[d])
        BY <1>7, <1>8, <1>10, <3>3 DEF Apart
      <3> QED
        BY <1>8, <3>1, <3>2, <3>4
    <2>6. \A k \in Names : Cardinality(RowsOf(db', k)) <= 1 + db'.failed
      BY <1>2, <1>6, SameCount
    <2>7. Fine(db', Acts(c)', user'[c])
      BY <1>8, <2>4
    <2> HIDE DEF r
    <2> QED
      BY <1>2, <1>6, <2>5, <2>6, <2>7, AccountStep
  <1> QED
    BY <1>6, <1>9, <1>10

\* Of the two users with the name, one is deleted and the other left behind.
LEMMA SwapAccounts ==
    ASSUME UserInv, UserInv', DbInv, DbInv', AccountInv,
           NEW c \in Conns, NEW w \in Conns, NEW o \in Outcomes, Swap(c, w, o)
    PROVE  AccountInv'
  <1> DEFINE r == user[c]
             n == r.name
             l == Load(db, n, o)
             found == l.found
             t == LoggedIn(r, found)
             s == [t EXCEPT !.client = Nothing, !.listed = FALSE]
  <1>1. /\ reading = c /\ protocolUser[c] = c /\ c # Nothing
        /\ r \in UserRecords /\ StageData(r)
        /\ r.level = "LOGIN" /\ r.stage = "LOGIN_PWD" /\ r.password # Nothing
    BY ReaderFits DEF Swap, LoginLine
  <1>2. UsersTyped /\ Settled(db) /\ Settled(db') /\ w # c
    BY <1>1 DEF UserInv, DbInv, Swap, Others
  <1>3. n \in Names /\ n # Nothing /\ \A d \in Conns : d # Nothing
    BY <1>1, SessionAssumption DEF StageData
  <1>4. /\ conn' = Closing(Clients({w}))
        /\ user' = [user EXCEPT ![c] = s, ![w] = NoUser("deleted")]
        /\ protocolUser' = [protocolUser EXCEPT ![c] = Nothing]
        /\ reading' = Nothing /\ db' = l.db
    BY <1>1, <1>2 DEF Swap, Loads, UsersTyped
  <1>5. Loaded(db, n, l)
    BY <1>2, LoadFacts
  <1> HIDE DEF l
  <1>6. /\ db'.rows = db.rows /\ Declines(db, db')
        /\ found \in BOOLEAN /\ (found => RowsOf(db, n) # {})
    BY <1>4, <1>5 DEF Loaded
  <1> HIDE DEF found
  <1>7. /\ t \in UserRecords /\ t.name = n
        /\ ~found => t.level = r.level
        /\ found => /\ t.level = "NOVICE" /\ t.guid = n
                    /\ r.password = StoredPassword(db, n) => t.proved = n
    BY <1>1, <1>3, <1>6, LoggedInFacts
  <1> HIDE DEF t
  <1>8. /\ s.name = n /\ ~s.listed /\ s.level = t.level
        /\ s.guid = t.guid /\ s.proved = t.proved
    BY <1>7 DEF UserRecords
  <1> HIDE DEF s
  <1>9. /\ user'[c] = s /\ user'[w] = NoUser("deleted")
        /\ \A d \in Conns \ {c, w} : user'[d] = user[d]
        /\ \A d \in Conns : conn'[d] = "open" => conn[d] = "open"
    BY <1>2, <1>4, ClosingFacts DEF UsersTyped
  <1>10. /\ ~Acts(c)'
         /\ \A d \in Conns \ {c} : Acts(d)' => Acts(d)
    BY <1>2, <1>3, <1>4, <1>9 DEF Acts, UsersTyped
  <1>11. \A d \in Conns \ {c} : Quiet(user[d], user'[d])
    <2>1. Quiet(user[w], user'[w])
      BY <1>9, NoUserFacts, QuietReset
    <2> QED
      BY <1>9, <2>1, QuietSame
  <1>12. db'.failed = 0 => db.failed = 0
    <2>1. db.failed \in Nat /\ db'.failed \in Nat /\ db.failed <= db'.failed
      BY <1>2, <1>6, DatabaseFields DEF Settled, Declines
    <2> QED
      BY <2>1
  <1>13. found /\ db.failed = 0 => r.password = StoredPassword(db, n)
    BY <1>1, <1>6 DEF AccountInv, Fine, Acts
  <1>14. found => RowsOf(db', n) # {}
    BY <1>2, <1>6, SameRows
  <1>15. Fine(db', Acts(c)', user'[c])
    <2>1. Fine(db', Acts(c)', s)
      BY <1>1, <1>6, <1>7, <1>8, <1>10, <1>12, <1>13, <1>14 DEF Fine
    <2> QED
      BY <1>9, <2>1
  <1>16. ASSUME NEW d \in Conns \ {c}
         PROVE  /\ Fine(db', Acts(d)', user'[d])
                /\ Apart(db', Acts(c)', user'[c], Acts(d)', user'[d])
    <2>1. Fine(db', Acts(d)', user'[d])
      BY <1>2, <1>6, <1>10, <1>11, QuietFine
    <2>2. Apart(db', Acts(c)', s, Acts(d)', user'[d])
      BY <1>8, <1>10 DEF Apart
    <2> QED
      BY <1>9, <2>1, <2>2
  <1>17. \A k \in Names : Cardinality(RowsOf(db', k)) <= 1 + db'.failed
    BY <1>2, <1>6, SameCount
  <1> HIDE DEF r
  <1> QED
    BY <1>2, <1>6, <1>10, <1>11, <1>15, <1>16, <1>17, AccountStep

LEMMA AccountsStep ==
    ASSUME UserInv, UserInv', DbInv, DbInv', AccountInv, [Next]_vars
    PROVE  AccountInv'
  <1>1. CASE UNCHANGED vars
    <2>1. /\ user' = user /\ db' = db /\ Settled(db)
          /\ \A d \in Conns : Acts(d)' = Acts(d)
      BY <1>1 DEF vars, Acts, DbInv
    <2> QED
      BY <2>1, QuietSame, SilentStep
  <1>2. ASSUME NEW c \in Conns,
               \/ Connect(c) \/ FirstPacket(c) \/ NextPacket(c) \/ EndPacket(c)
               \/ ConnectionLost(c) \/ DeleteProtocol(c) \/ LevelThrows(c)
        PROVE  AccountInv'
    BY <1>2, QuietPackets
  <1>3. ASSUME NEW c \in Conns,
               \/ LoginQuit(c) \/ BadInput(c)
               \/ GotTelopt(c) \/ LeaveStage(c) \/ Quit(c)
               \/ \E p \in Pwds : NewPassword(c, p)
        PROVE  AccountInv'
    BY <1>3, QuietLines
  <1>4. ASSUME NEW c \in Conns,
               \/ CloseTask(c)
               \/ \E n \in Names, o \in Outcomes : EnterName(c, n, o)
               \/ \E o \in CreateOutcomes : Register(c, o)
               \/ \E o \in Outcomes : RightPassword(c, o)
               \/ \E w \in Conns, o \in Outcomes : Swap(c, w, o)
        PROVE  AccountInv'
    BY <1>4, QuietCloseTask, EnterNameAccounts, RegisterAccounts,
       RightPasswordAccounts, SwapAccounts
  <1> QED
    BY <1>1, <1>2, <1>3, <1>4 DEF Next

LEMMA AccountsInit == Init => AccountInv
  <1> SUFFICES ASSUME Init PROVE AccountInv
    OBVIOUS
  <1> DEFINE u == NoUser("none")
  <1>1. /\ u.name = Nothing /\ u.level = "LOGIN" /\ u.stage = "LOGIN_NAME"
    BY NoUserFacts
  <1>2. \A c \in Conns : user[c] = u
    BY DEF Init
  <1> HIDE DEF u
  <1>3. /\ Settled(db) /\ db.rows = <<>>
    BY NewDatabaseFacts DEF Init
  <1>4. \A n \in Names : Cardinality(RowsOf(db, n)) <= 1 + db.failed
    <2>1. \A n : RowsOf(db, n) = {}
      BY <1>3, RowsFacts DEF RowsOf
    <2>2. db.failed \in Nat
      BY <1>3, DatabaseFields DEF Settled
    <2> QED
      BY <2>1, <2>2, FS_EmptySet
  <1>5. \A act : Fine(db, act, u)
    BY <1>1 DEF Fine, Registering
  <1>6. \A act1, act2 : Apart(db, act1, u, act2, u)
    BY <1>1 DEF Apart
  <1> QED
    BY <1>2, <1>4, <1>5, <1>6 DEF AccountInv

LEMMA AccountsInvariant == Spec => [](UserInv /\ DbInv /\ AccountInv)
  <1>1. /\ UserInv /\ DbInv /\ (UserInv /\ DbInv)' /\ AccountInv
        /\ [Next]_vars
        => AccountInv'
    BY AccountsStep
  <1> QED
    BY AccountsInit, <1>1, UsersInvariant, PTL DEF Spec

\* A name has one account and at most one more for each query that failed,
\* whoever registers it at the same time.
THEOREM AccountsAreUnique == Spec => []OneAccount
  <1>1. UserInv /\ DbInv /\ AccountInv => OneAccount
    BY DEF AccountInv, OneAccount
  <1> QED
    BY AccountsInvariant, <1>1, PTL

\* While no query fails, a name has one session: registering and swapping leave
\* no second one.
THEOREM SessionsAreUnique == Spec => []OneSession
  <1>1. UserInv /\ DbInv /\ AccountInv => OneSession
    <2> SUFFICES ASSUME UserInv, AccountInv, db.failed = 0, NEW n \in Names
                 PROVE  Cardinality({u \in Conns :
                            /\ user[u].listed /\ user[u].name = n
                            /\ user[u].level # "LOGIN"}) <= 1
      BY DEF OneSession
    <2> DEFINE S == {u \in Conns : /\ user[u].listed /\ user[u].name = n
                                   /\ user[u].level # "LOGIN"}
    <2>1. \A u, v \in S : u = v
      BY SessionAssumption DEF AccountInv, Apart
    <2> HIDE DEF S
    <2>2. ASSUME S = {} PROVE Cardinality(S) <= 1
      BY <2>2, FS_EmptySet
    <2>3. ASSUME S # {} PROVE Cardinality(S) <= 1
      <3>1. PICK u \in S : TRUE
        BY <2>3
      <3>2. S = {u}
        BY <2>1
      <3>3. Cardinality({u}) = 1
        BY FS_Singleton, Zenon
      <3> QED
        BY <3>2, <3>3
    <2>4. Cardinality(S) <= 1
      BY <2>2, <2>3
    <2> QED
      BY <2>4 DEF S
  <1> QED
    BY AccountsInvariant, <1>1, PTL

\* While no query fails, whoever is logged in gave the password of the account
\* whose name he bears, or registered it.
THEOREM IdentityIsProved == Spec => []Authenticated
  <1>1. UserInv /\ DbInv /\ AccountInv => Authenticated
    BY DEF AccountInv, Fine, Authenticated
  <1> QED
    BY AccountsInvariant, <1>1, PTL

\* The id of whoever is logged in is that of a row under his own name, whatever
\* fails.
THEOREM IdsAreOwn == Spec => []OwnRowOrNone
  <1>1. UserInv /\ DbInv /\ AccountInv => OwnRowOrNone
    <2> SUFFICES ASSUME DbInv, AccountInv, NEW u \in Conns,
                        user[u].level # "LOGIN", user[u].guid # Nothing
                 PROVE  /\ user[u].guid = user[u].name
                        /\ \E i \in DOMAIN db.rows :
                              db.rows[i].login = user[u].guid
      BY DEF OwnRowOrNone
    <2>1. user[u].guid = user[u].name /\ RowsOf(db, user[u].guid) # {}
      BY DEF AccountInv, Fine
    <2> QED
      BY <2>1, StoredFacts DEF DbInv
  <1> QED
    BY AccountsInvariant, <1>1, PTL
===============================================================================
