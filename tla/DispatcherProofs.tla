-------------------------- MODULE DispatcherProofs --------------------------
(* Proofs about Dispatcher, for any tasks and any set of calling threads.   *)
EXTENDS Dispatcher, TLAPS

-----------------------------------------------------------------------------
(* The strengthening that makes the invariants of Dispatcher inductive.    *)

\* A thread's position says which tasks it holds, and who holds the mutex.
PCInv ==
    /\ \A p \in Threads :
          /\ pc[p] \in {"body", "exec"} => hand[p] \in Tasks
          /\ pc[p] \notin {"body", "exec", "adding", "notify"} =>
                hand[p] = NoTask
          /\ pc[p] = "adding" => arg[p] \in Tasks
          /\ pc[p] # "adding" => arg[p] = NoTask
          /\ p \notin {Main, Disp} => hand[p] = NoTask
    /\ pc[Disp] \in {"adding", "notify"} => hand[Disp] \in Tasks
    /\ pc[Disp] = "off" => threadState = "TERMINATED" /\ pc[Main] = "idle"
    /\ flushing <=> (pc[Main] = "flush" \/ hand[Main] # NoTask)
    /\ flushing \/ pc[Main] \in {"join",
       "joined"} => threadState = "TERMINATED"
    /\ \A p \in Callers : pc[p] = "flush" => p = Main

\* Only submitted tasks are anywhere, and runs counts what was executed.
HistoryInv ==
    /\ Owned \subseteq submitted
    /\ \A p \in Threads :
          /\ hand[p] # NoTask => hand[p] \in submitted
          /\ arg[p] # NoTask => arg[p] \in submitted
    /\ \A t \in Tasks :
          /\ t \notin submitted => runs[t] = 0
          /\ t \in Listed \cup rejected => runs[t] = 0
          /\ \A p \in Threads : arg[p] = t => runs[t] = 0
          /\ \A p \in Threads :
                hand[p] = t => runs[t] = IF pc[p] = "exec" THEN 0 ELSE 1

-----------------------------------------------------------------------------
(* The deque: what its three operations do to its elements.                *)

\* push_back of a task that is not in the list adds it, once.
LEMMA AppendFacts ==
    ASSUME NEW S, NEW s \in Seq(S), NEW x \in S
    PROVE  /\ Append(s, x) \in Seq(S)
           /\ Append(s, x) # <<>>
           /\ ToSet(Append(s, x)) = ToSet(s) \cup {x}
           /\ IsInjective(s) /\ x \notin ToSet(s) => IsInjective(Append(s, x))
<1> DEFINE c == Append(s, x)
<1>1. /\ c \in Seq(S)
      /\ Len(c) = Len(s) + 1
      /\ \A i \in 1..Len(s) : c[i] = s[i]
      /\ c[Len(s) + 1] = x
      /\ Len(s) \in Nat
  OBVIOUS
<1>2. DOMAIN c = 1..(Len(s) + 1) /\ DOMAIN s = 1..Len(s)
  BY <1>1
<1>3. ToSet(c) = ToSet(s) \cup {x}
  <2>1. \A i \in DOMAIN c : i = Len(s) + 1 \/ i \in DOMAIN s
    BY <1>1, <1>2
  <2>2. ToSet(c) \subseteq ToSet(s) \cup {x}
    BY <1>1, <1>2, <2>1 DEF ToSet
  <2>3. ToSet(s) \subseteq ToSet(c)
    BY <1>1, <1>2 DEF ToSet
  <2>4. x \in ToSet(c)
    BY <1>1, <1>2 DEF ToSet
  <2> QED BY <2>2, <2>3, <2>4
<1>4. ASSUME IsInjective(s), x \notin ToSet(s) PROVE IsInjective(c)
  <2>1. \A i \in DOMAIN s : s[i] # x
    BY <1>4 DEF ToSet
  <2>2. \A i, j \in DOMAIN c : c[i] = c[j] => i = j
    BY <1>1, <1>2, <1>4, <2>1 DEF IsInjective
  <2> QED BY <2>2 DEF IsInjective
<1>5. c # <<>>
  BY <1>1
<1> HIDE DEF c
<1> QED BY <1>1, <1>3, <1>4, <1>5 DEF c

\* push_front of a task that is not in the list adds it, once.
LEMMA ConsFacts ==
    ASSUME NEW S, NEW s \in Seq(S), NEW x \in S
    PROVE  /\ (<<x>> \o s) \in Seq(S)
           /\ (<<x>> \o s) # <<>>
           /\ ToSet(<<x>> \o s) = ToSet(s) \cup {x}
           /\ IsInjective(s) /\ x \notin ToSet(s) => IsInjective(<<x>> \o s)
<1> DEFINE c == <<x>> \o s
<1>1. /\ c \in Seq(S)
      /\ Len(c) = Len(s) + 1
      /\ \A i \in 1..Len(c) : c[i] = IF i = 1 THEN x ELSE s[i - 1]
  OBVIOUS
<1>2. DOMAIN c = 1..(Len(s) + 1) /\ DOMAIN s = 1..Len(s) /\ Len(s) \in Nat
  BY <1>1
<1>3. ToSet(c) = ToSet(s) \cup {x}
  <2>1. ASSUME NEW y \in ToSet(s) PROVE y \in ToSet(c)
    <3>1. PICK i \in 1..Len(s) : y = s[i]
      BY <1>2 DEF ToSet
    <3>2. c[i + 1] = y /\ i + 1 \in DOMAIN c
      BY <1>1, <1>2, <3>1
    <3> QED BY <3>2 DEF ToSet
  <2>2. x \in ToSet(c)
    <3>1. c[1] = x /\ 1 \in DOMAIN c
      BY <1>1, <1>2
    <3> QED BY <3>1 DEF ToSet
  <2>3. ASSUME NEW y \in ToSet(c) PROVE y \in ToSet(s) \cup {x}
    <3>1. PICK i \in DOMAIN c : y = c[i]
      BY DEF ToSet
    <3>2. i # 1 => i - 1 \in DOMAIN s /\ c[i] = s[i - 1]
      BY <1>1, <1>2
    <3> QED BY <1>1, <1>2, <3>1, <3>2 DEF ToSet
  <2> QED BY <2>1, <2>2, <2>3
<1>4. ASSUME IsInjective(s), x \notin ToSet(s) PROVE IsInjective(c)
  <2>1. \A i \in DOMAIN s : s[i] # x
    BY <1>4 DEF ToSet
  <2>2. \A i \in DOMAIN c : i = 1 \/ (i - 1 \in DOMAIN s /\ c[i] = s[i - 1])
    BY <1>1, <1>2
  <2>3. \A i, j \in DOMAIN c : c[i] = c[j] => i = j
    BY <1>1, <1>2, <1>4, <2>1, <2>2 DEF IsInjective
  <2> QED BY <2>3 DEF IsInjective
<1>5. c # <<>>
  BY <1>1
<1> HIDE DEF c
<1> QED BY <1>1, <1>3, <1>4, <1>5 DEF c

\* pop_front takes the first task out of a list without duplicates.
LEMMA TailFacts ==
    ASSUME NEW S, NEW s \in Seq(S), s # <<>>
    PROVE  /\ Head(s) \in S
           /\ Head(s) \in ToSet(s)
           /\ Tail(s) \in Seq(S)
           /\ IsInjective(s) => /\ ToSet(Tail(s)) = ToSet(s) \ {Head(s)}
                                /\ IsInjective(Tail(s))
<1> DEFINE r == Tail(s)
<1>1. /\ r \in Seq(S)
      /\ Len(r) = Len(s) - 1
      /\ \A i \in 1..Len(r) : r[i] = s[i + 1]
      /\ Len(s) \in Nat \ {0}
  OBVIOUS
<1>2. Head(s) = s[1] /\ DOMAIN s = 1..Len(s) /\ DOMAIN r = 1..(Len(s) - 1)
  BY <1>1
<1>3. Head(s) \in S /\ Head(s) \in ToSet(s)
  BY <1>1, <1>2 DEF ToSet
<1>4. ASSUME IsInjective(s)
      PROVE  ToSet(r) = ToSet(s) \ {Head(s)} /\ IsInjective(r)
  <2>1. ASSUME NEW y \in ToSet(r) PROVE y \in ToSet(s) \ {Head(s)}
    <3>1. PICK i \in DOMAIN r : y = r[i]
      BY DEF ToSet
    <3>2. y = s[i + 1] /\ i + 1 \in DOMAIN s /\ i + 1 # 1 /\ 1 \in DOMAIN s
      BY <1>1, <1>2, <3>1
    <3> QED BY <1>2, <1>4, <3>2 DEF ToSet, IsInjective
  <2>2. ASSUME NEW y \in ToSet(s), y # Head(s) PROVE y \in ToSet(r)
    <3>1. PICK i \in DOMAIN s : y = s[i]
      BY DEF ToSet
    <3>2. i - 1 \in DOMAIN r /\ r[i - 1] = y
      BY <1>1, <1>2, <2>2, <3>1
    <3> QED BY <3>2 DEF ToSet
  <2>3. IsInjective(r)
    BY <1>1, <1>2, <1>4 DEF IsInjective
  <2> QED BY <2>1, <2>2, <2>3
<1> HIDE DEF r
<1> QED BY <1>1, <1>3, <1>4 DEF r

-----------------------------------------------------------------------------
(* Types, and what a thread's position says about what it holds.           *)

\* They hold before start(): the threads are idle and hold nothing.
LEMMA InitTyped == Init => TypeOK /\ PCInv
<1> SUFFICES ASSUME Init PROVE TypeOK /\ PCInv
  OBVIOUS
<1> USE DispatcherAssumption DEF Init, Threads
<1>1. /\ pc[Disp] = "off"
      /\ \A p \in Callers : pc[p] = "idle"
      /\ \A p \in Threads : hand[p] = NoTask /\ arg[p] = NoTask
  OBVIOUS
<1>2. TypeOK
  <2>1. pc \in [Threads -> DispPCs \cup CallerPCs]
    BY DEF DispPCs, CallerPCs
  <2>2. runs \in [Tasks -> Nat] /\ taskList \in Seq(Tasks)
    OBVIOUS
  <2> QED BY <1>1, <2>1, <2>2 DEF TypeOK, States, DispPCs, CallerPCs
<1>3. PCInv
  BY <1>1 DEF PCInv
<1> QED BY <1>2, <1>3

\* Every step of every thread preserves them.
LEMMA NextTyped == TypeOK /\ PCInv /\ [Next]_vars => TypeOK' /\ PCInv'
<1> SUFFICES ASSUME TypeOK, PCInv, [Next]_vars
             PROVE  TypeOK' /\ PCInv'
  OBVIOUS
<1> USE DispatcherAssumption DEF Threads, States, DispPCs, CallerPCs
<1>1. CASE Start
  BY <1>1 DEF Start, TypeOK, PCInv
<1>2. CASE Stop
  BY <1>2 DEF Stop, TypeOK, PCInv
<1>3. CASE Shutdown
  BY <1>3 DEF Shutdown, TypeOK, PCInv
<1>4. CASE SpuriousWake
  BY <1>4 DEF SpuriousWake, TypeOK, PCInv
<1>5. ASSUME NEW p \in Threads, NEW front \in BOOLEAN, AddTask(p, front)
      PROVE  TypeOK' /\ PCInv'
  BY <1>5, AppendFacts, ConsFacts DEF AddTask, DoSignal, Accepts, Caller, TypeOK, PCInv
<1>6. ASSUME NEW p \in Threads, RejectTask(p) PROVE TypeOK' /\ PCInv'
  BY <1>6 DEF RejectTask, Accepts, Caller, TypeOK, PCInv
<1>7. ASSUME NEW p \in Threads, Notify(p) PROVE TypeOK' /\ PCInv'
  BY <1>7 DEF Notify, Caller, TypeOK, PCInv
<1>8. ASSUME NEW p \in Threads, NEW t \in Tasks, CreateTask(p, t)
      PROVE  TypeOK' /\ PCInv'
  BY <1>8 DEF CreateTask, TypeOK, PCInv
<1>9. CASE LoopTest
  BY <1>9 DEF LoopTest, TypeOK, PCInv
<1>10. CASE EnterWait
  BY <1>10 DEF EnterWait, TypeOK, PCInv
<1>11. CASE Take
  BY <1>11, TailFacts
       DEF Take, FrontTask, PopFront, HoldsLock, TypeOK, PCInv
<1>12. CASE TakeNothing
  BY <1>12 DEF TakeNothing, HoldsLock, TypeOK, PCInv
<1>13. CASE Execute
  BY <1>13 DEF Execute, TypeOK, PCInv
<1>14. CASE Expire
  BY <1>14 DEF Expire, MayExpire, TypeOK, PCInv
<1>15. ASSUME NEW p \in {Main, Disp}, EndTask(p) PROVE TypeOK' /\ PCInv'
  BY <1>15 DEF EndTask, TypeOK, PCInv
<1>16. CASE FlushTask
  BY <1>16, TailFacts
       DEF FlushTask, FrontTask, PopFront, TypeOK, PCInv
<1>17. CASE FlushDone
  BY <1>17 DEF FlushDone, TypeOK, PCInv
<1>18. CASE Join
  BY <1>18 DEF Join, TypeOK, PCInv
<1>19. CASE UNCHANGED vars
  BY <1>19 DEF vars, TypeOK, PCInv
<1> QED BY <1>1, <1>2, <1>3, <1>4, <1>5, <1>6, <1>7, <1>8, <1>9, <1>10,
           <1>11, <1>12, <1>13, <1>14, <1>15, <1>16, <1>17, <1>18, <1>19
     DEF Next, AddSteps, DispSteps, ShutdownSteps

-----------------------------------------------------------------------------
(* Ownership of the tasks, and how often each one is executed.             *)

Ownership == OnePlace /\ HistoryInv /\ RunsOnce

\* It holds before start(), when there is no task.
LEMMA InitOwnership == Init => Ownership
BY DispatcherAssumption
   DEF Init, Ownership, OnePlace, ListApart, HandsApart, NotShared,
      Accounted, Owned, HistoryInv, RunsOnce, Listed, ToSet,
       IsInjective

\* Every step preserves it, given the types.
LEMMA NextOwnership ==
    TypeOK /\ PCInv /\ Ownership /\ [Next]_vars => Ownership'
<1> SUFFICES ASSUME TypeOK, PCInv, Ownership, [Next]_vars
             PROVE  Ownership'
  OBVIOUS
<1> USE DispatcherAssumption DEF Threads
<1>a. /\ NoTask \notin Owned
      /\ Owned \subseteq Tasks
  BY DEF TypeOK, Ownership, Owned, HistoryInv
<1>1. CASE Start
  BY <1>1 DEF Start, TypeOK, PCInv, Ownership, OnePlace, ListApart,
     HandsApart, NotShared, Accounted, Owned, HistoryInv, RunsOnce, Listed
<1>2. CASE Stop
  BY <1>2 DEF Stop, TypeOK, PCInv, Ownership, OnePlace, ListApart,
     HandsApart, NotShared, Accounted, Owned, HistoryInv, RunsOnce, Listed
<1>3. CASE Shutdown
  BY <1>3 DEF Shutdown, TypeOK, PCInv, Ownership, OnePlace, ListApart,
     HandsApart, NotShared, Accounted, Owned, HistoryInv, RunsOnce, Listed
<1>4. CASE SpuriousWake
  BY <1>4 DEF SpuriousWake, TypeOK, PCInv, Ownership, OnePlace, ListApart,
     HandsApart, NotShared, Accounted, Owned, HistoryInv, RunsOnce, Listed
<1>5. ASSUME NEW p \in Threads, NEW front \in BOOLEAN, AddTask(p, front)
      PROVE  Ownership'
  <2>1. /\ arg[p] \in Tasks /\ arg[p] \notin Listed /\ runs[arg[p]] = 0
        /\ arg[p] # NoTask /\ arg[p] \in submitted
    BY <1>5
       DEF AddTask, DoSignal, Accepts, PCInv, Ownership, OnePlace, HandsApart, Owned, HistoryInv
  <2>2. Listed' = Listed \cup {arg[p]} /\ IsInjective(taskList')
    <3>1. IsInjective(taskList) /\ taskList \in Seq(Tasks)
      BY DEF TypeOK, Ownership, OnePlace, ListApart
    <3>2. CASE taskList' = Append(taskList, arg[p])
      BY <2>1, <3>1, <3>2, AppendFacts DEF Listed
    <3>3. CASE taskList' = <<arg[p]>> \o taskList
      BY <2>1, <3>1, <3>3, ConsFacts DEF Listed
    <3> QED BY <1>5, <3>2, <3>3 DEF AddTask, DoSignal, Accepts
  <2>3. /\ arg' = [arg EXCEPT ![p] = NoTask]
        /\ UNCHANGED <<hand, submitted, rejected, deleted, runs>>
        /\ \A q \in Threads : q # p => pc'[q] = pc[q]
        /\ pc[p] = "adding" /\ pc'[p] \in {"notify", "idle", "body"}
    BY <1>5 DEF AddTask, DoSignal, Accepts, Caller, TypeOK
  <2>4. OnePlace'
    <3>1. ListApart'
      BY <1>a, <2>1, <2>2, <2>3
         DEF TypeOK, Ownership, OnePlace, ListApart, HandsApart, Owned
    <3>2. HandsApart'
      BY <1>a, <2>1, <2>2, <2>3
         DEF TypeOK, Ownership, OnePlace, ListApart, HandsApart, NotShared,
                                     Owned
    <3>3. NotShared'
      BY <1>a, <2>1, <2>2, <2>3
         DEF TypeOK, Ownership, OnePlace, HandsApart, NotShared, Owned
    <3>4. Accounted'
      BY <1>a, <2>1, <2>2, <2>3
         DEF TypeOK, Ownership, OnePlace, Accounted, ListApart, HandsApart,
         Owned
    <3> QED BY <3>1, <3>2, <3>3, <3>4 DEF OnePlace
  <2>5. HistoryInv'
    BY <2>1, <2>2, <2>3 DEF TypeOK, Ownership, Owned, HistoryInv
  <2>6. RunsOnce'
    BY <2>3 DEF Ownership, RunsOnce
  <2> QED BY <2>4, <2>5, <2>6 DEF Ownership
<1>6. ASSUME NEW p \in Threads, RejectTask(p) PROVE Ownership'
  <2>1. /\ arg[p] \in Tasks /\ arg[p] \notin Listed /\ runs[arg[p]] = 0
        /\ arg[p] # NoTask /\ arg[p] \in submitted
    BY <1>6
       DEF RejectTask, Accepts, PCInv, Ownership, OnePlace, HandsApart, Owned,
       HistoryInv
  <2>2. /\ arg' = [arg EXCEPT ![p] = NoTask]
        /\ rejected' = rejected \cup {arg[p]}
        /\ UNCHANGED <<hand, submitted, deleted, runs, Listed, taskList>>
        /\ \A q \in Threads : q # p => pc'[q] = pc[q]
        /\ pc[p] = "adding" /\ pc'[p] \in {"idle", "body"}
    BY <1>6 DEF RejectTask, Accepts, Caller, TypeOK, Listed
  <2>3. OnePlace'
    <3>1. ListApart'
      BY <1>a, <2>1, <2>2
         DEF TypeOK, Ownership, OnePlace, ListApart, HandsApart, Owned
    <3>2. HandsApart'
      BY <1>a, <2>1, <2>2
         DEF TypeOK, Ownership, OnePlace, ListApart, HandsApart, NotShared,
                                     Owned
    <3>3. NotShared'
      BY <1>a, <2>1, <2>2
         DEF TypeOK, Ownership, OnePlace, HandsApart, NotShared, Owned
    <3>4. Accounted'
      BY <1>a, <2>1, <2>2
         DEF TypeOK, Ownership, OnePlace, Accounted, ListApart, HandsApart,
         Owned
    <3> QED BY <3>1, <3>2, <3>3, <3>4 DEF OnePlace
  <2>4. HistoryInv'
    <3>1. Owned' = Owned \cup {arg[p]} /\ Listed' = Listed
      BY <2>2 DEF Owned
    <3>2. \A t \in Tasks : t \in Listed' \cup rejected' => runs'[t] = 0
      BY <2>1, <2>2, <3>1 DEF Ownership, HistoryInv
    <3>3. \A q \in Threads : arg'[q] = arg[q] \/ arg'[q] = NoTask
      BY <2>2 DEF TypeOK
    <3>4. \A q \in Threads : pc'[q] = "exec" <=> pc[q] = "exec"
      BY <2>2
    <3>5. \A t \in Tasks, q \in Threads : arg'[q] = t => runs'[t] = 0
      BY <2>2, <3>3 DEF Ownership, HistoryInv
    <3> QED BY <2>1, <2>2, <3>1, <3>2, <3>3, <3>4, <3>5
            DEF TypeOK, Ownership, HistoryInv
  <2>5. RunsOnce'
    BY <2>2 DEF Ownership, RunsOnce
  <2> QED BY <2>3, <2>4, <2>5 DEF Ownership
<1>7. ASSUME NEW p \in Threads, Notify(p) PROVE Ownership'
  BY <1>7 DEF Notify, Caller, TypeOK, PCInv, Ownership, OnePlace, ListApart,
     HandsApart, NotShared, Accounted, Owned, HistoryInv, RunsOnce, Listed
<1>8. ASSUME NEW p \in Threads, NEW t \in Tasks, CreateTask(p, t)
      PROVE  Ownership'
  <2>1. /\ t \notin submitted /\ t # NoTask /\ t \notin Owned
        /\ \A q \in Threads : hand[q] # t /\ arg[q] # t
    BY <1>8 DEF CreateTask, Ownership, HistoryInv
  <2>2. /\ arg' = [arg EXCEPT ![p] = t] /\ arg[p] = NoTask
        /\ submitted' = submitted \cup {t}
        /\ UNCHANGED <<taskList, hand, rejected, deleted, runs>>
        /\ \A q \in Threads : q # p => pc'[q] = pc[q]
        /\ pc[p] # "exec" /\ pc'[p] = "adding"
    BY <1>8 DEF CreateTask, TypeOK, PCInv
  <2>3. UNCHANGED <<Listed, Owned>>
    BY <2>2 DEF Listed, Owned
  <2>4. OnePlace'
    <3>1. ListApart'
      BY <2>2, <2>3 DEF Ownership, OnePlace, ListApart
    <3>2. HandsApart'
      BY <2>1, <2>2, <2>3 DEF TypeOK, Ownership, OnePlace, HandsApart
    <3>3. NotShared'
      BY <2>1, <2>2 DEF TypeOK, Ownership, OnePlace, NotShared
    <3>4. Accounted'
      BY <2>1, <2>2, <2>3 DEF TypeOK, Ownership, OnePlace, Accounted
    <3> QED BY <3>1, <3>2, <3>3, <3>4 DEF OnePlace
  <2>5. HistoryInv'
    BY <2>1, <2>2, <2>3 DEF TypeOK, Ownership, HistoryInv
  <2>6. RunsOnce'
    BY <2>2 DEF Ownership, RunsOnce
  <2> QED BY <2>4, <2>5, <2>6 DEF Ownership
<1>9. CASE LoopTest
  BY <1>9 DEF LoopTest, TypeOK, PCInv, Ownership, OnePlace, ListApart,
     HandsApart, NotShared, Accounted, Owned, HistoryInv, RunsOnce, Listed
<1>10. CASE EnterWait
  BY <1>10 DEF EnterWait, TypeOK, PCInv, Ownership, OnePlace, ListApart,
     HandsApart, NotShared, Accounted, Owned, HistoryInv, RunsOnce, Listed
<1>11. CASE Take
  <2> DEFINE h == Head(taskList)
  <2>1. /\ h \in Tasks /\ h \in Listed /\ h # NoTask /\ h \in submitted
        /\ Listed' = Listed \ {h} /\ IsInjective(taskList')
    BY <1>11, TailFacts
       DEF Take, FrontTask, PopFront, TypeOK, Ownership, OnePlace, ListApart,
           Owned, HistoryInv, Listed
  <2>2. /\ hand[Disp] = NoTask /\ Disp \in Threads /\ runs[h] = 0
        /\ hand' = [hand EXCEPT ![Disp] = h]
        /\ runs' = runs
        /\ UNCHANGED <<arg, submitted, rejected, deleted>>
        /\ \A q \in Threads : q # Disp => pc'[q] = pc[q]
        /\ pc'[Disp] = "exec"
    BY <1>11, <2>1
       DEF Take, FrontTask, PopFront, HoldsLock, TypeOK, PCInv, Ownership, Owned, HistoryInv
  <2>3. OnePlace'
    <3>1. ListApart'
      BY <1>a, <2>1, <2>2
         DEF TypeOK, Ownership, OnePlace, ListApart, HandsApart, Owned
    <3>2. HandsApart'
      BY <1>a, <2>1, <2>2
         DEF TypeOK, Ownership, OnePlace, ListApart, HandsApart, NotShared,
                                     Owned
    <3>3. NotShared'
      BY <1>a, <2>1, <2>2
         DEF TypeOK, Ownership, OnePlace, HandsApart, NotShared, Owned
    <3>4. Accounted'
      BY <1>a, <2>1, <2>2
         DEF TypeOK, Ownership, OnePlace, Accounted, ListApart, HandsApart,
         Owned
    <3> QED BY <3>1, <3>2, <3>3, <3>4 DEF OnePlace
  <2>4. HistoryInv'
    BY <2>1, <2>2 DEF TypeOK, Ownership, OnePlace, ListApart, HandsApart,
                             NotShared, Owned, HistoryInv
  <2>5. RunsOnce'
    BY <2>1, <2>2
       DEF TypeOK, Ownership, OnePlace, ListApart, HandsApart, Owned, RunsOnce
  <2> QED BY <2>3, <2>4, <2>5 DEF Ownership
<1>12. CASE TakeNothing
  BY <1>12 DEF TakeNothing, HoldsLock, TypeOK, PCInv, Ownership, OnePlace,
     ListApart, HandsApart, NotShared, Accounted, Owned, HistoryInv,
     RunsOnce, Listed
<1>13. CASE Execute
  BY <1>13 DEF Execute, TypeOK, PCInv, Ownership, OnePlace, ListApart,
     HandsApart, NotShared, Accounted, Owned, HistoryInv, RunsOnce, Listed
<1>14. CASE Expire
  BY <1>14 DEF Expire, MayExpire, TypeOK, PCInv, Ownership, OnePlace, ListApart,
     HandsApart, NotShared, Accounted, Owned, HistoryInv, RunsOnce, Listed
<1>15. ASSUME NEW p \in {Main, Disp}, EndTask(p) PROVE Ownership'
  BY <1>15 DEF EndTask, TypeOK, PCInv, Ownership, OnePlace, ListApart,
     HandsApart, NotShared, Accounted, Owned, HistoryInv, RunsOnce, Listed
<1>16. CASE FlushTask
  <2> DEFINE h == Head(taskList)
  <2>1. /\ h \in Tasks /\ h \in Listed /\ h # NoTask /\ h \in submitted
        /\ Listed' = Listed \ {h} /\ IsInjective(taskList')
    BY <1>16, TailFacts
       DEF FlushTask, FrontTask, PopFront, TypeOK, Ownership, OnePlace, ListApart, Owned,
          HistoryInv, Listed
  <2>2. /\ hand[Main] = NoTask /\ Main \in Threads /\ runs[h] = 0
        /\ hand' = [hand EXCEPT ![Main] = h]
        /\ runs' = [runs EXCEPT ![h] = 1]
        /\ UNCHANGED <<arg, submitted, rejected, deleted>>
        /\ \A q \in Threads : q # Main => pc'[q] = pc[q]
        /\ pc'[Main] = "body"
    <3>1. hand[Main] = NoTask /\ Main \in Threads
      BY <1>16 DEF FlushTask, FrontTask, PopFront, PCInv
    <3>2. runs[h] = 0
      BY <2>1 DEF Ownership, Owned, HistoryInv
    <3>3. runs' = [runs EXCEPT ![h] = 1]
      BY <1>16, <2>1, <3>2 DEF FlushTask, FrontTask, PopFront, TypeOK
    <3> QED BY <1>16, <3>1, <3>2, <3>3 DEF FlushTask, FrontTask, PopFront, TypeOK
  <2>3. OnePlace'
    <3>1. ListApart'
      BY <1>a, <2>1, <2>2
         DEF TypeOK, Ownership, OnePlace, ListApart, HandsApart, Owned
    <3>2. HandsApart'
      BY <1>a, <2>1, <2>2
         DEF TypeOK, Ownership, OnePlace, ListApart, HandsApart, NotShared,
                                     Owned
    <3>3. NotShared'
      BY <1>a, <2>1, <2>2
         DEF TypeOK, Ownership, OnePlace, HandsApart, NotShared, Owned
    <3>4. Accounted'
      BY <1>a, <2>1, <2>2
         DEF TypeOK, Ownership, OnePlace, Accounted, ListApart, HandsApart,
         Owned
    <3> QED BY <3>1, <3>2, <3>3, <3>4 DEF OnePlace
  <2>4. HistoryInv'
    BY <2>1, <2>2 DEF TypeOK, Ownership, OnePlace, ListApart, HandsApart,
                             NotShared, Owned, HistoryInv
  <2>5. RunsOnce'
    BY <2>1, <2>2
       DEF TypeOK, Ownership, OnePlace, ListApart, HandsApart, Owned, RunsOnce
  <2> QED BY <2>3, <2>4, <2>5 DEF Ownership
<1>17. CASE FlushDone
  BY <1>17 DEF FlushDone, TypeOK, PCInv, Ownership, OnePlace, ListApart,
     HandsApart, NotShared, Accounted, Owned, HistoryInv, RunsOnce, Listed
<1>18. CASE Join
  BY <1>18 DEF Join, TypeOK, PCInv, Ownership, OnePlace, ListApart,
     HandsApart, NotShared, Accounted, Owned, HistoryInv, RunsOnce, Listed
<1>19. CASE UNCHANGED vars
  BY <1>19 DEF vars, TypeOK, PCInv, Ownership, OnePlace, ListApart,
     HandsApart, NotShared, Accounted, Owned, HistoryInv, RunsOnce, Listed
<1> QED BY <1>1, <1>2, <1>3, <1>4, <1>5, <1>6, <1>7, <1>8, <1>9, <1>10,
           <1>11, <1>12, <1>13, <1>14, <1>15, <1>16, <1>17, <1>18, <1>19
     DEF Next, AddSteps, DispSteps, ShutdownSteps

-----------------------------------------------------------------------------
(* The condition variable.                                                 *)

Wakeups == NoLostWakeup /\ NothingLeftBehind

\* Every step preserves it, given the types.
LEMMA NextWakeups == TypeOK /\ PCInv /\ Wakeups /\ [Next]_vars => Wakeups'
<1> SUFFICES ASSUME TypeOK, PCInv, Wakeups, [Next]_vars
             PROVE  Wakeups'
  OBVIOUS
<1> USE DispatcherAssumption DEF Threads, DispPCs, CallerPCs
<1>1. CASE Start
  BY <1>1 DEF Start, TypeOK, PCInv, Wakeups, NoLostWakeup, NothingLeftBehind
<1>2. CASE Stop
  BY <1>2 DEF Stop, TypeOK, PCInv, Wakeups, NoLostWakeup, NothingLeftBehind
<1>3. CASE Shutdown
  BY <1>3
     DEF Shutdown, TypeOK, PCInv, Wakeups, NoLostWakeup, NothingLeftBehind
<1>4. CASE SpuriousWake
  BY <1>4
     DEF SpuriousWake, TypeOK, PCInv, Wakeups, NoLostWakeup, NothingLeftBehind
<1>5. ASSUME NEW p \in Threads, NEW front \in BOOLEAN, AddTask(p, front)
      PROVE  Wakeups'
  BY <1>5, AppendFacts, ConsFacts
     DEF AddTask, DoSignal, Accepts, Caller, TypeOK, PCInv, Wakeups, NoLostWakeup,
     NothingLeftBehind
<1>6. ASSUME NEW p \in Threads, RejectTask(p) PROVE Wakeups'
  BY <1>6
     DEF RejectTask, Accepts, Caller, TypeOK, PCInv, Wakeups, NoLostWakeup,
     NothingLeftBehind
<1>7. ASSUME NEW p \in Threads, Notify(p) PROVE Wakeups'
  BY <1>7
     DEF Notify, Caller, TypeOK, PCInv, Wakeups, NoLostWakeup,
     NothingLeftBehind
<1>8. ASSUME NEW p \in Threads, NEW t \in Tasks, CreateTask(p, t)
      PROVE  Wakeups'
  BY <1>8
     DEF CreateTask, TypeOK, PCInv, Wakeups, NoLostWakeup, NothingLeftBehind
<1>9. CASE LoopTest
  BY <1>9
     DEF LoopTest, TypeOK, PCInv, Wakeups, NoLostWakeup, NothingLeftBehind
<1>10. CASE EnterWait
  BY <1>10
     DEF EnterWait, TypeOK, PCInv, Wakeups, NoLostWakeup, NothingLeftBehind
<1>11. CASE Take
  BY <1>11, TailFacts
     DEF Take, FrontTask, PopFront, HoldsLock, TypeOK, PCInv, Wakeups, NoLostWakeup,
     NothingLeftBehind
<1>12. CASE TakeNothing
  BY <1>12
     DEF TakeNothing, HoldsLock, TypeOK, PCInv, Wakeups, NoLostWakeup,
     NothingLeftBehind
<1>13. CASE Execute
  BY <1>13
     DEF Execute, TypeOK, PCInv, Wakeups, NoLostWakeup, NothingLeftBehind
<1>14. CASE Expire
  BY <1>14 DEF Expire, MayExpire, TypeOK, PCInv, Wakeups, NoLostWakeup, NothingLeftBehind
<1>15. ASSUME NEW p \in {Main, Disp}, EndTask(p) PROVE Wakeups'
  BY <1>15
     DEF EndTask, TypeOK, PCInv, Wakeups, NoLostWakeup, NothingLeftBehind
<1>16. CASE FlushTask
  BY <1>16, TailFacts
     DEF FlushTask, FrontTask, PopFront, TypeOK, PCInv, Wakeups, NoLostWakeup, NothingLeftBehind
<1>17. CASE FlushDone
  BY <1>17
     DEF FlushDone, TypeOK, PCInv, Wakeups, NoLostWakeup, NothingLeftBehind
<1>18. CASE Join
  BY <1>18 DEF Join, TypeOK, PCInv, Wakeups, NoLostWakeup, NothingLeftBehind
<1>19. CASE UNCHANGED vars
  BY <1>19 DEF vars, TypeOK, PCInv, Wakeups, NoLostWakeup, NothingLeftBehind
<1> QED BY <1>1, <1>2, <1>3, <1>4, <1>5, <1>6, <1>7, <1>8, <1>9, <1>10,
           <1>11, <1>12, <1>13, <1>14, <1>15, <1>16, <1>17, <1>18, <1>19
     DEF Next, AddSteps, DispSteps, ShutdownSteps
-----------------------------------------------------------------------------
(* The theorems.                                                           *)

\* The conjunction of the parts is an invariant of the dispatcher.
LEMMA Inductive == Spec => [](TypeOK /\ PCInv /\ Ownership /\ Wakeups)
<1>1. Init => TypeOK /\ PCInv /\ Ownership /\ Wakeups
  <2>1. Init => Wakeups
    BY DispatcherAssumption
       DEF Init, Wakeups, NoLostWakeup, NothingLeftBehind, Threads
  <2> QED BY <2>1, InitTyped, InitOwnership
<1>2. /\ TypeOK /\ PCInv /\ Ownership /\ Wakeups
      /\ [Next]_vars
      => (TypeOK /\ PCInv /\ Ownership /\ Wakeups)'
  BY NextTyped, NextOwnership, NextWakeups
<1> QED BY <1>1, <1>2, PTL DEF Spec

\* Dispatcher's fields and thread positions always have their types.
THEOREM TypeCorrect == Spec => []TypeOK
BY Inductive, PTL

\* However addTask, the dispatcher thread, its spurious wakeups and a shutdown
\* interleave, the thread never sleeps on a non-empty list unnoticed.
THEOREM WakeupsNotLost == Spec => []NoLostWakeup
<1>1. Wakeups => NoLostWakeup
  BY DEF Wakeups
<1> QED BY <1>1, Inductive, PTL

\* A Task pointer has one owner at every moment.
THEOREM SingleOwner == Spec => []OnePlace
<1>1. Ownership => OnePlace
  BY DEF Ownership
<1> QED BY <1>1, Inductive, PTL

\* No task is executed twice, and none that cannot expire is skipped.
THEOREM ExecutedOnce == Spec => []RunsOnce
<1>1. Ownership => RunsOnce
  BY DEF Ownership
<1> QED BY <1>1, Inductive, PTL

\* shutdown() leaves an empty list, and it stays empty.
THEOREM Drained == Spec => []NothingLeftBehind
<1>1. Wakeups => NothingLeftBehind
  BY DEF Wakeups
<1> QED BY <1>1, Inductive, PTL

-----------------------------------------------------------------------------
(* Refinement.                                                             *)

\* A thread that lays down, or takes up, a task changes Active by that task.
LEMMA ActiveFacts ==
    ASSUME TypeOK, PCInv, Ownership
    PROVE  /\ \A p \in Threads, t \in Tasks :
                 hand[p] = NoTask /\ hand' = [hand EXCEPT ![p] = t] =>
                 Active' = Active \cup {t}
           /\ \A p \in Threads :
                 hand[p] \in Tasks /\ hand' = [hand EXCEPT ![p] = NoTask] =>
                 Active' = Active \ {hand[p]}
           /\ hand' = hand => Active' = Active
<1>1. ASSUME NEW p \in Threads, NEW t \in Tasks,
             hand[p] = NoTask, hand' = [hand EXCEPT ![p] = t]
      PROVE  Active' = Active \cup {t}
  <2>1. \A q \in Threads : hand'[q] = IF q = p THEN t ELSE hand[q]
    BY <1>1 DEF TypeOK
  <2> QED BY <1>1, <2>1, DispatcherAssumption DEF Active
<1>2. ASSUME NEW p \in Threads,
             hand[p] \in Tasks, hand' = [hand EXCEPT ![p] = NoTask]
      PROVE  Active' = Active \ {hand[p]}
  <2>1. \A q \in Threads : hand'[q] = IF q = p THEN NoTask ELSE hand[q]
    BY <1>2 DEF TypeOK
  <2>2. \A q \in Threads : q # p => hand[q] # hand[p]
    BY <1>2, DispatcherAssumption DEF Ownership, OnePlace, NotShared
  <2> QED BY <1>2, <2>1, <2>2, DispatcherAssumption DEF Active
<1>3. hand' = hand => Active' = Active
  BY DEF Active
<1> QED BY <1>1, <1>2, <1>3

\* A task that is being handed to addTask is unknown to the task queue.
LEMMA ArgUnknown ==
    ASSUME TypeOK, PCInv, Ownership, NEW p \in Threads, pc[p] = "adding"
    PROVE  arg[p] \in Tasks /\ arg[p] \notin Queue!Known
<1>1. arg[p] \in Tasks /\ arg[p] # NoTask
  BY DispatcherAssumption DEF PCInv
<1>2. arg[p] \notin Owned /\ \A q \in Threads : hand[q] # arg[p]
  BY <1>1 DEF Ownership, OnePlace, HandsApart, NotShared
<1> QED BY <1>1, <1>2 DEF Queue!Known, Owned, Listed, ToSet, Active

\* Every step of the dispatcher is a step of the task queue, or none.
LEMMA StepsRefine ==
    TypeOK /\ PCInv /\ Ownership /\ [Next]_vars => [Queue!Next]_(Queue!vars)
<1> SUFFICES ASSUME TypeOK, PCInv, Ownership, [Next]_vars
             PROVE  [Queue!Next]_(Queue!vars)
  OBVIOUS
<1> USE DispatcherAssumption
<1> Main \in Threads /\ Disp \in Threads
  BY DEF Threads
<1>1. CASE Start
  BY <1>1, ActiveFacts DEF Start, PCInv, Queue!Next, Queue!Open, Queue!vars
<1>2. CASE Stop \/ Shutdown
  BY <1>2, ActiveFacts DEF Stop, Shutdown, Queue!Next, Queue!Close
<1>3. ASSUME NEW p \in Threads, NEW front \in BOOLEAN, AddTask(p, front)
      PROVE  Queue!Next
  <2>1. arg[p] \in Tasks /\ Queue!Accept(arg[p])
    BY <1>3, ActiveFacts, ArgUnknown DEF AddTask, DoSignal, Accepts, Queue!Accept
  <2> QED BY <2>1 DEF Queue!Next
<1>4. ASSUME NEW p \in Threads, RejectTask(p) PROVE Queue!Next
  <2>1. arg[p] \in Tasks /\ Queue!Refuse(arg[p])
    BY <1>4, ActiveFacts, ArgUnknown DEF RejectTask, Accepts, Queue!Refuse
  <2> QED BY <2>1 DEF Queue!Next
<1>5. CASE Take
  <2>1. Active = {}
    <3>1. hand[Disp] = NoTask /\ hand[Main] = NoTask
      BY <1>5 DEF Take, FrontTask, PopFront, HoldsLock, PCInv
    <3> QED BY <3>1 DEF PCInv, Active
  <2>2. Active' = Active \cup {Head(taskList)}
    BY <1>5, <2>1, ActiveFacts, TailFacts
       DEF Take, FrontTask, PopFront, HoldsLock, TypeOK, PCInv
  <2>3. Queue!Take
    BY <1>5, <2>1, <2>2 DEF Take, FrontTask, PopFront, Queue!Take
  <2> QED BY <2>3 DEF Queue!Next
<1>6. CASE FlushTask
  <2>1. Active' = Active \cup {Head(taskList)}
    BY <1>6, ActiveFacts, TailFacts
       DEF FlushTask, FrontTask, PopFront, TypeOK, PCInv
  <2>2. threadState = "TERMINATED"
    BY <1>6 DEF FlushTask, FrontTask, PopFront, PCInv
  <2>3. Queue!Take
    BY <1>6, <2>1, <2>2 DEF FlushTask, FrontTask, PopFront, Queue!Take
  <2> QED BY <2>3 DEF Queue!Next
<1>7. CASE Expire
  <2>1. hand[Disp] \in Tasks
    BY <1>7 DEF Expire, MayExpire, PCInv
  <2>2. Active' = Active \ {hand[Disp]} /\ hand[Disp] \in Active
    BY <1>7, <2>1, ActiveFacts DEF Expire, MayExpire, Active
  <2>3. Queue!Finish(hand[Disp])
    BY <1>7, <2>2 DEF Expire, MayExpire, Queue!Finish
  <2> QED BY <2>1, <2>3 DEF Queue!Next
<1>8. ASSUME NEW p \in {Main, Disp}, EndTask(p) PROVE Queue!Next
  <2>1. hand[p] \in Tasks
    BY <1>8 DEF EndTask, PCInv
  <2>2. Active' = Active \ {hand[p]} /\ hand[p] \in Active
    BY <1>8, <2>1, ActiveFacts DEF EndTask, Active
  <2>3. Queue!Finish(hand[p])
    BY <1>8, <2>2 DEF EndTask, Queue!Finish
  <2> QED BY <2>1, <2>3 DEF Queue!Next
<1>9. ASSUME \/ SpuriousWake \/ LoopTest \/ EnterWait \/ TakeNothing
             \/ Execute \/ FlushDone \/ Join \/ UNCHANGED vars
             \/ \E p \in Threads :
                   Notify(p) \/ \E t \in Tasks : CreateTask(p, t)
      PROVE  UNCHANGED Queue!vars
  <2>1. UNCHANGED <<threadState, taskList, hand, deleted, rejected>>
    BY <1>9
       DEF SpuriousWake, LoopTest, EnterWait, TakeNothing, Execute, FlushDone,
             Join, Notify, CreateTask, vars
  <2> QED BY <2>1, ActiveFacts DEF Queue!vars
<1> QED BY <1>1, <1>2, <1>3, <1>4, <1>5, <1>6, <1>7, <1>8, <1>9
     DEF Next, AddSteps, DispSteps, ShutdownSteps

\* The dispatcher implements the task queue: with respect to the tasks alone
\* its threads, mutex and condition variable cannot be told apart from a deque
\* that is served one task at a time until it is terminated.
THEOREM Refinement == Spec => ImplementsTaskQueue
<1>1. Init => Queue!Init
  BY DEF Init, Queue!Init, Active
<1> QED BY <1>1, StepsRefine, Inductive, PTL
        DEF Spec, ImplementsTaskQueue, Queue!Spec
=============================================================================
