--------------------------- MODULE SchedulerProofs ---------------------------
(* Proofs about Scheduler, for any events, delays and calling threads.      *)
EXTENDS Scheduler, FiniteSetTheorems, TLAPS

-----------------------------------------------------------------------------
(* The strengthening that makes TimeoutHasEvent, NoOversleep and NotEarly  *)
(* inductive.                                                              *)

\* What a thread's position says about the event it holds.
PCInv ==
    /\ \A p \in Callers :
          IF cpc[p] = "adding" THEN arg[p] \in made ELSE arg[p] = NoEvent
    /\ IF tpc = "forward" THEN hand \in made ELSE hand = NoEvent
    /\ eventList \cup forwarded \subseteq made

\* Only the thread takes events out while the scheduler is not terminated, so
\* the event it waits for, or an earlier one, is still there when it wakes.
WaitInv ==
    /\ tpc \in {"timed", "timeout"} /\ threadState # "TERMINATED" =>
          \E e \in eventList : due[e] <= deadline
    /\ tpc = "timeout" => deadline <= now
    /\ threadState = "TERMINATED" =>
          /\ eventList = {}
          /\ tpc = "off" \/ cpc[Main] \in {"join", "joined"}

-----------------------------------------------------------------------------
(* Types, and what a thread's position says about what it holds.           *)

\* They hold before start(): the threads are idle and hold nothing.
LEMMA InitTyped == Init => TypeOK /\ PCInv
BY SchedulerAssumption
   DEF Init, TypeOK, PCInv, States, ThreadPCs, CallerPCs

\* Every step of every thread preserves them.
LEMMA NextTyped == TypeOK /\ PCInv /\ [Next]_vars => TypeOK' /\ PCInv'
<1> SUFFICES ASSUME TypeOK, PCInv, [Next]_vars
             PROVE  TypeOK' /\ PCInv'
  OBVIOUS
<1> USE SchedulerAssumption DEF States, ThreadPCs, CallerPCs
<1>1. CASE Tick
  BY <1>1 DEF Tick, thread, callers, queue, history, TypeOK, PCInv
<1>2. CASE Start
  BY <1>2 DEF Start, thread, callers, queue, history, TypeOK, PCInv
<1>3. ASSUME NEW p \in Callers, NEW e \in Events, NEW d \in Delays,
             CreateEvent(p, e, d)
      PROVE  TypeOK' /\ PCInv'
  BY <1>3 DEF CreateEvent, thread, callers, queue, history, TypeOK, PCInv
<1>4. ASSUME NEW p \in Callers, NEW signal \in BOOLEAN, AddEvent(p, signal)
      PROVE  TypeOK' /\ PCInv'
  BY <1>4
     DEF AddEvent, DoSignal, NextEventId, Tops, thread, callers, queue, history,
     TypeOK, PCInv
<1>5. ASSUME NEW p \in Callers, RejectEvent(p)
      PROVE  TypeOK' /\ PCInv'
  BY <1>5 DEF RejectEvent, thread, callers, queue, history, TypeOK, PCInv
<1>6. ASSUME NEW p \in Callers, Notify(p)
      PROVE  TypeOK' /\ PCInv'
  BY <1>6 DEF Notify, thread, callers, queue, history, TypeOK, PCInv
<1>7. ASSUME NEW id \in 1..MaxEventId, StopEvent(id)
      PROVE  TypeOK' /\ PCInv'
  BY <1>7 DEF StopEvent, thread, callers, queue, history, TypeOK, PCInv
<1>8. CASE LoopTest
  BY <1>8 DEF LoopTest, thread, callers, queue, history, TypeOK, PCInv
<1>9. CASE Wait
  BY <1>9 DEF Wait, thread, callers, queue, history, TypeOK, PCInv
<1>10. CASE TimedWait
  BY <1>10 DEF TimedWait, Tops, thread, callers, queue, history, TypeOK, PCInv
<1>11. CASE SpuriousWake
  BY <1>11 DEF SpuriousWake, thread, callers, queue, history, TypeOK, PCInv
<1>12. CASE Timeout
  BY <1>12 DEF Timeout, thread, callers, queue, history, TypeOK, PCInv
<1>13. CASE GoRound
  BY <1>13 DEF GoRound, thread, callers, queue, history, TypeOK, PCInv
<1>14. ASSUME NEW e \in Events, Pop(e)
      PROVE  TypeOK' /\ PCInv'
  BY <1>14 DEF Pop, NotStopped, Tops, thread, callers, queue, history, TypeOK, PCInv
<1>15. CASE Forward
  BY <1>15 DEF Forward, thread, callers, queue, history, TypeOK, PCInv
<1>16. CASE Stop
  BY <1>16 DEF Stop, thread, callers, queue, history, TypeOK, PCInv
<1>17. CASE Shutdown
  BY <1>17 DEF Shutdown, thread, callers, queue, history, TypeOK, PCInv
<1>18. CASE Join
  BY <1>18 DEF Join, thread, callers, queue, history, TypeOK, PCInv
<1>19. CASE UNCHANGED vars
  BY <1>19 DEF vars, thread, callers, queue, history, TypeOK, PCInv
<1> QED BY <1>1, <1>2, <1>3, <1>4, <1>5, <1>6, <1>7, <1>8, <1>9, <1>10,
           <1>11, <1>12, <1>13, <1>14, <1>15, <1>16, <1>17, <1>18, <1>19
     DEF Next, ThreadSteps, CallerSteps

-----------------------------------------------------------------------------
(* The event a timed wait waits for is still there when it ends.           *)

\* Every step preserves it, given the types.
LEMMA NextWait == TypeOK /\ PCInv /\ WaitInv /\ [Next]_vars => WaitInv'
<1> SUFFICES ASSUME TypeOK, PCInv, WaitInv, [Next]_vars
             PROVE  WaitInv'
  OBVIOUS
<1> USE SchedulerAssumption DEF States, ThreadPCs, CallerPCs
<1>1. CASE Tick
  BY <1>1 DEF Tick, thread, callers, queue, history, TypeOK, PCInv, WaitInv
<1>2. CASE Start
  BY <1>2 DEF Start, thread, callers, queue, history, TypeOK, PCInv, WaitInv
<1>3. ASSUME NEW p \in Callers, NEW e \in Events, NEW d \in Delays,
             CreateEvent(p, e, d)
      PROVE  WaitInv'
  BY <1>3
     DEF CreateEvent, thread, callers, queue, history, TypeOK, PCInv, WaitInv
<1>4. ASSUME NEW p \in Callers, NEW signal \in BOOLEAN, AddEvent(p, signal)
      PROVE  WaitInv'
  BY <1>4
     DEF AddEvent, DoSignal, NextEventId, Tops, thread, callers, queue, history,
     TypeOK, PCInv, WaitInv
<1>5. ASSUME NEW p \in Callers, RejectEvent(p)
      PROVE  WaitInv'
  BY <1>5
     DEF RejectEvent, thread, callers, queue, history, TypeOK, PCInv, WaitInv
<1>6. ASSUME NEW p \in Callers, Notify(p)
      PROVE  WaitInv'
  BY <1>6 DEF Notify, thread, callers, queue, history, TypeOK, PCInv, WaitInv
<1>7. ASSUME NEW id \in 1..MaxEventId, StopEvent(id)
      PROVE  WaitInv'
  BY <1>7
     DEF StopEvent, thread, callers, queue, history, TypeOK, PCInv, WaitInv
<1>8. CASE LoopTest
  BY <1>8
     DEF LoopTest, thread, callers, queue, history, TypeOK, PCInv, WaitInv
<1>9. CASE Wait
  BY <1>9 DEF Wait, thread, callers, queue, history, TypeOK, PCInv, WaitInv
<1>10. CASE TimedWait
  BY <1>10
     DEF TimedWait, Tops, thread, callers, queue, history, TypeOK, PCInv,
     WaitInv
<1>11. CASE SpuriousWake
  BY <1>11
     DEF SpuriousWake, thread, callers, queue, history, TypeOK, PCInv, WaitInv
<1>12. CASE Timeout
  BY <1>12
     DEF Timeout, thread, callers, queue, history, TypeOK, PCInv, WaitInv
<1>13. CASE GoRound
  BY <1>13
     DEF GoRound, thread, callers, queue, history, TypeOK, PCInv, WaitInv
<1>14. ASSUME NEW e \in Events, Pop(e)
      PROVE  WaitInv'
  BY <1>14
     DEF Pop, NotStopped, Tops, thread, callers, queue, history, TypeOK, PCInv, WaitInv
<1>15. CASE Forward
  BY <1>15
     DEF Forward, thread, callers, queue, history, TypeOK, PCInv, WaitInv
<1>16. CASE Stop
  BY <1>16 DEF Stop, thread, callers, queue, history, TypeOK, PCInv, WaitInv
<1>17. CASE Shutdown
  BY <1>17
     DEF Shutdown, thread, callers, queue, history, TypeOK, PCInv, WaitInv
<1>18. CASE Join
  BY <1>18 DEF Join, thread, callers, queue, history, TypeOK, PCInv, WaitInv
<1>19. CASE UNCHANGED vars
  BY <1>19 DEF vars, thread, callers, queue, history, TypeOK, PCInv, WaitInv
<1> QED BY <1>1, <1>2, <1>3, <1>4, <1>5, <1>6, <1>7, <1>8, <1>9, <1>10,
           <1>11, <1>12, <1>13, <1>14, <1>15, <1>16, <1>17, <1>18, <1>19
     DEF Next, ThreadSteps, CallerSteps

-----------------------------------------------------------------------------
(* Notifications.                                                          *)

\* Every step preserves NoOversleep, given the types.
LEMMA NextOversleep ==
    TypeOK /\ PCInv /\ WaitInv /\ NoOversleep /\ [Next]_vars => NoOversleep'
<1> SUFFICES ASSUME TypeOK, PCInv, WaitInv, NoOversleep, [Next]_vars
             PROVE  NoOversleep'
  OBVIOUS
<1> USE SchedulerAssumption
<1>1. CASE Tick
  BY <1>1
     DEF Tick, thread, callers, queue, history, TypeOK, PCInv, NoOversleep
<1>2. CASE Start
  BY <1>2
     DEF Start, thread, callers, queue, history, TypeOK, PCInv, NoOversleep
<1>3. ASSUME NEW p \in Callers, NEW e \in Events, NEW d \in Delays,
             CreateEvent(p, e, d)
      PROVE  NoOversleep'
  BY <1>3
     DEF CreateEvent, thread, callers, queue, history, TypeOK, PCInv,
     NoOversleep
<1>4. ASSUME NEW p \in Callers, NEW signal \in BOOLEAN, AddEvent(p, signal)
      PROVE  NoOversleep'
  BY <1>4
     DEF AddEvent, DoSignal, NextEventId, Tops, thread, callers, queue, history,
     TypeOK, PCInv, NoOversleep
<1>5. ASSUME NEW p \in Callers, RejectEvent(p)
      PROVE  NoOversleep'
  BY <1>5
     DEF RejectEvent, thread, callers, queue, history, TypeOK, PCInv,
     NoOversleep
<1>6. ASSUME NEW p \in Callers, Notify(p)
      PROVE  NoOversleep'
  BY <1>6
     DEF Notify, thread, callers, queue, history, TypeOK, PCInv, NoOversleep
<1>7. ASSUME NEW id \in 1..MaxEventId, StopEvent(id)
      PROVE  NoOversleep'
  BY <1>7
     DEF StopEvent, thread, callers, queue, history, TypeOK, PCInv,
     NoOversleep
<1>8. CASE LoopTest
  BY <1>8
     DEF LoopTest, thread, callers, queue, history, TypeOK, PCInv, NoOversleep
<1>9. CASE Wait
  BY <1>9
     DEF Wait, thread, callers, queue, history, TypeOK, PCInv, NoOversleep
<1>10. CASE TimedWait
  BY <1>10
     DEF TimedWait, Tops, thread, callers, queue, history, TypeOK, PCInv,
     NoOversleep
<1>11. CASE SpuriousWake
  BY <1>11
     DEF SpuriousWake, thread, callers, queue, history, TypeOK, PCInv,
     NoOversleep
<1>12. CASE Timeout
  BY <1>12
     DEF Timeout, thread, callers, queue, history, TypeOK, PCInv, NoOversleep
<1>13. CASE GoRound
  BY <1>13
     DEF GoRound, thread, callers, queue, history, TypeOK, PCInv, NoOversleep
<1>14. ASSUME NEW e \in Events, Pop(e)
      PROVE  NoOversleep'
  BY <1>14
     DEF Pop, NotStopped, Tops, thread, callers, queue, history, TypeOK, PCInv,
     NoOversleep
<1>15. CASE Forward
  BY <1>15
     DEF Forward, thread, callers, queue, history, TypeOK, PCInv, NoOversleep
<1>16. CASE Stop
  BY <1>16
     DEF Stop, thread, callers, queue, history, TypeOK, PCInv, NoOversleep
<1>17. CASE Shutdown
  BY <1>17
     DEF Shutdown, thread, callers, queue, history, TypeOK, PCInv, NoOversleep
<1>18. CASE Join
  BY <1>18
     DEF Join, thread, callers, queue, history, TypeOK, PCInv, NoOversleep
<1>19. CASE UNCHANGED vars
  BY <1>19
     DEF vars, thread, callers, queue, history, TypeOK, PCInv, NoOversleep
<1> QED BY <1>1, <1>2, <1>3, <1>4, <1>5, <1>6, <1>7, <1>8, <1>9, <1>10,
           <1>11, <1>12, <1>13, <1>14, <1>15, <1>16, <1>17, <1>18, <1>19
     DEF Next, ThreadSteps, CallerSteps

-----------------------------------------------------------------------------
(* Firing times.                                                           *)

\* What the wait established is what schedulerThread relies on after a timeout.
LEMMA TimeoutFacts == TypeOK /\ WaitInv => TimeoutHasEvent
BY DEF TypeOK, WaitInv, TimeoutHasEvent, Tops

\* Every step preserves NotEarly, given the types.
LEMMA NextNotEarly ==
    TypeOK /\ PCInv /\ WaitInv /\ NotEarly /\ [Next]_vars => NotEarly'
<1> SUFFICES ASSUME TypeOK, PCInv, WaitInv, NotEarly, [Next]_vars
             PROVE  NotEarly'
  OBVIOUS
<1> USE SchedulerAssumption, TimeoutFacts
<1>1. CASE Tick
  BY <1>1 DEF Tick, thread, callers, queue, history, TypeOK, PCInv, NotEarly
<1>2. CASE Start
  BY <1>2 DEF Start, thread, callers, queue, history, TypeOK, PCInv, NotEarly
<1>3. ASSUME NEW p \in Callers, NEW e \in Events, NEW d \in Delays,
             CreateEvent(p, e, d)
      PROVE  NotEarly'
  BY <1>3
     DEF CreateEvent, thread, callers, queue, history, TypeOK, PCInv, NotEarly
<1>4. ASSUME NEW p \in Callers, NEW signal \in BOOLEAN, AddEvent(p, signal)
      PROVE  NotEarly'
  BY <1>4
     DEF AddEvent, DoSignal, NextEventId, Tops, thread, callers, queue, history,
     TypeOK, PCInv, NotEarly
<1>5. ASSUME NEW p \in Callers, RejectEvent(p)
      PROVE  NotEarly'
  BY <1>5
     DEF RejectEvent, thread, callers, queue, history, TypeOK, PCInv, NotEarly
<1>6. ASSUME NEW p \in Callers, Notify(p)
      PROVE  NotEarly'
  BY <1>6 DEF Notify, thread, callers, queue, history, TypeOK, PCInv, NotEarly
<1>7. ASSUME NEW id \in 1..MaxEventId, StopEvent(id)
      PROVE  NotEarly'
  BY <1>7
     DEF StopEvent, thread, callers, queue, history, TypeOK, PCInv, NotEarly
<1>8. CASE LoopTest
  BY <1>8
     DEF LoopTest, thread, callers, queue, history, TypeOK, PCInv, NotEarly
<1>9. CASE Wait
  BY <1>9 DEF Wait, thread, callers, queue, history, TypeOK, PCInv, NotEarly
<1>10. CASE TimedWait
  BY <1>10
     DEF TimedWait, Tops, thread, callers, queue, history, TypeOK, PCInv,
     NotEarly
<1>11. CASE SpuriousWake
  BY <1>11
     DEF SpuriousWake, thread, callers, queue, history, TypeOK, PCInv,
     NotEarly
<1>12. CASE Timeout
  BY <1>12
     DEF Timeout, thread, callers, queue, history, TypeOK, PCInv, NotEarly
<1>13. CASE GoRound
  BY <1>13
     DEF GoRound, thread, callers, queue, history, TypeOK, PCInv, NotEarly
<1>14. ASSUME NEW e \in Events, Pop(e)
      PROVE  NotEarly'
  BY <1>14 DEF Pop, NotStopped, callers, TypeOK, PCInv, NotEarly, TimeoutHasEvent
<1>15. CASE Forward
  BY <1>15
     DEF Forward, thread, callers, queue, history, TypeOK, PCInv, NotEarly
<1>16. CASE Stop
  BY <1>16 DEF Stop, thread, callers, queue, history, TypeOK, PCInv, NotEarly
<1>17. CASE Shutdown
  BY <1>17
     DEF Shutdown, thread, callers, queue, history, TypeOK, PCInv, NotEarly
<1>18. CASE Join
  BY <1>18 DEF Join, thread, callers, queue, history, TypeOK, PCInv, NotEarly
<1>19. CASE UNCHANGED vars
  BY <1>19 DEF vars, thread, callers, queue, history, TypeOK, PCInv, NotEarly
<1> QED BY <1>1, <1>2, <1>3, <1>4, <1>5, <1>6, <1>7, <1>8, <1>9, <1>10,
           <1>11, <1>12, <1>13, <1>14, <1>15, <1>16, <1>17, <1>18, <1>19
     DEF Next, ThreadSteps, CallerSteps

-----------------------------------------------------------------------------
(* Event ids.                                                              *)

\* What the uniqueness of the ids rests on: m_lastEventId wraps at most once
\* while the events of a run exist.  It may wrap at any of them, as its first
\* value is any.
FewEvents ==
    /\ IsFiniteSet(Events)
    /\ Cardinality(Events) <= MaxEventId

\* The events that addEvent gave an id.
Added == {e \in Events : evId[e] # 0}

\* How many ids have been given after i, when last was the last one.
Age(i, last) == IF i <= last THEN last - i ELSE last - i + MaxEventId

\* An event has no id before it is added; the ids given are the last ones.
IdInv ==
    /\ \A e \in Events : e \notin made => evId[e] = 0
    /\ \A p \in Callers : cpc[p] = "adding" => evId[arg[p]] = 0
    /\ \A p, q \in Callers :
          cpc[p] = "adding" /\ cpc[q] = "adding" /\ arg[p] = arg[q] => p = q
    /\ \A e \in eventList \cup forwarded \cup discarded \cup stopped :
          evId[e] # 0
    /\ hand # NoEvent => evId[hand] # 0
    /\ \A e \in Added : Age(evId[e], lastEventId) < Cardinality(Added)
    /\ \A e, f \in Added : evId[e] = evId[f] => e = f

\* m_eventIds has the ids of the queued events that were not stopped.
StopInv ==
    /\ \A e \in eventList : e \in stopped <=> evId[e] \notin eventIds
    /\ eventList \cap (forwarded \cup {hand}) = {}
    /\ StopIsExact

\* addEvent's next id makes every id one older, and is none of the ids in use
\* while there are fewer of them than MaxEventId.
LEMMA AgeFacts ==
    ASSUME NEW last \in 0..MaxEventId, NEW i \in 1..MaxEventId, NEW n \in Nat,
           NEW next, next = (IF last >= MaxEventId THEN 0 ELSE last) + 1,
           Age(i, last) < n, n < MaxEventId
    PROVE  /\ i # next
           /\ Age(i, next) < n + 1
BY SchedulerAssumption DEF Age

\* addEvent gives its event an id, which no other event has.
LEMMA AddEventIds ==
    ASSUME TypeOK, PCInv, IdInv, FewEvents,
           NEW p \in Callers, NEW signal \in BOOLEAN, AddEvent(p, signal)
    PROVE  /\ arg[p] \in Events \ Added
           /\ evId' = [evId EXCEPT ![arg[p]] = NextEventId]
           /\ NextEventId \in 1..MaxEventId
           /\ Age(NextEventId, NextEventId) = 0
           /\ \A f \in Added : evId[f] # NextEventId
           /\ \A f \in Added :
                 Age(evId[f], NextEventId) < Cardinality(Added) + 1
           /\ Added' = Added \cup {arg[p]}
           /\ Cardinality(Added') = Cardinality(Added) + 1
           /\ Cardinality(Added) \in Nat
<1> USE SchedulerAssumption
<1>1. arg[p] \in Events \ Added
  BY DEF AddEvent, PCInv, IdInv, Added, TypeOK
<1>2. /\ evId' = [evId EXCEPT ![arg[p]] = NextEventId]
      /\ NextEventId \in 1..MaxEventId
      /\ evId \in [Events -> 0..MaxEventId]
      /\ lastEventId \in 0..MaxEventId
  BY DEF AddEvent, NextEventId, TypeOK
<1>3. Added' = Added \cup {arg[p]}
  BY <1>1, <1>2 DEF Added
<1>4. IsFiniteSet(Added) /\ IsFiniteSet(Added')
  BY <1>1, <1>3, FS_Subset, FS_AddElement DEF FewEvents, Added
<1>5. /\ Cardinality(Added) \in Nat
      /\ Cardinality(Added') = Cardinality(Added) + 1
      /\ Cardinality(Added') <= Cardinality(Events)
  <2>1. Added' \subseteq Events
    BY <1>1, <1>3 DEF Added
  <2>2. Cardinality(Added \cup {arg[p]}) = Cardinality(Added) + 1
    BY <1>1, <1>4, FS_AddElement
  <2> QED BY <1>3, <1>4, <2>1, <2>2, FS_CardinalityType, FS_Subset DEF FewEvents
<1>6. Cardinality(Events) \in Nat
  BY FS_CardinalityType DEF FewEvents
<1>7. Cardinality(Added) < MaxEventId
  BY <1>5, <1>6 DEF FewEvents
<1>8. ASSUME NEW f \in Added
      PROVE  /\ evId[f] # NextEventId
             /\ Age(evId[f], NextEventId) < Cardinality(Added) + 1
  <2>1. evId[f] \in 1..MaxEventId
    BY <1>2 DEF Added
  <2>2. Age(evId[f], lastEventId) < Cardinality(Added)
    BY DEF IdInv
  <2>3. NextEventId = (IF lastEventId >= MaxEventId THEN 0 ELSE lastEventId) + 1
    BY DEF NextEventId
  <2> QED BY <1>2, <1>5, <1>7, <2>1, <2>2, <2>3, AgeFacts
<1>9. Age(NextEventId, NextEventId) = 0
  BY <1>2 DEF Age
<1> QED BY <1>1, <1>2, <1>3, <1>5, <1>8, <1>9

\* Every step preserves it, when there are no more events than ids.
LEMMA NextIds ==
    FewEvents /\ TypeOK /\ PCInv /\ IdInv /\ [Next]_vars => IdInv'
<1> SUFFICES ASSUME FewEvents, TypeOK, PCInv, IdInv, [Next]_vars
             PROVE  IdInv'
  OBVIOUS
<1> USE SchedulerAssumption
<1>1. CASE Tick
  BY <1>1 DEF Tick, thread, callers, queue, history, TypeOK, PCInv,
     IdInv, Added
<1>2. CASE Start
  BY <1>2 DEF Start, thread, callers, queue, history, TypeOK, PCInv,
     IdInv, Added
<1>3. ASSUME NEW p \in Callers, NEW e \in Events, NEW d \in Delays,
             CreateEvent(p, e, d)
      PROVE  IdInv'
  BY <1>3 DEF CreateEvent, thread, callers, queue, history, TypeOK, PCInv,
     IdInv, Added
<1>4. ASSUME NEW p \in Callers, NEW signal \in BOOLEAN, AddEvent(p, signal)
      PROVE  IdInv'
  <2> DEFINE e == arg[p]
  <2>1. /\ e \in Events \ Added
        /\ evId' = [evId EXCEPT ![e] = NextEventId]
        /\ NextEventId \in 1..MaxEventId
        /\ Age(NextEventId, NextEventId) = 0
        /\ \A f \in Added : evId[f] # NextEventId
        /\ \A f \in Added : Age(evId[f], NextEventId) < Cardinality(Added) + 1
        /\ Added' = Added \cup {e}
        /\ Cardinality(Added') = Cardinality(Added) + 1
        /\ Cardinality(Added) \in Nat
    BY <1>4, AddEventIds
  <2>2. /\ lastEventId' = NextEventId
        /\ eventList' = eventList \cup {e}
        /\ cpc[p] = "adding"
        /\ \E pos \in {"notify", "idle"} : cpc' = [cpc EXCEPT ![p] = pos]
        /\ arg' = [arg EXCEPT ![p] = NoEvent]
        /\ UNCHANGED <<hand, made, forwarded, discarded, stopped>>
    BY <1>4 DEF AddEvent, history, thread
  <2>3. \A f \in Events : f # e => evId'[f] = evId[f]
    BY <2>1 DEF TypeOK
  <2>4. evId'[e] = NextEventId
    BY <2>1 DEF TypeOK
  <2>5. \A f \in Added : evId'[f] = evId[f] /\ f # e
    BY <2>1, <2>3 DEF Added
  <2>6. \A f \in Added' : Age(evId'[f], lastEventId') < Cardinality(Added')
    BY <2>1, <2>2, <2>4, <2>5
  <2>7. \A f, g \in Added' : evId'[f] = evId'[g] => f = g
    BY <2>1, <2>4, <2>5 DEF IdInv
  <2>8. \A f \in Events : f \notin made' => evId'[f] = 0
    BY <1>4, <2>2, <2>3 DEF IdInv, PCInv
  <2>9. \A q \in Callers : cpc'[q] = "adding" =>
            q # p /\ cpc[q] = "adding" /\ arg'[q] = arg[q]
    BY <2>2 DEF TypeOK
  <2>10. \A q \in Callers : cpc'[q] = "adding" => evId'[arg'[q]] = 0
    <3> SUFFICES ASSUME NEW q \in Callers, cpc'[q] = "adding"
                 PROVE  evId'[arg'[q]] = 0
      OBVIOUS
    <3>1. evId[arg[q]] = 0 /\ arg[q] # e
      BY <2>2, <2>9 DEF IdInv
    <3>2. arg[q] \in Events
      BY <2>9 DEF PCInv, TypeOK
    <3> QED BY <2>3, <2>9, <3>1, <3>2
  <2>11. \A q, r \in Callers :
            cpc'[q] = "adding" /\ cpc'[r] = "adding" /\ arg'[q] = arg'[r] => q = r
    BY <2>9 DEF IdInv
  <2>12. \A f \in eventList' \cup forwarded' \cup discarded' \cup stopped' :
            evId'[f] # 0
    BY <2>1, <2>2, <2>3, <2>4 DEF IdInv, TypeOK
  <2>13. hand' # NoEvent => evId'[hand'] # 0
    BY <2>1, <2>2, <2>3, <2>4 DEF IdInv, TypeOK
  <2> QED BY <2>6, <2>7, <2>8, <2>10, <2>11, <2>12, <2>13 DEF IdInv
<1>5. ASSUME NEW p \in Callers, RejectEvent(p)
      PROVE  IdInv'
  BY <1>5 DEF RejectEvent, thread, callers, queue, history, TypeOK, PCInv,
     IdInv, Added
<1>6. ASSUME NEW p \in Callers, Notify(p)
      PROVE  IdInv'
  BY <1>6 DEF Notify, thread, callers, queue, history, TypeOK, PCInv,
     IdInv, Added
<1>7. ASSUME NEW id \in 1..MaxEventId, StopEvent(id)
      PROVE  IdInv'
  BY <1>7 DEF StopEvent, thread, callers, queue, history, TypeOK, PCInv,
     IdInv, Added
<1>8. CASE LoopTest
  BY <1>8 DEF LoopTest, thread, callers, queue, history, TypeOK, PCInv,
     IdInv, Added
<1>9. CASE Wait
  BY <1>9 DEF Wait, thread, callers, queue, history, TypeOK, PCInv,
     IdInv, Added
<1>10. CASE TimedWait
  BY <1>10 DEF TimedWait, Tops, thread, callers, queue, history, TypeOK, PCInv,
     IdInv, Added
<1>11. CASE SpuriousWake
  BY <1>11 DEF SpuriousWake, thread, callers, queue, history, TypeOK, PCInv,
     IdInv, Added
<1>12. CASE Timeout
  BY <1>12 DEF Timeout, thread, callers, queue, history, TypeOK, PCInv,
     IdInv, Added
<1>13. CASE GoRound
  BY <1>13 DEF GoRound, thread, callers, queue, history, TypeOK, PCInv,
     IdInv, Added
<1>14. ASSUME NEW e \in Events, Pop(e)
      PROVE  IdInv'
  BY <1>14 DEF Pop, NotStopped, Tops, thread, callers, queue, history, TypeOK, PCInv,
     IdInv, Added
<1>15. CASE Forward
  BY <1>15 DEF Forward, thread, callers, queue, history, TypeOK, PCInv,
     IdInv, Added
<1>16. CASE Stop
  BY <1>16 DEF Stop, thread, callers, queue, history, TypeOK, PCInv,
     IdInv, Added
<1>17. CASE Shutdown
  BY <1>17 DEF Shutdown, thread, callers, queue, history, TypeOK, PCInv,
     IdInv, Added
<1>18. CASE Join
  BY <1>18 DEF Join, thread, callers, queue, history, TypeOK, PCInv,
     IdInv, Added
<1>19. CASE UNCHANGED vars
  BY <1>19 DEF vars, thread, callers, queue, history, TypeOK, PCInv,
     IdInv, Added
<1> QED BY <1>1, <1>2, <1>3, <1>4, <1>5, <1>6, <1>7, <1>8, <1>9, <1>10,
           <1>11, <1>12, <1>13, <1>14, <1>15, <1>16, <1>17, <1>18, <1>19
     DEF Next, ThreadSteps, CallerSteps

\* Every step preserves it, given the ids.
LEMMA NextStop ==
    /\ FewEvents /\ TypeOK /\ PCInv /\ IdInv /\ StopInv
    /\ [Next]_vars
    => StopInv'
<1> SUFFICES ASSUME FewEvents, TypeOK, PCInv, IdInv, StopInv, [Next]_vars
             PROVE  StopInv'
  OBVIOUS
<1> USE SchedulerAssumption
<1>1. CASE Tick
  BY <1>1 DEF Tick, thread, callers, queue, history, TypeOK, PCInv,
     IdInv, Added, StopInv, StopIsExact
<1>2. CASE Start
  BY <1>2 DEF Start, thread, callers, queue, history, TypeOK, PCInv,
     IdInv, Added, StopInv, StopIsExact
<1>3. ASSUME NEW p \in Callers, NEW e \in Events, NEW d \in Delays,
             CreateEvent(p, e, d)
      PROVE  StopInv'
  BY <1>3 DEF CreateEvent, thread, callers, queue, history, TypeOK, PCInv,
     IdInv, Added, StopInv, StopIsExact
<1>4. ASSUME NEW p \in Callers, NEW signal \in BOOLEAN, AddEvent(p, signal)
      PROVE  StopInv'
  <2>1. /\ arg[p] \in Events \ Added
        /\ evId' = [evId EXCEPT ![arg[p]] = NextEventId]
        /\ \A f \in Added : evId[f] # NextEventId
    BY <1>4, AddEventIds
  <2> QED BY <1>4, <2>1 DEF AddEvent, thread, history, TypeOK, IdInv, Added,
     StopInv, StopIsExact
<1>5. ASSUME NEW p \in Callers, RejectEvent(p)
      PROVE  StopInv'
  BY <1>5 DEF RejectEvent, thread, callers, queue, history, TypeOK, PCInv,
     IdInv, Added, StopInv, StopIsExact
<1>6. ASSUME NEW p \in Callers, Notify(p)
      PROVE  StopInv'
  BY <1>6 DEF Notify, thread, callers, queue, history, TypeOK, PCInv,
     IdInv, Added, StopInv, StopIsExact
<1>7. ASSUME NEW id \in 1..MaxEventId, StopEvent(id)
      PROVE  StopInv'
  BY <1>7 DEF StopEvent, thread, callers, queue, history, TypeOK, PCInv,
     IdInv, Added, StopInv, StopIsExact
<1>8. CASE LoopTest
  BY <1>8 DEF LoopTest, thread, callers, queue, history, TypeOK, PCInv,
     IdInv, Added, StopInv, StopIsExact
<1>9. CASE Wait
  BY <1>9 DEF Wait, thread, callers, queue, history, TypeOK, PCInv,
     IdInv, Added, StopInv, StopIsExact
<1>10. CASE TimedWait
  BY <1>10 DEF TimedWait, Tops, thread, callers, queue, history, TypeOK, PCInv,
     IdInv, Added, StopInv, StopIsExact
<1>11. CASE SpuriousWake
  BY <1>11 DEF SpuriousWake, thread, callers, queue, history, TypeOK, PCInv,
     IdInv, Added, StopInv, StopIsExact
<1>12. CASE Timeout
  BY <1>12 DEF Timeout, thread, callers, queue, history, TypeOK, PCInv,
     IdInv, Added, StopInv, StopIsExact
<1>13. CASE GoRound
  BY <1>13 DEF GoRound, thread, callers, queue, history, TypeOK, PCInv,
     IdInv, Added, StopInv, StopIsExact
<1>14. ASSUME NEW e \in Events, Pop(e)
      PROVE  StopInv'
  BY <1>14 DEF Pop, NotStopped, Tops, thread, callers, queue, history, TypeOK, PCInv,
     IdInv, Added, StopInv, StopIsExact
<1>15. CASE Forward
  BY <1>15 DEF Forward, thread, callers, queue, history, TypeOK, PCInv,
     IdInv, Added, StopInv, StopIsExact
<1>16. CASE Stop
  BY <1>16 DEF Stop, thread, callers, queue, history, TypeOK, PCInv,
     IdInv, Added, StopInv, StopIsExact
<1>17. CASE Shutdown
  BY <1>17 DEF Shutdown, thread, callers, queue, history, TypeOK, PCInv,
     IdInv, Added, StopInv, StopIsExact
<1>18. CASE Join
  BY <1>18 DEF Join, thread, callers, queue, history, TypeOK, PCInv,
     IdInv, Added, StopInv, StopIsExact
<1>19. CASE UNCHANGED vars
  BY <1>19 DEF vars, thread, callers, queue, history, TypeOK, PCInv,
     IdInv, Added, StopInv, StopIsExact
<1> QED BY <1>1, <1>2, <1>3, <1>4, <1>5, <1>6, <1>7, <1>8, <1>9, <1>10,
           <1>11, <1>12, <1>13, <1>14, <1>15, <1>16, <1>17, <1>18, <1>19
     DEF Next, ThreadSteps, CallerSteps

-----------------------------------------------------------------------------
(* The theorems.                                                           *)

\* The conjunction of the parts is an invariant of the scheduler.
LEMMA Inductive ==
    Spec => [](TypeOK /\ PCInv /\ WaitInv /\ NoOversleep /\ NotEarly)
<1>1. Init => TypeOK /\ PCInv /\ WaitInv /\ NoOversleep /\ NotEarly
  <2>1. Init => WaitInv /\ NoOversleep /\ NotEarly
    BY DEF Init, WaitInv, NoOversleep, NotEarly
  <2> QED BY <2>1, InitTyped
<1>2. /\ TypeOK /\ PCInv /\ WaitInv /\ NoOversleep /\ NotEarly
      /\ [Next]_vars
      => (TypeOK /\ PCInv /\ WaitInv /\ NoOversleep /\ NotEarly)'
  BY NextTyped, NextWait, NextOversleep, NextNotEarly
<1> QED BY <1>1, <1>2, PTL DEF Spec

\* Scheduler's fields and thread positions always have their types.
THEOREM TypeCorrect == Spec => []TypeOK
BY Inductive, PTL

\* A timeout finds an event that is due: top() is never undefined behaviour.
THEOREM TimeoutFindsEvent == Spec => []TimeoutHasEvent
BY Inductive, TimeoutFacts, PTL

\* The thread never sleeps past an event unnoticed.
THEOREM NeverOversleeps == Spec => []NoOversleep
BY Inductive, PTL

\* No event is handed to the dispatcher before its time.
THEOREM NeverEarly == Spec => []NotEarly
BY Inductive, PTL

\* The ids and m_eventIds, as long as there are no more events than ids.
LEMMA InductiveIds == ASSUME FewEvents PROVE Spec => [](IdInv /\ StopInv)
<1>1. Init => IdInv /\ StopInv
  BY DEF Init, IdInv, StopInv, StopIsExact, Added, TypeOK
<1>2. /\ TypeOK /\ PCInv /\ IdInv /\ StopInv
      /\ [Next]_vars
      => (IdInv /\ StopInv)'
  BY NextIds, NextStop
<1> QED BY <1>1, <1>2, Inductive, PTL DEF Spec

\* stopEvent is exact, although it leaves the event in the queue and only
\* takes back its id: also across the wrap of the ids, a stopped event is
\* never run, and nothing else is deleted.
THEOREM StopsExactly == ASSUME FewEvents PROVE Spec => []StopIsExact
<1>1. StopInv => StopIsExact
  BY DEF StopInv
<1> QED BY <1>1, InductiveIds, PTL

\* No queued event has the id 0, and no two have the same.
THEOREM IdsAreValid == ASSUME FewEvents PROVE Spec => []ValidIds
<1>1. TypeOK /\ IdInv => ValidIds
  BY DEF IdInv, ValidIds, TypeOK, Added
<1> QED BY <1>1, Inductive, InductiveIds, PTL

-----------------------------------------------------------------------------
(* Refinement.                                                             *)

\* Every step of the scheduler is a step of the timer, or none.
LEMMA StepsRefine ==
    /\ FewEvents /\ TypeOK /\ PCInv /\ WaitInv /\ IdInv /\ StopInv
    /\ [Next]_vars
    => [Timer!Next]_(Timer!vars)
<1> SUFFICES ASSUME FewEvents, TypeOK, PCInv, WaitInv, IdInv, StopInv,
                    [Next]_vars
             PROVE  [Timer!Next]_(Timer!vars)
  OBVIOUS
<1> USE SchedulerAssumption
<1> DEFINE armed == {e \in eventList : evId[e] \in eventIds}
           fired == forwarded \cup ({hand} \ {NoEvent})
<1>1. CASE Tick
  <2>1. now' > now /\ UNCHANGED <<due, armed, fired>>
    BY <1>1 DEF Tick, thread, queue, history, TypeOK
  <2> QED BY <2>1 DEF Timer!Next, Timer!Tick
<1>2. ASSUME NEW p \in Callers, NEW e \in Events, NEW d \in Delays,
             CreateEvent(p, e, d)
      PROVE  Timer!Next
  <2>1. e \notin armed \cup fired
    BY <1>2 DEF CreateEvent, PCInv
  <2>2. UNCHANGED <<now, armed, fired>>
    BY <1>2 DEF CreateEvent, thread, history
  <2>3. due'[e] \in Nat /\ due' = [due EXCEPT ![e] = due'[e]]
    BY <1>2 DEF CreateEvent, TypeOK
  <2>4. Timer!SetDue(e)
    BY <2>1, <2>2, <2>3 DEF Timer!SetDue
  <2> QED BY <2>4 DEF Timer!Next
<1>3. ASSUME NEW p \in Callers, NEW signal \in BOOLEAN, AddEvent(p, signal)
      PROVE  Timer!Next
  <2>1. /\ arg[p] \in Events \ Added
        /\ evId' = [evId EXCEPT ![arg[p]] = NextEventId]
        /\ \A f \in Added : evId[f] # NextEventId
    BY <1>3, AddEventIds
  <2>2. /\ eventList' = eventList \cup {arg[p]}
        /\ eventIds' = eventIds \cup {NextEventId}
        /\ UNCHANGED <<now, due, forwarded, hand>>
    BY <1>3 DEF AddEvent, thread, history
  <2>3. arg[p] \notin eventList \cup fired
    BY <2>1 DEF IdInv, Added
  <2>4. \A f \in eventList : f \in Added /\ evId'[f] = evId[f]
    BY <2>1, <2>3 DEF IdInv, Added, TypeOK
  <2>5. evId'[arg[p]] = NextEventId
    BY <2>1 DEF TypeOK
  <2>6. armed' = armed \cup {arg[p]}
    BY <2>1, <2>2, <2>3, <2>4, <2>5
  <2>7. PICK e \in Events : e = arg[p]
    BY <2>1
  <2>8. Timer!Arm(e)
    BY <2>2, <2>3, <2>6, <2>7 DEF Timer!Arm
  <2> QED BY <2>8 DEF Timer!Next
<1>4. ASSUME NEW id \in 1..MaxEventId, StopEvent(id)
      PROVE  Timer!Next \/ UNCHANGED Timer!vars
  <2>1. UNCHANGED <<now, due, fired, eventList, evId>>
    BY <1>4 DEF StopEvent, thread
  <2>2. armed' = {e \in armed : evId[e] # id}
    BY <1>4, <2>1 DEF StopEvent
  <2>3. CASE \E e \in armed : evId[e] = id
    <3>1. PICK e \in armed : evId[e] = id
      BY <2>3
    <3>2. armed' = armed \ {e}
      BY <2>2, <3>1 DEF IdInv, Added, TypeOK
    <3>3. e \in Events /\ Timer!Cancel(e)
      BY <2>1, <3>1, <3>2 DEF Timer!Cancel, TypeOK
    <3> QED BY <3>3 DEF Timer!Next
  <2>4. CASE ~ \E e \in armed : evId[e] = id
    BY <2>1, <2>2, <2>4 DEF Timer!vars
  <2> QED BY <2>3, <2>4
<1>5. ASSUME NEW e \in Events, Pop(e)
      PROVE  Timer!Next \/ UNCHANGED Timer!vars
  <2>1. /\ e \in Tops(eventList)
        /\ eventList' = eventList \ {e}
        /\ UNCHANGED <<now, due, evId, forwarded>>
        /\ tpc = "timeout" /\ threadState # "TERMINATED"
    BY <1>5 DEF Pop
  <2>2. CASE NotStopped(e)
    <3>1. eventIds' = eventIds \ {evId[e]} /\ hand' = e
      BY <1>5, <2>2 DEF Pop
    <3>2. hand = NoEvent
      BY <2>1 DEF PCInv
    <3>3. fired' = fired \cup {e}
      BY <2>1, <3>1, <3>2
    <3>4. armed' = armed \ {e}
      BY <2>1, <3>1 DEF IdInv, Added, TypeOK, Tops
    <3>5. e \in armed /\ \A f \in armed : due[e] <= due[f]
      BY <2>1, <2>2 DEF NotStopped, Tops
    <3>6. due[e] <= now
      BY <2>1, TimeoutFacts DEF TimeoutHasEvent
    <3>7. Timer!Fire(e)
      BY <2>1, <3>3, <3>4, <3>5, <3>6 DEF Timer!Fire
    <3> QED BY <3>7 DEF Timer!Next
  <2>3. CASE ~NotStopped(e)
    <3>1. UNCHANGED <<eventIds, hand>>
      BY <1>5, <2>3 DEF Pop
    <3>2. armed' = armed
      BY <2>1, <2>3, <3>1 DEF NotStopped
    <3> QED BY <2>1, <3>1, <3>2 DEF Timer!vars
  <2> QED BY <2>2, <2>3
<1>6. CASE Forward
  <2>1. /\ forwarded' = forwarded \cup {hand} /\ hand' = NoEvent
        /\ hand # NoEvent
        /\ UNCHANGED <<now, due, eventList, eventIds, evId>>
    BY <1>6 DEF Forward, queue, PCInv, TypeOK
  <2> QED BY <2>1 DEF Timer!vars
<1>7. CASE Shutdown
  <2>1. armed' = {} /\ UNCHANGED <<now, due, fired>>
    BY <1>7 DEF Shutdown, thread, history
  <2> QED BY <2>1 DEF Timer!Next, Timer!CancelAll
<1>8. ASSUME \/ Start \/ Stop \/ Join \/ SpuriousWake
             \/ LoopTest \/ Wait \/ TimedWait \/ Timeout \/ GoRound
             \/ \E p \in Callers : RejectEvent(p) \/ Notify(p)
             \/ UNCHANGED vars
      PROVE  UNCHANGED Timer!vars
  <2>1. UNCHANGED <<now, due, eventList, eventIds, evId, forwarded, hand>>
    BY <1>8
       DEF Start, Stop, Join, SpuriousWake, LoopTest, Wait, TimedWait, Timeout,
           GoRound, RejectEvent, Notify, vars, thread, queue, history
  <2> QED BY <2>1 DEF Timer!vars
<1> QED BY <1>1, <1>2, <1>3, <1>4, <1>5, <1>6, <1>7, <1>8
     DEF Next, ThreadSteps, CallerSteps

\* The scheduler implements the timer, when there are no more events than ids:
\* its sleeping thread and its set of ids cannot be told apart from an alarm
\* that rings for every event that is not cancelled, the earliest first.
THEOREM Refinement == ASSUME FewEvents PROVE Spec => ImplementsEventTimer
<1>1. Init => Timer!Init
  BY DEF Init, Timer!Init
<1> QED BY <1>1, StepsRefine, Inductive, InductiveIds, PTL
        DEF Spec, ImplementsEventTimer, Timer!Spec
=============================================================================
