---------------------------- MODULE MCScheduler -----------------------------
(* A small instance of Scheduler: with as many ids as events every first    *)
(* value of m_lastEventId but 0 makes the ids wrap.  No id is given twice.  *)
EXTENDS Scheduler

CONSTANTS e1, e2, main, disp

MCEvents == {e1, e2}
MCCallers == {main, disp}
MCDelays == {1, 3}
=============================================================================
