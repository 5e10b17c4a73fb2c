------------------------------ MODULE AgentLoop ------------------------------
(***************************************************************************)
(* The loop of one FIFO agent and its termination:                         *)
(*                                                                         *)
(*   while (!Finished() || !scheduler_->Empty(cpu())) Schedule(...);       *)
(*                                                                         *)
(* (schedulers/fifo/per_cpu), against TerminateBegin and TerminateComplete *)
(* (lib/agent.cc) and the tasks of the CPU.  FifoScheduler has the run     *)
(* queue's order and the whole of the handlers; here a message says that a *)
(* task can run or that it cannot.  As in GhostKernel, a message makes the *)
(* agent's barrier stale and wakes the agent, and Ping() wakes it.  In any *)
(* round the agent may find itself boosted, a higher class waiting for its *)
(* CPU: it then yields whatever it has to run, and asks to be called back  *)
(* when the CPU is idle.                                                   *)
(***************************************************************************)
EXTENDS Sequences

CONSTANTS Task, NoTask,
          Departures    \* a task may leave the enclave while it is queued

VARIABLES
  at,       \* where the agent is; "off" when it has given up its CPU
  rq, cur,  \* the run queue and cs->current
  chan,     \* the agent's channel: <<"runnable" or "gone", task>>
  stale,    \* a message was posted since the agent read its barrier
  wake,     \* the agent has to run again
  idle,     \* RTLA_ON_IDLE: the agent has to run again when the CPU is idle
  run,      \* the task on the CPU while the agent is off
  ktask,    \* ktask[t]: "out", "in" the enclave, or "left"
  raised,   \* the notifications finished_ and do_exit_
  main      \* the thread that terminates the agent

lvars == <<at, rq, cur, chan, stale, wake, idle, run, ktask, raised, main>>

LInit ==
  /\ at = "loop" /\ rq = {} /\ cur = NoTask /\ chan = << >>
  /\ stale = FALSE /\ wake = FALSE /\ idle = FALSE /\ run = NoTask
  /\ ktask = [t \in Task |-> "out"]
  /\ raised = {} /\ main = "serve"

\* A message of task t: it can run, or it cannot.
Post(type, t) ==
  /\ chan' = Append(chan, <<type, t>>)
  /\ stale' = TRUE /\ wake' = TRUE

-----------------------------------------------------------------------------
(* The agent *)

LoopTest ==
  /\ at = "loop"
  /\ at' = IF "finished" \in raised /\ rq = {} THEN "exit_wait" ELSE "barrier"
  /\ UNCHANGED <<rq, cur, chan, stale, wake, idle, run, ktask, raised, main>>

ReadBarrier ==
  /\ at = "barrier"
  /\ stale' = FALSE
  /\ at' = "drain"
  /\ UNCHANGED <<rq, cur, chan, wake, idle, run, ktask, raised, main>>

\* DispatchMessage: the task is queued, or is taken off the CPU or the queue.
Drain ==
  /\ at = "drain"
  /\ IF chan = << >>
     THEN at' = "pick" /\ UNCHANGED <<rq, cur, chan>>
     ELSE LET t == Head(chan)[2] IN
          /\ rq' = IF Head(chan)[1] = "runnable" THEN rq \cup {t} ELSE rq \ {t}
          /\ cur' = IF cur = t THEN NoTask ELSE cur
          /\ chan' = Tail(chan)
          /\ UNCHANGED at
  /\ UNCHANGED <<stale, wake, idle, run, ktask, raised, main>>

\* FifoSchedule with something to run, when the agent is not boosted: the commit
\* fails with a stale barrier, and the task goes back to the queue.
Commit ==
  /\ at = "pick"
  /\ \E next \in IF cur # NoTask THEN {cur} ELSE rq :
       \/ /\ ~stale
          /\ run' = next /\ cur' = next /\ rq' = rq \ {next}
          /\ at' = "off"
       \/ /\ stale
          /\ cur' = NoTask /\ rq' = rq \cup {next}
          /\ at' = "loop"
          /\ UNCHANGED run
  /\ UNCHANGED <<chan, stale, wake, idle, ktask, raised, main>>

\* FifoSchedule without a task: nothing to run, or the agent is boosted.
Yields(boosted) == at = "pick" /\ (boosted \/ (cur = NoTask /\ rq = {}))

\* The kernel refuses a stale barrier, and keeps an agent that has to run again.
YieldFails ==
  /\ \E boosted \in BOOLEAN : Yields(boosted)
  /\ stale \/ wake
  /\ at' = "loop" /\ wake' = FALSE
  /\ UNCHANGED <<rq, cur, chan, stale, idle, run, ktask, raised, main>>

\* Seeded fault of LocalYield: no RTLA_ON_IDLE.
LocalYieldPlain ==
  /\ \E boosted \in BOOLEAN : Yields(boosted)
  /\ ~stale /\ ~wake
  /\ at' = "off"
  /\ idle' = FALSE
  /\ IF cur = NoTask THEN UNCHANGED <<chan, stale, wake>> ELSE Post("runnable", cur)
  /\ UNCHANGED <<rq, cur, run, ktask, raised, main>>

\* LocalYield: the task that the agent had displaced, if any, is now preempted.
LocalYield ==
  /\ \E boosted \in BOOLEAN :
       Yields(boosted) /\ idle' = (boosted /\ (cur # NoTask \/ rq # {}))
  /\ ~stale /\ ~wake
  /\ at' = "off"
  /\ IF cur = NoTask THEN UNCHANGED <<chan, stale, wake>> ELSE Post("runnable", cur)
  /\ UNCHANGED <<rq, cur, run, ktask, raised, main>>

\* The kernel runs the agent in place of the task, or on the idle CPU.
Wakeup ==
  /\ at = "off"
  /\ wake \/ (idle /\ run = NoTask)
  /\ wake' = FALSE /\ idle' = FALSE /\ run' = NoTask
  /\ at' = "loop"
  /\ UNCHANGED <<rq, cur, chan, stale, ktask, raised, main>>

WaitForExitNotification ==
  /\ at = "exit_wait" /\ "do_exit" \in raised
  /\ at' = "dead"
  /\ UNCHANGED <<rq, cur, chan, stale, wake, idle, run, ktask, raised, main>>

-----------------------------------------------------------------------------
(* TerminateBegin and TerminateComplete *)

TerminateFinished ==
  /\ main = "serve"
  /\ raised' = raised \cup {"finished"}
  /\ main' = "ping"
  /\ UNCHANGED <<at, rq, cur, chan, stale, wake, idle, run, ktask>>

TerminatePing ==
  /\ main = "ping"
  /\ wake' = TRUE
  /\ main' = "exit"
  /\ UNCHANGED <<at, rq, cur, chan, stale, idle, run, ktask, raised>>

TerminateExit ==
  /\ main = "exit"
  /\ raised' = raised \cup {"do_exit"}
  /\ main' = "join"
  /\ UNCHANGED <<at, rq, cur, chan, stale, wake, idle, run, ktask>>

TerminateComplete ==
  /\ main = "join" /\ at = "dead"
  /\ main' = "done"
  /\ UNCHANGED <<at, rq, cur, chan, stale, wake, idle, run, ktask, raised>>

-----------------------------------------------------------------------------
(* The kernel *)

KNew(t) ==
  /\ ktask[t] = "out"
  /\ ktask' = [ktask EXCEPT ![t] = "in"]
  /\ Post("runnable", t)
  /\ UNCHANGED <<at, rq, cur, idle, run, raised, main>>

\* The running task blocks or dies.
KBlocked(t) ==
  /\ run = t
  /\ ktask' = [ktask EXCEPT ![t] = "left"]
  /\ run' = NoTask
  /\ Post("gone", t)
  /\ UNCHANGED <<at, rq, cur, idle, raised, main>>

\* A task leaves the enclave (sched_setscheduler) without having to run.
KDeparted(t) ==
  /\ Departures
  /\ ktask[t] = "in" /\ run # t
  /\ ktask' = [ktask EXCEPT ![t] = "left"]
  /\ Post("gone", t)
  /\ UNCHANGED <<at, rq, cur, idle, run, raised, main>>

-----------------------------------------------------------------------------
AgentStep ==
  \/ LoopTest \/ ReadBarrier \/ Drain \/ Commit \/ YieldFails \/ LocalYield \/ Wakeup
  \/ WaitForExitNotification
MainStep == TerminatePing \/ TerminateExit \/ TerminateComplete

LNext ==
  \/ AgentStep \/ MainStep \/ TerminateFinished
  \/ \E t \in Task : KNew(t) \/ KBlocked(t) \/ KDeparted(t)

\* The threads are scheduled, a task does not keep the CPU for ever, and neither
\* does the higher class: the CPU is idle again, and the agent is not boosted in
\* every round.
LFairness ==
  /\ WF_lvars(AgentStep) /\ WF_lvars(MainStep) /\ SF_lvars(Commit)
  /\ \A t \in Task : WF_lvars(KBlocked(t))

-----------------------------------------------------------------------------
(* Properties *)

\* An agent that has given up its CPU and is not about to be woken has read all
\* its messages, and leaves the CPU idle only if it has no task for it, or yielded
\* while boosted and is called back as soon as the CPU is idle.
NoWorkLeftAsleep ==
  (at = "off" /\ ~wake) =>
    chan = << >> /\ (run = NoTask => idle \/ (rq = {} /\ cur = NoTask))

\* "Returns when the thread associated with *this has completed its tear-down":
\* TerminateComplete returns, since TerminateBegin "guarantees that the agent
\* will wake to observe" Finished(), whatever the tasks of its CPU do meanwhile.
TerminateReturns == (main = "join") ~> (main = "done")

\* The agent has no message, no task and nobody who would wake it.
NothingToDo ==
  /\ at = "off" /\ ~wake /\ ~idle /\ chan = << >>
  /\ run = NoTask /\ cur = NoTask /\ rq = {}

\* With tasks that depart while they are queued: the messages that an agent reads after
\* it tested Finished() may empty its queue, and it goes to sleep.  Then it sleeps with
\* nothing to do; in every other case TerminateComplete returns.
TerminateReturnsOrSleeps == (main = "join") ~> (main = "done" \/ NothingToDo)
=============================================================================
