------------------------------ MODULE O1Slice ------------------------------
(***************************************************************************)
(* The time slices of the O1 scheduler on one CPU: what a task is charged  *)
(* (remaining_time, runtime_at_last_pick) against what it ran.  The run    *)
(* queue is a set here, since its order does not matter to the accounts;   *)
(* O1Cpu has the order and O1Scheduler the messages of several CPUs.       *)
(*                                                                         *)
(* The clock moves while a task runs, by units; the agent takes no time.   *)
(* since is absl::Now() - runtime_at_last_pick; absl::Now() is the wall    *)
(* clock and may be set back.  ran and recommits are auxiliary: the time a *)
(* task ran on its slice, and how often it was committed again while on    *)
(* the CPU.                                                                *)
(***************************************************************************)
EXTENDS Integers, Sequences

CONSTANTS Task, NoTask,
          TimeSlice,     \* SetRemainingTime(), in units
          TickPeriod,    \* units between two MSG_CPU_TICKs
          MaxRecommits,  \* bound on recommits within a slice
          SetBack        \* how far the wall clock may be set back at a time

\* What is assumed of the constants.
SliceAssumption == TimeSlice \in Nat \ {0} /\ TickPeriod \in Nat \ {0} /\ SetBack \in Nat

VARIABLES task, current, preempt_curr, next,
          agent,    \* whether the agent is on the CPU
          msgs,     \* the messages of its channel
          tick      \* units since the last tick

vars == <<task, current, preempt_curr, next, agent, msgs, tick>>

\* A slice is never looked at beyond this many units.
Horizon == TimeSlice + (MaxRecommits + 2) * TickPeriod

Fresh == [st |-> "kBlocked", remaining |-> TimeSlice, since |-> 0, ran |-> 0, recommits |-> 0]

Init ==
  /\ task = [t \in Task |-> Fresh]
  /\ current = NoTask /\ next = NoTask /\ preempt_curr = FALSE
  /\ agent = TRUE /\ msgs = << >> /\ tick = 0

\* SetRemainingTime.
Refilled(x) == [x EXCEPT !.remaining = TimeSlice, !.ran = 0, !.recommits = 0]

\* The subtraction of UpdateRemainingTime.
Charged(x) == [x EXCEPT !.remaining = @ - x.since]

\* Enqueue: to active_ with time left, to expired_ with a new slice.
Enqueued(x) == [IF x.remaining > 0 THEN x ELSE Refilled(x) EXCEPT !.st = "kQueued"]

Queued == {t \in Task : task[t].st = "kQueued"}

-----------------------------------------------------------------------------
(* The CPU and the kernel *)

\* The current task runs for a unit.
Run ==
  /\ ~agent /\ current # NoTask /\ tick < TickPeriod
  /\ task' = [t \in Task |->
       [task[t] EXCEPT !.since = IF @ < Horizon THEN @ + 1 ELSE @,
                       !.ran = IF t = current /\ @ < Horizon THEN @ + 1 ELSE @]]
  /\ tick' = tick + 1
  /\ UNCHANGED <<current, preempt_curr, next, agent, msgs>>

Post(m) == msgs' = Append(msgs, m) /\ agent' = TRUE

Tick ==
  /\ ~agent /\ tick = TickPeriod
  /\ Post([type |-> "tick", task |-> NoTask])
  /\ tick' = 0
  /\ UNCHANGED <<task, current, preempt_curr, next>>

\* The running task blocks or yields.
Leave ==
  /\ ~agent /\ current # NoTask
  /\ \E type \in {"blocked", "yield"} : Post([type |-> type, task |-> current])
  /\ UNCHANGED <<task, current, preempt_curr, next, tick>>

Wakeup(t) ==
  /\ ~agent /\ task[t].st = "kBlocked"
  /\ Post([type |-> "wakeup", task |-> t])
  /\ UNCHANGED <<task, current, preempt_curr, next, tick>>

\* The agent is pinged, as by Migrate or TaskYield on another CPU.
Ping ==
  /\ ~agent
  /\ agent' = TRUE
  /\ UNCHANGED <<task, current, preempt_curr, next, msgs, tick>>

\* The wall clock is set back; for a bound, not again while a slice is overfull.
SetClock ==
  /\ SetBack > 0 /\ current # NoTask
  /\ \A t \in Task : task[t].since >= 0 /\ task[t].remaining <= TimeSlice
  /\ task' = [t \in Task |-> [task[t] EXCEPT !.since = @ - SetBack]]
  /\ UNCHANGED <<current, preempt_curr, next, agent, msgs, tick>>

-----------------------------------------------------------------------------
(* The agent *)

Handling(type) == agent /\ next = NoTask /\ msgs # << >> /\ Head(msgs).type = type

Consumed == msgs' = Tail(msgs) /\ UNCHANGED <<next, agent, tick>>

\* Seeded fault of CpuTick: the clock is read before the subtraction.
CpuTickUncharged ==
  /\ Handling("tick")
  /\ IF current = NoTask THEN UNCHANGED <<task, preempt_curr>>
     ELSE /\ task' = [task EXCEPT ![current] = Charged([@ EXCEPT !.since = 0])]
          /\ preempt_curr' = (preempt_curr \/ task'[current].remaining <= 0)
  /\ Consumed
  /\ UNCHANGED current

\* CpuTick, CheckPreemptTick and UpdateRemainingTime(false).
CpuTick ==
  /\ Handling("tick")
  /\ IF current = NoTask THEN UNCHANGED <<task, preempt_curr>>
     ELSE /\ task' = [task EXCEPT ![current] = [Charged(@) EXCEPT !.since = 0]]
          /\ preempt_curr' = (preempt_curr \/ task'[current].remaining <= 0)
  /\ Consumed
  /\ UNCHANGED current

\* TaskOffCpu of the task of the message; x is what becomes of it.
OffCpu(x) ==
  LET t == Head(msgs).task
  IN  /\ task' = [task EXCEPT ![t] = x]
      /\ current' = IF current = t THEN NoTask ELSE current
      /\ UNCHANGED preempt_curr

TaskBlocked ==
  /\ Handling("blocked")
  /\ OffCpu([Charged(task[Head(msgs).task]) EXCEPT !.st = "kBlocked"])
  /\ Consumed

\* TaskYield; TaskPreempted for a task that the agent let go of before.
TaskYield ==
  /\ Handling("yield")
  /\ OffCpu(Enqueued(Charged(task[Head(msgs).task])))
  /\ Consumed

TaskRunnable ==
  /\ Handling("wakeup")
  /\ task' = [task EXCEPT ![Head(msgs).task] = Enqueued(@)]
  /\ Consumed
  /\ UNCHANGED <<current, preempt_curr>>

\* O1Schedule up to the commit, and LocalYield when there is nothing to run.
O1Schedule ==
  LET over == preempt_curr /\ current # NoTask
      cur  == IF over /\ Queued # {} THEN NoTask ELSE current
  IN  /\ agent /\ next = NoTask /\ msgs = << >>
      /\ preempt_curr' = FALSE
      /\ current' = cur
      /\ task' = IF over /\ Queued = {} THEN [task EXCEPT ![current] = Refilled(@)] ELSE task
      /\ IF cur = NoTask /\ Queued = {}
         THEN agent' = FALSE /\ UNCHANGED next
         ELSE /\ next' \in IF cur = NoTask THEN Queued ELSE {cur}
              /\ UNCHANGED agent
      /\ UNCHANGED <<msgs, tick>>

\* The task the kernel takes off the CPU for next, if the agent let go of one.
LetGo == {t \in Task \ {next} : task[t].st = "kOnCpu"}

\* TaskOnCpu: the clock starts anew, also for a task that is on the CPU.
TaskOnCpu(x) ==
  [x EXCEPT !.st = "kOnCpu", !.since = 0,
            !.recommits = IF x.st = "kOnCpu" /\ @ < MaxRecommits + 1 THEN @ + 1 ELSE @]

CommitOk ==
  /\ next # NoTask
  /\ task[next].recommits < MaxRecommits \/ task[next].since = 0 \/ task[next].st # "kOnCpu"
  /\ task' = [task EXCEPT ![next] = TaskOnCpu(@)]
  /\ current' = next /\ next' = NoTask
  /\ IF LetGo = {} THEN msgs' = << >>
     ELSE \E t \in LetGo : msgs' = <<[type |-> "yield", task |-> t]>>
  /\ agent' = FALSE
  /\ UNCHANGED <<preempt_curr, tick>>

\* A failed commit takes a current task off the CPU and queues it.
CommitFailed ==
  /\ next # NoTask
  /\ task' = [task EXCEPT ![next] = Enqueued(IF next = current THEN Charged(@) ELSE @)]
  /\ current' = IF next = current THEN NoTask ELSE current
  /\ next' = NoTask
  /\ UNCHANGED <<preempt_curr, agent, msgs, tick>>

Next ==
  \/ Run \/ Tick \/ Leave \/ Ping \/ SetClock \/ \E t \in Task : Wakeup(t)
  \/ CpuTick \/ TaskBlocked \/ TaskYield \/ TaskRunnable
  \/ O1Schedule \/ CommitOk \/ CommitFailed

Spec == Init /\ [][Next]_vars

-----------------------------------------------------------------------------
\* A task runs on one slice for no longer than the slice and one tick, and another
\* tick for every time it was committed again while it was on the CPU.
OverrunBounded ==
  \A t \in Task : task[t].ran <= TimeSlice + (1 + task[t].recommits) * TickPeriod

\* A task is not charged for time it did not run, before the slice is spent.
NeverOvercharged ==
  \A t \in Task : (task[t].st = "kQueued" \/ t = current) =>
    task[t].remaining >= TimeSlice - task[t].ran

\* runtime_at_last_pick is "the time of the last update of remaining_time": what a
\* task has run is either charged or still counted from there.
ChargedWhatItRan ==
  current # NoTask => task[current].remaining - task[current].since = TimeSlice - task[current].ran

\* A slice is never more than full.
NeverOverfull == \A t \in Task : task[t].remaining <= TimeSlice
=============================================================================
