----------------------------- MODULE O1Scheduler -----------------------------
(***************************************************************************)
(* The O1 scheduler (schedulers/o1/o1_scheduler.cc) with its per-CPU       *)
(* agents, the message channels and the kernel: which handler runs when,   *)
(* what the agents and the kernel believe about each task, and which of    *)
(* the CHECKs of the code can fail.                                        *)
(* GhostKernel is the kernel and lib/; a run queue is the two PrioArrays.  *)
(***************************************************************************)
EXTENDS GhostKernel

CONSTANTS
  kBasePrio, kNumPrio,   \* the buckets of a PrioArray
  TimeSlice,             \* SetRemainingTime(), in units
  Charges                \* lengths of the intervals between two clock readings

INSTANCE PrioArray

ASSUME SchedAssumption == /\ TimeSlice \in Nat \ {0} /\ Charges \subseteq Nat
                          /\ \A n \in Nice \cup {0} : 120 + n \in Prio

TaskRec == [st : {"free", "kBlocked", "kRunnable", "kQueued", "kOnCpu"},
            cpu : Cpu \cup {NoCpu}, prio : Prio, boost : BOOLEAN, left : 0 .. TimeSlice]

NewTask == [st |-> "kBlocked", cpu |-> NoCpu, prio |-> 120, boost |-> FALSE, left |-> TimeSlice]

Init ==
  /\ task = [t \in Task |-> [NewTask EXCEPT !.st = "free"]]
  /\ cs = [c \in Cpu |-> [active |-> EmptyArray, expired |-> EmptyArray,
                          current |-> NoTask, preempt_curr |-> FALSE,
                          pc |-> "top", next |-> NoTask, target |-> NoCpu]]
  /\ KInit

-----------------------------------------------------------------------------
(* The agents: the handlers.  c is the CPU of the agent, m the message at  *)
(* the head of its channel.                                                *)

\* UpdateRemainingTime(): the time left after u more units.
Charged(r, u) == IF u >= r THEN 0 ELSE r - u

\* O1Rq::Enqueue(): the O1Task and the CpuState it leaves.
EnqTask(T) == [T EXCEPT !.st = "kQueued", !.left = IF @ > 0 THEN @ ELSE TimeSlice]

EnqRq(s, t, T) ==
  IF T.left > 0 THEN [s EXCEPT !.active = Push(@, t, T.prio, T.boost)]
                ELSE [s EXCEPT !.expired = Push(@, t, T.prio, T.boost)]

\* O1Rq::Erase(): whether it finds t, and the CpuState it leaves.
InRq(s, t) == Holds(s.active, t, task[t].prio) \/ Holds(s.expired, t, task[t].prio)

EraseRq(s, t) ==
  IF Holds(s.active, t, task[t].prio)
    THEN [s EXCEPT !.active = EraseFrom(@, t, task[t].prio)]
    ELSE [s EXCEPT !.expired = EraseFrom(@, t, task[t].prio)]

\* O1Rq::Empty() looks at the buckets, Dequeue() at the bitmaps.
RqEmpty(s) == ArraySizeZero(s.active) /\ ArraySizeZero(s.expired)
PopArray(s) == IF ArrayEmpty(s.active) THEN s.expired ELSE s.active
PopRq(s) == [s EXCEPT !.active = Pop(PopArray(s)),
                      !.expired = IF ArrayEmpty(s.active) THEN s.active ELSE @]

\* TaskOffCpu() does not fail its CHECKs.
OffCpuOk(T, m) ==
  T.cpu # NoCpu /\ (T.st = "kOnCpu" \/ (m.flag /\ T.st = "kBlocked"))

\* TaskOffCpu(): the O1Task, charged u units if it was on its CPU, and all CpuStates.
OffCpuTask(T, state, u) ==
  [T EXCEPT !.st = state, !.left = IF T.st = "kOnCpu" THEN Charged(@, u) ELSE @]

OffCpuCs(t) ==
  [cs EXCEPT ![task[t].cpu].current = IF task[t].st = "kOnCpu" /\ @ = t THEN NoTask ELSE @]

\* TaskBlocked() and TaskSwitchto().
TaskBlocked(c, m, u) ==
  LET T == task[m.task]
  IN  IF OffCpuOk(T, m)
        THEN Done(c, m, OffCpuTask(T, "kBlocked", u), OffCpuCs(m.task), SwitchtoPing(m))
        ELSE Fail("TaskOffCpu")

\* TaskYield(), and TaskPreempted(), which boosts the task.
TaskStopped(c, m, u) ==
  LET T == OffCpuTask(task[m.task], "kRunnable", u)
      Q == [T EXCEPT !.boost = @ \/ m.type = "TASK_PREEMPT"]
      s == OffCpuCs(m.task)
  IN  IF OffCpuOk(task[m.task], m)
        THEN Done(c, m, EnqTask(Q), [s EXCEPT ![T.cpu] = EnqRq(@, m.task, Q)], SwitchtoPing(m))
        ELSE Fail("TaskOffCpu")

\* TaskRunnable() of a task that has a CPU.
TaskRunnable(c, m) ==
  LET T == [task[m.task] EXCEPT !.st = "kRunnable", !.boost = ~m.flag]
  IN  IF task[m.task].st = "kBlocked"
        THEN Done(c, m, EnqTask(T), [cs EXCEPT ![T.cpu] = EnqRq(@, m.task, T)], kcpu)
        ELSE Fail("TaskRunnable")

\* TaskPriorityChanged(): a queued task changes its bucket.
TaskPriorityChanged(c, m) ==
  LET t == m.task
      T == [task[t] EXCEPT !.prio = 120 + m.nice]
      d == task[t].cpu
  IN  IF task[t].st # "kQueued" THEN Done(c, m, T, cs, kcpu)
      ELSE IF d = NoCpu \/ ~InRq(cs[d], t) THEN Fail("Erase")
      ELSE Done(c, m, EnqTask(T), [cs EXCEPT ![d] = EnqRq(EraseRq(@, t), t, T)], kcpu)

\* TaskDeparted(); FreeTask() instead of Advance().
TaskDeparted(c, m) ==
  LET t == m.task
      T == task[t]
  IN  IF T.st = "kOnCpu" \/ m.flag
        THEN IF OffCpuOk(T, m) THEN Freed(c, m, NewTask, OffCpuCs(t), SwitchtoPing(m)) ELSE Fail("TaskOffCpu")
      ELSE IF T.st = "kQueued"
        THEN IF T.cpu # NoCpu /\ InRq(cs[T.cpu], t)
               THEN Freed(c, m, NewTask, [cs EXCEPT ![T.cpu] = EraseRq(@, t)], kcpu) ELSE Fail("Erase")
      ELSE IF T.st = "kBlocked" THEN Freed(c, m, NewTask, cs, kcpu) ELSE Fail("TaskDeparted")

\* TaskDead().
TaskDead(c, m) ==
  IF task[m.task].st = "kBlocked" THEN Freed(c, m, NewTask, cs, kcpu) ELSE Fail("TaskDead")

\* CpuTick() and CheckPreemptTick().
CpuTick(c, m, u) ==
  LET t == cs[m.cpu].current
      left == Charged(task[t].left, u)
  IN  /\ IF t = NoTask THEN UNCHANGED <<task, cs>>
         ELSE /\ task' = [task EXCEPT ![t].left = left]
              /\ cs' = [cs EXCEPT ![m.cpu].preempt_curr = @ \/ left = 0]
      /\ kcpu' = Consumed(kcpu, c)
      /\ UNCHANGED <<ktask, rr, abort>>

-----------------------------------------------------------------------------
(* The agents: TASK_NEW, and the migration of a task to its CPU.           *)

\* AssignCpu() and the beginning of Migrate(), up to the kernel's answer to
\* AssociateTask(): it refuses a stale sequence number, and the CHECK fails.
MigrateBegin(c, m, T, fresh) ==
  IF T.st # "kRunnable" \/ T.cpu # NoCpu THEN Fail("Migrate")
  ELSE Associate(c, m, T, CpuOrder[rr], fresh)

\* TaskNew(); it sets task->seqnum itself, before the migration.
TaskNew(c, m) ==
  LET T == [NewTask EXCEPT !.prio = 120 + m.nice]
  IN  IF m.flag THEN MigrateBegin(c, m, [T EXCEPT !.st = "kRunnable"], TRUE)
                ELSE Done(c, m, T, cs, kcpu)

\* TaskRunnable() of a task that has no CPU yet.
TaskRunnableFirst(c, m) ==
  IF task[m.task].st = "kBlocked"
    THEN MigrateBegin(c, m, [task[m.task] EXCEPT !.st = "kRunnable", !.boost = ~m.flag], FALSE)
    ELSE Fail("TaskRunnable")

\* Migrate() sets task->cpu; Enqueue() makes the task kQueued before it has mu_.
MigrateMark(c) ==
  LET t == Head(kcpu[c].chan).task
  IN  /\ At(c, "associated")
      /\ IF task[t].st # "kRunnable" THEN Fail("Enqueue")
         ELSE /\ task' = [task EXCEPT ![t].cpu = cs[c].target, ![t].st = "kQueued"]
              /\ cs' = [cs EXCEPT ![c].pc = "marked"]
              /\ UNCHANGED <<ktask, kcpu, rr, abort>>

\* The rest of Enqueue(), under mu_ of the target CPU.
MigratePush(c) ==
  LET t == Head(kcpu[c].chan).task
      d == cs[c].target
  IN  /\ At(c, "marked")
      /\ task' = [task EXCEPT ![t] = EnqTask(@)]
      /\ cs' = [cs EXCEPT ![c].pc = "pushed", ![d].active = EnqRq(cs[d], t, task[t]).active,
                                             ![d].expired = EnqRq(cs[d], t, task[t]).expired]
      /\ UNCHANGED <<ktask, kcpu, rr, abort>>

-----------------------------------------------------------------------------
(* The agents: Schedule().                                                 *)

\* Peek() and DispatchMessage().
Dispatch(c) ==
  /\ At(c, "drain") /\ kcpu[c].chan # << >>
  /\ LET m == Head(kcpu[c].chan)
     IN  IF ~Known(m) THEN Ignored(c) ELSE
         \/ m.type = "TASK_NEW" /\ TaskNew(c, m)
         \/ m.type = "TASK_WAKEUP" /\ task[m.task].cpu = NoCpu /\ TaskRunnableFirst(c, m)
         \/ m.type = "TASK_WAKEUP" /\ task[m.task].cpu # NoCpu /\ TaskRunnable(c, m)
         \/ m.type \in {"TASK_BLOCKED", "TASK_SWITCHTO"} /\ \E u \in Charges : TaskBlocked(c, m, u)
         \/ m.type \in {"TASK_YIELD", "TASK_PREEMPT"} /\ \E u \in Charges : TaskStopped(c, m, u)
         \/ m.type = "TASK_PRIORITY_CHANGED" /\ TaskPriorityChanged(c, m)
         \/ m.type = "TASK_DEPARTED" /\ TaskDeparted(c, m)
         \/ m.type = "TASK_DEAD" /\ TaskDead(c, m)
         \/ m.type = "CPU_TICK" /\ \E u \in Charges : CpuTick(c, m, u)

\* O1Schedule() up to the commit or the yield.
O1Schedule(c, boosted) ==
  LET s    == cs[c]
      over == s.preempt_curr /\ s.current # NoTask
      cur  == IF over /\ ~RqEmpty(s) THEN NoTask ELSE s.current
      q    == [s EXCEPT !.preempt_curr = FALSE, !.current = cur]
      t    == PopTask(PopArray(s))
      pop  == cur = NoTask /\ ~(ArrayEmpty(s.active) /\ ArrayEmpty(s.expired))
      kept == IF over /\ RqEmpty(s) THEN [task EXCEPT ![s.current].left = TimeSlice] ELSE task
  IN  /\ At(c, "drain") /\ kcpu[c].chan = << >>
      /\ \/ /\ ~boosted /\ pop
            /\ IF task[t].st # "kQueued" THEN Fail("Dequeue")
               ELSE /\ task' = [kept EXCEPT ![t].st = "kRunnable"]
                    /\ cs' = [cs EXCEPT ![c] = [PopRq(q) EXCEPT !.next = t, !.pc = "commit"]]
                    /\ UNCHANGED <<ktask, kcpu, rr, abort>>
         \/ /\ ~boosted /\ ~pop
            /\ task' = kept
            /\ cs' = [cs EXCEPT ![c] = [q EXCEPT !.next = cur,
                                        !.pc = IF cur = NoTask THEN "localyield" ELSE "commit"]]
            /\ UNCHANGED <<ktask, kcpu, rr, abort>>
         \/ /\ boosted
            /\ task' = kept
            /\ cs' = [cs EXCEPT ![c] = [q EXCEPT !.pc = "localyield"]]
            /\ kcpu' = [kcpu EXCEPT ![c].idle = cur # NoTask \/ ~RqEmpty(s)]
            /\ UNCHANGED <<ktask, rr, abort>>

\* TaskOnCpu(): the O1Task and the CpuState after the commit of t on c.
OnCpuTask(c, t) == [task[t] EXCEPT !.st = "kOnCpu", !.cpu = c, !.boost = FALSE]
OnCpuCs(c, t) == [cs[c] EXCEPT !.current = t, !.next = NoTask, !.pc = "yield"]

\* Seeded fault: the transaction carries no barriers.
CommitUnguarded(c) ==
  LET t == cs[c].next
  IN  At(c, "commit") /\ OffEveryCpu(t) /\ Committed(c, t, OnCpuTask(c, t), OnCpuCs(c, t))

\* O1Schedule(): the commit, once the task is off every CPU.
CommitOk(c) ==
  LET t == cs[c].next
  IN  At(c, "commit") /\ OffEveryCpu(t) /\ Fresh(c, t) /\ Committed(c, t, OnCpuTask(c, t), OnCpuCs(c, t))

\* Seeded fault: the task of a failed commit is not queued again.
CommitFailedDropped(c, u) ==
  /\ At(c, "commit")
  /\ cs' = [cs EXCEPT ![c].current = NoTask, ![c].next = NoTask, ![c].pc = "top"]
  /\ UNCHANGED <<task, ktask, kcpu, rr, abort>>

\* O1Schedule(): a failed commit (a stale task or agent barrier, or a CPU that
\* is not available); the task is queued again.  A displaced task is forgotten.
CommitFailed(c, u) ==
  LET t == cs[c].next
      T == [IF t = cs[c].current THEN OffCpuTask(task[t], "kRunnable", u) ELSE task[t]
              EXCEPT !.boost = TRUE]
      s == [cs[c] EXCEPT !.current = IF @ = t THEN NoTask ELSE @, !.next = NoTask, !.pc = "top"]
  IN  /\ At(c, "commit") /\ OffEveryCpu(t)
      /\ IF task[t].st # (IF t = cs[c].current THEN "kOnCpu" ELSE "kRunnable") THEN Fail("Enqueue")
         ELSE NotCommitted(c, t, EnqTask(T), EnqRq(s, t, T))

-----------------------------------------------------------------------------
AgentStep(c) ==
  \/ ReadBarrier(c) \/ Dispatch(c)
  \/ MigrateMark(c) \/ MigratePush(c) \/ MigratePing(c) \/ MigrateEnd(c)
  \/ \E boosted \in BOOLEAN : O1Schedule(c, boosted)
  \/ CommitOk(c)
  \/ \E u \in Charges : CommitFailed(c, u)
  \/ LocalYield(c)

Next == KernelStep \/ \E c \in Cpu : KTick(c) \/ AgentStep(c)

Spec == Init /\ [][Next]_vars

-----------------------------------------------------------------------------
(* Properties.                                                             *)

\* The variables have their types; in particular a slice never exceeds
\* SetRemainingTime() and a channel never holds a message from the past.
TypeOK ==
  /\ task \in [Task -> TaskRec]
  /\ \A c \in Cpu : /\ cs[c].active \in Array /\ cs[c].expired \in Array
                    /\ cs[c].preempt_curr \in BOOLEAN
  /\ KTypeOK

\* A task that can run is never forgotten: the agents have a message of it to
\* read, or have it in a run queue, in a migration or in a transaction.
NoTaskForgotten ==
  \A t \in Task : ktask[t].state = "ready" =>
    \/ ktask[t].seq > 0
    \/ \E c \in Cpu : Migrating(c, t) \/ cs[c].next = t
                      \/ InArray(cs[c].active, t) \/ InArray(cs[c].expired, t)

\* A task the agents know is in the run queue of its own CPU exactly while it is
\* kQueued, except between the assignment of kQueued and the push in Enqueue();
\* and in no run queue of another CPU.
QueuedOnItsCpu ==
  \A t \in Task, c \in Cpu :
    (InArray(cs[c].active, t) \/ InArray(cs[c].expired, t)) <=>
      /\ task[t].st = "kQueued" /\ task[t].cpu = c
      /\ ~\E d \in Cpu : Migrating(d, t) /\ cs[d].pc = "marked"

\* The comment in Migrate(): a task is visible in a run queue only after its
\* messages go to the channel of that CPU, so that it cannot get on the CPU
\* while it produces into the old channel.
ProducesToOwnAgent ==
  \A t \in Task, c \in Cpu :
    (InArray(cs[c].active, t) \/ InArray(cs[c].expired, t) \/ cs[c].next = t \/ cs[c].current = t)
      => ktask[t].assoc = c

\* Every task is where the agents and the kernel take it to be, whatever the agents of
\* other CPUs, migrations and failed commits do meanwhile: none is forgotten, queued
\* twice or queued elsewhere, and run_state is true.
TasksAreKept == NoTaskForgotten /\ QueuedOnItsCpu /\ ProducesToOwnAgent /\ OnCpuIsTrue

\* An agent that has given up its CPU while tasks wait in its run queue, and whose
\* CPU is idle, is going to be woken: by a message or a ping, by RTLA_ON_IDLE, or
\* by the ping of a migration that is still under way.
IdleCpuIsWoken ==
  \A c \in Cpu :
    (cs[c].pc = "yield" /\ kcpu[c].run = Idle /\ ~RqEmpty(cs[c])) =>
      \/ kcpu[c].wake \/ kcpu[c].idle
      \/ \E d \in Cpu : cs[d].target = c /\ cs[d].pc = "pushed"

\* The comment on the CHECK(false) in O1Rq::Erase(): a kQueued task is in one of
\* the two arrays.
QueuedIsInAnArray == abort # "Erase"
=============================================================================
