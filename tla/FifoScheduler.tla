---------------------------- MODULE FifoScheduler ----------------------------
(***************************************************************************)
(* The per-CPU FIFO scheduler (schedulers/fifo/per_cpu/fifo_scheduler.cc)  *)
(* with its agents, on the kernel and the code of lib/ in GhostKernel.     *)
(* A run queue is one deque: boosted tasks enter it at the front.          *)
(***************************************************************************)
EXTENDS GhostKernel, FiniteSets

LOCAL INSTANCE SequencesExt

TaskRec == [st : {"free", "kBlocked", "kRunnable", "kQueued", "kOnCpu"},
            cpu : Cpu \cup {NoCpu}, preempted : BOOLEAN, boost : BOOLEAN]

NewTask == [st |-> "kBlocked", cpu |-> NoCpu, preempted |-> FALSE, boost |-> FALSE]

Init ==
  /\ task = [t \in Task |-> [NewTask EXCEPT !.st = "free"]]
  /\ cs = [c \in Cpu |-> [rq |-> << >>, current |-> NoTask,
                          pc |-> "top", next |-> NoTask, target |-> NoCpu]]
  /\ KInit

-----------------------------------------------------------------------------
(* FifoRq.                                                                 *)

\* Enqueue(): the FifoTask and the CpuState it leaves.
EnqTask(T) == [T EXCEPT !.st = "kQueued"]

EnqRq(s, t, T) == [s EXCEPT !.rq = IF T.boost THEN <<t>> \o @ ELSE Append(@, t)]

\* Erase(): whether it finds t, and the CpuState it leaves.  The back is looked
\* at first, then the queue from its front.
InRq(s, t) == \E i \in 1 .. Len(s.rq) : s.rq[i] = t

EraseRq(s, t) == [s EXCEPT !.rq = IF Last(@) = t THEN Front(@) ELSE RemoveFirst(@, t)]

-----------------------------------------------------------------------------
(* The handlers.                                                           *)

\* TaskOffCpu() does not fail its CHECKs.
OffCpuOk(T, t, m) ==
  /\ T.cpu # NoCpu
  /\ \/ T.st = "kOnCpu" /\ cs[T.cpu].current = t
     \/ T.st = "kBlocked" /\ m.flag

\* TaskOffCpu(): all CpuStates.
OffCpuCs(t) == IF task[t].st = "kOnCpu" THEN [cs EXCEPT ![task[t].cpu].current = NoTask] ELSE cs

\* TaskBlocked() and TaskSwitchto().
TaskBlocked(c, m) ==
  IF OffCpuOk(task[m.task], m.task, m)
    THEN Done(c, m, [task[m.task] EXCEPT !.st = "kBlocked"], OffCpuCs(m.task), SwitchtoPing(m))
    ELSE Fail("TaskOffCpu")

\* Seeded fault: a preempted task is not boosted.
TaskStoppedUnboosted(c, m) ==
  LET T == [task[m.task] EXCEPT !.preempted = @ \/ m.type = "TASK_PREEMPT"]
  IN  IF OffCpuOk(T, m.task, m)
        THEN Done(c, m, EnqTask(T), [OffCpuCs(m.task) EXCEPT ![T.cpu] = EnqRq(@, m.task, T)], SwitchtoPing(m))
        ELSE Fail("TaskOffCpu")

\* TaskYield(), and TaskPreempted(), which boosts the task.
TaskStopped(c, m) ==
  LET T == [task[m.task] EXCEPT !.preempted = @ \/ m.type = "TASK_PREEMPT",
                                !.boost = @ \/ m.type = "TASK_PREEMPT"]
  IN  IF OffCpuOk(T, m.task, m)
        THEN Done(c, m, EnqTask(T), [OffCpuCs(m.task) EXCEPT ![T.cpu] = EnqRq(@, m.task, T)], SwitchtoPing(m))
        ELSE Fail("TaskOffCpu")

\* TaskRunnable() of a task that has a CPU.
TaskRunnable(c, m) ==
  LET T == [task[m.task] EXCEPT !.boost = ~m.flag]
  IN  IF T.st = "kBlocked"
        THEN Done(c, m, EnqTask(T), [cs EXCEPT ![T.cpu] = EnqRq(@, m.task, T)], kcpu)
        ELSE Fail("TaskRunnable")

\* TaskDeparted(); FreeTask() instead of Advance().
TaskDeparted(c, m) ==
  LET t == m.task
      T == task[t]
  IN  IF T.st = "kOnCpu" \/ m.flag
        THEN IF OffCpuOk(T, t, m) THEN Freed(c, m, NewTask, OffCpuCs(t), SwitchtoPing(m)) ELSE Fail("TaskOffCpu")
      ELSE IF T.st = "kQueued"
        THEN IF T.cpu # NoCpu /\ InRq(cs[T.cpu], t)
               THEN Freed(c, m, NewTask, [cs EXCEPT ![T.cpu] = EraseRq(@, t)], kcpu) ELSE Fail("Erase")
      ELSE IF T.st = "kBlocked" THEN Freed(c, m, NewTask, cs, kcpu) ELSE Fail("TaskDeparted")

\* TaskDead().
TaskDead(c, m) ==
  IF task[m.task].st = "kBlocked" THEN Freed(c, m, NewTask, cs, kcpu) ELSE Fail("TaskDead")

\* TaskPriorityChanged() is the empty one of BasicDispatchScheduler.
TaskPriorityChanged(c, m) == Done(c, m, task[m.task], cs, kcpu)

\* AssignCpu() and the beginning of Migrate(), up to the kernel's answer to
\* AssociateTask().
MigrateBegin(c, m, T, fresh) ==
  IF T.st # "kRunnable" \/ T.cpu # NoCpu THEN Fail("Migrate")
  ELSE Associate(c, m, T, CpuOrder[rr], fresh)

\* TaskNew(); it sets task->seqnum itself, before the migration.
TaskNew(c, m) ==
  IF m.flag THEN MigrateBegin(c, m, [NewTask EXCEPT !.st = "kRunnable"], TRUE)
            ELSE Done(c, m, NewTask, cs, kcpu)

\* TaskRunnable() of a task that has no CPU yet.
TaskRunnableFirst(c, m) ==
  IF task[m.task].st = "kBlocked"
    THEN MigrateBegin(c, m, [task[m.task] EXCEPT !.st = "kRunnable", !.boost = ~m.flag], FALSE)
    ELSE Fail("TaskRunnable")

\* Migrate() sets task->cpu; Enqueue() makes the task kQueued before it has mu_.
MigrateMark(c) ==
  LET t == Head(kcpu[c].chan).task
  IN  /\ At(c, "associated")
      /\ IF task[t].st # "kRunnable" THEN Fail("Enqueue")
         ELSE /\ task' = [task EXCEPT ![t].cpu = cs[c].target, ![t].st = "kQueued"]
              /\ cs' = [cs EXCEPT ![c].pc = "marked"]
              /\ UNCHANGED <<ktask, kcpu, rr, abort>>

\* The rest of Enqueue(), under mu_ of the target CPU.
MigratePush(c) ==
  LET t == Head(kcpu[c].chan).task
      d == cs[c].target
  IN  /\ At(c, "marked")
      /\ cs' = [cs EXCEPT ![c].pc = "pushed", ![d].rq = EnqRq(cs[d], t, task[t]).rq]
      /\ UNCHANGED <<task, ktask, kcpu, rr, abort>>

-----------------------------------------------------------------------------
(* Schedule().                                                             *)

\* Peek() and DispatchMessage().
Dispatch(c) ==
  /\ At(c, "drain") /\ kcpu[c].chan # << >>
  /\ LET m == Head(kcpu[c].chan)
     IN  IF ~Known(m) THEN Ignored(c) ELSE
         \/ m.type = "TASK_NEW" /\ TaskNew(c, m)
         \/ m.type = "TASK_WAKEUP" /\ task[m.task].cpu = NoCpu /\ TaskRunnableFirst(c, m)
         \/ m.type = "TASK_WAKEUP" /\ task[m.task].cpu # NoCpu /\ TaskRunnable(c, m)
         \/ m.type \in {"TASK_BLOCKED", "TASK_SWITCHTO"} /\ TaskBlocked(c, m)
         \/ m.type \in {"TASK_YIELD", "TASK_PREEMPT"} /\ TaskStopped(c, m)
         \/ m.type = "TASK_PRIORITY_CHANGED" /\ TaskPriorityChanged(c, m)
         \/ m.type = "TASK_DEPARTED" /\ TaskDeparted(c, m)
         \/ m.type = "TASK_DEAD" /\ TaskDead(c, m)

\* FifoSchedule() up to the commit or the yield.
FifoSchedule(c, boosted) ==
  LET s == cs[c]
  IN  /\ At(c, "drain") /\ kcpu[c].chan = << >>
      /\ \/ /\ ~boosted /\ s.current = NoTask /\ s.rq # << >>
            /\ IF task[Head(s.rq)].st # "kQueued" THEN Fail("Dequeue")
               ELSE /\ task' = [task EXCEPT ![Head(s.rq)].st = "kRunnable"]
                    /\ cs' = [cs EXCEPT ![c].rq = Tail(@), ![c].next = Head(s.rq), ![c].pc = "commit"]
                    /\ UNCHANGED <<ktask, kcpu, rr, abort>>
         \/ /\ ~boosted /\ ~(s.current = NoTask /\ s.rq # << >>)
            /\ cs' = [cs EXCEPT ![c].next = s.current,
                                ![c].pc = IF s.current = NoTask THEN "localyield" ELSE "commit"]
            /\ UNCHANGED <<task, ktask, kcpu, rr, abort>>
         \/ /\ boosted
            /\ cs' = [cs EXCEPT ![c].pc = "localyield"]
            /\ kcpu' = [kcpu EXCEPT ![c].idle = s.current # NoTask \/ s.rq # << >>]
            /\ UNCHANGED <<task, ktask, rr, abort>>

\* TaskOnCpu(): the FifoTask and the CpuState after the commit of t on c.
OnCpuTask(c, t) == [task[t] EXCEPT !.st = "kOnCpu", !.cpu = c, !.preempted = FALSE, !.boost = FALSE]
OnCpuCs(c, t) == [cs[c] EXCEPT !.current = t, !.next = NoTask, !.pc = "yield"]

\* FifoSchedule(): the commit, once the task is off every CPU.
CommitOk(c) ==
  LET t == cs[c].next
  IN  At(c, "commit") /\ OffEveryCpu(t) /\ Fresh(c, t) /\ Committed(c, t, OnCpuTask(c, t), OnCpuCs(c, t))

\* Seeded fault: the task of a failed commit is not queued again.
CommitFailedDropped(c) ==
  /\ At(c, "commit")
  /\ cs' = [cs EXCEPT ![c].current = NoTask, ![c].next = NoTask, ![c].pc = "top"]
  /\ UNCHANGED <<task, ktask, kcpu, rr, abort>>

\* FifoSchedule(): a failed commit; the task goes to the front of the queue.
CommitFailed(c) ==
  LET t == cs[c].next
      T == [task[t] EXCEPT !.boost = TRUE]
      s == [cs[c] EXCEPT !.current = IF @ = t THEN NoTask ELSE @, !.next = NoTask, !.pc = "top"]
  IN  /\ At(c, "commit") /\ OffEveryCpu(t)
      /\ IF task[t].st # (IF t = cs[c].current THEN "kOnCpu" ELSE "kRunnable") THEN Fail("Enqueue")
         ELSE NotCommitted(c, t, EnqTask(T), EnqRq(s, t, T))

-----------------------------------------------------------------------------
AgentStep(c) ==
  \/ ReadBarrier(c) \/ Dispatch(c)
  \/ MigrateMark(c) \/ MigratePush(c) \/ MigratePing(c) \/ MigrateEnd(c)
  \/ \E boosted \in BOOLEAN : FifoSchedule(c, boosted)
  \/ CommitOk(c) \/ CommitFailed(c) \/ LocalYield(c)

Next == KernelStep \/ \E c \in Cpu : AgentStep(c)

Spec == Init /\ [][Next]_vars

-----------------------------------------------------------------------------
(* Properties; NoCheckFails and OnCpuIsTrue are in GhostKernel.            *)

\* The variables have their types.
TypeOK ==
  /\ task \in [Task -> TaskRec]
  /\ \A c \in Cpu : cs[c].rq \in Seq(Task)
  /\ KTypeOK

\* A task that can run is never forgotten: the agents have a message of it to
\* read, or have it in a run queue, in a migration or in a transaction.
NoTaskForgotten ==
  \A t \in Task : ktask[t].state = "ready" =>
    \/ ktask[t].seq > 0
    \/ \E c \in Cpu : Migrating(c, t) \/ cs[c].next = t \/ InRq(cs[c], t)

\* A task is in the deque of its own CPU, once, exactly while it is kQueued and not
\* between the assignment of kQueued and the push in Enqueue(); and in no other.
QueuedOnItsCpu ==
  \A t \in Task, c \in Cpu :
    Cardinality({i \in 1 .. Len(cs[c].rq) : cs[c].rq[i] = t}) =
      IF /\ task[t].st = "kQueued" /\ task[t].cpu = c
         /\ ~\E d \in Cpu : Migrating(d, t) /\ cs[d].pc = "marked"
        THEN 1 ELSE 0

\* The comment in Migrate(): a task is visible in a run queue only after its
\* messages go to the channel of that CPU.
ProducesToOwnAgent ==
  \A t \in Task, c \in Cpu :
    (InRq(cs[c], t) \/ cs[c].next = t \/ cs[c].current = t) => ktask[t].assoc = c

\* Every task is where the agents and the kernel take it to be.
TasksAreKept == NoTaskForgotten /\ QueuedOnItsCpu /\ ProducesToOwnAgent /\ OnCpuIsTrue

\* An agent that has given up its CPU while tasks wait in its run queue, and whose
\* CPU is idle, is going to be woken: by a message or a ping, by RTLA_ON_IDLE, or
\* by the ping of a migration that is still under way.
IdleCpuIsWoken ==
  \A c \in Cpu :
    (cs[c].pc = "yield" /\ kcpu[c].run = Idle /\ cs[c].rq # << >>) =>
      \/ kcpu[c].wake \/ kcpu[c].idle
      \/ \E d \in Cpu : cs[d].target = c /\ cs[d].pc = "pushed"

\* A task whose last execution was preempted stays boosted until it runs again,
\* whatever commits fail in between, and is never blocked or on a CPU: the flags
\* of TaskPreempted() are cleared together, by TaskOnCpu() only.
PreemptedIsBoosted ==
  \A t \in Task : task[t].preempted => task[t].boost /\ task[t].st \in {"kQueued", "kRunnable"}

=============================================================================
