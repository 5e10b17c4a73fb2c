----------------------------- MODULE GhostKernel -----------------------------
(***************************************************************************)
(* What the per-CPU schedulers (O1Scheduler, FifoScheduler) share: the     *)
(* kernel with its tasks, CPUs and message channels, and the code of lib/  *)
(* through which an agent meets it: barriers, dispatch, association,       *)
(* commit, yield and ping.                                                 *)
(*                                                                         *)
(* One agent per CPU runs Schedule() in a loop: it reads its barrier,      *)
(* drains its channel (one message per step, the migration of a task to    *)
(* another CPU in five steps, because the agent of that CPU runs           *)
(* meanwhile), picks a task, and commits or yields.  The kernel is not     *)
(* part of the repository; its actions (K...) are what the code relies on: *)
(*   - a message of a task goes to the channel the task is associated      *)
(*     with, and increments the task's and the agent's sequence number;    *)
(*   - a commit succeeds only if neither number has moved since the agent  *)
(*     read it (docs/o1_barrier_sync_fix.md);                              *)
(*   - an agent that wakes up displaces the task of its CPU; the task gets *)
(*     a TASK_PREEMPT when the agent then gives the CPU to anything else   *)
(*     (the comment in O1Schedule()), and none after the agent was told    *)
(*     that its commit of that very task failed (the schedulers queue the  *)
(*     task themselves then);                                              *)
(*   - a Ping() or a message makes the agent run Schedule() once more.     *)
(*                                                                         *)
(* Sequence numbers of a task are counted from the last one its Task has   *)
(* seen: task->seqnum is always 0, ktask[t].seq is the number of messages  *)
(* posted since, and every message carries its number relative to that.    *)
(***************************************************************************)
EXTENDS Integers, Sequences

CONSTANTS
  Task,          \* the tasks the scheduler may meet
  Cpu,           \* the CPUs of the enclave
  CpuOrder,      \* the same CPUs as a sequence: the order of the CpuList
  NoTask, NoCpu, Agent, Idle,
  Nice,          \* the nice values of the tasks
  SwitchTask,    \* the tasks that use SwitchTo
  MaxPending,    \* bound: unprocessed messages of one task
  LateMessages   \* whether the kernel may message a task that is being migrated

ASSUME CpuAssumption == /\ CpuOrder \in Seq(Cpu) /\ Len(CpuOrder) > 0
                        /\ Cpu = {CpuOrder[i] : i \in 1 .. Len(CpuOrder)}

VARIABLES
  task,    \* per task: the scheduler's Task object (st = "free" when there is none)
  cs,      \* per CPU: its CpuState, and the position and locals of its agent
  ktask,   \* per task: what the kernel knows
  kcpu,    \* per CPU: what the kernel knows, and the CPU's channel
  rr,      \* AssignCpu()'s static iterator
  abort    \* which CHECK (or GHOST_ERROR) ended the process; "none" if none did

vars == <<task, cs, ktask, kcpu, rr, abort>>

DefaultCpu == CpuOrder[1]

KInit ==
  /\ ktask = [t \in Task |-> [state |-> "out", seq |-> 0, assoc |-> DefaultCpu, switchto |-> FALSE]]
  /\ kcpu = [c \in Cpu |-> [run |-> Agent, displaced |-> NoTask, stale |-> FALSE,
                            wake |-> FALSE, idle |-> FALSE, chan |-> << >>]]
  /\ rr = 1
  /\ abort = "none"

\* A CHECK fails, or GHOST_ERROR is called: the process is gone.
Fail(check) ==
  /\ abort' = check
  /\ UNCHANGED <<task, cs, ktask, kcpu, rr>>

-----------------------------------------------------------------------------
(* The kernel side of a message, a ping and the sequence numbers.          *)

\* The kernel posts a message of t to the channel t is associated with.
Posted(k, t, type, flag, nice, cpu) ==
  LET a == ktask[t].assoc
      m == [type |-> type, task |-> t, seq |-> ktask[t].seq + 1,
            flag |-> flag, nice |-> nice, cpu |-> cpu]
  IN  [k EXCEPT ![a].chan = Append(@, m), ![a].stale = TRUE, ![a].wake = TRUE]

\* Enclave::Ping(): the agent of c will run Schedule() once more.
Pinged(k, c) == [k EXCEPT ![c].wake = TRUE]

\* Sequence numbers of t restart at the message number n its Task has seen;
\* 0 stands for every number that is not newer.
Rebased(chan, t, n) ==
  [i \in 1 .. Len(chan) |-> IF chan[i].task # t THEN chan[i]
                            ELSE [chan[i] EXCEPT !.seq = IF @ > n THEN @ - n ELSE 0]]

RebasedChans(k, t, n) == [c \in Cpu |-> [k[c] EXCEPT !.chan = Rebased(@, t, n)]]

\* Channel::Consume() of the message the agent of c has dispatched.
Consumed(k, c) == [k EXCEPT ![c].chan = Tail(@)]

\* The agent of c is migrating t.
Migrating(c, t) == cs[c].target # NoCpu /\ Head(kcpu[c].chan).task = t

\* A task that has been given a CPU for good, or that is not runnable: while
\* LateMessages is FALSE the kernel sends nothing for a task that is on its way
\* from a wakeup to its first run queue.
Settled(t) ==
  \/ LateMessages
  \/ ktask[t].state = "blocked"
  \/ task[t].cpu # NoCpu /\ ~\E c \in Cpu : Migrating(c, t)

\* Bound: the kernel does not run ahead of the agents for ever.
Room(t) == ktask[t].seq < MaxPending

-----------------------------------------------------------------------------
(* The kernel.  ktask[t].state is "out" of the enclave, "blocked", "ready" *)
(* to run, "running", or "displaced" by the agent of its CPU.              *)

\* A thread enters the enclave.  Messages of a thread that comes back are held
\* back until its old status word is freed, that is until the Task is gone.
KNew(t, runnable, nice) ==
  /\ ktask[t].state = "out" /\ task[t].st = "free"
  /\ \A c \in Cpu : \A i \in 1 .. Len(kcpu[c].chan) : kcpu[c].chan[i].task # t
  /\ ktask' = [ktask EXCEPT ![t] = [state |-> IF runnable THEN "ready" ELSE "blocked",
                                    seq |-> 1, assoc |-> DefaultCpu, switchto |-> FALSE]]
  /\ kcpu' = [kcpu EXCEPT ![DefaultCpu].chan = Append(@, [type |-> "TASK_NEW", task |-> t, seq |-> 1,
                                                flag |-> runnable, nice |-> nice, cpu |-> NoCpu]),
                          ![DefaultCpu].stale = TRUE, ![DefaultCpu].wake = TRUE]
  /\ UNCHANGED <<task, cs, rr, abort>>

\* A blocked task wakes up.
KWakeup(t, deferrable) ==
  /\ ktask[t].state = "blocked" /\ Room(t)
  /\ ktask' = [ktask EXCEPT ![t].state = "ready", ![t].seq = @ + 1]
  /\ kcpu' = Posted(kcpu, t, "TASK_WAKEUP", deferrable, 0, NoCpu)
  /\ UNCHANGED <<task, cs, rr, abort>>

\* The task on c stops: it blocks, yields, or is preempted by another class.
\* The last task of a SwitchTo chain may still be on the CPU when its message,
\* which goes to the channel of another CPU, is handled.
KStop(c, type) ==
  LET t == kcpu[c].run
      s == ktask[t].switchto
  IN  /\ t \in Task /\ ktask[t].state = "running" /\ Room(t)
      /\ ktask' = [ktask EXCEPT ![t].state = IF type = "TASK_BLOCKED" THEN "blocked" ELSE "ready",
                                ![t].seq = @ + 1, ![t].switchto = FALSE]
      /\ kcpu' = Posted([kcpu EXCEPT ![c].run = IF s THEN t ELSE Idle], t, type, s, 0, c)
      /\ UNCHANGED <<task, cs, rr, abort>>

\* ... and is off the CPU at last.
KOffCpu(c) ==
  /\ kcpu[c].run \in Task /\ ktask[kcpu[c].run].state # "running"
  /\ kcpu' = [kcpu EXCEPT ![c].run = Idle]
  /\ UNCHANGED <<task, cs, ktask, rr, abort>>

\* The task on c hands the CPU to the blocked task u, without the agent.  Only
\* the first task of a chain is reported.
KSwitchTo(c, u) ==
  LET t == kcpu[c].run
      s == ktask[t].switchto
  IN  /\ t \in SwitchTask /\ ktask[t].state = "running" /\ Room(t)
      /\ u \in SwitchTask /\ ktask[u].state = "blocked" /\ task[u].cpu # NoCpu
      /\ \A d \in Cpu : kcpu[d].run # u
      /\ ktask' = [ktask EXCEPT ![t].state = "blocked", ![t].switchto = FALSE,
                                ![t].seq = IF s THEN @ ELSE @ + 1,
                                ![u].state = "running", ![u].switchto = TRUE]
      /\ kcpu' = LET k == [kcpu EXCEPT ![c].run = u]
                 IN  IF s THEN k ELSE Posted(k, t, "TASK_SWITCHTO", FALSE, 0, c)
      /\ UNCHANGED <<task, cs, rr, abort>>

\* The CPU t occupies, or from which it was displaced.
Frees(k, t) == [c \in Cpu |-> [k[c] EXCEPT
                  !.run = IF @ = t THEN Idle ELSE @,
                  !.displaced = IF @ = t THEN NoTask ELSE @]]

\* A task leaves the enclave, in whatever state it is.
KDeparted(t) ==
  /\ ktask[t].state # "out" /\ Room(t) /\ Settled(t)
  /\ LET on == {c \in Cpu : t \in {kcpu[c].run, kcpu[c].displaced}}
         c == IF on = {} THEN NoCpu ELSE CHOOSE d \in on : TRUE
     IN  kcpu' = Posted(Frees(kcpu, t), t, "TASK_DEPARTED", ktask[t].switchto, 0, c)
  /\ ktask' = [ktask EXCEPT ![t].state = "out", ![t].seq = @ + 1, ![t].switchto = FALSE]
  /\ UNCHANGED <<task, cs, rr, abort>>

\* A task dies; it has blocked before.
KDead(t) ==
  /\ ktask[t].state = "blocked" /\ Room(t) /\ \A c \in Cpu : kcpu[c].run # t
  /\ kcpu' = Posted(kcpu, t, "TASK_DEAD", FALSE, 0, NoCpu)
  /\ ktask' = [ktask EXCEPT ![t].state = "out", ![t].seq = @ + 1]
  /\ UNCHANGED <<task, cs, rr, abort>>

\* Someone changes the nice value of a task, in whatever state it is.
KPriorityChanged(t, nice) ==
  /\ ktask[t].state # "out" /\ Room(t) /\ Settled(t)
  /\ kcpu' = Posted(kcpu, t, "TASK_PRIORITY_CHANGED", FALSE, nice, NoCpu)
  /\ ktask' = [ktask EXCEPT ![t].seq = @ + 1]
  /\ UNCHANGED <<task, cs, rr, abort>>

\* The timer ticks on c; bound: no tick while one is unprocessed.
KTick(c) ==
  /\ kcpu[c].run \in Task
  /\ \A i \in 1 .. Len(kcpu[c].chan) : kcpu[c].chan[i].type # "CPU_TICK"
  /\ kcpu' = [kcpu EXCEPT ![c].chan = Append(@, [type |-> "CPU_TICK", task |-> NoTask, seq |-> 0,
                                       flag |-> FALSE, nice |-> 0, cpu |-> c]),
                          ![c].stale = TRUE, ![c].wake = TRUE]
  /\ UNCHANGED <<task, cs, ktask, rr, abort>>

\* The agent of c gets its CPU, because of a message, a ping, or an idle CPU it
\* asked to be told of (RTLA_ON_IDLE).  A running task is displaced.
KWakeAgent(c) ==
  LET t == kcpu[c].run
  IN  /\ cs[c].pc = "yield"
      /\ kcpu[c].wake \/ (t = Idle /\ kcpu[c].idle)
      /\ t \in Task => ktask[t].state = "running"
      /\ kcpu' = [kcpu EXCEPT ![c].run = Agent, ![c].wake = FALSE, ![c].idle = FALSE,
                              ![c].displaced = IF t \in Task THEN t ELSE NoTask]
      /\ ktask' = [u \in Task |-> IF u = t THEN [ktask[u] EXCEPT !.state = "displaced"] ELSE ktask[u]]
      /\ cs' = [cs EXCEPT ![c].pc = "top"]
      /\ UNCHANGED <<task, rr, abort>>

\* Everything the kernel does for every scheduler; only O1 asks for ticks.
KernelStep ==
  \/ \E t \in Task, r \in BOOLEAN, n \in Nice : KNew(t, r, n)
  \/ \E t \in Task, d \in BOOLEAN : KWakeup(t, d)
  \/ \E c \in Cpu, type \in {"TASK_BLOCKED", "TASK_YIELD", "TASK_PREEMPT"} : KStop(c, type)
  \/ \E c \in Cpu : KOffCpu(c)
  \/ \E c \in Cpu, u \in Task : KSwitchTo(c, u)
  \/ \E t \in Task : KDeparted(t)
  \/ \E t \in Task : KDead(t)
  \/ \E t \in Task, n \in Nice : KPriorityChanged(t, n)
  \/ \E c \in Cpu : KWakeAgent(c)

-----------------------------------------------------------------------------
(* The agents: what lib/ does for every scheduler.  c is the CPU of the    *)
(* agent, m the message at the head of its channel.                        *)

\* The process is alive, and the agent of c is at the given place.
At(c, place) == abort = "none" /\ cs[c].pc = place

\* Schedule() reads the agent's barrier before it looks at its messages.
ReadBarrier(c) ==
  /\ At(c, "top")
  /\ cs' = [cs EXCEPT ![c].pc = "drain"]
  /\ kcpu' = [kcpu EXCEPT ![c].stale = FALSE]
  /\ UNCHANGED <<task, ktask, rr, abort>>

\* DispatchMessage() finds the task of m, or for TASK_NEW finds none; else it
\* returns, and the message is consumed.
Known(m) == m.task = NoTask \/ ((m.type = "TASK_NEW") <=> (task[m.task].st = "free"))

Ignored(c) ==
  /\ kcpu' = Consumed(kcpu, c)
  /\ UNCHANGED <<task, cs, ktask, rr, abort>>

\* DispatchMessage() after a handler that left T and s: Task::Advance(), whose
\* CHECK_GT wants a newer sequence number, and Consume().  k is the kernel's
\* state after the pings of the handler.
Done(c, m, T, s, k) ==
  IF m.seq > 0
    THEN /\ task' = [task EXCEPT ![m.task] = T]
         /\ cs' = s
         /\ ktask' = [ktask EXCEPT ![m.task].seq = @ - m.seq]
         /\ kcpu' = RebasedChans(Consumed(k, c), m.task, m.seq)
         /\ UNCHANGED <<rr, abort>>
    ELSE Fail("Advance")

\* DispatchMessage() after a handler that called FreeTask(): no Advance().
Freed(c, m, T, s, k) ==
  /\ task' = [task EXCEPT ![m.task] = [T EXCEPT !.st = "free"]]
  /\ cs' = s
  /\ ktask' = [ktask EXCEPT ![m.task].seq = 0]
  /\ kcpu' = Consumed(k, c)
  /\ UNCHANGED <<rr, abort>>

\* The ping a handler sends to the CPU on which a SwitchTo chain ended.
SwitchtoPing(m) == IF m.flag THEN Pinged(kcpu, m.cpu) ELSE kcpu

\* AssociateTask() with CPU d, for a task whose handler has left T: the kernel
\* refuses a stale sequence number, and the CHECK fails.  TaskNew() (fresh) has
\* already set task->seqnum.
Associate(c, m, T, d, fresh) ==
  IF ktask[m.task].seq # m.seq THEN Fail("AssociateTask")
  ELSE /\ task' = [task EXCEPT ![m.task] = T]
       /\ cs' = [cs EXCEPT ![c].pc = "associated", ![c].target = d]
       /\ ktask' = [ktask EXCEPT ![m.task].assoc = d, ![m.task].seq = IF fresh THEN @ - m.seq ELSE @]
       /\ kcpu' = IF fresh THEN RebasedChans(kcpu, m.task, m.seq) ELSE kcpu
       /\ rr' = IF rr = Len(CpuOrder) THEN 1 ELSE rr + 1
       /\ UNCHANGED abort

\* Seeded fault: no ping.
MigrateUnpinged(c) ==
  /\ At(c, "pushed")
  /\ cs' = [cs EXCEPT ![c].pc = "pinged"]
  /\ UNCHANGED <<task, ktask, kcpu, rr, abort>>

\* Migrate() pings the agent of the target CPU.
MigratePing(c) ==
  /\ At(c, "pushed")
  /\ cs' = [cs EXCEPT ![c].pc = "pinged"]
  /\ kcpu' = Pinged(kcpu, cs[c].target)
  /\ UNCHANGED <<task, ktask, rr, abort>>

\* DispatchMessage() after the handler: Advance() for TASK_WAKEUP; Consume().
MigrateEnd(c) ==
  LET m == Head(kcpu[c].chan)
      s == [cs EXCEPT ![c].pc = "drain", ![c].target = NoCpu]
  IN  /\ At(c, "pinged")
      /\ IF m.type = "TASK_NEW"
           THEN /\ cs' = s
                /\ kcpu' = Consumed(kcpu, c)
                /\ UNCHANGED <<task, ktask, rr, abort>>
           ELSE IF task[m.task].st = "free" THEN Fail("Advance")
           ELSE Done(c, m, task[m.task], s, kcpu)

\* The agent leaves its CPU to x: a task it had displaced is now preempted.
Leaves(c, x) ==
  LET d == kcpu[c].displaced
      k == [kcpu EXCEPT ![c].run = x, ![c].displaced = NoTask]
  IN  IF d \in Task \ {x}
        THEN /\ kcpu' = Posted(k, d, "TASK_PREEMPT", ktask[d].switchto, 0, c)
             /\ ktask' = [u \in Task |->
                  IF u = d THEN [ktask[d] EXCEPT !.state = "ready", !.seq = @ + 1, !.switchto = FALSE]
                  ELSE IF u = x THEN [ktask[x] EXCEPT !.state = "running"] ELSE ktask[u]]
        ELSE /\ kcpu' = k
             /\ ktask' = [u \in Task |-> IF u = x THEN [ktask[x] EXCEPT !.state = "running"] ELSE ktask[u]]

\* The commit can begin: the picked task is off every CPU.
OffEveryCpu(t) == \A d \in Cpu : kcpu[d].run # t

\* Both barriers of the transaction of c for t are fresh.
Fresh(c, t) == ktask[t].seq = 0 /\ ~kcpu[c].stale

\* A successful commit of t, after which the agent has T and s.  A transaction
\* with fresh barriers is for a task that can run here, or the process ends with
\* the "unexpected" transaction state of CompleteRunRequest().
Committed(c, t, T, s) ==
  IF ktask[t].state = "ready" \/ kcpu[c].displaced = t
    THEN /\ Leaves(c, t)
         /\ task' = [task EXCEPT ![t] = T]
         /\ cs' = [cs EXCEPT ![c] = s]
         /\ UNCHANGED <<rr, abort>>
    ELSE Fail("Commit")

\* A failed commit of t, after which the agent has T and s.  The kernel forgets
\* that it had displaced the task.
NotCommitted(c, t, T, s) ==
  /\ task' = [task EXCEPT ![t] = T]
  /\ cs' = [cs EXCEPT ![c] = s]
  /\ IF kcpu[c].displaced = t
       THEN /\ kcpu' = [kcpu EXCEPT ![c].displaced = NoTask]
            /\ ktask' = [ktask EXCEPT ![t].state = "ready"]
       ELSE UNCHANGED <<kcpu, ktask>>
  /\ UNCHANGED <<rr, abort>>

\* LocalYield(): the kernel refuses a stale barrier, and keeps the agent if it
\* was pinged.
LocalYield(c) ==
  /\ At(c, "localyield")
  /\ \/ /\ kcpu[c].stale \/ kcpu[c].wake
        /\ cs' = [cs EXCEPT ![c].pc = "top"]
        /\ kcpu' = [kcpu EXCEPT ![c].wake = FALSE, ![c].idle = FALSE]
        /\ UNCHANGED ktask
     \/ /\ ~kcpu[c].stale /\ ~kcpu[c].wake
        /\ cs' = [cs EXCEPT ![c].pc = "yield"]
        /\ Leaves(c, Idle)
  /\ UNCHANGED <<task, rr, abort>>

-----------------------------------------------------------------------------
Message == [type : {"TASK_NEW", "TASK_WAKEUP", "TASK_BLOCKED", "TASK_YIELD", "TASK_PREEMPT",
                    "TASK_SWITCHTO", "TASK_DEPARTED", "TASK_DEAD", "TASK_PRIORITY_CHANGED", "CPU_TICK"},
            task : Task \cup {NoTask}, seq : 0 .. MaxPending + 1, flag : BOOLEAN,
            nice : Int, cpu : Cpu \cup {NoCpu}]

KTypeOK ==
  /\ \A c \in Cpu :
       /\ kcpu[c].run \in Task \cup {Agent, Idle} /\ kcpu[c].displaced \in Task \cup {NoTask}
       /\ {kcpu[c].stale, kcpu[c].wake, kcpu[c].idle} \subseteq BOOLEAN
       /\ kcpu[c].chan \in Seq(Message)
       /\ cs[c].current \in Task \cup {NoTask} /\ cs[c].next \in Task \cup {NoTask}
       /\ cs[c].target \in Cpu \cup {NoCpu}
       /\ cs[c].pc \in {"top", "drain", "associated", "marked", "pushed", "pinged",
                        "commit", "localyield", "yield"}
  /\ ktask \in [Task -> [state : {"out", "blocked", "ready", "running", "displaced"},
                         seq : 0 .. MaxPending + 1, assoc : Cpu, switchto : BOOLEAN]]
  /\ rr \in 1 .. Len(CpuOrder)

\* No CHECK of the handlers, of the run queue, of Migrate() or of Task::Advance()
\* fails, and no transaction ends in a state CompleteRunRequest() calls unexpected.
NoCheckFails == abort = "none"

\* A task whose messages have all been handled and that its Task object calls
\* kOnCpu is on its CPU, or was displaced from it by the agent: TaskOnCpu() and
\* TaskOffCpu() keep run_state true to the kernel, also when O1Schedule() has
\* dropped the task from cs->current and waits for its TASK_PREEMPT.
OnCpuIsTrue ==
  \A t \in Task : task[t].st = "kOnCpu" /\ ktask[t].seq = 0 =>
    /\ kcpu[task[t].cpu].run = t \/ kcpu[task[t].cpu].displaced = t
    /\ cs[task[t].cpu].current # t => kcpu[task[t].cpu].displaced = t

\* The comment in TaskRunnable(): no message of the task can follow its wakeup,
\* "so it's safe to migrate"; the CHECK of AssociateTask() in Migrate() relies on it.
SafeToMigrate ==
  abort = "AssociateTask" => Head(kcpu[DefaultCpu].chan).type # "TASK_WAKEUP"

\* The comment on Task::Advance(): the events of a task are processed in order,
\* each with a newer sequence number than the one before.
EventsInOrder == abort # "Advance"
=============================================================================
