-------------------------------- MODULE O1Cpu --------------------------------
(***************************************************************************)
(* One CPU of the O1 scheduler: its run queue (class O1Rq: an active and   *)
(* an expired PrioArray), the fields of the tasks assigned to it and its   *)
(* current task, as the handlers of schedulers/o1/o1_scheduler.cc change   *)
(* them.  One action per handler; the messages that trigger the handlers   *)
(* and the outcome of a commit are the environment's choice here (module   *)
(* O1Scheduler adds the kernel, the channels and several CPUs).            *)
(*                                                                         *)
(* Time is counted in units.  remaining_time is kept at 0 where the code   *)
(* lets it become negative: the code only compares it with zero and        *)
(* overwrites it before it is used again.                                  *)
(***************************************************************************)
EXTENDS PrioArray

CONSTANTS
  NoTask,      \* nullptr
  TimeSlice,   \* the 10 ms of SetRemainingTime(), in units
  Nice,        \* the nice values the kernel reports
  Charges      \* the lengths of the intervals between two clock readings

ASSUME SliceAssumption == TimeSlice \in Nat \ {0} /\ Charges \subseteq Nat
ASSUME NiceAssumption == Nice \subseteq Int /\ \A n \in Nice \cup {0} : 120 + n \in Prio
ASSUME NoTaskAssumption == NoTask \notin Task

VARIABLES
  active, expired,   \* O1Rq::active_, O1Rq::expired_
  current,           \* CpuState::current
  preempt_curr,      \* CpuState::preempt_curr
  next,              \* local of O1Schedule(), between pick and commit
  run_state,         \* O1Task::run_state; "free" when the CPU has no such task
  static_priority,   \* O1Task::static_priority
  prio_boost,        \* O1Task::prio_boost
  remaining_time     \* O1Task::remaining_time

rqVars   == <<active, expired>>
cpuVars  == <<current, preempt_curr, next>>
vars     == <<active, expired, current, preempt_curr, next,
              run_state, static_priority, prio_boost, remaining_time>>

RunState == {"free", "kBlocked", "kRunnable", "kQueued", "kOnCpu"}

-----------------------------------------------------------------------------

\* UpdateRemainingTime(): the time left after u more units.
Charged(r, u) == IF u >= r THEN 0 ELSE r - u

\* O1Rq::Empty(): Size() == 0 over both arrays.
RqEmpty == ArraySizeZero(active) /\ ArraySizeZero(expired)

\* Seeded fault: an expired task gets its new slice in the active array.
EnqueueNeverExpired(t, p, b, r) ==
  /\ run_state' = [run_state EXCEPT ![t] = "kQueued"]
  /\ prio_boost' = [prio_boost EXCEPT ![t] = b]
  /\ active' = Push(active, t, p, b) /\ UNCHANGED expired
  /\ remaining_time' = [remaining_time EXCEPT ![t] = IF r > 0 THEN r ELSE TimeSlice]

\* O1Rq::Enqueue() of t with priority p, boost b and time left r.
Enqueue(t, p, b, r) ==
  /\ run_state' = [run_state EXCEPT ![t] = "kQueued"]
  /\ prio_boost' = [prio_boost EXCEPT ![t] = b]
  /\ IF r > 0
       THEN /\ active' = Push(active, t, p, b)
            /\ remaining_time' = [remaining_time EXCEPT ![t] = r]
            /\ UNCHANGED expired
       ELSE /\ expired' = Push(expired, t, p, b)
            /\ remaining_time' = [remaining_time EXCEPT ![t] = TimeSlice]
            /\ UNCHANGED active

\* The array O1Rq::Dequeue() pops from: Swap() when active_ is empty.
PopArray == IF ArrayEmpty(active) THEN expired ELSE active

\* O1Rq::Dequeue(), the arrays it leaves; not called on an empty queue.
DequeueArrays ==
  /\ active' = Pop(PopArray)
  /\ expired' = IF ArrayEmpty(active) THEN active ELSE expired

\* O1Rq::Erase(): from active_ if t is in its bucket there, else from expired_.
Erase(t) ==
  LET p == static_priority[t]
  IN  \/ /\ Holds(active, t, p)
         /\ active' = EraseFrom(active, t, p)
         /\ UNCHANGED expired
      \/ /\ ~Holds(active, t, p)
         /\ Holds(expired, t, p)
         /\ expired' = EraseFrom(expired, t, p)
         /\ UNCHANGED active

\* Seeded fault: current still points to a task that went off the CPU.
CurrentKept(t) == UNCHANGED current

\* TaskOffCpu(): current is cleared only if it still is t.
ClearCurrent(t) == current' = IF current = t THEN NoTask ELSE current

-----------------------------------------------------------------------------
Init ==
  /\ active = EmptyArray
  /\ expired = EmptyArray
  /\ current = NoTask
  /\ preempt_curr = FALSE
  /\ next = NoTask
  /\ run_state = [t \in Task |-> "free"]
  /\ static_priority = [t \in Task |-> 120]
  /\ prio_boost = [t \in Task |-> FALSE]
  /\ remaining_time = [t \in Task |-> TimeSlice]

\* Migrate(): a task of TaskNew or of its first TaskRunnable gets this CPU.
Migrate(t, n, b) ==
  /\ run_state[t] = "free"
  /\ static_priority' = [static_priority EXCEPT ![t] = 120 + n]
  /\ Enqueue(t, 120 + n, b, TimeSlice)
  /\ UNCHANGED cpuVars

\* TaskRunnable() of a task that already has its CPU.
TaskRunnable(t, b) ==
  /\ run_state[t] = "kBlocked" /\ next = NoTask
  /\ Enqueue(t, static_priority[t], b, remaining_time[t])
  /\ UNCHANGED <<static_priority, cpuVars>>

\* TaskBlocked(), and TaskSwitchto(), which calls TaskOffCpu() the same way.
TaskBlocked(t, u) ==
  /\ run_state[t] = "kOnCpu" /\ next = NoTask
  /\ run_state' = [run_state EXCEPT ![t] = "kBlocked"]
  /\ remaining_time' = [remaining_time EXCEPT ![t] = Charged(@, u)]
  /\ ClearCurrent(t)
  /\ UNCHANGED <<rqVars, preempt_curr, next, static_priority, prio_boost>>

\* TaskYield(): off the CPU and back into the queue, its boost unchanged.
TaskYield(t, u) ==
  /\ run_state[t] = "kOnCpu" /\ next = NoTask
  /\ Enqueue(t, static_priority[t], prio_boost[t], Charged(remaining_time[t], u))
  /\ ClearCurrent(t)
  /\ UNCHANGED <<preempt_curr, next, static_priority>>

\* TaskPreempted(): as TaskYield, boosted.
TaskPreempted(t, u) ==
  /\ run_state[t] = "kOnCpu" /\ next = NoTask
  /\ Enqueue(t, static_priority[t], TRUE, Charged(remaining_time[t], u))
  /\ ClearCurrent(t)
  /\ UNCHANGED <<preempt_curr, next, static_priority>>

\* TaskPriorityChanged() of a queued task: erase, new priority, enqueue.
TaskRequeued(t, n) ==
  LET p == static_priority[t]
      inActive == Holds(active, t, p)
      a == IF inActive THEN EraseFrom(active, t, p) ELSE active
      e == IF inActive THEN expired ELSE EraseFrom(expired, t, p)
      toActive == remaining_time[t] > 0
  IN  /\ run_state[t] = "kQueued" /\ next = NoTask
      /\ inActive \/ Holds(expired, t, p)
      /\ static_priority' = [static_priority EXCEPT ![t] = 120 + n]
      /\ active' = IF toActive THEN Push(a, t, 120 + n, prio_boost[t]) ELSE a
      /\ expired' = IF toActive THEN e ELSE Push(e, t, 120 + n, prio_boost[t])
      /\ remaining_time' = [remaining_time EXCEPT ![t] = IF toActive THEN @ ELSE TimeSlice]
      /\ UNCHANGED <<run_state, prio_boost, cpuVars>>

\* Seeded fault: a queued task gets its new priority in place.
RenicedInPlace(t, n) ==
  /\ run_state[t] # "free" /\ next = NoTask
  /\ static_priority' = [static_priority EXCEPT ![t] = 120 + n]
  /\ UNCHANGED <<rqVars, cpuVars, run_state, prio_boost, remaining_time>>

\* TaskPriorityChanged() of a task that is not queued: the field only.
TaskPriorityChanged(t, n) ==
  /\ run_state[t] \in {"kBlocked", "kOnCpu"} /\ next = NoTask
  /\ static_priority' = [static_priority EXCEPT ![t] = 120 + n]
  /\ UNCHANGED <<rqVars, cpuVars, run_state, prio_boost, remaining_time>>

\* TaskDeparted(): on cpu, queued or blocked; the task is freed.
TaskDeparted(t) ==
  /\ next = NoTask
  /\ \/ /\ run_state[t] = "kOnCpu"
        /\ ClearCurrent(t)
        /\ UNCHANGED rqVars
     \/ /\ run_state[t] = "kQueued"
        /\ Erase(t)
        /\ UNCHANGED current
     \/ /\ run_state[t] = "kBlocked"
        /\ UNCHANGED <<rqVars, current>>
  /\ run_state' = [run_state EXCEPT ![t] = "free"]
  /\ UNCHANGED <<preempt_curr, next, static_priority, prio_boost, remaining_time>>

\* CpuTick() and CheckPreemptTick(): charge the current task.
CpuTick(u) ==
  /\ current # NoTask /\ next = NoTask
  /\ remaining_time' = [remaining_time EXCEPT ![current] = Charged(@, u)]
  /\ preempt_curr' = (preempt_curr \/ remaining_time'[current] = 0)
  /\ UNCHANGED <<rqVars, current, next, run_state, static_priority, prio_boost>>

\* O1Schedule() up to the commit.  A current task whose slice ended is dropped
\* if others wait, and keeps running on a new slice if none does.  Without a
\* current task the best queued one is taken.  A prio-boosted agent picks none.
O1Schedule(boosted) ==
  LET over == preempt_curr /\ current # NoTask
      cur  == IF over /\ ~RqEmpty THEN NoTask ELSE current
      pop  == ~boosted /\ cur = NoTask /\ ~(ArrayEmpty(active) /\ ArrayEmpty(expired))
  IN  /\ next = NoTask
      /\ preempt_curr' = FALSE
      /\ current' = cur
      /\ remaining_time' = IF over /\ RqEmpty
                             THEN [remaining_time EXCEPT ![current] = TimeSlice]
                             ELSE remaining_time
      /\ IF pop THEN /\ DequeueArrays
                     /\ next' = PopTask(PopArray)
                     /\ run_state' = [run_state EXCEPT ![PopTask(PopArray)] = "kRunnable"]
                ELSE /\ next' = IF boosted THEN NoTask ELSE cur
                     /\ UNCHANGED <<rqVars, run_state>>
      /\ UNCHANGED <<static_priority, prio_boost>>

\* O1Schedule() after a successful commit: TaskOnCpu().
CommitOk ==
  /\ next # NoTask
  /\ current' = next
  /\ run_state' = [run_state EXCEPT ![next] = "kOnCpu"]
  /\ prio_boost' = [prio_boost EXCEPT ![next] = FALSE]
  /\ next' = NoTask
  /\ UNCHANGED <<rqVars, preempt_curr, static_priority, remaining_time>>

\* O1Schedule() after a failed commit: a current task goes off the CPU (and is
\* charged), and the task is queued again, boosted.
CommitFailed(u) ==
  /\ next # NoTask
  /\ Enqueue(next, static_priority[next], TRUE,
             IF next = current THEN Charged(remaining_time[next], u)
                               ELSE remaining_time[next])
  /\ ClearCurrent(next)
  /\ next' = NoTask
  /\ UNCHANGED <<preempt_curr, static_priority>>

Next ==
  \/ \E t \in Task, n \in Nice, b \in BOOLEAN : Migrate(t, n, b)
  \/ \E t \in Task, b \in BOOLEAN : TaskRunnable(t, b)
  \/ \E t \in Task, u \in Charges : TaskBlocked(t, u)
  \/ \E t \in Task, u \in Charges : TaskYield(t, u)
  \/ \E t \in Task, u \in Charges : TaskPreempted(t, u)
  \/ \E t \in Task, n \in Nice : TaskRequeued(t, n)
  \/ \E t \in Task, n \in Nice : TaskPriorityChanged(t, n)
  \/ \E t \in Task : TaskDeparted(t)
  \/ \E u \in Charges : CpuTick(u)
  \/ \E boosted \in BOOLEAN : O1Schedule(boosted)
  \/ CommitOk
  \/ \E u \in Charges : CommitFailed(u)

Spec == Init /\ [][Next]_vars

\* Fairness: the agent's loop calls O1Schedule() again and again with its boost
\* gone; the commit of a task that is tried again and again succeeds in the end
\* (an agent whose barrier was stale drains its messages and retries); ticks
\* keep arriving, and a preempted task gets its TASK_PREEMPT.
Fairness ==
  /\ WF_vars(O1Schedule(FALSE))
  /\ SF_vars(\E u \in Charges : CpuTick(u))
  /\ \A t \in Task : /\ SF_vars(next = t /\ CommitOk)
                     /\ SF_vars(t # current /\ \E u \in Charges : TaskPreempted(t, u))

\* New tasks and nice changes of queued tasks end: each of them grants a slice,
\* so an unending flow of them may keep a lower priority waiting for ever.
Quietens ==
  <>[][~ \E t \in Task, n \in Nice : TaskRequeued(t, n) \/ \E b \in BOOLEAN : Migrate(t, n, b)]_vars

-----------------------------------------------------------------------------
\* Every variable has its type; in particular no charge makes a slice negative
\* or longer than SetRemainingTime(), and no priority is without a bucket.
TypeOK ==
  /\ active \in Array /\ expired \in Array
  /\ current \in Task \cup {NoTask}
  /\ next \in Task \cup {NoTask}
  /\ preempt_curr \in BOOLEAN
  /\ run_state \in [Task -> RunState]
  /\ static_priority \in [Task -> Prio]
  /\ prio_boost \in [Task -> BOOLEAN]
  /\ remaining_time \in [Task -> 0 .. TimeSlice]

\* A bit of the bitmap is set exactly when its bucket holds a task: empty() and
\* pop(), which read the bitmap, agree with size() and erase(), which read the
\* buckets, after any sequence of pushes, pops, erases and swaps.
BitmapExact ==
  \A a \in {active, expired} : \A i \in Idx : i \in a.bitmap <=> a.queues[i] # << >>

\* No task is twice in the run queue: not twice in a bucket, and not in both
\* arrays (Enqueue() is never called for a task that is already queued).
NoDuplicates ==
  /\ \A a \in {active, expired} : \A i \in Idx : IsInjective(a.queues[i])
  /\ \A t \in Task : ~(InArray(active, t) /\ InArray(expired, t))

\* A task in the bucket of priority p is kQueued and has priority p, so that
\* erase(), which looks only into the bucket of the current priority, finds it.
InOwnBucket ==
  \A a \in {active, expired}, t \in Task, p \in Prio :
    Holds(a, t, p) => run_state[t] = "kQueued" /\ static_priority[t] = p

\* A kQueued task is in the run queue: the CHECK(false) that ends O1Rq::Erase()
\* cannot be reached, and no queued task is lost.
QueuedIsInRq ==
  \A t \in Task : run_state[t] = "kQueued" =>
    \/ Holds(active, t, static_priority[t])
    \/ Holds(expired, t, static_priority[t])

\* current is on the CPU, and kRunnable is transitory (the comment on the enum):
\* only the task O1Schedule() has dequeued and not yet committed is in it.
StatesAgree ==
  /\ current # NoTask => run_state[current] = "kOnCpu"
  /\ next # NoTask => next = current \/ (current = NoTask /\ run_state[next] = "kRunnable")
  /\ \A t \in Task : run_state[t] = "kRunnable" => t = next

\* A task is queued, and taken from the queue, only with time left to run.
QueuedHasTime ==
  \A t \in Task : run_state[t] \in {"kQueued", "kRunnable"} => remaining_time[t] > 0

\* The run queue is consistent: bitmap, buckets, run_state and static_priority agree, so
\* that push(), pop(), erase() and swap() do what their callers expect, and nobody is
\* picked without time.
RunQueueOK == BitmapExact /\ NoDuplicates /\ InOwnBucket /\ QueuedIsInRq /\ QueuedHasTime

\* The sets of the abstract policy, read off the buckets, and the task it has picked.
Running == {t \in Task : InArray(active, t)}
Waiting == {t \in Task : InArray(expired, t)}
Picked == IF next = current THEN NoTask ELSE next

Policy == INSTANCE O1Policy WITH
  running <- Running, waiting <- Waiting, prio <- static_priority, picked <- Picked

\* The buckets, the bitmap and the swap of O1Rq implement the abstract policy:
\* best priority of the running epoch first, and no expired task before the
\* active ones have all been taken.
RefinesPolicy == Policy!Spec

\* The overview in README.md: the scheduler does not distinguish priorities; a
\* CPU has one active and one expired queue, served round robin.
OneQueuePerArray ==
  \A a \in {active, expired} : \A i, j \in Idx :
    a.queues[i] # << >> /\ a.queues[j] # << >> => i = j

\* No starvation: a queued task, of whatever priority, gets onto the CPU or
\* leaves, although better tasks keep blocking and waking up.  Their slices are
\* not renewed by a wakeup, so that they expire and the epoch ends.
NoStarvation ==
  \A t \in Task : run_state[t] = "kQueued" ~> run_state[t] \in {"kOnCpu", "free"}
=============================================================================
