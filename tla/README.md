# ghOSt userspace with the O(1) scheduler: models and proofs

This directory holds TLA+ specifications of the code in this repository, the TLC
configurations that check them on small instances, and TLAPS proofs of what matters
most for every size of the instance. `PROJECT.json` maps every definition to the
lines it models and lists runs, mutants, hazards, findings and theorems.

## 1. The system

The kernel's ghOSt scheduling class leaves the choice of what runs to a process
in user space. One *agent* thread per CPU runs `Schedule()` in a loop: it reads
the barrier of its status word, drains the message channel of its CPU (each
message is given to a handler of the scheduler), picks a task and commits it in
a transaction, or yields the CPU. The kernel commits only if neither the agent
nor the task has got a message since the agent looked. The CPUs belong to an
*enclave*, which outlives the process: another process may take it over in place.
BPF programs may pick tasks too, from a ring that an agent fills, or on their own.

| Part | Source | Module | Proofs |
|---|---|---|---|
| O1 run queue and one CPU | `schedulers/o1/o1_scheduler.{h,cc}` | `PrioArray`, `O1Cpu`, `O1Policy` | `O1CpuProofs` |
| O1 time slices | same | `O1Slice` | |
| O1 scheduler, all CPUs | same, `lib/scheduler.h` | `O1Scheduler` on `GhostKernel` | |
| FIFO scheduler | `schedulers/fifo/per_cpu` | `FifoScheduler` on `GhostKernel` | |
| Task discovery | `lib/scheduler.h`, `lib/ghost.{h,cc}` | `Discovery` | |
| Run requests | `lib/enclave.{h,cc}` | `RunRequest` | `RunRequestProofs` |
| Enclaves | same | `Enclave` | |
| Agents: start, online, upgrade, end | `lib/agent.{h,cc}`, `lib/enclave.cc` | `AgentHandover` | `AgentHandoverProofs` |
| The loop of an agent | `fifo_scheduler.cc`, `lib/agent.cc` | `AgentLoop` | |
| Agent process and its RPC | `lib/agent.h` | `AgentProcess` on `Notification` | |
| Notification | `lib/base.{h,cc}` | `Notification`, `NotifyOnce`, `Event` | `BaseProofs` |
| Forked processes | same | `ForkedProcess` | `BaseProofs` |
| Message ring | `lib/channel.{h,cc}` | `Channel`, `MessageQueue` | |
| Priority table | `shared/prio_table.{h,cc}` | `PrioTable` | `PrioTableProofs` |
| Shared memory | `shared/shmem.{h,cc}` | `Shmem` | |
| File-descriptor server | `shared/fd_server.{h,cc}` | `FdServer` | |
| BPF tree and list | `lib/avl.bpf.h`, `lib/queue.bpf.h` | `AvlTree`, `SortedQueue`, `ArrList`, `TailQueue` | |
| Pick-next-task ring | `third_party/bpf/pntring*.h` | `PntRing` | |
| Flux with Biff | `third_party/bpf/flux_*`, `biff_flux.bpf.c` | `FluxThread` | `FluxThreadProofs`, `FluxHandlerProofs`, `FluxTheorems` |

`O1Policy`, `Event`, `MessageQueue`, `SortedQueue` and `TailQueue` are abstract: they say
what a component promises, and the detailed module is shown to implement it.

What is hard here: handlers of several agents interleave on one task while it is
migrated; a barrier is read before the channel is drained and used after it; a
commit may fail at any time; the message that a task was preempted comes after the
agent has already picked the next one; SwitchTo moves tasks behind the agent's back;
words in shared memory are loaded and exchanged by several processes, each of which
may die between two accesses.

## 2. How state and actions correspond to the code

Variables have the names of the fields they stand for, and an action is a whole
handler, or, where somebody else can see the state in between, one access to shared
memory. Constants that only admit or rule out a situation (`LateMessages`, `Overlap`,
`Busy`, `Together`, ...) are explained where they are declared and in section 4.

**PrioArray, O1Cpu.** `bitmap` is a set of indices, a bucket is a sequence. `empty()` reads
only the bitmap, `size()` only the buckets, as in the code, so that a disagreement
would show. `next` is the local of `O1Schedule()` between the pick and the result of the
commit. `Migrate` may come from another agent at any time; the other handlers run on
the agent of the CPU, hence `next = NoTask` in their guards. `TaskDead` is the blocked case
of `TaskDeparted`, `TaskSwitchto` is `TaskBlocked`. `remaining_time` stays at 0 where the code
lets it become negative; the code compares it with zero and overwrites it. How long a
task ran is a free choice from `Charges` at every clock reading; `O1Slice` has the clock.

**GhostKernel, O1Scheduler, FifoScheduler.** `task` holds the fields of the scheduler's task,
`cs` the `CpuState`s with the place of each agent: `top` (before the barrier is read),
`drain`, `associated`, `marked`, `pushed`, `pinged` (inside `Migrate()`), `commit`, `localyield`, `yield`.
Handlers are atomic except `Migrate()`, because the agent of the target CPU runs at the
same time: association, assignment, push under `mu_`, ping, and `Advance()` with `Consume()` are
five steps. Every CHECK on these paths is a branch that sets `abort` and ends the process.
The kernel is external; the header of `GhostKernel` lists what the code relies on.
Sequence numbers are relative to the last one the task object has seen, so that there
are finitely many states; `MaxPending` bounds the unhandled messages of a task.

**RunRequest.** One transaction per CPU, `txn[c]`, in memory shared with the kernel; a call of
an agent goes over a list of CPUs, one load, exchange or store at a time.
**AgentHandover.** Two generations of an agent process, with main thread, agent threads, raised
notifications, the file `agent_online` and the flag `is_online_`.
**Notification.** One atomic word per notification, one frame per thread inside a call; weak
exchanges fail for no reason and futex sleeps end for no reason.
**ForkedProcess.** The parent's thread and the signal handler that interrupts it are two program
counters; SIGCHLD is one pending bit.
**AgentProcess.** `ForkedProcess()` of the parent is four steps: fork, `signal(SIGCHLD)`, lock, insert. A child
that dies before the second leaves no signal, and one whose signal comes while the thread holds `mu_`
leaves a handler that waits for its own thread; both are `Unnoticed`.
**AgentLoop.** In any round the agent may be boosted: it then yields with what it has to run, and asks with
RTLA_ON_IDLE (`idle`) to be run again when the CPU is idle. The displaced task is preempted by the yield.
**Shmem.** A failed CHECK of the creator ends its process and closes its files (`aborted`); a client whose CHECK
fails ends as `unmapped` (mmap of no bytes) or `refused` (the header). Names are digits in base `Radix`.
**PrioTable.** The two halves of an item stand for its fields; every access is a step.

The headers of the other modules say the same for them.

## 3. What the runs check

Several components are checked in one run: the MC module EXTENDS one of them and has
the others as instances, and a variable `part`, chosen in the initial state, says which
one moves. They have no state in common, so this is a disjoint union of state spaces.

| Run | Instances | Shows |
|---|---|---|
| `o1_cpu` | 3 tasks, 2 priorities, slice 1; 2 tasks, slice 2, fair; Flux with 2 threads, 1 CPU, fair | `RunQueueOK`, `StatesAgree`, `RefinesPolicy`, `NoTaskStarves` |
| `o1_scheduler` | 2 CPUs, 2 tasks with SwitchTo, 1 pending message each | `NoCheckFails`, `TasksAreKept`, `IdleCpuIsWoken` |
| `policies` | FIFO: 2 CPUs, 2 tasks; O1: 1 CPU, 2 priorities; time slices with a steady clock and one set back | `PoliciesHold`, `PreemptedIsBoosted`, `ChargesAreSound` |
| `sync` | 3 threads, 2 notifications; 2 children, one with an exit handler | `NoLostWakeup`, `ImplementsEvent`, `EndsAreReported`, `ChildrenDieWithParent`, `WaitEnds` |
| `rpc_live` | 1 client of an agent process | `CallsReturn` |
| `agents` | 2 processes, 2 CPUs; the loop of 1 agent with 2 tasks, that do or do not depart while queued | `HandoverSafe`, `NoWorkLeftAsleep`, `TransitionsComplete` |
| `shared` | table: 2 writers, 2 items, 1 cell; shmem: 2 creators, 3 regions, 1 client; fd: 2 servers, 2 clients; ring of 4 slots | `NoTornRead`, `NoLostUpdate`, `AttachedIsInitialized`, `ServesOnce`, `ClientsReturn`, `PublishedIsTaken`, `ImplementsQueue` |
| `runtime` | 2 agents with overlapping groups of 3 CPUs; 1 agent with 3 calls; 2 makers and a guest; 2 tasks discovered; 2 RPC clients; rings of 1 and 2 slots | `OwnedIsMine`, `TransactionsAreExact`, `MakerHasItsOwn`, `TakenOverExactly`, `OwnAnswer`, `RingIsSound` |
| `runtime_live` | 2 agents with one group; 2 makers and a destroyer; 1 task discovered; a ring with 1 slot | `EveryCallReturns`, `TasksBecomeKnown`, `ErrorsAreReaped` |
| `structures` | trees of 12 keys, and of 5 nodes with 2 keys, of height 3 and 2; 2 lists of 4 elements; Flux with 2 threads, 2 CPUs | `TreesAreSound`, `TreeIsSortedQueue`, `ListsAreTailQ`, `ThreadsAreKept`, `LoadIsKept` |
| `late_message_associate` | 2 CPUs, 1 task, late messages | violation (section 4) |
| `discovered_nice` | 1 task | violation (section 4) |

Every property has a mutant in `PROJECT.json`: a plausible slip in one definition after
which TLC finds the property violated. They are the operators called *seeded fault*.

**Bounds.** Three tasks over two buckets and two arrays give every combination of "alone in
a bucket", "two in a bucket", "both arrays in use"; slices of one or two units make the
exact zero reachable. Two CPUs and two tasks let one agent migrate a task while the other
one runs, and a SwitchTo chain cross CPUs; besides the one message of `MaxPending` a task may
get its TASK_PREEMPT, so that two messages of one task are queued. One cell and two writers
overflow the stream of the priority table; `SeqMod` 8 lets counts wrap only beyond the updates
made. A ring of 4 slots with indices modulo 8 wraps, and length 7 with `LenMod` 8 is the length
that the rounding in 16 bits would turn into none. Twelve keys are the least tree that a
deletion rotates on two levels; five nodes do not fit a tree of height 2, so that the bound on the
height, and the orphans beyond it, are met. With `Radix` 2 the name of the second of three regions
begins that of the third, as 1 and 10 do in the program: creators abort and clients get another
region than they named, and the properties of `shared` hold nevertheless. A pick-next-task ring of one slot is contended for and used
again. Symmetry is used over tasks, clients, threads and CPUs, in runs without liveness.

**Fairness.** Weak fairness of every process that is inside a call: the scheduler of the kernel
runs it. Strong fairness only for a `compare_exchange_weak` that is retried (it does not fail
for ever), for the reaping by an agent that comes round to its scan again and again, and in
`o1_cpu` for ticks, for a commit tried again and again (also in `agents`: the higher class does not keep
the CPU for ever, so the agent is not boosted in every round), and for the TASK_PREEMPT of a
preempted task. `Quietens` adds that new tasks and nice changes of queued tasks end:
`TaskPriorityChanged()` of an expired task puts it into the active array with a full slice, and
a new task starts with one, so that an endless flow of them starves lower priorities; the run
fails without it. `WaitingThreadsRun` of Flux asks the same of changes that make a latch fail.

## 4. Where the code and what is said of it disagree

Two runs end in a violation and have an entry under "findings":

* `late_message_associate`: `Migrate()` CHECKs `AssociateTask()`; the comment in `TaskRunnable()` says
  that no message can follow a wakeup before the task is on a CPU, but the handlers of
  departures and nice changes expect exactly that.
* `discovered_nice`: `DiscoverTasks()` makes a TASK_NEW whose `nice` nobody writes, and
  `O1Scheduler::TaskNew()` computes the bucket from it.

The others are recorded here only. Each is a property of its module that TLC finds violated.
Where a constant is given, the passing runs rule the situation out by it and say what holds
otherwise. Where none is given, the situation is part of the passing runs, whose properties
are those that hold in spite of it.

| Code | What is said | Property, with |
|---|---|---|
| `scheduler.h:86`: `Advance()` runs after the handler gave the task to another agent | "all events have been processed in-order" (`:78`) | `EventsInOrder`, `LateMessages = TRUE` |
| `o1_scheduler.cc:458`: kQueued before `mu_` is taken | "kQueued but in neither array is a bug" (`:531`) | `QueuedIsInAnArray`, `LateMessages = TRUE` |
| `o1_scheduler.h:88`: a deque per priority | README: priorities are not distinguished | `OneQueuePerArray` (O1Cpu) |
| `o1_scheduler.cc:346`: a recommit restarts the clock without a charge | `o1_scheduler.h:74`: the time of the last update | `ChargedWhatItRan`, `MaxRecommits = 1` |
| `o1_scheduler.cc:33`: charges are differences of the wall clock | a slice is 10 ms (`o1_scheduler.h:50`) | `NeverOverfull`, `SetBack = 1` |
| `agent.cc:41`: WaitForOldAgent returns while the old process starts | "gone or in the act of dying" (`:45`) | `OldIsDying`, `Overlap = TRUE` |
| `fifo_scheduler.cc:395`: the agent may sleep finished and empty | `agent.h:53`: it "will wake to observe" | `TerminateReturns`, `Departures = TRUE`; `TerminateReturnsOrSleeps` holds |
| `agent.h:638`: the pointer is cleared before `IsOnline` | `enclave.cc:694`: "must see IsOnline == false" | `HandlerHasAgent`, `CallersFinish = FALSE` |
| `base.cc:468`: fork before `signal(SIGCHLD)` | `base.h:369`: "the parent exits with the same error" | `ChildDeathIsNoticed`; `CallsReturn` (AgentProcess) without its `~Unnoticed` |
| `base.cc:412`: one waitpid per signal | `base.cc:465`: the signal allows the parent to handle it | `SignalledDeathIsNoticed` |
| `base.cc:375`: the handler takes a mutex its thread may hold | same | `HandlerCanLock` |
| `base.cc:412`: the handler reaps exit(0) too | `base.h:372`: a wait "will catch the normal exit(0)" | `WaitCatchesNormalExit` |
| `enclave.cc:786`: Submit returns before the commit | "guarantees a commit-barrier" (`:783`) | `NoCheckFails`, `AwaitCommit = FALSE` |
| `enclave.cc:188`: an enclave is opened by number, not by what was made | "We are creating a new enclave" (`:417`) | `MakerHasItsOwn`, `DestroyAll = TRUE` |
| `shmem.cc:146`: the file has no bytes before ftruncate | `:121`: not before `MarkReady()` | `ConnectionSucceeds` |
| `shmem.cc:171`: the version is never stored | `shmem.h:42` | `ConnectionSucceeds`, `Version = 1` |
| `shmem.cc:196`: names are compared as prefixes | `:102`: unique suffixes | `CreationSucceeds`, `ConnectsToNamed` |
| `fd_server.cc:315`: test and increment in two steps | `fd_server.h:121`: "Will limit the number" | `ThreadLimit`, `Together = TRUE` |
| `avl.bpf.h:246`: the bound excludes the last element | `:243`: it can be looked up | `NodesReachable`, `ArrSize = Cardinality(Id)` |
| `queue.bpf.h:194`: concat with an empty list loses the tail | `:22`: "the same as TAILQ" | `StepIsTailQ`, `EmptyConcat = TRUE` |
| `biff_flux.bpf.c:376`: a departure inside a chain is not counted | `:108`: nr tasks running + runnable | `LoadIsExact`, `ChainDeparts = TRUE` |

`Discovery` ends in GHOST_ERROR or a CHECK with `Busy`, `EarlyLeavers` or `Migrates` (scheduler.h:293 and
:256): the code assumes few changes during a scan. `EarlyReturn` is the TODO of flux_api.bpf.c:563.
The first two, and `late_message_associate`, need a message in the window of a first migration,
in either scheduler; whether the kernel sends one is not decided by this repository.

## 5. What is proved

The theorems hold for every value of the constants that satisfies the named assumptions.
Each safety theorem goes the same way: an inductive invariant `IInv`, checked by TLC on a small
instance first; `Init => IInv`; `IInv /\ [Next]_vars => IInv'`, one step per action; `IInv` implies
the property. What an update of a record does is a lemma per kind of update (`Moves`, `Becomes`,
`Ends`, ...), so that the actions are compared by fields.

**O1CpuProofs** (`RunQueueConsistent`, `TaskStatesAgree`, `TypeCorrect`; any tasks, priorities, slice
and charges; assumes a bucket for every priority, a positive slice, `NoTask` is no task). `RqInv` says of each
array that it is well formed (bit set iff bucket not empty, buckets injective), and of the
pair that a task is in exactly one bucket of exactly one array iff it is kQueued, the bucket
being that of its priority. None of this is inductive alone: `Erase` needs the bucket to be the
right one, `Enqueue` needs the task to be in no bucket, `Dequeue` needs the bitmap to be exact to
find a task at all. The first part of the module has what push, pop and erase do to an array in
terms of `Holds(a, t, p)`.

**ImplementsPolicy** (O1CpuProofs): `Spec => RefinesPolicy`. The mapping reads the two sets of
`O1Policy` off the buckets, and takes `next` for the picked task unless it is the current one.
Enqueues are `Add`, `Erase` is `Remove`, a nice change of a queued task erases and pushes and is
`Renice`, a pop with or without the swap is `Pick` (`DequeuePicks`: the lowest bit is the best
priority of the epoch), a commit is `Run`; ticks, blocks and refused commits are not seen.

**BaseProofs**, notifications (`NeverLost`, `ChecksHold`, `ImplementsEventSafely`; any threads and
notifications, each notified once). The invariant adds that a sleeper has announced itself in the
word, and what a notifier that is past its exchange has seen (`NotifierView`). Forked processes
(`EndsAreReportedTruly`; any children, any of them with handlers): two reapers race; `ReaperAlone`
says that what each of them holds after its waitpid is a child the other one does not have, ended
abnormally and not yet handled.

**PrioTableProofs** (`ReadsAreWhole`, `UpdatesAreKept`; any writers, items, cells, retries; assumes
fewer than `SeqMod / 2` updates: a reader that sleeps through 2^31 updates of an item cannot tell).
A count is odd exactly while one writer is inside the item; it never wraps, since every two
increments were paid for by an update (`Budget`, an induction over the cardinality of the writers
that are still to enter); what the agent has read is what the item holds as long as the
count is still the even one it began with.

**AgentHandoverProofs** (`TakeoverIsSafe`; any CPUs; hypothesis `~Overlap`, that the new process starts
after the old one is online, without which the code is not safe, see section 4). The core is
`NewInv`: an agent of the new process that has got past the wait, or has an edge of the file to
read, implies that the old process has closed the file and is leaving, for good.

**RunRequestProofs** (`OwnershipIsALock`, `TransactionsAreExactly`; any agents and groups of CPUs, whether
or not callers await commits; assumes, as its module says, that an agent which opens transactions
without owning them has those CPUs for itself). `Mine` says it of every point of the loops over
a group: of the CPUs done while it opens, of those to do while it releases; `OwnersInGroups` keeps
the unowned opens apart.

**FluxTheorems** (`FluxKeepsThreads`, `FluxKeepsLoad`; any finite sets of threads and CPUs, any bound of the
loop of `flux_pnt()`). The hypothesis `~EarlyReturn` rules out the TODO of flux_api.bpf.c:563, a thread that
comes back before Flux has forgotten it; the second theorem also assumes `~ChainDeparts`, without which
the count is wrong (section 4). `ThreadsInv` is inductive for the first: what the kernel runs and
latches is on one CPU (`KernelHas`); the queue holds exactly the enqueued threads, each once
(`LineIsExact`); a runnable thread is enqueued or pending, and if it is pending a PNT is asking for it
(`EnqueuedOrPending`); at most one PNT asks for a thread, and its request is fresh only while the thread
waits (`OnePntAsks`); `refcnt` is the stream's reference plus one per PNT, and the thread is known while it
is positive (`RefsAreExact`). The core is that only the asking PNT or the end of the thread takes
`pending_latch` away, so that a second PNT cannot find the thread in the queue. `LoadInv` adds for the second
theorem what a message still to be handled says of its thread (`MsgIsTrue`, `OnRqIsTrue`), and `CountIsExact`:
`nr_cpus_wanted` is the number of threads for which a CPU has been requested, a woken thread counting
only after its handler and a blocked one until then. `FluxThreadProofs` and
`FluxHandlerProofs` have one lemma per message handler and `FluxTheorems` one per step of PNT; the lemmas
state the facts on cardinalities as `CountingLaws`, which `FluxTheorems` derives from the library (`CountingHolds`), so that the theorems do not assume them.

**Only model-checked, and why.** Liveness (all `~>` properties, and the liveness of `Event`):
fairness and ENABLED are out of the prover's reach. `AvlTree`, `Channel` and `MessageQueue`'s refinement use
recursive operators, and what they compute needs induction over data. `O1Scheduler`, `FifoScheduler`,
`Discovery`, `AgentProcess`, `AgentLoop`, `PntRing`, `ArrList`, `Shmem`, `FdServer`, `Enclave` and `O1Slice` have safety
properties within reach of the prover that are not proved yet.

## 6. Not modelled

* The kernel: external, as far as the code relies on it.
* The hierarchy of Flux schedulers that hands CPUs down (every CPU is Biff's), `biff.bpf.c` and
  `cfs.bpf.c`, which no program of the repository loads.
* Topology, status-word and system-call wrappers, flag parsing, logging, RPC serialisation, the
  tracing tools and the installer: no state that changes, or input and output only.
* Generated headers. About nine tenths of the lines below `src/` are two dumps of kernel types
  (`vmlinux_ghost.h`, `vmlinux_ghost_5_11.h`), which nothing models; the share of mapped lines is
  small for this reason.

`PROJECT.json` lists every part with its status.
