------------------------------ MODULE Discovery ------------------------------
(***************************************************************************)
(* An agent process takes over an enclave whose previous one has gone:     *)
(* Enclave::Ready() makes the new default channel, DiscoverTasks() scans   *)
(* the status words for the tasks that are already there, and then the     *)
(* messages of the default channel are dispatched (lib/scheduler.h,        *)
(* lib/ghost.h, lib/ghost.cc).  Threads enter, wake up, depart and come    *)
(* back all the while, but none of them runs: nobody schedules it yet.     *)
(*                                                                         *)
(* The kernel is external.  What the code relies on:                       *)
(*   - a message of a task goes to the queue of the task, and increments   *)
(*     the barrier of its status word; the queue of the old process is     *)
(*     read by nobody;                                                     *)
(*   - AssociateTask() compares the barrier it is given with the one of    *)
(*     the task's live status word;                                        *)
(*   - a task that left and came back has a new word with another barrier; *)
(*     its messages are gated until the old word is freed                  *)
(*     (GHOST_SW_TASK_MSG_GATED), that is, TASK_NEW is not sent yet.       *)
(* A word that is not a task's (GHOST_SW_TASK_IS_AGENT) is never looked at *)
(* and has no slot here.                                                   *)
(***************************************************************************)
EXTENDS Naturals, Sequences

CONSTANTS
  Task, None,
  Capacity,      \* status words in the region
  MaxBarrier,    \* bound: messages of one task
  Junk,          \* what the uninitialized nice of a synthesized TASK_NEW may be
  Migrates,      \* TaskNew() associates a runnable task with the channel of its CPU
  Reniced,       \* the tasks whose priority a third party changes
  Busy,          \* a task may get more than one message while its word is visited
  EarlyLeavers   \* a thread that came after SetEnclaveDefault() may leave during the scan

Slot == 1 .. Capacity

\* What is assumed of the constants.
DiscoveryAssumption == Capacity \in Nat \ {0} /\ MaxBarrier \in Nat /\ Junk \subseteq Nat

VARIABLES
  sw,      \* the status words; gtid = None: not GHOST_SW_F_INUSE
  kt,      \* per task: in the enclave or not, its live word, its queue, its last barrier
  dflt,    \* the enclave's default queue: of the "old" process or the "new" one
  chan,    \* the default channel of the new process
  obj,     \* the allocator's task_map_: per task its Task object, or None
  ag,      \* the thread that runs Ready(): its position and the locals of the scan
  abort    \* which CHECK or GHOST_ERROR ended the process; "none" if none did

vars == <<sw, kt, dflt, chan, obj, ag, abort>>
kernel == <<kt, dflt, chan>>

FreeWord == [gtid |-> None, barrier |-> 0, canfree |-> FALSE, runnable |-> FALSE]

Init ==
  /\ sw = [i \in Slot |-> FreeWord]
  /\ kt = [t \in Task |-> [in |-> FALSE, word |-> 0, queue |-> "old", last |-> 0, sent |-> FALSE]]
  /\ dflt = "old" /\ chan = << >>
  /\ obj = [t \in Task |-> None]
  /\ ag = [pc |-> "start", i |-> 1, barrier |-> 0, canfree |-> FALSE, runnable |-> FALSE, estale |-> FALSE]
  /\ abort = "none"

Scanning == ag.pc \notin {"start", "ready", "dead"}
Word(t) == sw[kt[t].word]

\* "We shouldn't have too many state changes to the task while we are discovering."
Quiescent(t) == Busy \/ ~(Scanning /\ sw[ag.i].gtid = t /\ ag.estale)

-----------------------------------------------------------------------------
(* The kernel.                                                             *)

\* A message of t is produced: into the queue of t, with the next barrier.
Produce(t, type, words) ==
  LET b == kt[t].last + 1
      m == [type |-> type, task |-> t, seq |-> b, runnable |-> words[kt[t].word].runnable, word |-> kt[t].word]
  IN  /\ b <= MaxBarrier
      /\ sw' = [words EXCEPT ![kt[t].word].barrier = b]
      /\ chan' = IF kt[t].queue = "new" THEN Append(chan, m) ELSE chan

\* A thread enters ghOSt, or comes back: it gets a word and the default queue.
KEnter(t, i, runnable) ==
  /\ ~kt[t].in /\ sw[i].gtid = None /\ kt[t].last < MaxBarrier /\ Quiescent(t)
  /\ sw' = [sw EXCEPT ![i] = [gtid |-> t, barrier |-> kt[t].last + 1, canfree |-> FALSE, runnable |-> runnable]]
  /\ kt' = [kt EXCEPT ![t] = [in |-> TRUE, word |-> i, queue |-> dflt, last |-> @.last + 1, sent |-> FALSE]]
  /\ UNCHANGED <<dflt, chan, obj, ag, abort>>

\* Its TASK_NEW: once it is off the CPU, and its earlier word has been freed.
KNew(t) ==
  /\ kt[t].in /\ ~kt[t].sent /\ Quiescent(t)
  /\ \A i \in Slot \ {kt[t].word} : sw[i].gtid # t
  /\ Produce(t, "TASK_NEW", sw)
  /\ kt' = [kt EXCEPT ![t].sent = TRUE, ![t].last = @ + 1]
  /\ UNCHANGED <<dflt, obj, ag, abort>>

\* A blocked task wakes up.  It cannot block again before it has run.
KWakeup(t) ==
  /\ kt[t].in /\ kt[t].sent /\ ~Word(t).runnable /\ Quiescent(t)
  /\ Produce(t, "TASK_WAKEUP", [sw EXCEPT ![kt[t].word].runnable = TRUE])
  /\ kt' = [kt EXCEPT ![t].last = @ + 1]
  /\ UNCHANGED <<dflt, obj, ag, abort>>

\* A third party moves the task to another scheduling class.
KDepart(t) ==
  /\ kt[t].in /\ kt[t].sent
  /\ EarlyLeavers \/ ~(Scanning /\ \E i \in 1 .. Len(chan) : chan[i].task = t /\ chan[i].type = "TASK_NEW")
  /\ Produce(t, "TASK_DEPARTED", [sw EXCEPT ![kt[t].word].canfree = TRUE])
  /\ kt' = [kt EXCEPT ![t].in = FALSE, ![t].last = @ + 1]
  /\ UNCHANGED <<dflt, obj, ag, abort>>

\* A third party changes its priority or its affinity.
KRenice(t) ==
  /\ t \in Reniced /\ kt[t].in /\ kt[t].sent /\ Quiescent(t)
  /\ Produce(t, "TASK_PRIORITY_CHANGED", sw)
  /\ kt' = [kt EXCEPT ![t].last = @ + 1]
  /\ UNCHANGED <<dflt, obj, ag, abort>>

\* GHOST_IOC_ASSOC_QUEUE: the errno, or the status flags.
Answer(t, b) ==
  IF ~kt[t].in THEN "ENOENT" ELSE IF Word(t).barrier # b THEN "ESTALE"
  ELSE IF kt[t].queue = "new" \/ ~kt[t].sent THEN "skip" ELSE "ok"

-----------------------------------------------------------------------------
(* Task objects and the allocator.                                         *)

Fail(check) ==
  /\ abort' = check
  /\ ag' = [ag EXCEPT !.pc = "dead"]
  /\ UNCHANGED <<sw, kt, dflt, chan, obj>>

\* LocalStatusWord::Free(): the kernel may use the word again.
FreeSw(i) == [sw EXCEPT ![i] = FreeWord]

\* Migrate() of a runnable task; its CHECK fails when the barrier has moved.
MigrateOk(t, seq, runnable) == Migrates /\ runnable => kt[t].in /\ Word(t).barrier = seq

\* GetTask() and TaskNew(): the Task object that TASK_NEW makes.
NewTask(seq, runnable, i, nice) == [seq |-> seq, runnable |-> runnable, word |-> i, prio |-> 120 + nice]

-----------------------------------------------------------------------------
(* Enclave::Ready() and DiscoverTasks().                                   *)

\* SetEnclaveDefault(), before the scan.
SetEnclaveDefault ==
  /\ ag.pc = "start"
  /\ dflt' = "new"
  /\ ag' = [ag EXCEPT !.pc = "next"]
  /\ UNCHANGED <<sw, kt, chan, obj, abort>>

\* The next word of the region, or the end of the scan.
NextWord(a) == [a EXCEPT !.i = IF @ < Capacity THEN @ + 1 ELSE 1, !.estale = FALSE,
                         !.pc = IF a.i < Capacity THEN "next" ELSE "ready"]

ForEachTaskStatusWord ==
  /\ ag.pc = "next"
  /\ ag' = IF sw[ag.i].gtid = None THEN NextWord(ag) ELSE [ag EXCEPT !.pc = "barrier"]
  /\ UNCHANGED <<sw, kt, dflt, chan, obj, abort>>

ReadBarrier ==
  /\ ag.pc = "barrier"
  /\ ag' = [ag EXCEPT !.pc = "flags", !.barrier = sw[ag.i].barrier]
  /\ UNCHANGED <<sw, kt, dflt, chan, obj, abort>>

ReadFlags ==
  /\ ag.pc = "flags"
  /\ ag' = [ag EXCEPT !.pc = "associate", !.canfree = sw[ag.i].canfree, !.runnable = sw[ag.i].runnable]
  /\ UNCHANGED <<sw, kt, dflt, chan, obj, abort>>

\* Seeded fault: the flags that AssociateTask() returns are not looked at.
AssociatedAlways ==
  LET t == sw[ag.i].gtid
  IN  /\ ag.pc = "associate" /\ Answer(t, ag.barrier) \in {"ok", "skip"}
      /\ kt' = [kt EXCEPT ![t].queue = "new"]
      /\ ag' = [ag EXCEPT !.pc = "new"]
      /\ UNCHANGED <<sw, dflt, chan, obj, abort>>

\* AssociateTask() succeeds.  A task whose messages all come to the default
\* channel anyway is left to DispatchMessage().
Associated ==
  LET t == sw[ag.i].gtid
      a == Answer(t, ag.barrier)
  IN  /\ ag.pc = "associate" /\ a \in {"ok", "skip"}
      /\ kt' = [kt EXCEPT ![t].queue = "new"]
      /\ ag' = IF a = "ok" THEN [ag EXCEPT !.pc = "new"] ELSE NextWord(ag)
      /\ UNCHANGED <<sw, dflt, chan, obj, abort>>

\* ENOENT: a Task object is made only to be freed, together with the word.
AssociateEnoent ==
  LET t == sw[ag.i].gtid
  IN  /\ ag.pc = "associate" /\ Answer(t, ag.barrier) = "ENOENT"
      /\ IF obj[t] # None THEN Fail("Already had task")
         ELSE IF ~sw[ag.i].canfree THEN Fail("can_free")
         ELSE /\ sw' = FreeSw(ag.i)
              /\ ag' = NextWord(ag)
              /\ UNCHANGED <<kt, dflt, chan, obj, abort>>

\* Seeded fault: the word of an earlier incarnation is skipped.
SkipOrphan ==
  /\ ag.pc = "associate" /\ Answer(sw[ag.i].gtid, ag.barrier) = "ESTALE"
  /\ ag' = IF ag.canfree THEN NextWord(ag) ELSE [ag EXCEPT !.pc = "barrier", !.estale = TRUE]
  /\ UNCHANGED <<sw, kt, dflt, chan, obj, abort>>

\* ESTALE: the word of an earlier incarnation is freed; otherwise one retry.
AssociateEstale ==
  /\ ag.pc = "associate" /\ Answer(sw[ag.i].gtid, ag.barrier) = "ESTALE"
  /\ IF ag.canfree THEN /\ sw' = FreeSw(ag.i)
                        /\ ag' = NextWord(ag)
                        /\ UNCHANGED <<kt, dflt, chan, obj, abort>>
     ELSE IF ag.estale THEN Fail("repeated ESTALE")
     ELSE /\ ag' = [ag EXCEPT !.pc = "barrier", !.estale = TRUE]
          /\ UNCHANGED <<sw, kt, dflt, chan, obj, abort>>

\* The synthesized TASK_NEW, which does not say the nice value, goes to TaskNew().
TaskDiscovered(nice) ==
  LET t == sw[ag.i].gtid
  IN  /\ ag.pc = "new"
      /\ IF obj[t] # None THEN Fail("Already had task")
         ELSE IF ~MigrateOk(t, ag.barrier, ag.runnable) THEN Fail("Migrate")
         ELSE /\ obj' = [obj EXCEPT ![t] = NewTask(ag.barrier, ag.runnable, ag.i, nice)]
              /\ ag' = NextWord(ag)
              /\ UNCHANGED <<sw, kt, dflt, chan, abort>>

-----------------------------------------------------------------------------
(* DispatchMessage(), once the agents are running.                         *)

\* The handlers that leave a Task object, and Advance().
Handle(m, T) ==
  /\ IF m.type # "TASK_NEW" /\ m.seq <= obj[m.task].seq THEN Fail("Advance")
     ELSE /\ obj' = [obj EXCEPT ![m.task] = [T EXCEPT !.seq = m.seq]]
          /\ chan' = Tail(chan)
          /\ UNCHANGED <<sw, kt, dflt, ag, abort>>

Ignore == chan' = Tail(chan) /\ UNCHANGED <<sw, kt, dflt, obj, ag, abort>>

TaskNew(m) ==
  IF obj[m.task] # None THEN Ignore
  ELSE IF ~MigrateOk(m.task, m.seq, m.runnable) THEN Fail("Migrate")
  ELSE Handle(m, NewTask(m.seq, m.runnable, m.word, 0))

TaskRunnable(m) ==
  LET T == obj[m.task]
  IN  IF T.runnable THEN Fail("TaskRunnable")
      ELSE IF ~MigrateOk(m.task, m.seq, TRUE) THEN Fail("Migrate")
      ELSE Handle(m, [T EXCEPT !.runnable = TRUE])

\* TaskDeparted() ends with FreeTask(), whose Free() wants a word that can be freed.
TaskDeparted(m) ==
  IF ~sw[obj[m.task].word].canfree THEN Fail("can_free")
  ELSE /\ sw' = FreeSw(obj[m.task].word)
       /\ obj' = [obj EXCEPT ![m.task] = None]
       /\ chan' = Tail(chan)
       /\ UNCHANGED <<kt, dflt, ag, abort>>

DispatchMessage ==
  /\ ag.pc = "ready" /\ chan # << >>
  /\ LET m == Head(chan)
     IN  \/ m.type = "TASK_NEW" /\ TaskNew(m)
         \/ m.type # "TASK_NEW" /\ obj[m.task] = None /\ Ignore
         \/ m.type = "TASK_WAKEUP" /\ obj[m.task] # None /\ TaskRunnable(m)
         \/ m.type = "TASK_PRIORITY_CHANGED" /\ obj[m.task] # None /\ Handle(m, [obj[m.task] EXCEPT !.prio = 120])
         \/ m.type = "TASK_DEPARTED" /\ obj[m.task] # None /\ TaskDeparted(m)

-----------------------------------------------------------------------------
Kernel ==
  \E t \in Task : \/ \E i \in Slot, r \in BOOLEAN : KEnter(t, i, r)
                  \/ KNew(t) \/ KWakeup(t) \/ KDepart(t) \/ KRenice(t)

Discover ==
  \/ SetEnclaveDefault \/ ForEachTaskStatusWord \/ ReadBarrier \/ ReadFlags
  \/ Associated \/ AssociateEnoent \/ AssociateEstale
  \/ \E nice \in Junk : TaskDiscovered(nice)

Next == Kernel \/ Discover \/ DispatchMessage

Spec == Init /\ [][Next]_vars

\* The thread of Ready(), and then the agents, keep running; a thread that was
\* moved into ghOSt while it ran gets off its CPU at last.
Fairness ==
  /\ WF_vars(Discover) /\ WF_vars(DispatchMessage)
  /\ \A t \in Task : WF_vars(KNew(t))

-----------------------------------------------------------------------------
(* Properties.                                                             *)

Settled == ag.pc = "ready" /\ chan = << >>

\* Once the scan is over and the default channel is drained, the process knows
\* exactly the tasks the kernel has announced, each with its live status word
\* and with its state: nothing that happened during the scan was missed (the
\* barrier and the comment before READ_ONCE() in DiscoverTasks()).
TakenOverExactly ==
  Settled => \A t \in Task :
    LET known == kt[t].in /\ kt[t].sent
    IN  /\ obj[t] # None <=> known
        /\ known => /\ kt[t].queue = "new" /\ obj[t].word = kt[t].word
                    /\ obj[t].runnable = Word(t).runnable /\ obj[t].seq = Word(t).barrier

\* ... and every status word in use is the live one of a task, apart from the
\* one of a thread that has come back since: no word is lost to the enclave
\* (the ENOENT and ESTALE cases of DiscoverTasks(), Task::~Task()).
NoWordLost ==
  Settled => \A i \in Slot : sw[i].gtid # None => kt[sw[i].gtid].in /\ kt[sw[i].gtid].word = i

\* No CHECK of Task and LocalStatusWord fails and no GHOST_ERROR is called: a
\* quiescent enclave is taken over by a process that stays alive.
NoCheckFails == abort = "none"

\* The comment in TaskNew(): nice [-20, +19] gives a static_priority [100, 139].
PriorityInRange == \A t \in Task : obj[t] # None => obj[t].prio \in 100 .. 139

\* A thread that has entered the enclave and stays becomes known to the process:
\* also when it had left and its messages wait until its earlier status word is
\* reclaimed by the scan.
TasksBecomeKnown == \A t \in Task : kt[t].in ~> (obj[t] # None \/ ~kt[t].in \/ kt[t].last = MaxBarrier)
=============================================================================
