----------------------------- MODULE FluxThread -----------------------------
(***************************************************************************)
(* Threads in Flux, with Biff as their scheduler (third_party/bpf:         *)
(* flux_api.bpf.c, flux_dispatch.bpf.c, biff_flux.bpf.c): one queue, from  *)
(* which the pick-next-task program (PNT) of every CPU takes threads, and  *)
(* the handlers of the kernel's messages about threads.                    *)
(*                                                                         *)
(* The handlers of one thread exclude each other: the kernel calls them    *)
(* under the lock of the task.  PNT holds only Biff's lock, and that not   *)
(* while it asks the kernel to run the thread it took.  A handler is two   *)
(* steps: the operation of Biff, which others can see once Biff's lock is  *)
(* free, and the store of seqnum with what follows it.  msg[t] is between  *)
(* them.  Sequence numbers are compared only with the kernel's latest:     *)
(* thr[t].synced says that seqnum is that one, cpu[c].fresh the same of    *)
(* latched_seqnum.                                                         *)
(*                                                                         *)
(* Time is left out (a tick finds the 50 ms over or not), and so is where  *)
(* the CPUs come from: every CPU is Biff's.  External: the kernel.         *)
(***************************************************************************)
EXTENDS Integers, Sequences, FiniteSets

CONSTANTS Thread, Cpu, None,
          MaxLoops,      \* the bound of the loop of flux_pnt(), FLUX_MAX_NR_TIERS * 2
          ChainDeparts,  \* a thread may leave ghOSt while it runs by a switchto
          EarlyReturn    \* a thread may come back before Flux has forgotten it

Msg == [type : {"on_cpu", "blocked", "wakeup", "preempt", "switchto", "changed", "departed", "dead",
                "latch_failure"},
        cpu : Cpu \cup {None}, from_switchto : BOOLEAN]

ASSUME FluxAssumption ==
  IsFiniteSet(Thread) /\ IsFiniteSet(Cpu) /\ None \notin Thread \cup Msg /\ MaxLoops \in Nat

VARIABLES task,            \* task[t]: the thread as the kernel sees it
          msg,             \* msg[t]: the message whose handler has the lock of t, or None
          thr,             \* thr[t]: struct flux_thread
          sw_lookup,       \* the threads Flux can look up
          rq,              \* Biff's queue
          nr_cpus_wanted,  \* Biff's
          cpu              \* cpu[c]: its PNT, Biff's current, and the kernel's part

vars == <<task, msg, thr, sw_lookup, rq, nr_cpus_wanted, cpu>>

Init ==
  /\ task = [t \in Thread |-> "outside"]
  /\ msg = [t \in Thread |-> None]
  /\ thr = [t \in Thread |-> [sched |-> FALSE, refcnt |-> 0, on_rq |-> FALSE, on_cpu |-> FALSE,
                              pending_latch |-> FALSE, synced |-> TRUE,
                              enqueued |-> FALSE, times_up |-> FALSE]]
  /\ sw_lookup = {} /\ rq = << >> /\ nr_cpus_wanted = 0
  /\ cpu = [c \in Cpu |-> [pc |-> "out", i |-> 0, t |-> None, fresh |-> FALSE, cur |-> None,
                           current |-> None, running |-> None, chain |-> FALSE, latched |-> None, busy |-> None,
                           resched |-> FALSE]]

Unlocked(t) == msg[t] = None
gtid_to_thread(t) == IF t \in sw_lookup THEN t ELSE None
OffCpu(t) == \A c \in Cpu : cpu[c].busy # t
Where(t) == {c \in Cpu : cpu[c].running = t}

-----------------------------------------------------------------------------
(* The handlers: the message m of t is sent, and its operation done. *)

\* A new message makes every sequence number stale that somebody holds.  A thread that
\* Flux does not know is lost: what becomes of it is not followed.
Send(t, m, cpus) ==
  /\ Unlocked(t) /\ t \in sw_lookup
  /\ msg' = [msg EXCEPT ![t] = m]
  /\ cpu' = [c \in Cpu |-> IF cpus[c].t = t THEN [cpus[c] EXCEPT !.fresh = FALSE] ELSE cpus[c]]

Message(type, c, from_switchto) == [type |-> type, cpu |-> c, from_switchto |-> from_switchto]

Unsynced(t) == thr' = [thr EXCEPT ![t].synced = FALSE]

biff_enqueue_task(t, pending_latch) ==
  /\ rq' = Append(rq, t)
  /\ thr' = [thr EXCEPT ![t] = [@ EXCEPT !.enqueued = TRUE, !.times_up = FALSE,
                                         !.pending_latch = pending_latch, !.synced = FALSE]]

\* biff_arr_list_remove takes t out of the queue, where it is once.
Without(t) ==
  LET i == CHOOSE j \in DOMAIN rq : rq[j] = t IN SubSeq(rq, 1, i - 1) \o SubSeq(rq, i + 1, Len(rq))

\* The thread that ran on CPU c is off it, though the CPU is still busy with it.
TaskStopped(t, c) ==
  [cpu EXCEPT ![c] = [@ EXCEPT !.current = None, !.running = None, !.chain = FALSE, !.busy = t,
                               !.resched = FALSE]]

\* The whole handler: nobody else can find the thread.  A thread that is still known
\* is left as it is.
handle_new(t, runnable) ==
  /\ task[t] = "outside" /\ Unlocked(t)
  /\ EarlyReturn \/ t \notin sw_lookup
  /\ task' = [task EXCEPT ![t] = IF runnable THEN "runnable" ELSE "blocked"]
  /\ IF t \in sw_lookup
     THEN Unsynced(t) /\ UNCHANGED <<sw_lookup, rq, nr_cpus_wanted>>
     ELSE /\ sw_lookup' = sw_lookup \cup {t}
          /\ thr' = [thr EXCEPT ![t] = [sched |-> TRUE, refcnt |-> 1, on_rq |-> runnable, on_cpu |-> FALSE,
                                        pending_latch |-> FALSE, synced |-> TRUE,
                                        enqueued |-> runnable, times_up |-> FALSE]]
          /\ nr_cpus_wanted' = nr_cpus_wanted + (IF runnable THEN 1 ELSE 0)
          /\ rq' = IF runnable THEN Append(rq, t) ELSE rq
  /\ UNCHANGED <<msg, cpu>>

\* The CPU changes to the thread it has latched.
handle_on_cpu(t, c) ==
  /\ cpu[c].latched = t /\ cpu[c].running = None /\ cpu[c].pc \in {"out", "end"}
  /\ task' = [task EXCEPT ![t] = "running"]
  /\ Send(t, Message("on_cpu", c, FALSE),
          [cpu EXCEPT ![c] = [@ EXCEPT !.latched = None, !.running = t, !.current = t, !.busy = None, !.pc = "out"]])
  /\ Unsynced(t)
  /\ UNCHANGED <<sw_lookup, rq, nr_cpus_wanted>>

handle_blocked(t, c) ==
  /\ cpu[c].running = t /\ cpu[c].pc = "out"
  /\ task' = [task EXCEPT ![t] = "blocked"]
  /\ Send(t, Message("blocked", c, cpu[c].chain), TaskStopped(t, c))
  /\ Unsynced(t)
  /\ UNCHANGED <<sw_lookup, rq, nr_cpus_wanted>>

handle_wakeup(t) ==
  /\ task[t] = "blocked" /\ OffCpu(t)
  /\ task' = [task EXCEPT ![t] = "runnable"]
  /\ Send(t, Message("wakeup", None, FALSE), cpu)
  /\ biff_enqueue_task(t, thr[t].pending_latch)
  /\ UNCHANGED <<sw_lookup, nr_cpus_wanted>>

\* Preempted, or yielded: one type, since Biff and Flux do the same.
handle_preempt(t, c) ==
  /\ cpu[c].running = t /\ cpu[c].pc = "out"
  /\ task' = [task EXCEPT ![t] = "runnable"]
  /\ Send(t, Message("preempt", c, cpu[c].chain), TaskStopped(t, c))
  /\ biff_enqueue_task(t, thr[t].pending_latch)
  /\ UNCHANGED <<sw_lookup, nr_cpus_wanted>>

\* was_latched: the thread had not started.
handle_preempt_latched(t, c) ==
  /\ cpu[c].latched = t
  /\ task' = [task EXCEPT ![t] = "runnable"]
  /\ Send(t, Message("preempt", c, FALSE), [cpu EXCEPT ![c].latched = None])
  /\ biff_enqueue_task(t, thr[t].pending_latch)
  /\ UNCHANGED <<sw_lookup, nr_cpus_wanted>>

\* Only the first thread of a chain is told of.
handle_switchto(t, c, to) ==
  /\ cpu[c].running = t /\ cpu[c].pc = "out"
  /\ task[to] = "blocked" /\ Unlocked(to) /\ OffCpu(to)
  /\ task' = [task EXCEPT ![t] = "blocked", ![to] = "running"]
  /\ LET switched == [cpu EXCEPT ![c] = [@ EXCEPT !.running = to, !.chain = TRUE]] IN
     IF cpu[c].chain THEN Unlocked(t) /\ cpu' = switched /\ UNCHANGED <<msg, thr>>
     ELSE Send(t, Message("switchto", c, FALSE), switched) /\ Unsynced(t)
  /\ UNCHANGED <<sw_lookup, rq, nr_cpus_wanted>>

\* A change of the priority or of the affinity, whenever it comes.
handle_prio_changed(t) ==
  /\ task[t] # "outside"
  /\ Send(t, Message("changed", None, FALSE), cpu)
  /\ Unsynced(t)
  /\ UNCHANGED <<task, sw_lookup, rq, nr_cpus_wanted>>

\* was_current if it runs; a latched thread is preempted first.
handle_departed(t) ==
  /\ task[t] \notin {"outside", "latched"}
  /\ ChainDeparts \/ \A c \in Where(t) : ~ cpu[c].chain
  /\ task' = [task EXCEPT ![t] = "outside"]
  /\ Send(t, Message("departed", None, FALSE),
          [c \in Cpu |-> IF c \in Where(t)
                         THEN [cpu[c] EXCEPT !.current = None, !.running = None, !.chain = FALSE, !.resched = FALSE]
                         ELSE cpu[c]])
  /\ rq' = IF thr[t].enqueued THEN Without(t) ELSE rq
  /\ thr' = [thr EXCEPT ![t] = [@ EXCEPT !.enqueued = FALSE, !.synced = FALSE]]
  /\ nr_cpus_wanted' = nr_cpus_wanted - (IF thr[t].on_rq THEN 1 ELSE 0)
  /\ UNCHANGED sw_lookup

handle_dead(t) ==
  /\ task[t] = "blocked" /\ OffCpu(t)
  /\ task' = [task EXCEPT ![t] = "outside"]
  /\ Send(t, Message("dead", None, FALSE), cpu)
  /\ Unsynced(t)
  /\ UNCHANGED <<sw_lookup, rq, nr_cpus_wanted>>

-----------------------------------------------------------------------------
(* The end of a handler: the rest of Biff's operation, seqnum, Flux's fields. *)

OnRq(m, was) ==
  /\ m.type \notin {"blocked", "switchto"}
  /\ m.type = "wakeup" \/ m.from_switchto \/ was
OnCpu(m, was) == m.type = "on_cpu" \/ (m.type \notin {"blocked", "preempt", "switchto"} /\ was)
Leaves(m) == m.type \in {"departed", "dead"}

\* Seeded fault of Wants: a switchto counts as a block.
WantsOnSwitchto(m) == CASE m.type = "wakeup" -> 1 [] m.type \in {"blocked", "switchto"} -> -1 [] OTHER -> 0

\* flux_request_cpus() of biff_thread_wakeup and biff_thread_blocked
Wants(m) == CASE m.type = "wakeup" -> 1 [] m.type = "blocked" -> -1 [] OTHER -> 0

\* flux_thread_decref: the last reference takes the thread out of sw_lookup.
Forget(t) == sw_lookup' = IF thr[t].refcnt = 1 THEN sw_lookup \ {t} ELSE sw_lookup

HandlerEnds(t) ==
  /\ ~ Unlocked(t)
  /\ LET m == msg[t] IN
     /\ nr_cpus_wanted' = nr_cpus_wanted + Wants(m)
     /\ thr' = [thr EXCEPT ![t] = [@ EXCEPT !.synced = TRUE,
                                            !.on_rq = OnRq(m, thr[t].on_rq), !.on_cpu = OnCpu(m, thr[t].on_cpu),
                                            !.sched = thr[t].sched /\ ~ Leaves(m),
                                            !.refcnt = thr[t].refcnt - (IF Leaves(m) THEN 1 ELSE 0)]]
     /\ IF Leaves(m) THEN Forget(t) ELSE UNCHANGED sw_lookup
  /\ msg' = [msg EXCEPT ![t] = None]
  /\ UNCHANGED <<task, rq, cpu>>

-----------------------------------------------------------------------------
(* PNT of CPU c, while the CPU is Biff's: biff_pick_next_task *)

\* PNT is over; a CPU still busy with a thread goes on to leave it.
Over(k) == [k EXCEPT !.pc = IF k.busy = None THEN "out" ELSE "end", !.i = 0, !.cur = None, !.t = None, !.fresh = FALSE]

\* The next turn of the loop of flux_pnt().
Again(k) == IF k.i + 1 = MaxLoops THEN Over(k) ELSE [Over(k) EXCEPT !.pc = "loop", !.i = k.i + 1]

\* Biff's current thread stays unless its time is up.
LookAtCurrent(c) ==
  LET current == gtid_to_thread(cpu[c].current) IN
  /\ cpu[c].pc \in {"out", "loop"} /\ cpu[c].latched = None
  /\ cpu' = IF current # None /\ ~ thr[current].times_up
            THEN [cpu EXCEPT ![c] = Over(@)]
            ELSE [cpu EXCEPT ![c] = [@ EXCEPT !.pc = "pick", !.cur = current]]
  /\ UNCHANGED <<task, msg, thr, sw_lookup, rq, nr_cpus_wanted>>

\* __biff_pick_first_to_run with flux_prepare_to_run, under Biff's lock
PickFirst(c) ==
  /\ cpu[c].pc = "pick" /\ rq # << >>
  /\ LET t == Head(rq) IN
     /\ cpu' = [cpu EXCEPT ![c] = [@ EXCEPT !.pc = "run", !.cur = None, !.t = t, !.fresh = thr[t].synced]]
     /\ thr' = [thr EXCEPT ![t] = [@ EXCEPT !.enqueued = FALSE, !.pending_latch = TRUE, !.refcnt = thr[t].refcnt + 1]]
  /\ rq' = Tail(rq)
  /\ UNCHANGED <<task, msg, sw_lookup, nr_cpus_wanted>>

\* Nothing to pick: the current thread goes on, or the CPU is yielded.
PickNone(c) ==
  /\ cpu[c].pc = "pick" /\ rq = << >>
  /\ thr' = IF cpu[c].cur = None THEN thr ELSE [thr EXCEPT ![cpu[c].cur].times_up = FALSE]
  /\ cpu' = [cpu EXCEPT ![c] = Over(@)]
  /\ UNCHANGED <<task, msg, sw_lookup, rq, nr_cpus_wanted>>

\* bpf_ghost_run_gtid() has the lock of the task and the thread can run here.
RunSucceeds(c) ==
  LET t == cpu[c].t IN
  /\ cpu[c].pc = "run" /\ Unlocked(t)
  /\ task[t] = "runnable" /\ cpu[c].fresh /\ OffCpu(t)
  /\ task' = [task EXCEPT ![t] = "latched"]
  /\ cpu' = [cpu EXCEPT ![c] = [Over(@) EXCEPT !.latched = t]]
  /\ thr' = [thr EXCEPT ![t] = [@ EXCEPT !.pending_latch = FALSE, !.refcnt = thr[t].refcnt - 1]]
  /\ Forget(t)
  /\ UNCHANGED <<msg, rq, nr_cpus_wanted>>

\* Seeded fault of LatchFailure: the thread is not given back to Biff.
LatchFailureDropped(t, c, cpus) ==
  /\ Send(t, Message("latch_failure", c, FALSE), cpus)
  /\ thr' = [thr EXCEPT ![t] = [@ EXCEPT !.pending_latch = FALSE, !.synced = FALSE]] /\ UNCHANGED rq

\* handle_latch_failure, called from within bpf_ghost_run_gtid()
LatchFailure(t, c, cpus) ==
  /\ Send(t, Message("latch_failure", c, FALSE), cpus)
  /\ IF thr[t].pending_latch /\ thr[t].sched
     THEN biff_enqueue_task(t, FALSE)
     ELSE thr' = [thr EXCEPT ![t] = [@ EXCEPT !.pending_latch = FALSE, !.synced = FALSE]] /\ UNCHANGED rq

\* ESTALE, EBUSY, or ENOENT of a thread that is gone: of that one the kernel does not
\* (flux_header_bpf.h:402) or does (flux_api.bpf.c:754) tell Flux.
RunFails(c) ==
  LET t == cpu[c].t
      failed == [cpu EXCEPT ![c].pc = IF cpu[c].fresh /\ task[t] = "runnable" THEN "ebusy" ELSE "estale"] IN
  /\ cpu[c].pc = "run" /\ Unlocked(t)
  /\ ~ (task[t] = "runnable" /\ cpu[c].fresh /\ OffCpu(t))
  /\ \/ LatchFailure(t, c, failed)
     \/ task[t] = "outside" /\ cpu' = failed /\ UNCHANGED <<msg, thr, rq>>
  /\ UNCHANGED <<task, sw_lookup, nr_cpus_wanted>>

\* After bpf_ghost_run_gtid(): flux_thread_decref.  EBUSY ends PNT, else it loops.
RunReturns(c) ==
  LET t == cpu[c].t IN
  /\ cpu[c].pc \in {"estale", "ebusy"}
  /\ ~ (msg[t] # None /\ msg[t].type = "latch_failure" /\ msg[t].cpu = c)
  /\ thr' = [thr EXCEPT ![t].refcnt = @ - 1]
  /\ Forget(t)
  /\ cpu' = [cpu EXCEPT ![c] = IF @.pc = "ebusy" THEN Over(@) ELSE Again(@)]
  /\ UNCHANGED <<task, msg, rq, nr_cpus_wanted>>

\* The kernel takes the thread that stopped off the CPU, to idle.
LeaveCpu(c) ==
  /\ cpu[c].pc = "end" /\ cpu[c].latched = None
  /\ cpu' = [cpu EXCEPT ![c] = [@ EXCEPT !.pc = "out", !.busy = None]]
  /\ UNCHANGED <<task, msg, thr, sw_lookup, rq, nr_cpus_wanted>>

\* biff_cpu_ticked: the current thread has run for 50 ms; flux_preempt_cpu.
Tick(c) ==
  LET current == gtid_to_thread(cpu[c].current) IN
  /\ cpu[c].pc = "out" /\ current # None
  /\ thr' = [thr EXCEPT ![current].times_up = TRUE]
  /\ cpu' = [cpu EXCEPT ![c].resched = TRUE]
  /\ UNCHANGED <<task, msg, sw_lookup, rq, nr_cpus_wanted>>

-----------------------------------------------------------------------------
Pnt(c) ==
  \/ LookAtCurrent(c) \/ PickFirst(c) \/ PickNone(c) \/ RunSucceeds(c)
  \/ RunFails(c) \/ RunReturns(c) \/ LeaveCpu(c)

OnThread(t) ==
  \/ \E runnable \in BOOLEAN : handle_new(t, runnable)
  \/ \E c \in Cpu : handle_on_cpu(t, c) \/ handle_blocked(t, c) \/ handle_preempt(t, c)
  \/ \E c \in Cpu : handle_preempt_latched(t, c)
  \/ \E c \in Cpu, to \in Thread : handle_switchto(t, c, to)
  \/ handle_wakeup(t) \/ handle_prio_changed(t) \/ handle_departed(t) \/ handle_dead(t)
  \/ HandlerEnds(t)

Next ==
  \/ \E c \in Cpu : Pnt(c) \/ Tick(c)
  \/ \E t \in Thread : OnThread(t)

Spec == Init /\ [][Next]_vars

\* Every handler returns, every PNT goes on, ticks come, and the kernel changes to the
\* thread that was latched, from the one it was asked to preempt.
Fairness ==
  /\ \A t \in Thread : WF_vars(HandlerEnds(t))
  /\ \A c \in Cpu : WF_vars(Pnt(c)) /\ WF_vars(Tick(c))
  /\ \A t \in Thread, c \in Cpu :
        /\ WF_vars(handle_on_cpu(t, c))
        /\ WF_vars((cpu[c].resched \/ cpu[c].latched # None) /\ handle_preempt(t, c))

-----------------------------------------------------------------------------
TypeOK ==
  /\ task \in [Thread -> {"outside", "blocked", "runnable", "latched", "running"}]
  /\ sw_lookup \subseteq Thread /\ rq \in Seq(Thread) /\ nr_cpus_wanted \in Nat
  /\ \A t \in Thread : thr[t].refcnt \in 0 .. 1 + Cardinality(Cpu)

Queued(t) == Cardinality({i \in DOMAIN rq : rq[i] = t})
InLimbo(t) == {c \in Cpu : cpu[c].pc = "run" /\ cpu[c].t = t}

\* "if you're on_rq, you're either latched, on_cpu, on the struct, or in between:
\* pending_latch" (flux_header_bpf.h:291): a thread that waits for a CPU is either once on
\* Biff's queue or in the hands of one PNT that will run it or give it back.
WaitingIsKept ==
  \A t \in Thread : task[t] = "runnable" /\ Unlocked(t) =>
     IF thr[t].pending_latch THEN Queued(t) = 0 /\ InLimbo(t) # {}
     ELSE Queued(t) = 1 /\ \A c \in InLimbo(t) : ~ cpu[c].fresh

\* Who has the ball is agreed on: a thread the kernel has, or that is gone, is on no queue,
\* and a PNT that took it before can no longer run it; at most one PNT can.
OthersCannotRun ==
  \A t \in Thread :
     /\ task[t] # "runnable" => Queued(t) = 0 /\ \A c \in InLimbo(t) : ~ cpu[c].fresh
     /\ Cardinality({c \in InLimbo(t) : cpu[c].fresh}) <= 1

\* A thread is known exactly as long as somebody has a reference to it: the message stream
\* until the thread leaves, the queue through it, and every PNT that took it.
KnownWhileReferenced ==
  \A t \in Thread :
     LET stream == task[t] # "outside" \/ (~ Unlocked(t) /\ Leaves(msg[t]))
         pnts == {c \in Cpu : cpu[c].t = t} IN
     /\ thr[t].refcnt = (IF stream THEN 1 ELSE 0) + Cardinality(pnts)
     /\ t \in sw_lookup <=> thr[t].refcnt > 0
     /\ Queued(t) > 0 => stream

\* No thread is lost, and none is run by two.
ThreadsAreKept == WaitingIsKept /\ OthersCannotRun /\ KnownWhileReferenced

\* "nr_cpus_wanted == nr tasks running + nr tasks runnable" (biff_flux.bpf.c:108),
\* whatever chains of switchtos ran, once the handlers have returned.
LoadIsExact ==
  (\A t \in Thread : Unlocked(t)) =>
     nr_cpus_wanted = Cardinality({t \in Thread : task[t] \in {"runnable", "latched", "running"}})

\* Biff has a current thread on exactly the CPUs that run one, and it is that one, or the
\* one that began the chain of switchtos the CPU is in.
CurrentIsRunning ==
  \A c \in Cpu :
     /\ cpu[c].current = None <=> cpu[c].running = None
     /\ ~ cpu[c].chain => cpu[c].current = cpu[c].running

\* What Biff counts and what it takes for the current thread is true.
LoadIsKept == LoadIsExact /\ CurrentIsRunning

\* A step that makes a latch fail: a change, a preemption before the thread started, or a
\* PNT that finds a thread between the operation of a handler and its store of seqnum.
Interferes ==
  \/ \E t \in Thread : handle_prio_changed(t) \/ \E c \in Cpu : handle_preempt_latched(t, c)
  \/ \E c \in Cpu : PickFirst(c) /\ ~ thr[Head(rq)].synced

\* If interference ends some time, a thread that waits for a CPU gets one, or leaves: no
\* other failure to latch it repeats for ever, and nobody keeps a CPU for ever.
WaitingThreadsRun ==
  <>[][~ Interferes]_vars => \A t \in Thread : task[t] = "runnable" ~> task[t] \in {"running", "outside"}
=============================================================================
