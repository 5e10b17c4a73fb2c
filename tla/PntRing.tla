------------------------------ MODULE PntRing ------------------------------
(***************************************************************************)
(* A pick-next-task ring (third_party/bpf/pntring*.h): tasks handed to BPF,*)
(* which runs them on the CPUs that ask for work.                          *)
(*   producers  the global agent, and the BPF program of a wakeup;         *)
(*   consumers  the pick-next-task programs, one on each CPU;              *)
(*   the agent  also takes tasks back, and reaps the slots: of a task that *)
(*              got a CPU when it is told so, of the others when it scans. *)
(* Every load, store and exchange that others can see is a step.  Who      *)
(* "has the ball" may decide about a task: the agent or the ring.          *)
(*                                                                         *)
(* External: the agent around these functions (one thread; it clears       *)
(* latch_error before it scans), its messages, and bpf_ghost_run_gtid(),   *)
(* which refuses tasks that cannot run and others for reasons of its own.  *)
(***************************************************************************)
EXTENDS Integers, Sequences, FiniteSets

CONSTANTS Task, Cpu,
          NumSlots,   \* NR_PNT_RING_SLOTS
          NumRetry,   \* PNT_NR_RING_RETRY
          MaxPush,    \* bound on prod_idx: no push is begun that could exceed it
          TheAgent, None

VARIABLES prod_idx, cons_idx,
          slot,         \* slot[s]: txn_state, gtid and task_ptr
          latch_error,
          push,         \* push[p]: the push that p is in: the agent, or BPF at the wakeup of task p
          cpu,          \* cpu[c]: where the program of CPU c is
          agent,        \* the call the agent is in
          mine,         \* mine[t]: the agent's task->slot, and whether the agent has the ball
          ktask,        \* ktask[t]: the task as the kernel sees it
          msgs          \* the messages to the agent

vars == <<prod_idx, cons_idx, slot, latch_error, push, cpu, agent, mine, ktask, msgs>>
ring == <<prod_idx, cons_idx, slot, latch_error>>

Slot == 0 .. NumSlots - 1
Pusher == Task \cup {TheAgent}

NotPushing == [pc |-> "out", i |-> 0, idx |-> 0, gtid |-> None]
Outside == [pc |-> "out", i |-> 0, idx |-> 0]
AtRest == [pc |-> "loop", task |-> None, s |-> 0]

Init ==
  /\ prod_idx = 0 /\ cons_idx = 0 /\ latch_error = FALSE
  /\ slot = [s \in Slot |-> [state |-> "reaped", gtid |-> None, task_ptr |-> None]]
  /\ push = [p \in Pusher |-> NotPushing]
  /\ cpu = [c \in Cpu |-> Outside]
  /\ agent = AtRest
  /\ mine = [t \in Task |-> [slot |-> None, ball |-> FALSE]]
  /\ ktask = [t \in Task |-> "blocked"]
  /\ msgs = << >>

\* The error states of a transaction are one; a claimed one has its CPU as state.
Claimed(s) == slot[s].state \in Cpu
pnt_ring_full(p, c) == NumSlots - (p - c) = 0
SlotOf(idx) == idx % NumSlots
State(s, v) == slot' = [slot EXCEPT ![s].state = v]
MayPush == prod_idx + Cardinality({p \in Pusher : push[p].pc \in {"prod", "cons", "state", "cas"}}) < MaxPush
Post(type, t, s) == msgs' = Append(msgs, [type |-> type, task |-> t, slot |-> s])

-----------------------------------------------------------------------------
(* pnt_schedule_onto_ring and pnt_push_task_to_ring *)

Pushes(p, pc) == push' = [push EXCEPT ![p].pc = pc]

\* The push is over; s is its slot, or None.  The agent notes the slot, the BPF
\* program sends it with the message of the wakeup, while it holds the lock that
\* bpf_ghost_run_gtid needs.
PushReturns(p, s) ==
  /\ push' = [push EXCEPT ![p] = NotPushing]
  /\ IF p = TheAgent
     THEN /\ mine' = [mine EXCEPT ![push[p].gtid] = [slot |-> s, ball |-> s = None]]
          /\ agent' = AtRest
          /\ UNCHANGED msgs
     ELSE Post("wakeup", p, s) /\ UNCHANGED <<mine, agent>>

PushReadProd(p) ==
  /\ push[p].pc = "prod"
  /\ push' = [push EXCEPT ![p].idx = prod_idx, ![p].pc = "cons"]
  /\ UNCHANGED <<ring, cpu, agent, mine, ktask, msgs>>

PushReadCons(p) ==
  /\ push[p].pc = "cons"
  /\ IF pnt_ring_full(push[p].idx, cons_idx) THEN PushReturns(p, None)
     ELSE Pushes(p, "state") /\ UNCHANGED <<agent, mine, msgs>>
  /\ UNCHANGED <<ring, cpu, ktask>>

PushReadState(p) ==
  /\ push[p].pc = "state"
  /\ IF slot[SlotOf(push[p].idx)].state # "reaped" THEN PushReturns(p, None)
     ELSE Pushes(p, "cas") /\ UNCHANGED <<agent, mine, msgs>>
  /\ UNCHANGED <<ring, cpu, ktask>>

\* The agent tries again until it has a slot, BPF NumRetry times.
PushCas(p) ==
  /\ push[p].pc = "cas"
  /\ IF prod_idx = push[p].idx
     THEN prod_idx' = prod_idx + 1 /\ Pushes(p, "fill") /\ UNCHANGED <<agent, mine, msgs>>
     ELSE /\ IF p # TheAgent /\ push[p].i + 1 = NumRetry THEN PushReturns(p, None)
             ELSE /\ push' = [push EXCEPT ![p].pc = "prod", ![p].i = IF p = TheAgent THEN 0 ELSE @ + 1]
                  /\ UNCHANGED <<agent, mine, msgs>>
          /\ UNCHANGED prod_idx
  /\ UNCHANGED <<cons_idx, slot, latch_error, cpu, ktask>>

PushFill(p) ==
  /\ push[p].pc = "fill"
  /\ slot' = [slot EXCEPT ![SlotOf(push[p].idx)].gtid = push[p].gtid,
                          ![SlotOf(push[p].idx)].task_ptr = IF p = TheAgent THEN push[p].gtid ELSE None]
  /\ Pushes(p, "ready")
  /\ UNCHANGED <<prod_idx, cons_idx, latch_error, cpu, agent, mine, ktask, msgs>>

PushReady(p) ==
  /\ push[p].pc = "ready"
  /\ State(SlotOf(push[p].idx), "ready")
  /\ PushReturns(p, SlotOf(push[p].idx))
  /\ UNCHANGED <<prod_idx, cons_idx, latch_error, cpu, ktask>>

PushStep(p) ==
  \/ PushReadProd(p) \/ PushReadCons(p) \/ PushReadState(p)
  \/ PushCas(p) \/ PushFill(p) \/ PushReady(p)

-----------------------------------------------------------------------------
(* pnt_latch_task_from_ring *)

Runs(c, pc) == cpu' = [cpu EXCEPT ![c].pc = pc]

\* The next turn of the loop.
Continue(c) ==
  cpu' = [cpu EXCEPT ![c] = IF @.i + 1 = NumRetry THEN Outside ELSE [@ EXCEPT !.pc = "cons", !.i = @ + 1]]

MySlot(c) == SlotOf(cpu[c].idx)

LatchReadCons(c) ==
  /\ cpu[c].pc = "cons"
  /\ cpu' = [cpu EXCEPT ![c].idx = cons_idx, ![c].pc = "prod"]
  /\ UNCHANGED <<ring, push, agent, mine, ktask, msgs>>

LatchReadProd(c) ==
  /\ cpu[c].pc = "prod"
  /\ cpu' = [cpu EXCEPT ![c] = IF prod_idx = @.idx THEN Outside ELSE [@ EXCEPT !.pc = "state"]]
  /\ UNCHANGED <<ring, push, agent, mine, ktask, msgs>>

LatchReadState(c) ==
  /\ cpu[c].pc = "state"
  /\ cpu' = [cpu EXCEPT ![c] = IF slot[MySlot(c)].state \in {"ready", "aborted"}
                               THEN [@ EXCEPT !.pc = "cas"] ELSE Outside]
  /\ UNCHANGED <<ring, push, agent, mine, ktask, msgs>>

LatchCas(c) ==
  /\ cpu[c].pc = "cas"
  /\ IF cons_idx = cpu[c].idx THEN cons_idx' = cons_idx + 1 /\ Runs(c, "claim")
     ELSE Continue(c) /\ UNCHANGED cons_idx
  /\ UNCHANGED <<prod_idx, slot, latch_error, push, agent, mine, ktask, msgs>>

LatchClaim(c) ==
  /\ cpu[c].pc = "claim"
  /\ IF slot[MySlot(c)].state = "ready" THEN State(MySlot(c), c) /\ Runs(c, "run")
     ELSE Runs(c, "drop") /\ UNCHANGED slot
  /\ UNCHANGED <<prod_idx, cons_idx, latch_error, push, agent, mine, ktask, msgs>>

\* The agent aborted it; BPF reaps the slot.
LatchDrop(c) ==
  /\ cpu[c].pc = "drop"
  /\ State(MySlot(c), "reaped") /\ Continue(c)
  /\ UNCHANGED <<prod_idx, cons_idx, latch_error, push, agent, mine, ktask, msgs>>

\* bpf_ghost_run_gtid: the task is latched, or there is an error.
LatchRun(c) ==
  LET t == slot[MySlot(c)].gtid
  IN  /\ cpu[c].pc = "run"
      /\ \/ /\ ktask[t] = "runnable"
            /\ ktask' = [ktask EXCEPT ![t] = c]
            /\ Runs(c, "complete")
         \/ Runs(c, "failed") /\ UNCHANGED ktask
      /\ UNCHANGED <<ring, push, agent, mine, msgs>>

LatchComplete(c) ==
  /\ cpu[c].pc = "complete"
  /\ State(MySlot(c), "complete")
  /\ cpu' = [cpu EXCEPT ![c] = [Outside EXCEPT !.pc = "switch"]]
  /\ UNCHANGED <<prod_idx, cons_idx, latch_error, push, agent, mine, ktask, msgs>>

\* Seeded fault: the agent is told of an error before it can see it.
FailStoresSwapped == <<"latch", "state">>

\* The two stores after an error, in their order.
FailStores == <<"state", "latch">>

LatchFail(c) ==
  /\ cpu[c].pc \in {"failed", "failed2"}
  /\ IF FailStores[IF cpu[c].pc = "failed" THEN 1 ELSE 2] = "state"
     THEN State(MySlot(c), "error") /\ UNCHANGED latch_error
     ELSE latch_error' = TRUE /\ UNCHANGED slot
  /\ IF cpu[c].pc = "failed" THEN Runs(c, "failed2") ELSE Continue(c)
  /\ UNCHANGED <<prod_idx, cons_idx, push, agent, mine, ktask, msgs>>

LatchStep(c) ==
  \/ LatchReadCons(c) \/ LatchReadProd(c) \/ LatchReadState(c) \/ LatchCas(c)
  \/ LatchClaim(c) \/ LatchDrop(c) \/ LatchRun(c) \/ LatchComplete(c) \/ LatchFail(c)

-----------------------------------------------------------------------------
(* pnt_unschedule_ring_slot *)

Regained(t) == [mine EXCEPT ![t] = [slot |-> None, ball |-> TRUE]]

UnscheduleLoad ==
  /\ agent.pc = "unschedule"
  /\ agent' = [agent EXCEPT !.pc = IF slot[mine[agent.task].slot].state = "ready" THEN "abort" ELSE "spin"]
  /\ UNCHANGED <<ring, push, cpu, mine, ktask, msgs>>

\* Seeded fault: ABORTED is stored.
UnscheduleStore ==
  /\ agent.pc = "abort"
  /\ State(mine[agent.task].slot, "aborted") /\ mine' = Regained(agent.task) /\ agent' = AtRest
  /\ UNCHANGED <<prod_idx, cons_idx, latch_error, push, cpu, ktask, msgs>>

UnscheduleAbort ==
  /\ agent.pc = "abort"
  /\ IF slot[mine[agent.task].slot].state = "ready"
     THEN State(mine[agent.task].slot, "aborted") /\ mine' = Regained(agent.task) /\ agent' = AtRest
     ELSE agent' = [agent EXCEPT !.pc = "spin"] /\ UNCHANGED <<slot, mine>>
  /\ UNCHANGED <<prod_idx, cons_idx, latch_error, push, cpu, ktask, msgs>>

\* The loop ends when the state is negative.
UnscheduleSpin ==
  LET s == mine[agent.task].slot
  IN  /\ agent.pc = "spin"
      /\ ~Claimed(s) /\ slot[s].state \notin {"ready", "reaped"}
      /\ agent' = AtRest
      /\ IF slot[s].state = "complete" THEN UNCHANGED <<slot, mine>>
         ELSE State(s, "reaped") /\ mine' = Regained(agent.task)
      /\ UNCHANGED <<prod_idx, cons_idx, latch_error, push, cpu, ktask, msgs>>

-----------------------------------------------------------------------------
(* pnt_ring_reap_errors, for every slot *)

ReapErrors ==
  LET s == agent.s
      next == IF s + 1 = NumSlots THEN AtRest ELSE [agent EXCEPT !.s = s + 1]
  IN  /\ agent.pc = "scan"
      /\ agent' = next
      /\ IF slot[s].state = "error" /\ slot[s].task_ptr # None
         THEN State(s, "reaped") /\ mine' = Regained(slot[s].task_ptr)
         ELSE UNCHANGED <<slot, mine>>
      /\ latch_error' = (latch_error \/ (slot[s].state = "error" /\ slot[s].task_ptr = None))
      /\ UNCHANGED <<prod_idx, cons_idx, push, cpu, ktask, msgs>>

-----------------------------------------------------------------------------
(* The agent's loop *)

AgentSchedules(t) ==
  /\ agent.pc = "loop" /\ mine[t].ball /\ MayPush
  /\ agent' = [AtRest EXCEPT !.pc = "push"]
  /\ push' = [push EXCEPT ![TheAgent] = [NotPushing EXCEPT !.pc = "prod", !.gtid = t]]
  /\ UNCHANGED <<ring, cpu, mine, ktask, msgs>>

AgentUnschedules(t) ==
  /\ agent.pc = "loop" /\ mine[t].slot # None
  /\ agent' = [AtRest EXCEPT !.pc = "unschedule", !.task = t]
  /\ UNCHANGED <<ring, push, cpu, mine, ktask, msgs>>

AgentScans ==
  /\ agent.pc = "loop" /\ latch_error
  /\ latch_error' = FALSE
  /\ agent' = [AtRest EXCEPT !.pc = "scan"]
  /\ UNCHANGED <<prod_idx, cons_idx, slot, push, cpu, mine, ktask, msgs>>

\* A message.  The departure of a task that is in the ring is handled after it has
\* been taken back.
AgentMessage ==
  LET m == Head(msgs)
      t == m.task
  IN  /\ agent.pc = "loop" /\ msgs # << >>
      /\ IF m.type = "departed" /\ mine[t].slot # None
         THEN /\ agent' = [AtRest EXCEPT !.pc = "unschedule", !.task = t]
              /\ UNCHANGED <<slot, mine, msgs>>
         ELSE /\ msgs' = Tail(msgs)
              /\ mine' = [mine EXCEPT ![t] = [slot |-> IF m.type = "wakeup" THEN m.slot ELSE None,
                                              ball |-> m.type = "preempt" \/ (m.type = "wakeup" /\ m.slot = None)]]
              /\ slot' = CASE m.type = "wakeup" /\ m.slot # None -> [slot EXCEPT ![m.slot].task_ptr = t]
                           [] m.type = "on_cpu" -> [slot EXCEPT ![mine[t].slot].state = "reaped"]
                           [] OTHER -> slot
              /\ UNCHANGED agent
      /\ UNCHANGED <<prod_idx, cons_idx, latch_error, push, cpu, ktask>>

AgentStep == UnscheduleLoad \/ UnscheduleAbort \/ UnscheduleSpin \/ ReapErrors

-----------------------------------------------------------------------------
(* The kernel *)

\* A task wakes up; the BPF program may push it.
KWakeup(t) ==
  /\ ktask[t] = "blocked" /\ push[t].pc = "out" /\ MayPush
  /\ ktask' = [ktask EXCEPT ![t] = "runnable"]
  /\ \/ push' = [push EXCEPT ![t] = [NotPushing EXCEPT !.pc = "prod", !.gtid = t]] /\ UNCHANGED msgs
     \/ Post("wakeup", t, None) /\ UNCHANGED push
  /\ UNCHANGED <<ring, cpu, agent, mine>>

KDepart(t) ==
  /\ ktask[t] = "runnable" /\ push[t].pc = "out"
  /\ ktask' = [ktask EXCEPT ![t] = "departed"]
  /\ Post("departed", t, None)
  /\ UNCHANGED <<ring, push, cpu, agent, mine>>

\* A CPU without a task asks for one.
KPick(c) ==
  /\ cpu[c].pc = "out" /\ prod_idx # cons_idx
  /\ Runs(c, "cons")
  /\ UNCHANGED <<ring, push, agent, mine, ktask, msgs>>

\* The CPU switches to the task it latched.
KSwitch(c) ==
  \E t \in Task :
    /\ cpu[c].pc = "switch" /\ ktask[t] = c
    /\ Post("on_cpu", t, None)
    /\ Runs(c, "busy")
    /\ UNCHANGED <<ring, push, agent, mine, ktask>>

KStop(c) ==
  \E t \in Task, how \in {"preempt", "blocked"} :
    /\ cpu[c].pc = "busy" /\ ktask[t] = c
    /\ Post(how, t, None)
    /\ ktask' = [ktask EXCEPT ![t] = IF how = "preempt" THEN "runnable" ELSE "blocked"]
    /\ cpu' = [cpu EXCEPT ![c] = Outside]
    /\ UNCHANGED <<ring, push, agent, mine>>

Next ==
  \/ \E p \in Pusher : PushStep(p)
  \/ \E c \in Cpu : LatchStep(c) \/ KPick(c) \/ KSwitch(c) \/ KStop(c)
  \/ \E t \in Task : AgentSchedules(t) \/ AgentUnschedules(t) \/ KWakeup(t) \/ KDepart(t)
  \/ AgentStep \/ AgentScans \/ AgentMessage

\* Programs run; the agent handles messages and errors; tasks do not keep a CPU.
Fairness ==
  /\ \A p \in Pusher : WF_vars(PushStep(p))
  /\ \A c \in Cpu : WF_vars(LatchStep(c) \/ KPick(c) \/ KSwitch(c) \/ KStop(c))
  /\ WF_vars(AgentStep) /\ SF_vars(AgentScans) /\ SF_vars(AgentMessage)

Spec == Init /\ [][Next]_vars /\ Fairness

-----------------------------------------------------------------------------
\* Ring slot s holds task t for BPF to run.
Live(s, t) == slot[s].gtid = t /\ (slot[s].state = "ready" \/ Claimed(s))

\* "The agent has regained control over the task's state and has yanked the ball back":
\* while the agent has the ball no slot that BPF can run holds the task, and it has no CPU.
BallIsExclusive ==
  \A t \in Task : mine[t].ball /\ push[TheAgent].gtid # t =>
    ktask[t] \notin Cpu /\ \A s \in Slot : ~Live(s, t)

\* "Why do we need REAPED?": task->slot is never a slot of another task, so that neither
\* Unschedule nor a reap can hit another one's transaction.
SlotIsItsOwn ==
  \A t \in Task : mine[t].slot # None => slot[mine[t].slot].gtid = t /\ slot[mine[t].slot].state # "reaped"

\* Who fills a slot has it alone: nobody else pushes into it or consumes it.
FilledAlone ==
  \A p \in Pusher : push[p].pc \in {"fill", "ready"} =>
    LET s == SlotOf(push[p].idx)
    IN  /\ \A q \in Pusher \ {p} : push[q].pc \in {"fill", "ready"} => SlotOf(push[q].idx) # s
        /\ \A c \in Cpu : cpu[c].pc \in {"claim", "drop", "run", "complete", "failed"} => MySlot(c) # s

\* "Weird state": a slot that was claimed and is not READY is ABORTED.
NoWeirdState == \A c \in Cpu : cpu[c].pc = "drop" => slot[MySlot(c)].state = "aborted"

\* A slot, a task and the ball always have one owner.
RingIsSound == BallIsExclusive /\ SlotIsItsOwn /\ FilledAlone /\ NoWeirdState

\* A failed transaction is reaped some time, even if it fails before the agent has
\* heard of its task: no slot and no task is stuck with an error nobody looks for.
ErrorsAreReaped == \A s \in Slot : slot[s].state = "error" ~> slot[s].state # "error"

\* Unschedule spins only while BPF is at work, and returns.
UnscheduleReturns == agent.pc = "spin" ~> agent.pc # "spin"
=============================================================================
