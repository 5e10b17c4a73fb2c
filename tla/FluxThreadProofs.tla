-------------------------- MODULE FluxThreadProofs --------------------------
(***************************************************************************)
(* Proofs about FluxThread for any number of threads and CPUs.  A thread   *)
(* that waits is kept, and known as long as somebody refers to it, also    *)
(* when threads leave by a switchto; it must not come back before Flux     *)
(* has forgotten it.  Biff's count of CPUs is exact if, further, no thread *)
(* leaves that runs by a switchto.                                         *)
(*                                                                         *)
(* The argument: between its handlers a thread is enqueued, or pending, or *)
(* has been given to the kernel, and at most one PNT is asking the kernel  *)
(* to run it, because only that PNT or the end of the thread takes         *)
(* pending_latch away.                                                     *)
(***************************************************************************)
EXTENDS FluxThread, TLAPS

TaskState == {"outside", "blocked", "runnable", "latched", "running"}
Asking == {"run", "estale", "ebusy"}
ThreadOrNone == Thread \cup {None}

ThreadRec == [sched : BOOLEAN, refcnt : Int, on_rq : BOOLEAN, on_cpu : BOOLEAN, pending_latch : BOOLEAN,
              synced : BOOLEAN, enqueued : BOOLEAN, times_up : BOOLEAN]

CpuRec == [pc : {"out", "loop", "pick", "end"} \cup Asking, i : Int, t : ThreadOrNone, fresh : BOOLEAN,
           cur : ThreadOrNone, current : ThreadOrNone, running : ThreadOrNone, chain : BOOLEAN,
           latched : ThreadOrNone, busy : ThreadOrNone, resched : BOOLEAN]

Types ==
  /\ task \in [Thread -> TaskState] /\ msg \in [Thread -> Msg \cup {None}]
  /\ thr \in [Thread -> ThreadRec] /\ cpu \in [Cpu -> CpuRec]
  /\ sw_lookup \subseteq Thread /\ rq \in Seq(Thread) /\ nr_cpus_wanted \in Int

\* A PNT has a thread exactly while it asks the kernel to run it.
PntsAsk == \A c \in Cpu : cpu[c].t # None <=> cpu[c].pc \in Asking

\* What the kernel has: a thread runs on, or is latched by, one CPU.
KernelHas ==
  /\ \A c \in Cpu :
        /\ cpu[c].running # None => task[cpu[c].running] = "running"
        /\ cpu[c].latched # None => task[cpu[c].latched] = "latched"
  /\ \A c, d \in Cpu :
        /\ cpu[c].running # None /\ cpu[c].running = cpu[d].running => c = d
        /\ cpu[c].latched # None /\ cpu[c].latched = cpu[d].latched => c = d

\* The message stream has a reference until the handler of the last message has returned.
StreamAt(t) ==
  /\ thr[t].sched <=> task[t] # "outside" \/ (msg[t] # None /\ Leaves(msg[t]))
  /\ msg[t] # None /\ Leaves(msg[t]) => task[t] = "outside"
StreamHolds == \A t \in Thread : StreamAt(t)

\* The queue holds the enqueued threads, each one once.
LineIsExact ==
  /\ \A i, j \in 1 .. Len(rq) : rq[i] = rq[j] => i = j
  /\ \A t \in Thread : thr[t].enqueued <=> \E i \in 1 .. Len(rq) : rq[i] = t

\* A thread of ghOSt is runnable and either enqueued or pending, or neither.
WaitsAt(t) ==
  /\ thr[t].enqueued => task[t] = "runnable" /\ ~ thr[t].pending_latch
  /\ task[t] = "runnable" => thr[t].enqueued \/ thr[t].pending_latch
  /\ task[t] # "outside" /\ thr[t].pending_latch =>
        task[t] = "runnable" /\ \E c \in Cpu : cpu[c].pc = "run" /\ cpu[c].t = t
EnqueuedOrPending == \A t \in Thread : WaitsAt(t)

\* The one PNT that asks for a thread, and whose request may succeed only if it waits.
OnePntAsks ==
  /\ \A c \in Cpu : cpu[c].pc = "run" =>
        thr[cpu[c].t].pending_latch /\ (cpu[c].fresh => task[cpu[c].t] = "runnable")
  /\ \A c, d \in Cpu : cpu[c].pc = "run" /\ cpu[d].pc = "run" /\ cpu[c].t = cpu[d].t => c = d

Pnts(t) == {c \in Cpu : cpu[c].t = t}

RefsAreExact ==
  \A t \in Thread :
     /\ thr[t].refcnt = (IF thr[t].sched THEN 1 ELSE 0) + Cardinality(Pnts(t))
     /\ t \in sw_lookup <=> thr[t].refcnt > 0

ThreadsInv ==
  /\ Types /\ PntsAsk /\ KernelHas /\ StreamHolds
  /\ LineIsExact /\ EnqueuedOrPending /\ OnePntAsks /\ RefsAreExact

\* The message that is being handled says what the thread did.
MsgAt(t) ==
  msg[t] # None =>
     /\ msg[t].type = "wakeup" => task[t] = "runnable"
     /\ msg[t].type = "blocked" => task[t] = "blocked"
MsgIsTrue == \A t \in Thread : MsgAt(t)

\* Where a thread runs by a switchto.
ByChain(t) == \E c \in Cpu : cpu[c].running = t /\ cpu[c].chain

\* on_rq, as soon as the handler has returned: a thread that waits or runs, unless it was
\* switched to.
OnRqAt(t) ==
  task[t] # "outside" =>
     ((IF msg[t] = None THEN thr[t].on_rq ELSE OnRq(msg[t], thr[t].on_rq))
        <=> (task[t] \in {"runnable", "latched"} \/ (task[t] = "running" /\ ~ ByChain(t))))
OnRqIsTrue == \A t \in Thread : OnRqAt(t)

\* The threads for which a CPU has been requested.
IsCounted(t) ==
  \/ task[t] \in {"runnable", "latched", "running"} /\ ~ (msg[t] # None /\ msg[t].type = "wakeup")
  \/ msg[t] # None /\ msg[t].type = "blocked"
Counted == {t \in Thread : IsCounted(t)}

CountIsExact == nr_cpus_wanted = Cardinality(Counted)

NoChainWithoutThread == \A c \in Cpu : cpu[c].running = None => ~ cpu[c].chain

LoadInv == MsgIsTrue /\ OnRqIsTrue /\ CountIsExact /\ CurrentIsRunning /\ NoChainWithoutThread

-----------------------------------------------------------------------------
(* Counting.  The proofs use these facts about finite sets; FluxTheorems   *)
(* derives them from the library, so that its theorems do not depend on    *)
(* them.                                                                   *)

CountingLaws ==
  /\ Cardinality({}) = 0
  /\ \A S : IsFiniteSet(S) => Cardinality(S) \in Nat /\ (Cardinality(S) = 0 => S = {})
  /\ \A S, T : IsFiniteSet(T) /\ S \subseteq T => IsFiniteSet(S)
  /\ \A S, x : IsFiniteSet(S) /\ x \notin S => Cardinality(S \cup {x}) = Cardinality(S) + 1
  /\ \A S, x : IsFiniteSet(S) /\ x \in S => IsFiniteSet(S \ {x}) /\ Cardinality(S \ {x}) = Cardinality(S) - 1
  /\ \A x : Cardinality({x}) = 1

\* The empty set counts 0.
LEMMA CountEmpty ==
  ASSUME CountingLaws
  PROVE  Cardinality({}) = 0
  BY DEF CountingLaws

\* A count is a number, and 0 for the empty set alone.
LEMMA CountIsNat ==
  ASSUME CountingLaws, NEW S, IsFiniteSet(S)
  PROVE  Cardinality(S) \in Nat /\ (Cardinality(S) = 0 => S = {})
  BY Zenon DEF CountingLaws

\* Every part of a finite set is finite.
LEMMA SubsetIsFinite ==
  ASSUME CountingLaws, NEW T, IsFiniteSet(T), NEW S, S \subseteq T
  PROVE  IsFiniteSet(S)
  BY Zenon DEF CountingLaws

\* A new element counts 1.
LEMMA CountAdds ==
  ASSUME CountingLaws, NEW S, IsFiniteSet(S), NEW x, x \notin S
  PROVE  Cardinality(S \cup {x}) = Cardinality(S) + 1
  BY Zenon DEF CountingLaws

\* An element that leaves counted 1.
LEMMA CountRemoves ==
  ASSUME CountingLaws, NEW S, IsFiniteSet(S), NEW x, x \in S
  PROVE  IsFiniteSet(S \ {x}) /\ Cardinality(S \ {x}) = Cardinality(S) - 1
  BY Zenon DEF CountingLaws

\* One element counts 1.
LEMMA CountSingle ==
  ASSUME CountingLaws, NEW x
  PROVE  Cardinality({x}) = 1
  BY Zenon DEF CountingLaws

\* s is the sequence q of n elements of T without the one at k.
IsWithout(s, q, T, n, k) ==
  /\ s \in Seq(T) /\ Len(s) = n - 1
  /\ \A i \in 1 .. (k - 1) : s[i] = q[i]
  /\ \A i \in k .. (n - 1) : s[i] = q[i + 1]

\* What is before and what is after an element, joined.
LEMMA RemoveAt ==
  ASSUME NEW T, NEW q \in Seq(T), NEW n, n = Len(q), NEW k \in 1 .. n,
         NEW left, left = SubSeq(q, 1, k - 1), NEW right, right = SubSeq(q, k + 1, n)
  PROVE  IsWithout(left \o right, q, T, n, k)
<1>1. n \in Nat /\ DOMAIN q = 1 .. n
  OBVIOUS
<1>2. left \in Seq(T) /\ Len(left) = k - 1 /\ \A i \in 1 .. (k - 1) : left[i] = q[i]
  BY <1>1
<1>3. right \in Seq(T) /\ Len(right) = n - k
  <2>1. CASE k < n
    BY <1>1, <2>1
  <2>2. CASE k = n
    BY <1>1, <2>2
  <2>3. QED
    BY <1>1, <2>1, <2>2
<1>4. ASSUME NEW i \in 1 .. (n - k) PROVE right[i] = q[i + k]
  <2>1. i + (k + 1) - 1 = i + k /\ i \in 1 .. (n + 1 - (k + 1))
    BY <1>1
  <2>2. right[i] = q[i + (k + 1) - 1]
    BY <1>1, <2>1
  <2>3. QED
    BY <2>1, <2>2, Zenon
<1>5. SUFFICES ASSUME NEW l \in Seq(T), NEW r \in Seq(T), Len(l) = k - 1, Len(r) = n - k,
                      \A i \in 1 .. (k - 1) : l[i] = q[i], \A i \in 1 .. (n - k) : r[i] = q[i + k]
               PROVE  IsWithout(l \o r, q, T, n, k)
  BY <1>2, <1>3, <1>4, Zenon
<1>6. l \o r \in Seq(T) /\ Len(l \o r) = Len(l) + Len(r)
  OBVIOUS
<1>7. \A i \in 1 .. (k - 1) : (l \o r)[i] = q[i]
  BY <1>1, <1>5
<1>8. ASSUME NEW i \in k .. (n - 1) PROVE (l \o r)[i] = q[i + 1]
  <2>1. i - (k - 1) \in 1 .. (n - k) /\ i - (k - 1) + k = i + 1
    BY <1>1
  <2>2. (l \o r)[i] = r[i - (k - 1)]
    BY <1>1, <1>5
  <2>3. QED
    BY <1>5, <2>1, <2>2, Zenon
<1>9. Len(l \o r) = n - 1
  BY <1>1, <1>5, <1>6
<1>10. QED
  BY <1>6, <1>7, <1>8, <1>9, Zenon DEF IsWithout

-----------------------------------------------------------------------------
(* Words for what a step does. *)

\* The kernel's part of a CPU, as far as it matters.
SameKernel(k, l) ==
  l.current = k.current /\ l.running = k.running /\ l.chain = k.chain /\ l.latched = k.latched

\* What the handlers leave to every PNT.
SamePnts ==
  \A c \in Cpu :
     /\ cpu'[c].t = cpu[c].t /\ (cpu'[c].fresh => cpu[c].fresh)
     /\ cpu'[c].pc = cpu[c].pc \/ (cpu[c].pc \notin Asking /\ cpu'[c].pc \notin Asking)

\* The frame of a handler that was sent the message m of t.
Sent(t, m) ==
  /\ Types'
  /\ msg[t] = None /\ m \in Msg /\ msg'[t] = m
  /\ \A u \in Thread \ {t} : msg'[u] = msg[u] /\ thr'[u] = thr[u]
  /\ \A u \in Thread :
        /\ thr'[u].refcnt = thr[u].refcnt /\ thr'[u].sched = thr[u].sched /\ thr'[u].on_rq = thr[u].on_rq
        /\ thr'[u].pending_latch = thr[u].pending_latch
  /\ sw_lookup' = sw_lookup
  /\ SamePnts /\ \A c \in Cpu : cpu[c].t = t => ~ cpu'[c].fresh

\* What the kernel's part of CPU c becomes; the others stay as they are.
Becomes(c, current, running, chain, latched) ==
  /\ cpu'[c].current = current /\ cpu'[c].running = running /\ cpu'[c].chain = chain /\ cpu'[c].latched = latched
  /\ \A d \in Cpu \ {c} : SameKernel(cpu[d], cpu'[d])

SameLine == rq' = rq /\ \A u \in Thread : thr'[u].enqueued = thr[u].enqueued
Joins(t) == rq' = Append(rq, t) /\ thr'[t].enqueued = TRUE

\* What every store to a thread has in common here.
Touches(t) ==
  /\ thr' \in [Thread -> ThreadRec]
  /\ \A u \in Thread \ {t} : thr'[u] = thr[u]
  /\ thr'[t].refcnt = thr[t].refcnt /\ thr'[t].sched = thr[t].sched /\ thr'[t].on_rq = thr[t].on_rq

\* How the CPUs look to PNT before and after a handler.
PntsAlike(k, l) ==
  /\ l.t = k.t /\ l.fresh = k.fresh
  /\ l.pc = k.pc \/ (k.pc \notin Asking /\ l.pc \notin Asking)

\* The task of t becomes x.
Turns(t, x) == task'[t] = x /\ \A u \in Thread \ {t} : task'[u] = task[u]

\* A handler that leaves the kernel's part of every CPU as it is.
SameCpus == \A c \in Cpu : SameKernel(cpu[c], cpu'[c])

\* The CPU that runs t, if there is one, has no thread afterwards.
Frees(t) ==
  \A c \in Cpu :
     IF cpu[c].running = t
     THEN /\ cpu'[c].current = None /\ cpu'[c].running = None /\ cpu'[c].chain = FALSE
          /\ cpu'[c].latched = cpu[c].latched
     ELSE SameKernel(cpu[c], cpu'[c])

-----------------------------------------------------------------------------
(* What a step keeps by what it does not touch. *)

\* PNTs ask as before.
LEMMA SamePntsAsk ==
  ASSUME PntsAsk, SamePnts
  PROVE  PntsAsk'
  BY DEF PntsAsk, SamePnts

\* The references are those of before.
LEMMA SameRefs ==
  ASSUME RefsAreExact, SamePnts, sw_lookup' = sw_lookup,
         \A u \in Thread : thr'[u].refcnt = thr[u].refcnt /\ thr'[u].sched = thr[u].sched
  PROVE  RefsAreExact'
<1>1. \A u \in Thread : Pnts(u)' = Pnts(u)
  BY DEF Pnts, SamePnts
<1>2. QED
  BY <1>1 DEF RefsAreExact

\* The kernel has what it had.
LEMMA SameKernelHas ==
  ASSUME Types, KernelHas, \A c \in Cpu : SameKernel(cpu[c], cpu'[c]),
         \A u \in Thread : task'[u] # task[u] => task[u] \notin {"running", "latched"}
  PROVE  KernelHas'
<1>1. \A c \in Cpu : cpu[c].running \in ThreadOrNone /\ cpu[c].latched \in ThreadOrNone
  BY DEF Types, CpuRec
<1>2. QED
  BY <1>1 DEF KernelHas, SameKernel, ThreadOrNone

\* A handler keeps the invariant if it does so for its own thread and for another one, to,
\* which is switched to.
LEMMA SentKeeps ==
  ASSUME ThreadsInv, NEW t \in Thread, NEW to \in Thread, NEW m, Sent(t, m),
         \A u \in Thread \ {t, to} : task'[u] = task[u],
         LineIsExact', KernelHas', StreamAt(t)', StreamAt(to)', WaitsAt(t)', WaitsAt(to)',
         to = t \/ (task[to] # "runnable" /\ ~ thr[to].pending_latch)
  PROVE  ThreadsInv'
<1>1. PntsAsk'
  BY SamePntsAsk DEF ThreadsInv, Sent
<1>2. RefsAreExact'
  BY SameRefs DEF ThreadsInv, Sent
<1>3. StreamHolds'
  <2>1. ASSUME NEW u \in Thread \ {t, to} PROVE StreamAt(u)'
    BY <2>1 DEF ThreadsInv, StreamHolds, StreamAt, Sent
  <2>2. QED
    BY <2>1 DEF StreamHolds
<1>4. \A c \in Cpu : /\ cpu'[c].t = cpu[c].t /\ (cpu'[c].fresh => cpu[c].fresh)
                     /\ cpu[c].pc = "run" <=> cpu'[c].pc = "run"
  BY DEF Sent, SamePnts, Asking
<1>5. EnqueuedOrPending'
  <2>1. ASSUME NEW u \in Thread \ {t, to} PROVE WaitsAt(u)'
    <3>1. WaitsAt(u) /\ thr'[u] = thr[u] /\ task'[u] = task[u]
      BY DEF ThreadsInv, EnqueuedOrPending, Sent
    <3>2. QED
      BY <1>4, <3>1 DEF WaitsAt
  <2>2. QED
    BY <2>1 DEF EnqueuedOrPending
<1>6. OnePntAsks'
  <2>1. ASSUME NEW c \in Cpu, cpu'[c].pc = "run"
        PROVE  thr'[cpu'[c].t].pending_latch /\ (cpu'[c].fresh => task'[cpu'[c].t] = "runnable")
    <3>1. cpu[c].pc = "run" /\ cpu'[c].t = cpu[c].t /\ (cpu'[c].fresh => cpu[c].fresh)
      BY <1>4, <2>1
    <3>2. cpu[c].t \in Thread
      BY <3>1 DEF ThreadsInv, Types, CpuRec, PntsAsk, Asking, ThreadOrNone
    <3>3. thr[cpu[c].t].pending_latch /\ (cpu[c].fresh => task[cpu[c].t] = "runnable")
      BY <3>1 DEF ThreadsInv, OnePntAsks
    <3>4. thr'[cpu[c].t].pending_latch
      BY <3>2, <3>3 DEF Sent
    <3>5. cpu'[c].fresh => task'[cpu[c].t] = "runnable"
      BY <3>1, <3>2, <3>3 DEF Sent
    <3>6. QED
      BY <3>1, <3>4, <3>5
  <2>2. QED
    BY <1>4, <2>1 DEF ThreadsInv, OnePntAsks
<1>7. QED
  BY <1>1, <1>2, <1>3, <1>5, <1>6 DEF ThreadsInv, Sent

-----------------------------------------------------------------------------
(* What the operators of the model compute. *)

\* Send() makes the sequence numbers stale that PNTs have, and changes no CPU otherwise.
LEMMA SendGives ==
  ASSUME NEW t \in Thread, NEW m, NEW cpus \in [Cpu -> CpuRec], Send(t, m, cpus)
  PROVE  /\ cpu' \in [Cpu -> CpuRec]
         /\ \A c \in Cpu :
               /\ SameKernel(cpus[c], cpu'[c]) /\ cpu'[c].pc = cpus[c].pc /\ cpu'[c].t = cpus[c].t
               /\ cpu'[c].fresh => cpus[c].fresh /\ cpus[c].t # t
<1>1. \A c \in Cpu : [cpus[c] EXCEPT !.fresh = FALSE] \in CpuRec
  BY Zenon DEF CpuRec
<1>2. cpu' \in [Cpu -> CpuRec]
  BY <1>1 DEF Send
<1>3. QED
  BY <1>2 DEF Send, SameKernel, CpuRec

\* insert_tail of a thread that is not enqueued
LEMMA EnqueueKeepsLine ==
  ASSUME rq \in Seq(Thread), LineIsExact, NEW t \in Thread, ~ thr[t].enqueued, rq' = Append(rq, t),
         thr'[t].enqueued = TRUE, \A u \in Thread \ {t} : thr'[u].enqueued = thr[u].enqueued
  PROVE  LineIsExact' /\ rq' \in Seq(Thread)
<1>1. rq' \in Seq(Thread) /\ Len(rq') = Len(rq) + 1 /\ rq'[Len(rq) + 1] = t /\ \A i \in 1 .. Len(rq) : rq'[i] = rq[i]
  OBVIOUS
<1>2. \A i \in 1 .. Len(rq) : rq[i] # t
  BY DEF LineIsExact
<1>3. \A i, j \in 1 .. Len(rq') : rq'[i] = rq'[j] => i = j
  BY <1>1, <1>2 DEF LineIsExact
<1>4. ASSUME NEW u \in Thread PROVE thr'[u].enqueued <=> \E i \in 1 .. Len(rq') : rq'[i] = u
  <2>1. CASE u = t
    BY <1>1, <2>1
  <2>2. CASE u # t
    BY <1>1, <2>2 DEF LineIsExact
  <2>3. QED
    BY <2>1, <2>2
<1>5. QED
  BY <1>1, <1>3, <1>4 DEF LineIsExact

\* synced is not of interest here.
LEMMA UnsyncedTouches ==
  ASSUME thr \in [Thread -> ThreadRec], NEW t \in Thread, Unsynced(t)
  PROVE  /\ Touches(t) /\ thr'[t].pending_latch = thr[t].pending_latch
         /\ \A u \in Thread : thr'[u].enqueued = thr[u].enqueued
<1>1. thr' \in [Thread -> ThreadRec]
  BY Zenon DEF Unsynced, ThreadRec
<1>2. QED
  BY <1>1 DEF Unsynced, ThreadRec, Touches

\* biff_enqueue_task() puts the thread at the end of the queue.
LEMMA EnqueueTouches ==
  ASSUME thr \in [Thread -> ThreadRec], NEW t \in Thread, NEW pl \in BOOLEAN, biff_enqueue_task(t, pl)
  PROVE  Touches(t) /\ thr'[t].pending_latch = pl /\ Joins(t)
<1>1. [thr[t] EXCEPT !.enqueued = TRUE, !.times_up = FALSE, !.pending_latch = pl, !.synced = FALSE] \in ThreadRec
  BY Zenon DEF ThreadRec
<1>2. thr' \in [Thread -> ThreadRec]
  BY <1>1 DEF biff_enqueue_task
<1>3. QED
  BY <1>2 DEF biff_enqueue_task, ThreadRec, Touches, Joins

\* A handler that stores to its own thread alone is in the frame Sent.
LEMMA SendSent ==
  ASSUME Types, NEW t \in Thread, NEW m \in Msg, NEW cpus \in [Cpu -> CpuRec], Send(t, m, cpus),
         \A c \in Cpu : PntsAlike(cpu[c], cpus[c]),
         Touches(t), thr'[t].pending_latch = thr[t].pending_latch, sw_lookup' = sw_lookup,
         task' \in [Thread -> TaskState], rq' \in Seq(Thread), nr_cpus_wanted' \in Int
  PROVE  Sent(t, m) /\ \A c \in Cpu : SameKernel(cpus[c], cpu'[c])
<1>1. /\ cpu' \in [Cpu -> CpuRec]
      /\ \A c \in Cpu :
            /\ SameKernel(cpus[c], cpu'[c]) /\ cpu'[c].pc = cpus[c].pc /\ cpu'[c].t = cpus[c].t
            /\ cpu'[c].fresh => cpus[c].fresh /\ cpus[c].t # t
  BY SendGives
<1>2. /\ msg' \in [Thread -> Msg \cup {None}] /\ msg[t] = None /\ msg'[t] = m
      /\ \A u \in Thread \ {t} : msg'[u] = msg[u]
  BY DEF Types, Send, Unlocked
<1>3. Types'
  BY <1>1, <1>2 DEF Types, Touches
<1>4. SamePnts /\ \A c \in Cpu : cpu[c].t = t => ~ cpu'[c].fresh
  BY <1>1 DEF SamePnts, PntsAlike
<1>5. \A u \in Thread :
        /\ thr'[u].refcnt = thr[u].refcnt /\ thr'[u].sched = thr[u].sched /\ thr'[u].on_rq = thr[u].on_rq
        /\ thr'[u].pending_latch = thr[u].pending_latch
  BY DEF Touches
<1>6. QED
  BY <1>1, <1>2, <1>3, <1>4, <1>5 DEF Sent, Touches

\* As SendSent, for a handler that changes the record of one CPU.
LEMMA SendSentCpu ==
  ASSUME Types, NEW t \in Thread, NEW m \in Msg, NEW c \in Cpu, NEW k \in CpuRec, PntsAlike(cpu[c], k),
         Send(t, m, [cpu EXCEPT ![c] = k]),
         Touches(t), thr'[t].pending_latch = thr[t].pending_latch, sw_lookup' = sw_lookup,
         task' \in [Thread -> TaskState], rq' \in Seq(Thread), nr_cpus_wanted' \in Int
  PROVE  Sent(t, m) /\ Becomes(c, k.current, k.running, k.chain, k.latched)
<1> DEFINE cpus == [cpu EXCEPT ![c] = k]
<1>1. cpus \in [Cpu -> CpuRec] /\ cpus[c] = k /\ \A d \in Cpu \ {c} : cpus[d] = cpu[d]
  BY DEF Types
<1>2. Send(t, m, cpus)
  OBVIOUS
<1> HIDE DEF cpus
<1>3. \A d \in Cpu : PntsAlike(cpu[d], cpus[d])
  BY <1>1 DEF PntsAlike
<1>4. Sent(t, m) /\ \A d \in Cpu : SameKernel(cpus[d], cpu'[d])
  BY <1>1, <1>2, <1>3, SendSent
<1>5. QED
  BY <1>1, <1>4 DEF Becomes, SameKernel

\* As SendSent, for a handler that changes no CPU.
LEMMA SendSentNoCpu ==
  ASSUME Types, NEW t \in Thread, NEW m \in Msg, Send(t, m, cpu),
         Touches(t), thr'[t].pending_latch = thr[t].pending_latch, sw_lookup' = sw_lookup,
         task' \in [Thread -> TaskState], rq' \in Seq(Thread), nr_cpus_wanted' \in Int
  PROVE  Sent(t, m) /\ SameCpus
<1>1. \A c \in Cpu : PntsAlike(cpu[c], cpu[c])
  BY DEF PntsAlike
<1>2. cpu \in [Cpu -> CpuRec]
  BY DEF Types
<1>3. QED
  BY <1>1, <1>2, SendSent, Zenon DEF SameCpus

\* The fields of a message.
LEMMA MessageIsMsg ==
  ASSUME NEW c \in Cpu \cup {None}, NEW b \in BOOLEAN,
         NEW type \in {"on_cpu", "blocked", "wakeup", "preempt", "switchto", "changed", "departed", "dead",
                       "latch_failure"}
  PROVE  /\ Message(type, c, b) \in Msg /\ Message(type, c, b) # None
         /\ Message(type, c, b).type = type /\ Message(type, c, b).from_switchto = b
<1>1. /\ Message(type, c, b) \in Msg
      /\ Message(type, c, b).type = type /\ Message(type, c, b).from_switchto = b
  BY DEF Message, Msg
<1>2. QED
  BY <1>1, FluxAssumption

\* One thread changes its state for the kernel.
LEMMA TaskChanges ==
  ASSUME task \in [Thread -> TaskState], NEW t \in Thread, NEW x \in TaskState, task' = [task EXCEPT ![t] = x]
  PROVE  task' \in [Thread -> TaskState] /\ task'[t] = x /\ \A u \in Thread \ {t} : task'[u] = task[u]
  OBVIOUS

\* The record of a CPU whose thread stopped.
LEMMA StoppedGives ==
  ASSUME Types, NEW t \in Thread, NEW c \in Cpu
  PROVE  \E k \in CpuRec :
           /\ TaskStopped(t, c) = [cpu EXCEPT ![c] = k] /\ PntsAlike(cpu[c], k)
           /\ k.current = None /\ k.running = None /\ k.chain = FALSE /\ k.latched = cpu[c].latched
<1> DEFINE k == [cpu[c] EXCEPT !.current = None, !.running = None, !.chain = FALSE, !.busy = t, !.resched = FALSE]
<1>1. cpu[c] \in CpuRec
  BY DEF Types
<1>2. k \in CpuRec
  BY <1>1, Zenon DEF CpuRec, ThreadOrNone
<1>3. /\ PntsAlike(cpu[c], k)
      /\ k.current = None /\ k.running = None /\ k.chain = FALSE /\ k.latched = cpu[c].latched
  BY <1>1 DEF CpuRec, PntsAlike
<1>4. TaskStopped(t, c) = [cpu EXCEPT ![c] = k]
  BY DEF TaskStopped
<1> HIDE DEF k
<1>5. QED
  BY Zenon, <1>2, <1>3, <1>4

\* A step that changes the kernel's part of one CPU keeps KernelHas if that CPU's threads are
\* there alone.
LEMMA KernelChanges ==
  ASSUME Types, KernelHas, NEW c \in Cpu, NEW current, NEW running \in ThreadOrNone, NEW chain,
         NEW latched \in ThreadOrNone, Becomes(c, current, running, chain, latched),
         running # None => task'[running] = "running" /\ \A d \in Cpu \ {c} : cpu[d].running # running,
         latched # None => task'[latched] = "latched" /\ \A d \in Cpu \ {c} : cpu[d].latched # latched,
         \A d \in Cpu \ {c} : /\ cpu[d].running # None => task'[cpu[d].running] = "running"
                              /\ cpu[d].latched # None => task'[cpu[d].latched] = "latched"
  PROVE  KernelHas'
<1>1. \A d \in Cpu : /\ cpu'[d].running = IF d = c THEN running ELSE cpu[d].running
                     /\ cpu'[d].latched = IF d = c THEN latched ELSE cpu[d].latched
  BY DEF Becomes, SameKernel
<1>2. ASSUME NEW d \in Cpu
      PROVE  /\ cpu'[d].running # None => task'[cpu'[d].running] = "running"
             /\ cpu'[d].latched # None => task'[cpu'[d].latched] = "latched"
  BY <1>1
<1>3. ASSUME NEW d \in Cpu, NEW e \in Cpu
      PROVE  /\ cpu'[d].running # None /\ cpu'[d].running = cpu'[e].running => d = e
             /\ cpu'[d].latched # None /\ cpu'[d].latched = cpu'[e].latched => d = e
  BY <1>1 DEF KernelHas
<1>4. QED
  BY <1>2, <1>3 DEF KernelHas

\* What the invariant says of the thread a CPU runs or has latched.
LEMMA KernelThread ==
  ASSUME ThreadsInv, NEW t \in Thread, task[t] \in {"running", "latched", "blocked"}
  PROVE  /\ ~ thr[t].enqueued /\ ~ thr[t].pending_latch /\ thr[t].sched
         /\ \A c \in Cpu : ~ (cpu[c].pc = "run" /\ cpu[c].t = t)
<1>1. WaitsAt(t) /\ StreamAt(t) /\ OnePntAsks
  BY DEF ThreadsInv, EnqueuedOrPending, StreamHolds
<1>2. ~ thr[t].enqueued /\ ~ thr[t].pending_latch /\ thr[t].sched
  BY <1>1 DEF WaitsAt, StreamAt
<1>3. QED
  BY <1>1, <1>2 DEF OnePntAsks

\* The threads of a CPU.
LEMMA CpuThreads ==
  ASSUME Types, NEW c \in Cpu
  PROVE  cpu[c].running \in ThreadOrNone /\ cpu[c].latched \in ThreadOrNone /\ cpu[c].current \in ThreadOrNone
  BY DEF Types, CpuRec

-----------------------------------------------------------------------------
(* What keeps the load. *)

One(b) == IF b THEN 1 ELSE 0

\* A request for a CPU, or the end of one, for t alone.
LEMMA CountFollows ==
  ASSUME CountingLaws, CountIsExact, NEW t \in Thread, \A u \in Thread \ {t} : IsCounted(u)' <=> IsCounted(u),
         nr_cpus_wanted' = nr_cpus_wanted + One(IsCounted(t)') - One(IsCounted(t))
  PROVE  CountIsExact'
<1>1. IsFiniteSet(Counted) /\ Cardinality(Counted) \in Nat
  <2>1. IsFiniteSet(Thread) /\ Counted \subseteq Thread
    BY FluxAssumption DEF Counted
  <2>2. QED
    BY <2>1, SubsetIsFinite, CountIsNat
<1>2. nr_cpus_wanted = Cardinality(Counted)
  BY DEF CountIsExact
<1>3. t \in Counted <=> IsCounted(t)
  BY DEF Counted
<1>4. CASE IsCounted(t)' <=> IsCounted(t)
  <2>1. Counted' = Counted
    BY <1>4 DEF Counted
  <2>2. nr_cpus_wanted' = nr_cpus_wanted
    BY <1>1, <1>2, <1>4 DEF One
  <2>3. QED
    BY <1>2, <2>1, <2>2 DEF CountIsExact
<1>5. CASE IsCounted(t)' /\ ~ IsCounted(t)
  <2>1. Counted' = Counted \cup {t}
    BY <1>5 DEF Counted
  <2>2. nr_cpus_wanted' = nr_cpus_wanted + 1
    BY <1>1, <1>2, <1>5 DEF One
  <2>3. Cardinality(Counted \cup {t}) = Cardinality(Counted) + 1
    BY Zenon, <1>1, <1>3, <1>5, CountAdds
  <2>4. QED
    BY <1>2, <2>1, <2>2, <2>3 DEF CountIsExact
<1>6. CASE ~ IsCounted(t)' /\ IsCounted(t)
  <2>1. Counted' = Counted \ {t}
    BY <1>6 DEF Counted
  <2>2. nr_cpus_wanted' = nr_cpus_wanted - 1
    BY <1>1, <1>2, <1>6 DEF One
  <2>3. Cardinality(Counted \ {t}) = Cardinality(Counted) - 1
    BY <1>1, <1>3, <1>6, CountRemoves
  <2>4. QED
    BY <1>2, <2>1, <2>2, <2>3 DEF CountIsExact
<1>7. QED
  BY <1>4, <1>5, <1>6

\* What a step leaves as it is of the threads other than those in S.
LoadFrame(S) ==
  \A u \in Thread \ S :
     /\ task'[u] = task[u] /\ msg'[u] = msg[u] /\ thr'[u].on_rq = thr[u].on_rq
     /\ ByChain(u)' <=> ByChain(u)

\* The threads a step leaves alone keep their part of LoadInv.
LEMMA FrameKeeps ==
  ASSUME MsgIsTrue, OnRqIsTrue, NEW S, LoadFrame(S), NEW u \in Thread \ S
  PROVE  MsgAt(u)' /\ OnRqAt(u)' /\ (IsCounted(u)' <=> IsCounted(u))
<1>1. MsgAt(u) /\ OnRqAt(u)
  BY DEF MsgIsTrue, OnRqIsTrue
<1>2. /\ task'[u] = task[u] /\ msg'[u] = msg[u] /\ thr'[u].on_rq = thr[u].on_rq
      /\ ByChain(u)' <=> ByChain(u)
  BY DEF LoadFrame
<1>3. MsgAt(u)'
  BY <1>1, <1>2 DEF MsgAt
<1>4. IsCounted(u)' <=> IsCounted(u)
  BY <1>2 DEF IsCounted
<1>5. OnRqAt(u)'
  BY <1>1, <1>2, Zenon DEF OnRqAt
<1>6. QED
  BY <1>3, <1>4, <1>5

\* A step about t keeps LoadInv if it does so for t and for the CPUs.
LEMMA LoadKeeps ==
  ASSUME CountingLaws, LoadInv, NEW t \in Thread, LoadFrame({t}), MsgAt(t)', OnRqAt(t)',
         CurrentIsRunning', NoChainWithoutThread',
         nr_cpus_wanted' = nr_cpus_wanted + One(IsCounted(t)') - One(IsCounted(t))
  PROVE  LoadInv'
<1>1. MsgIsTrue /\ OnRqIsTrue /\ CountIsExact
  BY DEF LoadInv
<1>2. \A u \in Thread \ {t} : MsgAt(u)' /\ OnRqAt(u)' /\ (IsCounted(u)' <=> IsCounted(u))
  BY <1>1, FrameKeeps
<1>3. MsgIsTrue' /\ OnRqIsTrue'
  BY <1>2 DEF MsgIsTrue, OnRqIsTrue
<1>4. CountIsExact'
  BY <1>1, <1>2, CountFollows
<1>5. QED
  BY <1>3, <1>4 DEF LoadInv

\* As LoadKeeps, for a step that leaves the count alone.
LEMMA LoadKeepsCount ==
  ASSUME CountingLaws, Types, LoadInv, NEW t \in Thread, LoadFrame({t}), MsgAt(t)', OnRqAt(t)',
         CurrentIsRunning', NoChainWithoutThread',
         nr_cpus_wanted' = nr_cpus_wanted, IsCounted(t)' <=> IsCounted(t)
  PROVE  LoadInv'
<1>1. nr_cpus_wanted' = nr_cpus_wanted + One(IsCounted(t)') - One(IsCounted(t))
  BY DEF One, Types
<1>2. QED
  BY <1>1, LoadKeeps

\* A step that leaves the kernel's part of every CPU alone.
LEMMA SameCpusKeep ==
  ASSUME CurrentIsRunning, NoChainWithoutThread, SameCpus
  PROVE  CurrentIsRunning' /\ NoChainWithoutThread' /\ \A u : ByChain(u)' <=> ByChain(u)
<1>1. \A c \in Cpu : /\ cpu'[c].current = cpu[c].current /\ cpu'[c].running = cpu[c].running
                     /\ cpu'[c].chain = cpu[c].chain
  BY DEF SameCpus, SameKernel
<1>2. QED
  BY <1>1 DEF CurrentIsRunning, NoChainWithoutThread, ByChain

\* A step that changes it for c.
LEMMA BecomesKeeps ==
  ASSUME CurrentIsRunning, NoChainWithoutThread, NEW c \in Cpu, NEW current, NEW running, NEW chain, NEW latched,
         Becomes(c, current, running, chain, latched), current = None <=> running = None,
         ~ chain => current = running, running = None => ~ chain
  PROVE  /\ CurrentIsRunning' /\ NoChainWithoutThread'
         /\ \A u : u # running /\ u # cpu[c].running => (ByChain(u)' <=> ByChain(u))
<1>1. /\ cpu'[c].current = current /\ cpu'[c].running = running /\ cpu'[c].chain = chain
      /\ \A d \in Cpu \ {c} : /\ cpu'[d].current = cpu[d].current /\ cpu'[d].running = cpu[d].running
                              /\ cpu'[d].chain = cpu[d].chain
  BY DEF Becomes, SameKernel
<1>2. CurrentIsRunning' /\ NoChainWithoutThread'
  BY <1>1 DEF CurrentIsRunning, NoChainWithoutThread
<1>3. ASSUME NEW u, u # running, u # cpu[c].running PROVE ByChain(u)' <=> ByChain(u)
  BY <1>1, <1>3 DEF ByChain
<1>4. QED
  BY <1>2, <1>3

\* Where a thread runs there is no other.
LEMMA RunsInOnePlace ==
  ASSUME KernelHas, NEW t \in Thread, NEW c \in Cpu, cpu[c].running = t
  PROVE  task[t] = "running" /\ (ByChain(t) <=> cpu[c].chain)
<1>1. t # None
  BY FluxAssumption
<1>2. task[t] = "running" /\ \A d \in Cpu : cpu[d].running = t => d = c
  BY <1>1 DEF KernelHas
<1>3. QED
  BY <1>2 DEF ByChain

\* A message that changes nothing of this: a change, or a latch failure.
LEMMA SameLoad ==
  ASSUME CountingLaws, ThreadsInv, LoadInv, NEW t \in Thread, NEW m, m # None, m.type \in {"changed", "latch_failure"},
         m.from_switchto = FALSE, msg[t] = None, msg'[t] = m, \A u \in Thread \ {t} : msg'[u] = msg[u],
         task' = task, SameCpus, nr_cpus_wanted' = nr_cpus_wanted, \A u \in Thread : thr'[u].on_rq = thr[u].on_rq
  PROVE  LoadInv'
<1>1. Types /\ CurrentIsRunning /\ NoChainWithoutThread /\ OnRqAt(t) /\ thr[t].on_rq \in BOOLEAN
  BY DEF ThreadsInv, LoadInv, OnRqIsTrue, Types, ThreadRec
<1>2. CurrentIsRunning' /\ NoChainWithoutThread' /\ \A u : ByChain(u)' <=> ByChain(u)
  BY <1>1, SameCpusKeep
<1>3. LoadFrame({t})
  BY <1>2 DEF LoadFrame
<1>4. MsgAt(t)' /\ (IsCounted(t)' <=> IsCounted(t))
  BY DEF MsgAt, IsCounted
<1>5. OnRq(m, thr[t].on_rq) <=> thr[t].on_rq
  BY DEF OnRq
<1>6. OnRqAt(t)'
  BY <1>1, <1>2, <1>5, Zenon DEF OnRqAt
<1>7. QED
  BY <1>1, <1>2, <1>3, <1>4, <1>6, LoadKeepsCount

-----------------------------------------------------------------------------
(* The handlers.  For each one: what it does, that it keeps ThreadsInv, and *)
(* that it keeps LoadInv.                                                    *)

\* MSG_TASK_ON_CPU: the latched thread runs.
LEMMA OnCpuKeeps ==
  ASSUME CountingLaws, ThreadsInv, NEW t \in Thread, NEW c \in Cpu, handle_on_cpu(t, c)
  PROVE  ThreadsInv' /\ (LoadInv => LoadInv')
<1>1. Types
  BY DEF ThreadsInv
<1>2. /\ Sent(t, Message("on_cpu", c, FALSE)) /\ Turns(t, "running") /\ SameLine
      /\ Becomes(c, t, t, cpu[c].chain, None) /\ nr_cpus_wanted' = nr_cpus_wanted
      /\ cpu[c].latched = t /\ cpu[c].running = None
  <2> USE <1>1
  <2> DEFINE k == [cpu[c] EXCEPT !.latched = None, !.running = t, !.current = t, !.busy = None, !.pc = "out"]
  <2>1. cpu[c] \in CpuRec
    BY DEF Types
  <2>2. k \in CpuRec
    BY <2>1, Zenon DEF CpuRec, ThreadOrNone
  <2>3. PntsAlike(cpu[c], k) /\ k.current = t /\ k.running = t /\ k.chain = cpu[c].chain /\ k.latched = None
    BY <2>1 DEF CpuRec, PntsAlike, handle_on_cpu, Asking
  <2>4. Send(t, Message("on_cpu", c, FALSE), [cpu EXCEPT ![c] = k])
    BY Zenon DEF handle_on_cpu
  <2> HIDE DEF k
  <2>5. task' \in [Thread -> TaskState] /\ Turns(t, "running")
    BY TaskChanges DEF Types, handle_on_cpu, TaskState, Turns
  <2>6. Touches(t) /\ thr'[t].pending_latch = thr[t].pending_latch /\ SameLine
    BY UnsyncedTouches DEF Types, handle_on_cpu, SameLine
  <2>7. Message("on_cpu", c, FALSE) \in Msg
    BY Zenon, MessageIsMsg
  <2>8. sw_lookup' = sw_lookup /\ rq' \in Seq(Thread) /\ nr_cpus_wanted' \in Int /\ nr_cpus_wanted' = nr_cpus_wanted
    BY DEF Types, handle_on_cpu
  <2>9. Sent(t, Message("on_cpu", c, FALSE)) /\ Becomes(c, k.current, k.running, k.chain, k.latched)
    BY Zenon, <2>2, <2>3, <2>4, <2>5, <2>6, <2>7, <2>8, SendSentCpu
  <2>10. QED
    BY Zenon, <2>3, <2>5, <2>6, <2>8, <2>9 DEF handle_on_cpu
<1>3. ThreadsInv'
  <2> DEFINE m == Message("on_cpu", c, FALSE)
  <2>1. Types /\ KernelHas /\ LineIsExact
    BY DEF ThreadsInv
  <2>2. /\ Sent(t, m) /\ Turns(t, "running") /\ SameLine
        /\ Becomes(c, t, t, cpu[c].chain, None) /\ cpu[c].latched = t /\ cpu[c].running = None
    BY <2>1, <1>2, Zenon
  <2>3. m # None /\ ~ Leaves(m)
    BY Zenon, MessageIsMsg DEF Leaves
  <2> HIDE DEF m
  <2>4. t # None /\ None \in ThreadOrNone /\ t \in ThreadOrNone
    BY FluxAssumption DEF ThreadOrNone
  <2>5. task[t] = "latched"
    BY <2>1, <2>2, <2>4 DEF KernelHas
  <2>6. ~ thr[t].enqueued /\ ~ thr[t].pending_latch /\ thr[t].sched
    BY <2>5, KernelThread
  <2>7. KernelHas'
    <3>1. \A d \in Cpu \ {c} :
            /\ cpu[d].running # t /\ (cpu[d].running # None => task'[cpu[d].running] = "running")
            /\ cpu[d].latched # None => task'[cpu[d].latched] = "latched"
      BY <2>1, <2>2, <2>4, <2>5, CpuThreads DEF KernelHas, Turns, ThreadOrNone
    <3>2. QED
      BY <2>1, <2>2, <2>4, <3>1, KernelChanges DEF Turns
  <2>8. LineIsExact'
    BY <2>1, <2>2 DEF LineIsExact, SameLine
  <2>9. StreamAt(t)' /\ WaitsAt(t)'
    BY <2>2, <2>3, <2>6 DEF StreamAt, WaitsAt, Sent, SameLine, Turns
  <2>10. QED
    BY <2>2, <2>7, <2>8, <2>9, SentKeeps DEF Turns
<1>4. LoadInv => LoadInv'
  <2> HAVE LoadInv
  <2> DEFINE m == Message("on_cpu", c, FALSE)
  <2>1. Types /\ KernelHas /\ CurrentIsRunning /\ NoChainWithoutThread /\ OnRqAt(t)
    BY DEF ThreadsInv, LoadInv, OnRqIsTrue
  <2>2. /\ Sent(t, m) /\ Turns(t, "running") /\ Becomes(c, t, t, cpu[c].chain, None)
        /\ nr_cpus_wanted' = nr_cpus_wanted /\ cpu[c].latched = t /\ cpu[c].running = None
    BY <2>1, <1>2, Zenon
  <2>3. m # None /\ m.type = "on_cpu" /\ m.from_switchto = FALSE
    BY Zenon, MessageIsMsg
  <2> HIDE DEF m
  <2>4. t # None
    BY FluxAssumption
  <2>5. task[t] = "latched" /\ ~ cpu[c].chain /\ \A d \in Cpu : cpu[d].running # t
    BY <2>1, <2>2, <2>4 DEF KernelHas, NoChainWithoutThread
  <2>6. /\ CurrentIsRunning' /\ NoChainWithoutThread'
        /\ \A u : u # t /\ u # None => (ByChain(u)' <=> ByChain(u))
    BY <2>1, <2>2, <2>4, <2>5, BecomesKeeps
  <2>7. ~ ByChain(t)'
    BY <2>2, <2>5 DEF ByChain, Becomes, SameKernel
  <2>8. LoadFrame({t})
    BY <2>2, <2>6, FluxAssumption DEF LoadFrame, Sent, Turns
  <2>9. task'[t] = "running" /\ msg[t] = None /\ msg'[t] = m /\ thr'[t].on_rq = thr[t].on_rq
    BY <2>2 DEF Sent, Turns
  <2>10. thr[t].on_rq
    BY <2>1, <2>5, <2>9 DEF OnRqAt
  <2>11. MsgAt(t)' /\ (IsCounted(t)' <=> IsCounted(t))
    BY <2>3, <2>5, <2>9 DEF MsgAt, IsCounted
  <2>12. OnRqAt(t)'
    BY <2>3, <2>7, <2>9, <2>10 DEF OnRqAt, OnRq
  <2>13. QED
    BY <2>1, <2>2, <2>6, <2>8, <2>11, <2>12, LoadKeepsCount
<1>5. QED
  BY <1>3, <1>4

\* MSG_TASK_BLOCKED: the CPU has no thread; the request is taken back when the handler ends.
LEMMA BlockedKeeps ==
  ASSUME CountingLaws, ThreadsInv, NEW t \in Thread, NEW c \in Cpu, handle_blocked(t, c)
  PROVE  ThreadsInv' /\ (LoadInv => LoadInv')
<1>1. Types
  BY DEF ThreadsInv
<1>2. /\ Sent(t, Message("blocked", c, cpu[c].chain)) /\ Turns(t, "blocked") /\ SameLine
      /\ Becomes(c, None, None, FALSE, cpu[c].latched) /\ nr_cpus_wanted' = nr_cpus_wanted
      /\ cpu[c].running = t
  <2> USE <1>1
  <2>1. PICK k \in CpuRec :
          /\ TaskStopped(t, c) = [cpu EXCEPT ![c] = k] /\ PntsAlike(cpu[c], k)
          /\ k.current = None /\ k.running = None /\ k.chain = FALSE /\ k.latched = cpu[c].latched
    BY Zenon, StoppedGives
  <2>2. Send(t, Message("blocked", c, cpu[c].chain), [cpu EXCEPT ![c] = k])
    BY <2>1 DEF handle_blocked
  <2>3. task' \in [Thread -> TaskState] /\ Turns(t, "blocked")
    BY TaskChanges DEF Types, handle_blocked, TaskState, Turns
  <2>4. Touches(t) /\ thr'[t].pending_latch = thr[t].pending_latch /\ SameLine
    BY UnsyncedTouches DEF Types, handle_blocked, SameLine
  <2>5. Message("blocked", c, cpu[c].chain) \in Msg
    BY MessageIsMsg DEF Types, CpuRec
  <2>6. sw_lookup' = sw_lookup /\ rq' \in Seq(Thread) /\ nr_cpus_wanted' \in Int /\ nr_cpus_wanted' = nr_cpus_wanted
    BY DEF Types, handle_blocked
  <2>7. Sent(t, Message("blocked", c, cpu[c].chain)) /\ Becomes(c, k.current, k.running, k.chain, k.latched)
    BY Zenon, <2>1, <2>2, <2>3, <2>4, <2>5, <2>6, SendSentCpu
  <2>8. QED
    BY Zenon, <2>1, <2>3, <2>4, <2>6, <2>7 DEF handle_blocked
<1>3. ThreadsInv'
  <2> DEFINE m == Message("blocked", c, cpu[c].chain)
  <2>1. Types /\ KernelHas /\ LineIsExact
    BY DEF ThreadsInv
  <2>2. /\ Sent(t, m) /\ Turns(t, "blocked") /\ SameLine
        /\ Becomes(c, None, None, FALSE, cpu[c].latched) /\ cpu[c].running = t
    BY <2>1, <1>2, Zenon
  <2>3. m # None /\ ~ Leaves(m)
    <3>1. cpu[c].chain \in BOOLEAN
      BY <2>1 DEF Types, CpuRec
    <3>2. QED
      BY <3>1, MessageIsMsg DEF Leaves
  <2> HIDE DEF m
  <2>4. t # None /\ None \in ThreadOrNone
    BY FluxAssumption DEF ThreadOrNone
  <2>5. task[t] = "running"
    BY <2>1, <2>2, <2>4 DEF KernelHas
  <2>6. ~ thr[t].enqueued /\ ~ thr[t].pending_latch /\ thr[t].sched
    BY <2>5, KernelThread
  <2>7. KernelHas'
    <3>1. /\ \A d \in Cpu \ {c} : cpu[d].running # None => task'[cpu[d].running] = "running"
          /\ \A d \in Cpu : cpu[d].latched # None => task'[cpu[d].latched] = "latched"
      BY <2>1, <2>2, <2>4, <2>5, CpuThreads DEF KernelHas, Turns, ThreadOrNone
    <3>2. cpu[c].latched # None => \A d \in Cpu \ {c} : cpu[d].latched # cpu[c].latched
      BY <2>1 DEF KernelHas
    <3>3. cpu[c].latched \in ThreadOrNone
      BY <2>1, CpuThreads
    <3>4. QED
      BY Zenon, <2>1, <2>2, <2>4, <3>1, <3>2, <3>3, KernelChanges
  <2>8. LineIsExact'
    BY <2>1, <2>2 DEF LineIsExact, SameLine
  <2>9. StreamAt(t)' /\ WaitsAt(t)'
    BY <2>2, <2>3, <2>6 DEF StreamAt, WaitsAt, Sent, SameLine, Turns
  <2>10. QED
    BY <2>2, <2>7, <2>8, <2>9, SentKeeps DEF Turns
<1>4. LoadInv => LoadInv'
  <2> HAVE LoadInv
  <2> DEFINE m == Message("blocked", c, cpu[c].chain)
  <2>1. Types /\ KernelHas /\ CurrentIsRunning /\ NoChainWithoutThread
    BY DEF ThreadsInv, LoadInv
  <2>2. /\ Sent(t, m) /\ Turns(t, "blocked") /\ Becomes(c, None, None, FALSE, cpu[c].latched)
        /\ nr_cpus_wanted' = nr_cpus_wanted /\ cpu[c].running = t
    BY <2>1, <1>2, Zenon
  <2>3. m # None /\ m.type = "blocked"
    <3>1. cpu[c].chain \in BOOLEAN
      BY <2>1 DEF Types, CpuRec
    <3>2. QED
      BY <3>1, MessageIsMsg
  <2> HIDE DEF m
  <2>4. task[t] = "running"
    BY <2>1, <2>2, RunsInOnePlace
  <2>5. /\ CurrentIsRunning' /\ NoChainWithoutThread'
        /\ \A u : u # None /\ u # t => (ByChain(u)' <=> ByChain(u))
    BY Zenon, <2>1, <2>2, BecomesKeeps
  <2>6. LoadFrame({t})
    BY <2>2, <2>5, FluxAssumption DEF LoadFrame, Sent, Turns
  <2>7. task'[t] = "blocked" /\ msg[t] = None /\ msg'[t] = m
    BY <2>2 DEF Sent, Turns
  <2>8. MsgAt(t)' /\ (IsCounted(t)' <=> IsCounted(t))
    BY <2>3, <2>4, <2>7 DEF MsgAt, IsCounted
  <2>9. OnRqAt(t)'
    BY <2>3, <2>7 DEF OnRqAt, OnRq
  <2>10. QED
    BY <2>1, <2>2, <2>5, <2>6, <2>8, <2>9, LoadKeepsCount
<1>5. QED
  BY <1>3, <1>4

\* MSG_TASK_PREEMPT: the thread is enqueued; on_rq is set again for one that was switched to.
LEMMA PreemptKeeps ==
  ASSUME CountingLaws, ThreadsInv, NEW t \in Thread, NEW c \in Cpu, handle_preempt(t, c)
  PROVE  ThreadsInv' /\ (LoadInv => LoadInv')
<1>1. Types
  BY DEF ThreadsInv
<1>2. /\ Sent(t, Message("preempt", c, cpu[c].chain)) /\ Turns(t, "runnable") /\ Joins(t)
      /\ Becomes(c, None, None, FALSE, cpu[c].latched) /\ nr_cpus_wanted' = nr_cpus_wanted
      /\ cpu[c].running = t
  <2> USE <1>1
  <2>1. PICK k \in CpuRec :
          /\ TaskStopped(t, c) = [cpu EXCEPT ![c] = k] /\ PntsAlike(cpu[c], k)
          /\ k.current = None /\ k.running = None /\ k.chain = FALSE /\ k.latched = cpu[c].latched
    BY Zenon, StoppedGives
  <2>2. Send(t, Message("preempt", c, cpu[c].chain), [cpu EXCEPT ![c] = k])
    BY <2>1 DEF handle_preempt
  <2>3. task' \in [Thread -> TaskState] /\ Turns(t, "runnable")
    BY TaskChanges DEF Types, handle_preempt, TaskState, Turns
  <2>4. thr[t].pending_latch \in BOOLEAN
    BY DEF Types, ThreadRec
  <2>5. Touches(t) /\ thr'[t].pending_latch = thr[t].pending_latch /\ Joins(t)
    BY <2>4, EnqueueTouches DEF Types, handle_preempt
  <2>6. Message("preempt", c, cpu[c].chain) \in Msg
    BY MessageIsMsg DEF Types, CpuRec
  <2>7. sw_lookup' = sw_lookup /\ rq' \in Seq(Thread) /\ nr_cpus_wanted' \in Int /\ nr_cpus_wanted' = nr_cpus_wanted
    BY <2>5 DEF Types, handle_preempt, Joins
  <2>8. Sent(t, Message("preempt", c, cpu[c].chain)) /\ Becomes(c, k.current, k.running, k.chain, k.latched)
    BY Zenon, <2>1, <2>2, <2>3, <2>5, <2>6, <2>7, SendSentCpu
  <2>9. QED
    BY Zenon, <2>1, <2>3, <2>5, <2>7, <2>8 DEF handle_preempt
<1>3. ThreadsInv'
  <2> DEFINE m == Message("preempt", c, cpu[c].chain)
  <2>1. Types /\ KernelHas /\ LineIsExact
    BY DEF ThreadsInv
  <2>2. /\ Sent(t, m) /\ Turns(t, "runnable") /\ Joins(t)
        /\ Becomes(c, None, None, FALSE, cpu[c].latched) /\ cpu[c].running = t
    BY <2>1, <1>2, Zenon
  <2>3. m # None /\ ~ Leaves(m)
    <3>1. cpu[c].chain \in BOOLEAN
      BY <2>1 DEF Types, CpuRec
    <3>2. QED
      BY <3>1, MessageIsMsg DEF Leaves
  <2> HIDE DEF m
  <2>4. t # None /\ None \in ThreadOrNone
    BY FluxAssumption DEF ThreadOrNone
  <2>5. task[t] = "running"
    BY <2>1, <2>2, <2>4 DEF KernelHas
  <2>6. ~ thr[t].enqueued /\ ~ thr[t].pending_latch /\ thr[t].sched
    BY <2>5, KernelThread
  <2>7. KernelHas'
    <3>1. /\ \A d \in Cpu \ {c} : cpu[d].running # None => task'[cpu[d].running] = "running"
          /\ \A d \in Cpu : cpu[d].latched # None => task'[cpu[d].latched] = "latched"
      BY <2>1, <2>2, <2>4, <2>5, CpuThreads DEF KernelHas, Turns, ThreadOrNone
    <3>2. cpu[c].latched # None => \A d \in Cpu \ {c} : cpu[d].latched # cpu[c].latched
      BY <2>1 DEF KernelHas
    <3>3. cpu[c].latched \in ThreadOrNone
      BY <2>1, CpuThreads
    <3>4. QED
      BY Zenon, <2>1, <2>2, <2>4, <3>1, <3>2, <3>3, KernelChanges
  <2>8. LineIsExact'
    BY Zenon, <2>1, <2>2, <2>6, EnqueueKeepsLine DEF Types, Joins, Sent
  <2>9. StreamAt(t)' /\ WaitsAt(t)'
    BY <2>2, <2>3, <2>6 DEF StreamAt, WaitsAt, Sent, Joins, Turns
  <2>10. QED
    BY <2>2, <2>7, <2>8, <2>9, SentKeeps DEF Turns
<1>4. LoadInv => LoadInv'
  <2> HAVE LoadInv
  <2> DEFINE m == Message("preempt", c, cpu[c].chain)
  <2>1. Types /\ KernelHas /\ CurrentIsRunning /\ NoChainWithoutThread /\ OnRqAt(t)
    BY DEF ThreadsInv, LoadInv, OnRqIsTrue
  <2>2. /\ Sent(t, m) /\ Turns(t, "runnable") /\ Becomes(c, None, None, FALSE, cpu[c].latched)
        /\ nr_cpus_wanted' = nr_cpus_wanted /\ cpu[c].running = t
    BY <2>1, <1>2, Zenon
  <2>3. m # None /\ m.type = "preempt" /\ m.from_switchto = cpu[c].chain
    <3>1. cpu[c].chain \in BOOLEAN
      BY <2>1 DEF Types, CpuRec
    <3>2. QED
      BY <3>1, MessageIsMsg
  <2> HIDE DEF m
  <2>4. task[t] = "running" /\ (ByChain(t) <=> cpu[c].chain)
    BY <2>1, <2>2, RunsInOnePlace
  <2>5. /\ CurrentIsRunning' /\ NoChainWithoutThread'
        /\ \A u : u # None /\ u # t => (ByChain(u)' <=> ByChain(u))
    BY Zenon, <2>1, <2>2, BecomesKeeps
  <2>6. LoadFrame({t})
    BY <2>2, <2>5, FluxAssumption DEF LoadFrame, Sent, Turns
  <2>7. task'[t] = "runnable" /\ msg[t] = None /\ msg'[t] = m /\ thr'[t].on_rq = thr[t].on_rq
    BY <2>2 DEF Sent, Turns
  <2>8. cpu[c].chain \/ thr[t].on_rq
    BY <2>1, <2>4, <2>7 DEF OnRqAt
  <2>9. MsgAt(t)' /\ (IsCounted(t)' <=> IsCounted(t))
    BY <2>3, <2>4, <2>7 DEF MsgAt, IsCounted
  <2>10. OnRqAt(t)'
    BY <2>3, <2>7, <2>8 DEF OnRqAt, OnRq
  <2>11. QED
    BY <2>1, <2>2, <2>5, <2>6, <2>9, <2>10, LoadKeepsCount
<1>5. QED
  BY <1>3, <1>4

\* MSG_TASK_PREEMPT of a thread that was latched and did not run yet.
LEMMA PreemptLatchedKeeps ==
  ASSUME CountingLaws, ThreadsInv, NEW t \in Thread, NEW c \in Cpu, handle_preempt_latched(t, c)
  PROVE  ThreadsInv' /\ (LoadInv => LoadInv')
<1>1. Types
  BY DEF ThreadsInv
<1>2. /\ Sent(t, Message("preempt", c, FALSE)) /\ Turns(t, "runnable") /\ Joins(t)
      /\ Becomes(c, cpu[c].current, cpu[c].running, cpu[c].chain, None) /\ nr_cpus_wanted' = nr_cpus_wanted
      /\ cpu[c].latched = t
  <2> USE <1>1
  <2> DEFINE k == [cpu[c] EXCEPT !.latched = None]
  <2>1. cpu[c] \in CpuRec
    BY DEF Types
  <2>2. k \in CpuRec
    BY <2>1, Zenon DEF CpuRec, ThreadOrNone
  <2>3. /\ PntsAlike(cpu[c], k)
        /\ k.current = cpu[c].current /\ k.running = cpu[c].running /\ k.chain = cpu[c].chain /\ k.latched = None
    BY <2>1 DEF CpuRec, PntsAlike
  <2>4. Send(t, Message("preempt", c, FALSE), [cpu EXCEPT ![c] = k])
    BY Zenon DEF handle_preempt_latched
  <2> HIDE DEF k
  <2>5. task' \in [Thread -> TaskState] /\ Turns(t, "runnable")
    BY TaskChanges DEF Types, handle_preempt_latched, TaskState, Turns
  <2>6. thr[t].pending_latch \in BOOLEAN
    BY DEF Types, ThreadRec
  <2>7. Touches(t) /\ thr'[t].pending_latch = thr[t].pending_latch /\ Joins(t)
    BY <2>6, EnqueueTouches DEF Types, handle_preempt_latched
  <2>8. Message("preempt", c, FALSE) \in Msg
    BY Zenon, MessageIsMsg
  <2>9. sw_lookup' = sw_lookup /\ rq' \in Seq(Thread) /\ nr_cpus_wanted' \in Int /\ nr_cpus_wanted' = nr_cpus_wanted
    BY <2>7 DEF Types, handle_preempt_latched, Joins
  <2>10. Sent(t, Message("preempt", c, FALSE)) /\ Becomes(c, k.current, k.running, k.chain, k.latched)
    BY Zenon, <2>2, <2>3, <2>4, <2>5, <2>7, <2>8, <2>9, SendSentCpu
  <2>11. QED
    BY Zenon, <2>3, <2>5, <2>7, <2>9, <2>10 DEF handle_preempt_latched
<1>3. ThreadsInv'
  <2> DEFINE m == Message("preempt", c, FALSE)
  <2>1. Types /\ KernelHas /\ LineIsExact
    BY DEF ThreadsInv
  <2>2. /\ Sent(t, m) /\ Turns(t, "runnable") /\ Joins(t)
        /\ Becomes(c, cpu[c].current, cpu[c].running, cpu[c].chain, None) /\ cpu[c].latched = t
    BY <2>1, <1>2, Zenon
  <2>3. m # None /\ ~ Leaves(m)
    BY Zenon, MessageIsMsg DEF Leaves
  <2> HIDE DEF m
  <2>4. t # None /\ None \in ThreadOrNone
    BY FluxAssumption DEF ThreadOrNone
  <2>5. task[t] = "latched"
    BY <2>1, <2>2, <2>4 DEF KernelHas
  <2>6. ~ thr[t].enqueued /\ ~ thr[t].pending_latch /\ thr[t].sched
    BY <2>5, KernelThread
  <2>7. KernelHas'
    <3>1. /\ \A d \in Cpu \ {c} : cpu[d].latched # None => task'[cpu[d].latched] = "latched"
          /\ \A d \in Cpu : cpu[d].running # None => task'[cpu[d].running] = "running"
      BY <2>1, <2>2, <2>4, <2>5, CpuThreads DEF KernelHas, Turns, ThreadOrNone
    <3>2. cpu[c].running # None => \A d \in Cpu \ {c} : cpu[d].running # cpu[c].running
      BY <2>1 DEF KernelHas
    <3>3. cpu[c].running \in ThreadOrNone
      BY <2>1, CpuThreads
    <3>4. QED
      BY <2>1, <2>2, <2>4, <3>1, <3>2, <3>3, KernelChanges, Zenon
  <2>8. LineIsExact'
    BY <2>1, <2>2, <2>6, EnqueueKeepsLine, Zenon DEF Types, Joins, Sent
  <2>9. StreamAt(t)' /\ WaitsAt(t)'
    BY <2>2, <2>3, <2>6 DEF StreamAt, WaitsAt, Sent, Joins, Turns
  <2>10. QED
    BY <2>2, <2>7, <2>8, <2>9, SentKeeps DEF Turns
<1>4. LoadInv => LoadInv'
  <2> HAVE LoadInv
  <2> DEFINE m == Message("preempt", c, FALSE)
  <2>1. Types /\ KernelHas /\ CurrentIsRunning /\ NoChainWithoutThread /\ OnRqAt(t)
    BY DEF ThreadsInv, LoadInv, OnRqIsTrue
  <2>2. /\ Sent(t, m) /\ Turns(t, "runnable")
        /\ Becomes(c, cpu[c].current, cpu[c].running, cpu[c].chain, None)
        /\ nr_cpus_wanted' = nr_cpus_wanted /\ cpu[c].latched = t
    BY <2>1, <1>2, Zenon
  <2>3. m # None /\ m.type = "preempt" /\ m.from_switchto = FALSE
    BY Zenon, MessageIsMsg
  <2> HIDE DEF m
  <2>4. task[t] = "latched"
    BY <2>1, <2>2, FluxAssumption DEF KernelHas
  <2>5. /\ CurrentIsRunning' /\ NoChainWithoutThread' /\ \A u : ByChain(u)' <=> ByChain(u)
    <3>1. \A d \in Cpu : /\ cpu'[d].current = cpu[d].current /\ cpu'[d].running = cpu[d].running
                         /\ cpu'[d].chain = cpu[d].chain
      BY <2>2 DEF Becomes, SameKernel
    <3>2. QED
      BY <2>1, <3>1 DEF CurrentIsRunning, NoChainWithoutThread, ByChain
  <2>6. LoadFrame({t})
    BY <2>2, <2>5 DEF LoadFrame, Sent, Turns
  <2>7. task'[t] = "runnable" /\ msg[t] = None /\ msg'[t] = m /\ thr'[t].on_rq = thr[t].on_rq
    BY <2>2 DEF Sent, Turns
  <2>8. thr[t].on_rq
    BY <2>1, <2>4, <2>7 DEF OnRqAt
  <2>9. MsgAt(t)' /\ (IsCounted(t)' <=> IsCounted(t))
    BY <2>3, <2>4, <2>7 DEF MsgAt, IsCounted
  <2>10. OnRqAt(t)'
    BY <2>3, <2>7, <2>8 DEF OnRqAt, OnRq
  <2>11. QED
    BY <2>1, <2>2, <2>5, <2>6, <2>9, <2>10, LoadKeepsCount
<1>5. QED
  BY <1>3, <1>4

\* MSG_TASK_WAKEUP: the thread is enqueued; the request is made when the handler ends.
LEMMA WakeupKeeps ==
  ASSUME CountingLaws, ThreadsInv, NEW t \in Thread, handle_wakeup(t)
  PROVE  ThreadsInv' /\ (LoadInv => LoadInv')
<1>1. Types
  BY DEF ThreadsInv
<1>2. /\ Sent(t, Message("wakeup", None, FALSE)) /\ Turns(t, "runnable") /\ Joins(t)
      /\ SameCpus /\ nr_cpus_wanted' = nr_cpus_wanted /\ task[t] = "blocked"
  <2> USE <1>1
  <2>1. task' \in [Thread -> TaskState] /\ Turns(t, "runnable")
    BY TaskChanges DEF Types, handle_wakeup, TaskState, Turns
  <2>2. thr[t].pending_latch \in BOOLEAN
    BY DEF Types, ThreadRec
  <2>3. Touches(t) /\ thr'[t].pending_latch = thr[t].pending_latch /\ Joins(t)
    BY <2>2, EnqueueTouches DEF Types, handle_wakeup
  <2>4. Message("wakeup", None, FALSE) \in Msg
    BY Zenon, MessageIsMsg
  <2>5. sw_lookup' = sw_lookup /\ rq' \in Seq(Thread) /\ nr_cpus_wanted' \in Int /\ nr_cpus_wanted' = nr_cpus_wanted
    BY <2>3 DEF Types, handle_wakeup, Joins
  <2>6. Sent(t, Message("wakeup", None, FALSE)) /\ SameCpus
    BY <2>1, <2>3, <2>4, <2>5, SendSentNoCpu, Zenon DEF handle_wakeup
  <2>7. QED
    BY <2>1, <2>3, <2>5, <2>6, Zenon DEF handle_wakeup
<1>3. ThreadsInv'
  <2> DEFINE m == Message("wakeup", None, FALSE)
  <2>1. Types /\ KernelHas /\ LineIsExact
    BY DEF ThreadsInv
  <2>2. Sent(t, m) /\ Turns(t, "runnable") /\ Joins(t) /\ SameCpus /\ task[t] = "blocked"
    BY <2>1, <1>2, Zenon
  <2>3. m # None /\ ~ Leaves(m)
    BY Zenon, MessageIsMsg DEF Leaves
  <2> HIDE DEF m
  <2>4. ~ thr[t].enqueued /\ ~ thr[t].pending_latch /\ thr[t].sched
    BY <2>2, KernelThread
  <2>5. KernelHas'
    BY <2>1, <2>2, SameKernelHas DEF SameCpus, Turns
  <2>6. LineIsExact'
    BY Zenon, <2>1, <2>2, <2>4, EnqueueKeepsLine DEF Types, Joins, Sent
  <2>7. StreamAt(t)' /\ WaitsAt(t)'
    BY <2>2, <2>3, <2>4 DEF StreamAt, WaitsAt, Sent, Joins, Turns
  <2>8. QED
    BY <2>2, <2>5, <2>6, <2>7, SentKeeps DEF Turns
<1>4. LoadInv => LoadInv'
  <2> HAVE LoadInv
  <2> DEFINE m == Message("wakeup", None, FALSE)
  <2>1. Types /\ CurrentIsRunning /\ NoChainWithoutThread
    BY DEF ThreadsInv, LoadInv
  <2>2. /\ Sent(t, m) /\ Turns(t, "runnable") /\ SameCpus
        /\ nr_cpus_wanted' = nr_cpus_wanted /\ task[t] = "blocked"
    BY <2>1, <1>2, Zenon
  <2>3. m # None /\ m.type = "wakeup"
    BY Zenon, MessageIsMsg
  <2> HIDE DEF m
  <2>4. CurrentIsRunning' /\ NoChainWithoutThread' /\ \A u : ByChain(u)' <=> ByChain(u)
    BY <2>1, <2>2, SameCpusKeep
  <2>5. LoadFrame({t})
    BY <2>2, <2>4 DEF LoadFrame, Sent, Turns
  <2>6. task'[t] = "runnable" /\ msg[t] = None /\ msg'[t] = m
    BY <2>2 DEF Sent, Turns
  <2>7. MsgAt(t)' /\ (IsCounted(t)' <=> IsCounted(t))
    BY <2>2, <2>3, <2>6 DEF MsgAt, IsCounted
  <2>8. OnRqAt(t)'
    BY <2>3, <2>6 DEF OnRqAt, OnRq
  <2>9. QED
    BY <2>1, <2>2, <2>4, <2>5, <2>7, <2>8, LoadKeepsCount
<1>5. QED
  BY <1>3, <1>4

\* MSG_TASK_PRIORITY_CHANGED and MSG_TASK_AFFINITY_CHANGED change nothing that counts.
LEMMA ChangedKeeps ==
  ASSUME CountingLaws, ThreadsInv, NEW t \in Thread, handle_prio_changed(t)
  PROVE  ThreadsInv' /\ (LoadInv => LoadInv')
<1>1. Types
  BY DEF ThreadsInv
<1>2. /\ Sent(t, Message("changed", None, FALSE)) /\ task' = task /\ SameLine
      /\ SameCpus /\ nr_cpus_wanted' = nr_cpus_wanted /\ task[t] # "outside"
  <2> USE <1>1
  <2>1. Touches(t) /\ thr'[t].pending_latch = thr[t].pending_latch /\ SameLine
    BY UnsyncedTouches, Zenon DEF Types, handle_prio_changed, SameLine
  <2>2. Message("changed", None, FALSE) \in Msg
    BY Zenon, MessageIsMsg
  <2>3. /\ sw_lookup' = sw_lookup /\ rq' \in Seq(Thread) /\ nr_cpus_wanted' \in Int /\ nr_cpus_wanted' = nr_cpus_wanted
        /\ task' = task /\ task' \in [Thread -> TaskState]
    BY DEF Types, handle_prio_changed
  <2>4. Sent(t, Message("changed", None, FALSE)) /\ SameCpus
    BY <2>1, <2>2, <2>3, SendSentNoCpu, Zenon DEF handle_prio_changed
  <2>5. QED
    BY <2>1, <2>3, <2>4, Zenon DEF handle_prio_changed
<1>3. ThreadsInv'
  <2> DEFINE m == Message("changed", None, FALSE)
  <2>1. Types /\ KernelHas /\ LineIsExact
    BY DEF ThreadsInv
  <2>2. Sent(t, m) /\ task' = task /\ SameLine /\ SameCpus /\ task[t] # "outside"
    BY <2>1, <1>2, Zenon
  <2>3. m # None /\ ~ Leaves(m)
    BY Zenon, MessageIsMsg DEF Leaves
  <2> HIDE DEF m
  <2>4. StreamAt(t) /\ WaitsAt(t) /\ msg[t] = None
    BY <2>2 DEF ThreadsInv, StreamHolds, EnqueuedOrPending, Sent
  <2>5. KernelHas'
    BY <2>1, <2>2, SameKernelHas DEF SameCpus
  <2>6. LineIsExact'
    BY <2>1, <2>2 DEF LineIsExact, SameLine
  <2>7. StreamAt(t)'
    BY <2>2, <2>3, <2>4 DEF StreamAt, Sent
  <2>8. WaitsAt(t)'
    <3>1. \A c \in Cpu : cpu[c].pc = "run" /\ cpu[c].t = t => cpu'[c].pc = "run" /\ cpu'[c].t = t
      BY <2>2 DEF Sent, SamePnts, Asking
    <3>2. QED
      BY <2>2, <2>4, <3>1 DEF WaitsAt, Sent, SameLine
  <2>9. QED
    BY <2>2, <2>5, <2>6, <2>7, <2>8, SentKeeps
<1>4. LoadInv => LoadInv'
  <2> HAVE LoadInv
  <2> DEFINE m == Message("changed", None, FALSE)
  <2>1. Types
    BY DEF ThreadsInv
  <2>2. Sent(t, m) /\ task' = task /\ SameCpus /\ nr_cpus_wanted' = nr_cpus_wanted
    BY <2>1, <1>2, Zenon
  <2>3. m # None /\ m.type = "changed" /\ m.from_switchto = FALSE
    BY Zenon, MessageIsMsg
  <2> HIDE DEF m
  <2>4. QED
    BY Zenon, <2>2, <2>3, SameLoad DEF Sent
<1>5. QED
  BY <1>3, <1>4

\* MSG_TASK_DEAD: a blocked thread is gone.
LEMMA DeadKeeps ==
  ASSUME CountingLaws, ThreadsInv, NEW t \in Thread, handle_dead(t)
  PROVE  ThreadsInv' /\ (LoadInv => LoadInv')
<1>1. Types
  BY DEF ThreadsInv
<1>2. /\ Sent(t, Message("dead", None, FALSE)) /\ Turns(t, "outside") /\ SameLine
      /\ SameCpus /\ nr_cpus_wanted' = nr_cpus_wanted /\ task[t] = "blocked"
  <2> USE <1>1
  <2>1. task' \in [Thread -> TaskState] /\ Turns(t, "outside")
    BY TaskChanges DEF Types, handle_dead, TaskState, Turns
  <2>2. Touches(t) /\ thr'[t].pending_latch = thr[t].pending_latch /\ SameLine
    BY UnsyncedTouches, Zenon DEF Types, handle_dead, SameLine
  <2>3. Message("dead", None, FALSE) \in Msg
    BY Zenon, MessageIsMsg
  <2>4. sw_lookup' = sw_lookup /\ rq' \in Seq(Thread) /\ nr_cpus_wanted' \in Int /\ nr_cpus_wanted' = nr_cpus_wanted
    BY DEF Types, handle_dead
  <2>5. Sent(t, Message("dead", None, FALSE)) /\ SameCpus
    BY <2>1, <2>2, <2>3, <2>4, SendSentNoCpu, Zenon DEF handle_dead
  <2>6. QED
    BY <2>1, <2>2, <2>4, <2>5, Zenon DEF handle_dead
<1>3. ThreadsInv'
  <2> DEFINE m == Message("dead", None, FALSE)
  <2>1. Types /\ KernelHas /\ LineIsExact
    BY DEF ThreadsInv
  <2>2. Sent(t, m) /\ Turns(t, "outside") /\ SameLine /\ SameCpus /\ task[t] = "blocked"
    BY <2>1, <1>2, Zenon
  <2>3. m # None /\ Leaves(m)
    BY Zenon, MessageIsMsg DEF Leaves
  <2> HIDE DEF m
  <2>4. ~ thr[t].enqueued /\ ~ thr[t].pending_latch /\ thr[t].sched
    BY <2>2, KernelThread
  <2>5. KernelHas'
    BY <2>1, <2>2, SameKernelHas DEF SameCpus, Turns
  <2>6. LineIsExact'
    BY <2>1, <2>2 DEF LineIsExact, SameLine
  <2>7. StreamAt(t)' /\ WaitsAt(t)'
    BY <2>2, <2>3, <2>4 DEF StreamAt, WaitsAt, Sent, SameLine, Turns
  <2>8. QED
    BY <2>2, <2>5, <2>6, <2>7, SentKeeps DEF Turns
<1>4. LoadInv => LoadInv'
  <2> HAVE LoadInv
  <2> DEFINE m == Message("dead", None, FALSE)
  <2>1. Types /\ CurrentIsRunning /\ NoChainWithoutThread
    BY DEF ThreadsInv, LoadInv
  <2>2. /\ Sent(t, m) /\ Turns(t, "outside") /\ SameCpus
        /\ nr_cpus_wanted' = nr_cpus_wanted /\ task[t] = "blocked"
    BY <2>1, <1>2, Zenon
  <2>3. m # None /\ m.type = "dead"
    BY Zenon, MessageIsMsg
  <2> HIDE DEF m
  <2>4. CurrentIsRunning' /\ NoChainWithoutThread' /\ \A u : ByChain(u)' <=> ByChain(u)
    BY <2>1, <2>2, SameCpusKeep
  <2>5. LoadFrame({t})
    BY <2>2, <2>4 DEF LoadFrame, Sent, Turns
  <2>6. task'[t] = "outside" /\ msg[t] = None /\ msg'[t] = m
    BY <2>2 DEF Sent, Turns
  <2>7. MsgAt(t)' /\ OnRqAt(t)' /\ (IsCounted(t)' <=> IsCounted(t))
    BY <2>2, <2>3, <2>6 DEF MsgAt, OnRqAt, IsCounted
  <2>8. QED
    BY <2>1, <2>2, <2>4, <2>5, <2>7, LoadKeepsCount
<1>5. QED
  BY <1>3, <1>4
=============================================================================
