---------------------------- MODULE FluxTheorems ----------------------------
(***************************************************************************)
(* The steps of PNT keep the invariants of FluxThreadProofs, as do the     *)
(* handlers: in every behaviour of FluxThread no thread is lost, and       *)
(* Biff's count is exact.                                                  *)
(***************************************************************************)
EXTENDS FluxHandlerProofs

-----------------------------------------------------------------------------
(* The steps of PNT. *)

\* A quiet step keeps ThreadsInv.
LEMMA QuietKeeps ==
  ASSUME ThreadsInv, Quiet
  PROVE  ThreadsInv'
<1>1. Types /\ KernelHas /\ LineIsExact /\ PntsAsk /\ OnePntAsks /\ StreamHolds /\ EnqueuedOrPending /\ RefsAreExact
  BY DEF ThreadsInv
<1>2. /\ Types' /\ SamePnts /\ \A c \in Cpu : SameKernel(cpu[c], cpu'[c])
      /\ task' = task /\ msg' = msg /\ sw_lookup' = sw_lookup /\ rq' = rq
      /\ \A u \in Thread :
            /\ thr'[u].sched = thr[u].sched /\ thr'[u].refcnt = thr[u].refcnt
            /\ thr'[u].pending_latch = thr[u].pending_latch /\ thr'[u].enqueued = thr[u].enqueued
  BY DEF Quiet
<1>3. PntsAsk' /\ RefsAreExact' /\ KernelHas'
  BY <1>1, <1>2, SamePntsAsk, SameRefs, SameKernelHas
<1>4. StreamHolds'
  BY <1>1, <1>2 DEF StreamHolds, StreamAt
<1>5. LineIsExact'
  BY <1>1, <1>2 DEF LineIsExact
<1>6. \A c \in Cpu : /\ cpu'[c].t = cpu[c].t /\ (cpu'[c].fresh => cpu[c].fresh)
                     /\ cpu[c].pc = "run" <=> cpu'[c].pc = "run"
  BY <1>2 DEF SamePnts, Asking
<1>7. EnqueuedOrPending'
  <2>1. ASSUME NEW u \in Thread PROVE WaitsAt(u)'
    BY <1>1, <1>2, <1>6 DEF EnqueuedOrPending, WaitsAt
  <2>2. QED
    BY <2>1 DEF EnqueuedOrPending
<1>8. OnePntAsks'
  <2>1. ASSUME NEW c \in Cpu, cpu[c].pc = "run" PROVE cpu[c].t \in Thread
    BY <1>1, <2>1 DEF Types, CpuRec, PntsAsk, Asking, ThreadOrNone
  <2>2. QED
    BY <1>1, <1>2, <1>6, <2>1 DEF OnePntAsks
<1>9. QED
  BY <1>2, <1>3, <1>4, <1>5, <1>7, <1>8 DEF ThreadsInv

\* A step that changes no thread's state, message or on_rq, and no CPU for the kernel.
LEMMA StillLoad ==
  ASSUME LoadInv, task' = task, msg' = msg, nr_cpus_wanted' = nr_cpus_wanted, SameCpus,
         \A u \in Thread : thr'[u].on_rq = thr[u].on_rq
  PROVE  LoadInv'
<1>1. MsgIsTrue /\ OnRqIsTrue /\ CountIsExact /\ CurrentIsRunning /\ NoChainWithoutThread
  BY DEF LoadInv
<1>2. CurrentIsRunning' /\ NoChainWithoutThread' /\ \A u : ByChain(u)' <=> ByChain(u)
  BY <1>1, SameCpusKeep
<1>3. LoadFrame({})
  BY <1>2 DEF LoadFrame
<1>4. \A u \in Thread : MsgAt(u)' /\ OnRqAt(u)' /\ (IsCounted(u)' <=> IsCounted(u))
  BY <1>1, <1>3, FrameKeeps
<1>5. Counted' = Counted
  BY <1>4 DEF Counted
<1>6. QED
  BY <1>1, <1>2, <1>4, <1>5 DEF LoadInv, MsgIsTrue, OnRqIsTrue, CountIsExact

\* The first thread of the queue becomes pending: the PNT of c has it.
LEMMA PickFirstKeeps ==
  ASSUME CountingLaws, ThreadsInv, NEW c \in Cpu, NEW t, t = Head(rq), PickFirst(c)
  PROVE  ThreadsInv' /\ (LoadInv => LoadInv')
<1>1. Types
  BY DEF ThreadsInv
<1>2. /\ cpu[c].pc = "pick" /\ rq # << >> /\ t \in Thread /\ rq' = Tail(rq)
      /\ cpu' \in [Cpu -> CpuRec] /\ \A d \in Cpu \ {c} : cpu'[d] = cpu[d]
      /\ cpu'[c].pc = "run" /\ cpu'[c].t = t /\ SameKernel(cpu[c], cpu'[c])
      /\ thr' \in [Thread -> ThreadRec] /\ \A u \in Thread \ {t} : thr'[u] = thr[u]
      /\ thr'[t].enqueued = FALSE /\ thr'[t].pending_latch = TRUE
      /\ thr'[t].refcnt = thr[t].refcnt + 1 /\ thr'[t].sched = thr[t].sched
      /\ thr'[t].on_rq = thr[t].on_rq
      /\ UNCHANGED <<task, msg, sw_lookup, nr_cpus_wanted>>
  <2> USE <1>1
  <2> DEFINE k == [cpu[c] EXCEPT !.pc = "run", !.cur = None, !.t = t, !.fresh = thr[t].synced]
             j == [thr[t] EXCEPT !.enqueued = FALSE, !.pending_latch = TRUE, !.refcnt = thr[t].refcnt + 1]
  <2>1. /\ cpu[c].pc = "pick" /\ rq # << >> /\ rq' = Tail(rq) /\ UNCHANGED <<task, msg, sw_lookup, nr_cpus_wanted>>
        /\ cpu' = [cpu EXCEPT ![c] = k] /\ thr' = [thr EXCEPT ![t] = j]
    BY DEF PickFirst
  <2>2. t \in Thread
    BY <2>1 DEF Types
  <2>3. cpu[c] \in CpuRec /\ thr[t] \in ThreadRec /\ t \in ThreadOrNone /\ None \in ThreadOrNone
    BY <2>2 DEF Types, ThreadOrNone
  <2>4. thr[t].synced \in BOOLEAN /\ thr[t].refcnt + 1 \in Int
    BY <2>3 DEF ThreadRec
  <2>5. k \in CpuRec
    BY <2>3, <2>4, Zenon DEF CpuRec, Asking
  <2>6. j \in ThreadRec
    BY <2>3, <2>4, Zenon DEF ThreadRec
  <2>7. k.pc = "run" /\ k.t = t /\ SameKernel(cpu[c], k)
    BY <2>3 DEF CpuRec, SameKernel
  <2>8. /\ j.enqueued = FALSE /\ j.pending_latch = TRUE /\ j.refcnt = thr[t].refcnt + 1
        /\ j.sched = thr[t].sched /\ j.on_rq = thr[t].on_rq
    BY <2>3 DEF ThreadRec
  <2> HIDE DEF k, j
  <2>9. /\ cpu' \in [Cpu -> CpuRec] /\ cpu'[c] = k /\ \A d \in Cpu \ {c} : cpu'[d] = cpu[d]
        /\ thr' \in [Thread -> ThreadRec] /\ thr'[t] = j /\ \A u \in Thread \ {t} : thr'[u] = thr[u]
    BY <2>1, <2>2, <2>5, <2>6 DEF Types
  <2>10. QED
    BY <2>1, <2>2, <2>7, <2>8, <2>9, Zenon
<1>3. ThreadsInv'
  <2>1. Types /\ KernelHas /\ LineIsExact /\ PntsAsk /\ OnePntAsks /\ StreamHolds /\ EnqueuedOrPending /\ RefsAreExact
    BY DEF ThreadsInv
  <2>2. /\ cpu[c].pc = "pick" /\ rq # << >> /\ t \in Thread /\ rq' = Tail(rq)
        /\ cpu' \in [Cpu -> CpuRec] /\ \A d \in Cpu \ {c} : cpu'[d] = cpu[d]
        /\ cpu'[c].pc = "run" /\ cpu'[c].t = t /\ SameKernel(cpu[c], cpu'[c])
        /\ thr' \in [Thread -> ThreadRec] /\ \A u \in Thread \ {t} : thr'[u] = thr[u]
        /\ thr'[t].enqueued = FALSE /\ thr'[t].pending_latch = TRUE
        /\ thr'[t].refcnt = thr[t].refcnt + 1 /\ thr'[t].sched = thr[t].sched
        /\ UNCHANGED <<task, msg, sw_lookup, nr_cpus_wanted>>
    BY <2>1, <1>2, Zenon
  <2>3. LineIsExact' /\ rq' \in Seq(Thread) /\ thr[t].enqueued
    <3>1. rq \in Seq(Thread) /\ \A u \in Thread \ {t} : thr'[u].enqueued = thr[u].enqueued
      BY <2>1, <2>2 DEF Types
    <3>2. QED
      BY <2>1, <2>2, <3>1, PopKeepsLine, Zenon
  <2>4. task[t] = "runnable" /\ ~ thr[t].pending_latch /\ thr[t].sched
    BY <2>1, <2>2, <2>3 DEF EnqueuedOrPending, WaitsAt, StreamHolds, StreamAt
  <2>5. NoOther(c, t)
    BY <2>1, <2>4 DEF OnePntAsks, NoOther
  <2>6. cpu[c].t = None /\ t # None
    BY <2>1, <2>2, FluxAssumption DEF PntsAsk, Asking
  <2>7. PntStep(c, t)
    BY <2>1, <2>2, <2>3 DEF PntStep, Types
  <2>8. KernelHas'
    BY <2>1, <2>2, SameKernelHas DEF SameKernel
  <2>9. RefsAreExact'
    BY Zenon, <2>1, <2>2, <2>4, <2>6, RefGained
  <2>10. StreamAt(t)' /\ WaitsAt(t)'
    BY <2>1, <2>2, <2>4 DEF StreamHolds, StreamAt, WaitsAt
  <2>11. QED
    BY <2>2, <2>3, <2>4, <2>5, <2>6, <2>7, <2>8, <2>9, <2>10, PntKeeps DEF Asking
<1>4. LoadInv => LoadInv'
  <2> HAVE LoadInv
  <2>1. Types
    BY DEF ThreadsInv
  <2>2. /\ \A d \in Cpu \ {c} : cpu'[d] = cpu[d]
        /\ SameKernel(cpu[c], cpu'[c])
        /\ \A u \in Thread \ {t} : thr'[u] = thr[u]
        /\ thr'[t].on_rq = thr[t].on_rq
        /\ UNCHANGED <<task, msg, sw_lookup, nr_cpus_wanted>>
    BY <2>1, <1>2, Zenon
  <2>3. SameCpus /\ \A u \in Thread : thr'[u].on_rq = thr[u].on_rq
    BY <2>2 DEF SameCpus, SameKernel
  <2>4. QED
    BY <2>2, <2>3, StillLoad
<1>5. QED
  BY <1>3, <1>4

\* The kernel has latched the thread: it is not pending any more.
LEMMA RunSucceedsKeeps ==
  ASSUME CountingLaws, ThreadsInv, NEW c \in Cpu, NEW t, t = cpu[c].t, RunSucceeds(c)
  PROVE  ThreadsInv' /\ (LoadInv => LoadInv')
<1>1. Types /\ t \in Thread /\ cpu[c].t = t
  <2>1. Types /\ PntsAsk
    BY DEF ThreadsInv
  <2>2. cpu[c].pc \in Asking
    BY DEF RunSucceeds, Asking
  <2>3. QED
    BY <2>1, <2>2 DEF Types, CpuRec, PntsAsk, ThreadOrNone
<1>2. /\ cpu[c].pc = "run" /\ msg[t] = None /\ task[t] = "runnable" /\ Forget(t)
      /\ task' \in [Thread -> TaskState] /\ Turns(t, "latched")
      /\ cpu' \in [Cpu -> CpuRec] /\ \A d \in Cpu \ {c} : cpu'[d] = cpu[d]
      /\ cpu'[c].pc \in {"out", "end"} /\ cpu'[c].t = None
      /\ Becomes(c, cpu[c].current, cpu[c].running, cpu[c].chain, t)
      /\ thr' \in [Thread -> ThreadRec] /\ \A u \in Thread \ {t} : thr'[u] = thr[u]
      /\ thr'[t].enqueued = thr[t].enqueued /\ thr'[t].pending_latch = FALSE
      /\ thr'[t].refcnt = thr[t].refcnt - 1 /\ thr'[t].sched = thr[t].sched
      /\ thr'[t].on_rq = thr[t].on_rq
      /\ UNCHANGED <<msg, rq, nr_cpus_wanted>>
  <2> USE <1>1
  <2> DEFINE o == Over(cpu[c])
             k == [o EXCEPT !.latched = t]
             j == [thr[t] EXCEPT !.pending_latch = FALSE, !.refcnt = thr[t].refcnt - 1]
  <2>1. /\ cpu[c].pc = "run" /\ msg[t] = None /\ task[t] = "runnable" /\ UNCHANGED <<msg, rq, nr_cpus_wanted>>
        /\ task' = [task EXCEPT ![t] = "latched"] /\ Forget(t)
        /\ cpu' = [cpu EXCEPT ![c] = k] /\ thr' = [thr EXCEPT ![t] = j]
    BY DEF RunSucceeds, Unlocked
  <2>2. cpu[c] \in CpuRec /\ thr[t] \in ThreadRec /\ t \in ThreadOrNone
    BY DEF Types, ThreadOrNone
  <2>3. o \in CpuRec /\ o.t = None /\ o.pc \in {"out", "end"} /\ SameKernel(cpu[c], o)
    BY <2>2, OverGives
  <2> HIDE DEF o
  <2>4. thr[t].refcnt - 1 \in Int
    BY <2>2 DEF ThreadRec
  <2>5. k \in CpuRec
    BY <2>2, <2>3, Zenon DEF CpuRec
  <2>6. j \in ThreadRec
    BY <2>2, <2>4, Zenon DEF ThreadRec
  <2>7. /\ k.pc = o.pc /\ k.t = o.t /\ k.latched = t
        /\ k.current = o.current /\ k.running = o.running /\ k.chain = o.chain
    BY <2>3 DEF CpuRec
  <2>8. /\ j.enqueued = thr[t].enqueued /\ j.pending_latch = FALSE /\ j.refcnt = thr[t].refcnt - 1
        /\ j.sched = thr[t].sched /\ j.on_rq = thr[t].on_rq
    BY <2>2 DEF ThreadRec
  <2> HIDE DEF k, j
  <2>9. /\ cpu' \in [Cpu -> CpuRec] /\ cpu'[c] = k /\ \A d \in Cpu \ {c} : cpu'[d] = cpu[d]
        /\ thr' \in [Thread -> ThreadRec] /\ thr'[t] = j /\ \A u \in Thread \ {t} : thr'[u] = thr[u]
    BY <2>1, <2>5, <2>6 DEF Types
  <2>10. Becomes(c, cpu[c].current, cpu[c].running, cpu[c].chain, t)
    BY <2>3, <2>7, <2>9 DEF Becomes, SameKernel
  <2>11. task' \in [Thread -> TaskState] /\ Turns(t, "latched")
    BY <2>1 DEF Types, TaskState, Turns
  <2>12. QED
    BY <2>1, <2>3, <2>7, <2>8, <2>9, <2>10, <2>11, Zenon
<1>3. ThreadsInv'
  <2>1. Types /\ KernelHas /\ LineIsExact /\ PntsAsk /\ OnePntAsks /\ StreamHolds /\ EnqueuedOrPending /\ RefsAreExact
    BY DEF ThreadsInv
  <2>2. cpu[c].pc = "run"
    BY DEF RunSucceeds
  <2>3. t \in Thread /\ NoOther(c, t) /\ thr[t].pending_latch /\ ~ thr[t].enqueued
    BY <2>2, AskerIsTheOne
  <2>4. /\ cpu[c].t = t /\ msg[t] = None /\ task[t] = "runnable" /\ Forget(t)
        /\ task' \in [Thread -> TaskState] /\ Turns(t, "latched")
        /\ cpu' \in [Cpu -> CpuRec] /\ \A d \in Cpu \ {c} : cpu'[d] = cpu[d]
        /\ cpu'[c].pc \in {"out", "end"} /\ cpu'[c].t = None
        /\ Becomes(c, cpu[c].current, cpu[c].running, cpu[c].chain, t)
        /\ thr' \in [Thread -> ThreadRec] /\ \A u \in Thread \ {t} : thr'[u] = thr[u]
        /\ thr'[t].enqueued = thr[t].enqueued /\ thr'[t].pending_latch = FALSE
        /\ thr'[t].refcnt = thr[t].refcnt - 1 /\ thr'[t].sched = thr[t].sched
        /\ UNCHANGED <<msg, rq, nr_cpus_wanted>>
    BY <2>1, <2>3, <1>2, Zenon
  <2>5. t # None /\ t \in ThreadOrNone /\ thr[t].sched
    BY <2>1, <2>3, <2>4, FluxAssumption DEF ThreadOrNone, StreamHolds, StreamAt
  <2>6. PntStep(c, t)
    <3>1. sw_lookup' \subseteq Thread
      BY <2>1, <2>4 DEF Types, Forget
    <3>2. Types'
      BY <2>1, <2>4, <3>1 DEF Types
    <3>3. QED
      BY <2>4, <3>2 DEF PntStep, Turns
  <2>7. KernelHas'
    <3>1. /\ \A d \in Cpu : cpu[d].running # None => task'[cpu[d].running] = "running"
          /\ \A d \in Cpu : cpu[d].latched # t /\ (cpu[d].latched # None => task'[cpu[d].latched] = "latched")
      BY <2>1, <2>4, <2>5, CpuThreads DEF KernelHas, Turns, ThreadOrNone
    <3>2. \A d \in Cpu \ {c} : cpu[c].running # None => cpu[d].running # cpu[c].running
      BY <2>1 DEF KernelHas
    <3>3. cpu[c].running \in ThreadOrNone
      BY <2>1, CpuThreads
    <3>4. QED
      BY <2>1, <2>4, <2>5, <3>1, <3>2, <3>3, KernelChanges DEF Turns
  <2>8. LineIsExact'
    BY <2>1, <2>4 DEF LineIsExact
  <2>9. RefsAreExact'
    BY <2>1, <2>3, <2>4, RefLost
  <2>10. StreamAt(t)' /\ WaitsAt(t)'
    BY <2>3, <2>4, <2>5 DEF StreamAt, WaitsAt, Turns
  <2>11. QED
    BY <2>3, <2>4, <2>6, <2>7, <2>8, <2>9, <2>10, PntKeeps DEF Asking
<1>4. LoadInv => LoadInv'
  <2> HAVE LoadInv
  <2>1. Types /\ CurrentIsRunning /\ NoChainWithoutThread /\ OnRqIsTrue
    BY DEF ThreadsInv, LoadInv
  <2>2. t \in Thread
    <3>1. cpu[c].pc = "run"
      BY DEF RunSucceeds
    <3>2. QED
      BY <3>1, AskerIsTheOne
  <2>3. /\ msg[t] = None /\ task[t] = "runnable" /\ Turns(t, "latched")
        /\ Becomes(c, cpu[c].current, cpu[c].running, cpu[c].chain, t)
        /\ \A u \in Thread \ {t} : thr'[u] = thr[u]
        /\ thr'[t].on_rq = thr[t].on_rq /\ UNCHANGED <<msg, rq, nr_cpus_wanted>>
    BY <2>1, <2>2, <1>2, Zenon
  <2>4. /\ CurrentIsRunning' /\ NoChainWithoutThread' /\ \A u : ByChain(u)' <=> ByChain(u)
    <3>1. \A d \in Cpu : /\ cpu'[d].current = cpu[d].current /\ cpu'[d].running = cpu[d].running
                         /\ cpu'[d].chain = cpu[d].chain
      BY <2>3 DEF Becomes, SameKernel
    <3>2. QED
      BY <2>1, <3>1 DEF CurrentIsRunning, NoChainWithoutThread, ByChain
  <2>5. LoadFrame({t})
    BY <2>3, <2>4 DEF LoadFrame, Turns
  <2>6. task'[t] = "latched" /\ msg'[t] = None /\ OnRqAt(t)
    BY <2>1, <2>2, <2>3 DEF Turns, OnRqIsTrue
  <2>7. MsgAt(t)' /\ (IsCounted(t)' <=> IsCounted(t))
    BY <2>3, <2>6 DEF MsgAt, IsCounted
  <2>8. OnRqAt(t)'
    BY <2>3, <2>6 DEF OnRqAt
  <2>9. QED
    BY <2>1, <2>2, <2>3, <2>4, <2>5, <2>7, <2>8, LoadKeepsCount
<1>5. QED
  BY <1>3, <1>4

\* Only the reference of the PNT goes.
LEMMA RunReturnsKeeps ==
  ASSUME CountingLaws, ThreadsInv, NEW c \in Cpu, NEW t, t = cpu[c].t, RunReturns(c)
  PROVE  ThreadsInv' /\ (LoadInv => LoadInv')
<1>1. Types /\ t \in Thread /\ cpu[c].t = t
  <2>1. Types /\ PntsAsk
    BY DEF ThreadsInv
  <2>2. cpu[c].pc \in Asking
    BY DEF RunReturns, Asking
  <2>3. QED
    BY <2>1, <2>2 DEF Types, CpuRec, PntsAsk, ThreadOrNone
<1>2. /\ cpu[c].pc \in {"estale", "ebusy"} /\ Forget(t)
      /\ cpu' \in [Cpu -> CpuRec] /\ \A d \in Cpu \ {c} : cpu'[d] = cpu[d]
      /\ cpu'[c].pc \in {"out", "end", "loop"} /\ cpu'[c].t = None /\ SameKernel(cpu[c], cpu'[c])
      /\ thr' \in [Thread -> ThreadRec] /\ \A u \in Thread \ {t} : thr'[u] = thr[u]
      /\ thr'[t].enqueued = thr[t].enqueued /\ thr'[t].pending_latch = thr[t].pending_latch
      /\ thr'[t].refcnt = thr[t].refcnt - 1 /\ thr'[t].sched = thr[t].sched
      /\ thr'[t].on_rq = thr[t].on_rq
      /\ UNCHANGED <<task, msg, rq, nr_cpus_wanted>>
  <2> USE <1>1
  <2> DEFINE k == IF cpu[c].pc = "ebusy" THEN Over(cpu[c]) ELSE Again(cpu[c])
             j == [thr[t] EXCEPT !.refcnt = thr[t].refcnt - 1]
  <2>1. /\ cpu[c].pc \in {"estale", "ebusy"} /\ UNCHANGED <<task, msg, rq, nr_cpus_wanted>> /\ Forget(t)
        /\ cpu' = [cpu EXCEPT ![c] = k] /\ thr' = [thr EXCEPT ![t] = j]
    BY DEF RunReturns
  <2>2. cpu[c] \in CpuRec /\ thr[t] \in ThreadRec
    BY DEF Types
  <2>3. k \in CpuRec /\ k.t = None /\ k.pc \in {"out", "end", "loop"} /\ SameKernel(cpu[c], k)
    BY <2>2, OverGives
  <2>4. thr[t].refcnt - 1 \in Int
    BY <2>2 DEF ThreadRec
  <2>5. j \in ThreadRec
    BY <2>2, <2>4, Zenon DEF ThreadRec
  <2>6. /\ j.enqueued = thr[t].enqueued /\ j.pending_latch = thr[t].pending_latch /\ j.refcnt = thr[t].refcnt - 1
        /\ j.sched = thr[t].sched /\ j.on_rq = thr[t].on_rq
    BY <2>2 DEF ThreadRec
  <2> HIDE DEF k, j
  <2>7. /\ cpu' \in [Cpu -> CpuRec] /\ cpu'[c] = k /\ \A d \in Cpu \ {c} : cpu'[d] = cpu[d]
        /\ thr' \in [Thread -> ThreadRec] /\ thr'[t] = j /\ \A u \in Thread \ {t} : thr'[u] = thr[u]
    BY <2>1, <2>3, <2>5 DEF Types
  <2>8. QED
    BY <2>1, <2>3, <2>6, <2>7, Zenon
<1>3. ThreadsInv'
  <2>1. Types /\ KernelHas /\ LineIsExact /\ PntsAsk /\ OnePntAsks /\ StreamHolds /\ EnqueuedOrPending /\ RefsAreExact
    BY DEF ThreadsInv
  <2>2. cpu[c].pc \in {"estale", "ebusy"}
    BY DEF RunReturns
  <2>3. t \in Thread
    BY <2>1, <2>2 DEF Types, CpuRec, PntsAsk, Asking, ThreadOrNone
  <2>4. /\ Forget(t)
        /\ cpu' \in [Cpu -> CpuRec] /\ \A d \in Cpu \ {c} : cpu'[d] = cpu[d]
        /\ cpu'[c].pc \in {"out", "end", "loop"} /\ cpu'[c].t = None /\ SameKernel(cpu[c], cpu'[c])
        /\ thr' \in [Thread -> ThreadRec] /\ \A u \in Thread \ {t} : thr'[u] = thr[u]
        /\ thr'[t].enqueued = thr[t].enqueued /\ thr'[t].pending_latch = thr[t].pending_latch
        /\ thr'[t].refcnt = thr[t].refcnt - 1 /\ thr'[t].sched = thr[t].sched
        /\ UNCHANGED <<task, msg, rq, nr_cpus_wanted>>
    BY <2>1, <2>3, <1>2, Zenon
  <2>5. PntStep(c, t)
    <3>1. sw_lookup' \subseteq Thread
      BY <2>1, <2>4 DEF Types, Forget
    <3>2. QED
      BY <2>1, <2>4, <3>1 DEF PntStep, Types
  <2>6. KernelHas'
    BY <2>1, <2>4, SameKernelHas DEF SameKernel
  <2>7. LineIsExact'
    BY <2>1, <2>4 DEF LineIsExact
  <2>8. RefsAreExact'
    BY <2>1, <2>3, <2>4, RefLost
  <2>9. StreamAt(t)'
    BY <2>1, <2>3, <2>4 DEF StreamHolds, StreamAt
  <2>10. WaitsAt(t)'
    <3>1. WaitsAt(t)
      BY <2>1, <2>3 DEF EnqueuedOrPending
    <3>2. ASSUME NEW d \in Cpu, cpu[d].pc = "run" /\ cpu[d].t = t PROVE cpu'[d].pc = "run" /\ cpu'[d].t = t
      BY <2>2, <2>4, <3>2
    <3>3. QED
      BY <2>4, <3>1, <3>2 DEF WaitsAt
  <2>11. QED
    BY <2>2, <2>3, <2>4, <2>5, <2>6, <2>7, <2>8, <2>9, <2>10, PntKeeps DEF Asking
<1>4. LoadInv => LoadInv'
  <2> HAVE LoadInv
  <2>1. Types /\ PntsAsk
    BY DEF ThreadsInv
  <2>2. t \in Thread
    <3>1. cpu[c].pc \in {"estale", "ebusy"}
      BY DEF RunReturns
    <3>2. QED
      BY <2>1, <3>1 DEF Types, CpuRec, PntsAsk, Asking, ThreadOrNone
  <2>3. /\ \A d \in Cpu \ {c} : cpu'[d] = cpu[d]
        /\ SameKernel(cpu[c], cpu'[c]) /\ \A u \in Thread \ {t} : thr'[u] = thr[u]
        /\ thr'[t].on_rq = thr[t].on_rq /\ UNCHANGED <<task, msg, rq, nr_cpus_wanted>>
    BY <2>1, <2>2, <1>2, Zenon
  <2>4. SameCpus /\ \A u \in Thread : thr'[u].on_rq = thr[u].on_rq
    BY <2>3 DEF SameCpus, SameKernel
  <2>5. QED
    BY <2>3, <2>4, StillLoad
<1>5. QED
  BY <1>3, <1>4

\* What the kernel's answer leaves of the PNT's claim on t.
Refused(c, t) ==
  /\ cpu' \in [Cpu -> CpuRec] /\ \A d \in Cpu : SameKernel(cpu[d], cpu'[d])
  /\ \A d \in Cpu : cpu'[d].t = cpu[d].t /\ (cpu'[d].fresh => cpu[d].fresh)
  /\ \A d \in Cpu \ {c} : cpu'[d].pc = cpu[d].pc
  /\ cpu'[c].pc \in {"ebusy", "estale"}
  /\ UNCHANGED <<task, sw_lookup, nr_cpus_wanted>>

\* And of the thread: it is enqueued again if it was asked for and is still there.
Refusal(c, t, m) ==
  /\ msg[t] = None /\ Refused(c, t)
  /\ \/ /\ msg'[t] = m /\ msg' = [msg EXCEPT ![t] = msg'[t]]
        /\ IF thr[t].pending_latch /\ thr[t].sched
           THEN biff_enqueue_task(t, FALSE)
           ELSE /\ thr' = [thr EXCEPT ![t] = [@ EXCEPT !.pending_latch = FALSE, !.synced = FALSE]]
                /\ rq' = rq
     \/ task[t] = "outside" /\ UNCHANGED <<msg, thr, rq>>

\* The thread is held as before, with another message and place in the line.
GivenBack(t) ==
  /\ msg' \in [Thread -> Msg \cup {None}] /\ thr' \in [Thread -> ThreadRec] /\ rq' \in Seq(Thread)
  /\ \A u \in Thread \ {t} : msg'[u] = msg[u] /\ thr'[u] = thr[u]
  /\ thr'[t].refcnt = thr[t].refcnt /\ thr'[t].sched = thr[t].sched
  /\ LineIsExact' /\ StreamAt(t)' /\ WaitsAt(t)'

\* A request that is refused leaves the references as they are.
LEMMA RefusedKeeps ==
  ASSUME ThreadsInv, NEW c \in Cpu, NEW t \in Thread, cpu[c].t = t, NoOther(c, t), Refused(c, t), GivenBack(t)
  PROVE  ThreadsInv'
<1>1. Types /\ KernelHas /\ RefsAreExact
  BY DEF ThreadsInv
<1>2. /\ cpu' \in [Cpu -> CpuRec] /\ \A d \in Cpu : SameKernel(cpu[d], cpu'[d])
      /\ \A d \in Cpu : cpu'[d].t = cpu[d].t /\ (cpu'[d].fresh => cpu[d].fresh)
      /\ \A d \in Cpu \ {c} : cpu'[d].pc = cpu[d].pc
      /\ task' = task /\ sw_lookup' = sw_lookup /\ nr_cpus_wanted' = nr_cpus_wanted
  BY DEF Refused
<1>3. Types'
  BY <1>1, <1>2 DEF Types, GivenBack
<1>4. PntStep(c, t)
  BY <1>2, <1>3 DEF PntStep, GivenBack
<1>5. RefsAreExact'
  <2>1. \A u \in Thread : thr'[u].refcnt = thr[u].refcnt /\ thr'[u].sched = thr[u].sched
    BY DEF GivenBack
  <2>2. \A u : Pnts(u)' = Pnts(u)
    BY <1>2 DEF Pnts
  <2>3. QED
    BY <1>1, <1>2, <2>1, <2>2 DEF RefsAreExact
<1>6. KernelHas'
  BY <1>1, <1>2, SameKernelHas
<1>7. cpu'[c].t # None /\ cpu'[c].pc \in Asking /\ cpu'[c].pc # "run"
  BY FluxAssumption DEF Refused, Asking
<1>8. LineIsExact' /\ StreamAt(t)' /\ WaitsAt(t)'
  BY DEF GivenBack
<1>9. QED
  BY <1>4, <1>5, <1>6, <1>7, <1>8, PntKeeps

\* The thread that could not be run is given back, or it is gone.
LEMMA RunFailsKeeps ==
  ASSUME CountingLaws, ThreadsInv, NEW c \in Cpu, NEW t, t = cpu[c].t, RunFails(c)
  PROVE  ThreadsInv' /\ (LoadInv => LoadInv')
<1>1. Types /\ t \in Thread /\ cpu[c].t = t
  <2>1. Types /\ PntsAsk
    BY DEF ThreadsInv
  <2>2. cpu[c].pc \in Asking
    BY DEF RunFails, Asking
  <2>3. QED
    BY <2>1, <2>2 DEF Types, CpuRec, PntsAsk, ThreadOrNone
<1>2. cpu[c].pc = "run" /\ Refusal(c, t, Message("latch_failure", c, FALSE))
  <2> USE <1>1
  <2> DEFINE p == IF cpu[c].fresh /\ task[cpu[c].t] = "runnable" THEN "ebusy" ELSE "estale"
             failed == [cpu EXCEPT ![c].pc = p]
             m == Message("latch_failure", c, FALSE)
  <2>1. /\ cpu[c].pc = "run" /\ msg[t] = None /\ UNCHANGED <<task, sw_lookup, nr_cpus_wanted>>
        /\ LatchFailure(t, c, failed) \/ (task[t] = "outside" /\ cpu' = failed /\ UNCHANGED <<msg, thr, rq>>)
    <3>1. /\ cpu[c].pc = "run" /\ Unlocked(cpu[c].t) /\ UNCHANGED <<task, sw_lookup, nr_cpus_wanted>>
          /\ \/ LatchFailure(cpu[c].t, c, failed)
             \/ task[cpu[c].t] = "outside" /\ cpu' = failed /\ UNCHANGED <<msg, thr, rq>>
      BY Zenon DEF RunFails
    <3> HIDE DEF failed
    <3>2. QED
      BY <3>1 DEF Unlocked
  <2>2. p \in {"ebusy", "estale"}
    OBVIOUS
  <2> HIDE DEF p
  <2>3. /\ failed \in [Cpu -> CpuRec] /\ \A d \in Cpu : SameKernel(cpu[d], failed[d])
        /\ \A d \in Cpu :
              /\ failed[d].t = cpu[d].t /\ failed[d].fresh = cpu[d].fresh
              /\ failed[d].pc = IF d = c THEN p ELSE cpu[d].pc
    <3> DEFINE k == [cpu[c] EXCEPT !.pc = p]
    <3>1. cpu[c] \in CpuRec /\ p \in {"out", "loop", "pick", "end"} \cup Asking
      BY <2>2 DEF Types, Asking
    <3>2. k \in CpuRec
      BY <3>1, Zenon DEF CpuRec
    <3>3. k.t = cpu[c].t /\ k.fresh = cpu[c].fresh /\ k.pc = p /\ SameKernel(cpu[c], k)
      BY <3>1 DEF CpuRec, SameKernel
    <3>4. failed = [cpu EXCEPT ![c] = k]
      OBVIOUS
    <3> HIDE DEF failed, k
    <3>5. failed \in [Cpu -> CpuRec] /\ failed[c] = k /\ \A d \in Cpu \ {c} : failed[d] = cpu[d]
      BY <3>2, <3>4 DEF Types
    <3>6. QED
      BY <3>3, <3>5 DEF SameKernel
  <2> HIDE DEF failed
  <2>4. CASE task[t] = "outside" /\ cpu' = failed /\ UNCHANGED <<msg, thr, rq>>
    BY <2>1, <2>2, <2>3, <2>4 DEF Refused, Refusal
  <2>5. CASE LatchFailure(t, c, failed)
    <3>1. /\ Send(t, m, failed)
          /\ IF thr[t].pending_latch /\ thr[t].sched
             THEN biff_enqueue_task(t, FALSE)
             ELSE /\ thr' = [thr EXCEPT ![t] = [@ EXCEPT !.pending_latch = FALSE, !.synced = FALSE]]
                  /\ rq' = rq
      BY <2>5, Zenon DEF LatchFailure
    <3> HIDE DEF m
    <3>2. /\ cpu' \in [Cpu -> CpuRec]
          /\ \A d \in Cpu :
                /\ SameKernel(failed[d], cpu'[d]) /\ cpu'[d].pc = failed[d].pc /\ cpu'[d].t = failed[d].t
                /\ cpu'[d].fresh => failed[d].fresh /\ failed[d].t # t
      BY <2>3, <3>1, SendGives
    <3>3. Refused(c, t)
      BY <2>1, <2>2, <2>3, <3>2 DEF Refused, SameKernel
    <3>4. msg' = [msg EXCEPT ![t] = m] /\ msg'[t] = m
      BY <3>1 DEF Send, Types
    <3>5. QED
      BY <2>1, <3>1, <3>3, <3>4, Zenon DEF m, Refusal
  <2>6. QED
    BY Zenon, <2>1, <2>4, <2>5
<1>3. ThreadsInv'
  <2> DEFINE m == Message("latch_failure", c, FALSE)
  <2>1. Types /\ LineIsExact /\ StreamHolds /\ EnqueuedOrPending
    BY DEF ThreadsInv
  <2>2. cpu[c].pc = "run"
    BY DEF RunFails
  <2>3. t \in Thread /\ NoOther(c, t) /\ thr[t].pending_latch /\ ~ thr[t].enqueued
    BY <2>2, AskerIsTheOne
  <2>4. Refusal(c, t, m) /\ Refused(c, t) /\ msg[t] = None
    BY Zenon, <1>2 DEF Refusal
  <2>5. m \in Msg /\ m # None /\ ~ Leaves(m)
    BY Zenon, MessageIsMsg DEF Leaves
  <2> HIDE DEF m
  <2>6. WaitsAt(t) /\ StreamAt(t) /\ t # None
    BY <2>1, <2>3, FluxAssumption DEF EnqueuedOrPending, StreamHolds
  <2>7. task' = task
    BY <2>4 DEF Refused
  <2>8. SUFFICES GivenBack(t)
    BY <2>3, <2>4, RefusedKeeps
  <2>9. CASE task[t] = "outside" /\ UNCHANGED <<msg, thr, rq>>
    BY <2>1, <2>6, <2>7, <2>9 DEF Types, LineIsExact, StreamAt, WaitsAt, GivenBack
  <2>10. CASE /\ msg'[t] = m /\ msg' = [msg EXCEPT ![t] = msg'[t]]
              /\ thr[t].sched /\ biff_enqueue_task(t, FALSE)
    <3>1. Touches(t) /\ thr'[t].pending_latch = FALSE /\ Joins(t)
      BY Zenon, <2>1, <2>3, <2>10, EnqueueTouches DEF Types
    <3>2. LineIsExact' /\ rq' \in Seq(Thread)
      <4>1. \A u \in Thread \ {t} : thr'[u].enqueued = thr[u].enqueued
        BY <3>1 DEF Touches
      <4>2. QED
        BY Zenon, <2>1, <2>3, <3>1, <4>1, EnqueueKeepsLine DEF Types, Joins
    <3>3. msg' \in [Thread -> Msg \cup {None}] /\ \A u \in Thread \ {t} : msg'[u] = msg[u]
      BY <2>1, <2>5, <2>10 DEF Types
    <3>4. task[t] = "runnable"
      BY <2>3, <2>4, <2>6, <2>10 DEF StreamAt, WaitsAt
    <3>5. StreamAt(t)' /\ WaitsAt(t)'
      BY <2>5, <2>7, <2>10, <3>1, <3>4 DEF StreamAt, WaitsAt, Touches, Joins
    <3>6. QED
      BY <3>1, <3>2, <3>3, <3>5 DEF Touches, GivenBack
  <2>11. CASE /\ msg'[t] = m /\ msg' = [msg EXCEPT ![t] = msg'[t]] /\ ~ thr[t].sched /\ rq' = rq
              /\ thr' = [thr EXCEPT ![t] = [@ EXCEPT !.pending_latch = FALSE, !.synced = FALSE]]
    <3> DEFINE j == [thr[t] EXCEPT !.pending_latch = FALSE, !.synced = FALSE]
    <3>1. thr[t] \in ThreadRec /\ thr' = [thr EXCEPT ![t] = j]
      BY <2>1, <2>3, <2>11 DEF Types
    <3>2. j \in ThreadRec
      BY <3>1, Zenon DEF ThreadRec
    <3>3. /\ j.refcnt = thr[t].refcnt /\ j.sched = thr[t].sched /\ j.pending_latch = FALSE
          /\ j.enqueued = thr[t].enqueued
      BY <3>1 DEF ThreadRec
    <3> HIDE DEF j
    <3>4. thr' \in [Thread -> ThreadRec] /\ thr'[t] = j /\ \A u \in Thread \ {t} : thr'[u] = thr[u]
      BY <2>1, <2>3, <3>1, <3>2 DEF Types
    <3>5. msg' \in [Thread -> Msg \cup {None}] /\ \A u \in Thread \ {t} : msg'[u] = msg[u]
      BY <2>1, <2>5, <2>11 DEF Types
    <3>6. LineIsExact' /\ rq' \in Seq(Thread)
      BY <2>1, <2>11, <3>3, <3>4 DEF LineIsExact, Types
    <3>7. task[t] = "outside"
      BY <2>6, <2>11 DEF StreamAt
    <3>8. StreamAt(t)' /\ WaitsAt(t)'
      BY <2>3, <2>5, <2>7, <2>11, <3>3, <3>4, <3>7 DEF StreamAt, WaitsAt
    <3>9. QED
      BY <3>3, <3>4, <3>5, <3>6, <3>8 DEF GivenBack
  <2>12. QED
    BY Zenon, <2>3, <2>4, <2>9, <2>10, <2>11 DEF Refusal
<1>4. LoadInv => LoadInv'
  <2> HAVE LoadInv
  <2> DEFINE m == Message("latch_failure", c, FALSE)
  <2>1. Types
    BY DEF ThreadsInv
  <2>2. t \in Thread
    <3>1. cpu[c].pc = "run"
      BY DEF RunFails
    <3>2. QED
      BY <3>1, AskerIsTheOne
  <2>3. Refusal(c, t, m) /\ Refused(c, t) /\ msg[t] = None
    BY Zenon, <1>2 DEF Refusal
  <2>4. m # None /\ m.type = "latch_failure" /\ m.from_switchto = FALSE
    BY Zenon, MessageIsMsg
  <2> HIDE DEF m
  <2>5. SameCpus /\ task' = task /\ nr_cpus_wanted' = nr_cpus_wanted
    BY <2>3 DEF Refused, SameCpus
  <2>6. CASE UNCHANGED <<msg, thr, rq>>
    BY <2>5, <2>6, StillLoad
  <2>7. CASE /\ msg'[t] = m /\ msg' = [msg EXCEPT ![t] = msg'[t]]
             /\ \/ biff_enqueue_task(t, FALSE)
                \/ thr' = [thr EXCEPT ![t] = [@ EXCEPT !.pending_latch = FALSE, !.synced = FALSE]]
    <3>1. \A u \in Thread : thr'[u].on_rq = thr[u].on_rq
      <4>1. CASE biff_enqueue_task(t, FALSE)
        BY Zenon, <2>1, <2>2, <4>1, EnqueueTouches DEF Types, Touches
      <4>2. CASE thr' = [thr EXCEPT ![t] = [@ EXCEPT !.pending_latch = FALSE, !.synced = FALSE]]
        BY <2>1, <2>2, <4>2 DEF Types, ThreadRec
      <4>3. QED
        BY Zenon, <2>7, <4>1, <4>2
    <3>2. \A u \in Thread \ {t} : msg'[u] = msg[u]
      BY <2>1, <2>7 DEF Types
    <3>3. QED
      BY Zenon, <2>2, <2>3, <2>4, <2>5, <2>7, <3>1, <3>2, SameLoad
  <2>8. QED
    BY Zenon, <2>3, <2>6, <2>7 DEF Refusal
<1>5. QED
  BY <1>3, <1>4

\* A step that changes the record of one CPU, and of threads nothing that counts.
LEMMA OneCpuIsQuiet ==
  ASSUME Types, NEW c \in Cpu, NEW k \in CpuRec, cpu' = [cpu EXCEPT ![c] = k], SameKernel(cpu[c], k),
         k.t = cpu[c].t, k.fresh => cpu[c].fresh, cpu[c].pc \notin Asking, k.pc \notin Asking,
         UNCHANGED <<task, msg, sw_lookup, rq, nr_cpus_wanted>>, thr' \in [Thread -> ThreadRec],
         \A u \in Thread :
            /\ thr'[u].sched = thr[u].sched /\ thr'[u].refcnt = thr[u].refcnt /\ thr'[u].on_rq = thr[u].on_rq
            /\ thr'[u].pending_latch = thr[u].pending_latch /\ thr'[u].enqueued = thr[u].enqueued
  PROVE  Quiet
<1>1. cpu' \in [Cpu -> CpuRec] /\ cpu'[c] = k /\ \A d \in Cpu \ {c} : cpu'[d] = cpu[d]
  BY DEF Types
<1>2. Types'
  BY <1>1 DEF Types
<1>3. SamePnts
  BY <1>1 DEF SamePnts
<1>4. \A d \in Cpu : SameKernel(cpu[d], cpu'[d])
  BY <1>1 DEF SameKernel
<1>5. QED
  BY <1>2, <1>3, <1>4 DEF Quiet

\* PNT is over without having taken a thread.
LEMMA OverIsQuiet ==
  ASSUME Types, NEW c \in Cpu, cpu' = [cpu EXCEPT ![c] = Over(cpu[c])], cpu[c].t = None, cpu[c].pc \notin Asking,
         UNCHANGED <<task, msg, sw_lookup, rq, nr_cpus_wanted>>, thr' \in [Thread -> ThreadRec],
         \A u \in Thread :
            /\ thr'[u].sched = thr[u].sched /\ thr'[u].refcnt = thr[u].refcnt /\ thr'[u].on_rq = thr[u].on_rq
            /\ thr'[u].pending_latch = thr[u].pending_latch /\ thr'[u].enqueued = thr[u].enqueued
  PROVE  Quiet
<1> DEFINE k == Over(cpu[c])
<1>1. cpu[c] \in CpuRec
  BY DEF Types
<1>2. k \in CpuRec /\ k.t = None /\ k.pc \notin Asking /\ SameKernel(cpu[c], k)
  BY <1>1, OverGives DEF Asking
<1>3. ~ k.fresh
  BY <1>1 DEF Over, CpuRec
<1>4. cpu' = [cpu EXCEPT ![c] = k]
  OBVIOUS
<1> HIDE DEF k
<1>5. QED
  BY Zenon, <1>2, <1>3, <1>4, OneCpuIsQuiet

\* gtid_to_thread() finds a thread that is known, or none.
LEMMA CurrentFound ==
  ASSUME Types, NEW c \in Cpu
  PROVE  gtid_to_thread(cpu[c].current) \in ThreadOrNone
  BY CpuThreads DEF gtid_to_thread, ThreadOrNone

\* Whether a time slice is over matters to nothing that is kept.
LEMMA TimesUp ==
  ASSUME thr \in [Thread -> ThreadRec], NEW t \in Thread, NEW b \in BOOLEAN,
         thr' = [thr EXCEPT ![t].times_up = b]
  PROVE  /\ thr' \in [Thread -> ThreadRec]
         /\ \A u \in Thread :
              /\ thr'[u].sched = thr[u].sched /\ thr'[u].refcnt = thr[u].refcnt /\ thr'[u].on_rq = thr[u].on_rq
              /\ thr'[u].pending_latch = thr[u].pending_latch /\ thr'[u].enqueued = thr[u].enqueued
<1>1. thr' \in [Thread -> ThreadRec]
  BY Zenon DEF ThreadRec
<1>2. QED
  BY <1>1 DEF ThreadRec

\* flux_pnt() looks at the current thread of the CPU.
LEMMA LookAtCurrentIsQuiet ==
  ASSUME Types, PntsAsk, NEW c \in Cpu, LookAtCurrent(c)
  PROVE  Quiet
<1> DEFINE current == gtid_to_thread(cpu[c].current)
           k == [cpu[c] EXCEPT !.pc = "pick", !.cur = current]
<1>1. cpu[c] \in CpuRec /\ current \in ThreadOrNone
  BY CurrentFound DEF Types
<1>2. cpu[c].pc \in {"out", "loop"} /\ UNCHANGED <<task, msg, thr, sw_lookup, rq, nr_cpus_wanted>>
  BY Zenon DEF LookAtCurrent
<1>3. cpu' = [cpu EXCEPT ![c] = Over(cpu[c])] \/ cpu' = [cpu EXCEPT ![c] = k]
  BY DEF LookAtCurrent
<1> HIDE DEF current
<1>4. cpu[c].pc \notin Asking /\ cpu[c].t = None
  BY <1>2 DEF PntsAsk, Asking
<1>5. thr' = thr /\ thr' \in [Thread -> ThreadRec]
  BY <1>2 DEF Types
<1>6. k \in CpuRec
  BY <1>1, Zenon DEF CpuRec
<1>7. k.t = cpu[c].t /\ k.fresh = cpu[c].fresh /\ k.pc = "pick" /\ SameKernel(cpu[c], k)
  BY <1>1 DEF CpuRec, SameKernel
<1> HIDE DEF k
<1>8. CASE cpu' = [cpu EXCEPT ![c] = k]
  BY Zenon, <1>2, <1>4, <1>5, <1>6, <1>7, <1>8, OneCpuIsQuiet DEF Asking
<1>9. CASE cpu' = [cpu EXCEPT ![c] = Over(cpu[c])]
  BY Zenon, <1>1, <1>2, <1>4, <1>5, <1>9, OverIsQuiet
<1>10. QED
  BY <1>3, <1>8, <1>9

\* There is no thread to run.
LEMMA PickNoneIsQuiet ==
  ASSUME Types, PntsAsk, NEW c \in Cpu, PickNone(c)
  PROVE  Quiet
<1> DEFINE cur == cpu[c].cur
<1>1. cpu[c] \in CpuRec /\ cur \in ThreadOrNone
  BY DEF Types, CpuRec
<1>2. /\ cpu[c].pc = "pick" /\ UNCHANGED <<task, msg, sw_lookup, rq, nr_cpus_wanted>>
      /\ cpu' = [cpu EXCEPT ![c] = Over(cpu[c])]
      /\ thr' = (IF cur = None THEN thr ELSE [thr EXCEPT ![cur].times_up = FALSE])
  BY DEF PickNone
<1> HIDE DEF cur
<1>3. cpu[c].pc \notin Asking /\ cpu[c].t = None
  BY <1>2 DEF PntsAsk, Asking
<1>4. /\ thr' \in [Thread -> ThreadRec]
      /\ \A u \in Thread :
            /\ thr'[u].sched = thr[u].sched /\ thr'[u].refcnt = thr[u].refcnt /\ thr'[u].on_rq = thr[u].on_rq
            /\ thr'[u].pending_latch = thr[u].pending_latch /\ thr'[u].enqueued = thr[u].enqueued
  <2>1. CASE thr' = thr
    BY <2>1 DEF Types
  <2>2. CASE cur # None /\ thr' = [thr EXCEPT ![cur].times_up = FALSE]
    <3>1. cur \in Thread
      BY <1>1, <2>2 DEF ThreadOrNone
    <3>2. QED
      BY Zenon, <2>2, <3>1, TimesUp DEF Types
  <2>3. QED
    BY <1>2, <2>1, <2>2
<1>5. QED
  BY Zenon, <1>2, <1>3, <1>4, OverIsQuiet

\* PNT leaves the CPU to somebody else.
LEMMA LeaveCpuIsQuiet ==
  ASSUME Types, PntsAsk, NEW c \in Cpu, LeaveCpu(c)
  PROVE  Quiet
<1> DEFINE k == [cpu[c] EXCEPT !.pc = "out", !.busy = None]
<1>1. cpu[c] \in CpuRec
  BY DEF Types
<1>2. /\ cpu[c].pc = "end" /\ UNCHANGED <<task, msg, thr, sw_lookup, rq, nr_cpus_wanted>>
      /\ cpu' = [cpu EXCEPT ![c] = k]
  BY DEF LeaveCpu
<1>3. thr' = thr /\ thr' \in [Thread -> ThreadRec]
  BY <1>2 DEF Types
<1>4. k \in CpuRec
  BY <1>1, Zenon DEF CpuRec, ThreadOrNone
<1>5. k.t = cpu[c].t /\ k.fresh = cpu[c].fresh /\ k.pc = "out" /\ SameKernel(cpu[c], k)
  BY <1>1 DEF CpuRec, SameKernel
<1> HIDE DEF k
<1>6. cpu[c].pc \notin Asking /\ k.pc \notin Asking
  BY <1>2, <1>5 DEF Asking
<1>7. QED
  BY Zenon, <1>2, <1>3, <1>4, <1>5, <1>6, OneCpuIsQuiet

\* The tick marks the current thread.
LEMMA TickIsQuiet ==
  ASSUME Types, PntsAsk, NEW c \in Cpu, Tick(c)
  PROVE  Quiet
<1> DEFINE current == gtid_to_thread(cpu[c].current)
           k == [cpu[c] EXCEPT !.resched = TRUE]
<1>1. cpu[c] \in CpuRec /\ current \in ThreadOrNone
  BY CurrentFound DEF Types
<1>2. /\ cpu[c].pc = "out" /\ current # None /\ UNCHANGED <<task, msg, sw_lookup, rq, nr_cpus_wanted>>
      /\ thr' = [thr EXCEPT ![current].times_up = TRUE] /\ cpu' = [cpu EXCEPT ![c] = k]
  BY DEF Tick
<1> HIDE DEF current
<1>3. current \in Thread
  BY <1>1, <1>2 DEF ThreadOrNone
<1>4. /\ thr' \in [Thread -> ThreadRec]
      /\ \A u \in Thread :
            /\ thr'[u].sched = thr[u].sched /\ thr'[u].refcnt = thr[u].refcnt /\ thr'[u].on_rq = thr[u].on_rq
            /\ thr'[u].pending_latch = thr[u].pending_latch /\ thr'[u].enqueued = thr[u].enqueued
  BY Zenon, <1>2, <1>3, TimesUp DEF Types
<1>5. k \in CpuRec
  BY <1>1, Zenon DEF CpuRec
<1>6. k.t = cpu[c].t /\ k.fresh = cpu[c].fresh /\ k.pc = "out" /\ SameKernel(cpu[c], k)
  BY <1>1, <1>2 DEF CpuRec, SameKernel
<1> HIDE DEF k
<1>7. cpu[c].pc \notin Asking /\ k.pc \notin Asking
  BY <1>2, <1>6 DEF Asking
<1>8. QED
  BY Zenon, <1>2, <1>4, <1>5, <1>6, <1>7, OneCpuIsQuiet

\* All of them.
LEMMA PntStepsKeep ==
  ASSUME CountingLaws, ThreadsInv, NEW c \in Cpu, Pnt(c) \/ Tick(c)
  PROVE  ThreadsInv' /\ (LoadInv => LoadInv')
<1>1. Types /\ PntsAsk
  BY DEF ThreadsInv
<1>2. CASE LookAtCurrent(c) \/ PickNone(c) \/ LeaveCpu(c) \/ Tick(c)
  <2>1. Quiet
    BY <1>1, <1>2, LookAtCurrentIsQuiet, PickNoneIsQuiet, LeaveCpuIsQuiet, TickIsQuiet
  <2>2. ThreadsInv'
    BY <2>1, QuietKeeps
  <2>3. LoadInv => LoadInv'
    BY <2>1, StillLoad DEF Quiet, SameCpus
  <2>4. QED
    BY <2>2, <2>3
<1>3. CASE PickFirst(c)
  BY <1>3, PickFirstKeeps
<1>4. CASE RunSucceeds(c)
  BY <1>4, RunSucceedsKeeps
<1>5. CASE RunFails(c)
  BY <1>5, RunFailsKeeps
<1>6. CASE RunReturns(c)
  BY <1>6, RunReturnsKeeps
<1>7. QED
  BY <1>2, <1>3, <1>4, <1>5, <1>6 DEF Pnt

-----------------------------------------------------------------------------
(* The invariants are inductive, and imply what is to be shown. *)

\* ThreadsInv holds at the start.
LEMMA InitGivesThreads ==
  ASSUME CountingLaws, Init
  PROVE  ThreadsInv
<1>1. /\ task = [t \in Thread |-> "outside"] /\ msg = [t \in Thread |-> None]
      /\ sw_lookup = {} /\ rq = << >> /\ nr_cpus_wanted = 0
      /\ \A t \in Thread : ~ thr[t].sched /\ thr[t].refcnt = 0 /\ ~ thr[t].pending_latch /\ ~ thr[t].enqueued
      /\ \A c \in Cpu : cpu[c].pc = "out" /\ cpu[c].t = None /\ cpu[c].running = None /\ cpu[c].latched = None
  BY DEF Init
<1>2. Types
  <2>1. thr \in [Thread -> ThreadRec] /\ cpu \in [Cpu -> CpuRec]
    BY DEF Init, ThreadRec, CpuRec, ThreadOrNone
  <2>2. QED
    BY <1>1, <2>1 DEF Types, TaskState
<1>3. PntsAsk /\ KernelHas /\ StreamHolds /\ EnqueuedOrPending /\ OnePntAsks
  BY <1>1 DEF PntsAsk, Asking, KernelHas, StreamHolds, StreamAt, EnqueuedOrPending, WaitsAt, OnePntAsks
<1>4. LineIsExact
  <2>1. 1 .. Len(rq) = {}
    BY <1>1
  <2>2. QED
    BY <1>1, <2>1, Zenon DEF LineIsExact
<1>5. RefsAreExact
  <2>1. \A t \in Thread : Pnts(t) = {}
    BY <1>1, FluxAssumption DEF Pnts
  <2>2. Cardinality({}) = 0
    BY CountEmpty
  <2>3. ASSUME NEW t \in Thread
        PROVE  /\ thr[t].refcnt = (IF thr[t].sched THEN 1 ELSE 0) + Cardinality(Pnts(t))
               /\ t \in sw_lookup <=> thr[t].refcnt > 0
    <3>1. Cardinality(Pnts(t)) = 0
      BY <2>1, <2>2
    <3>2. QED
      BY <1>1, <3>1
  <2>4. QED
    BY <2>3 DEF RefsAreExact
<1>6. QED
  BY <1>2, <1>3, <1>4, <1>5 DEF ThreadsInv

\* LoadInv holds at the start.
LEMMA InitGivesLoad ==
  ASSUME CountingLaws, Init
  PROVE  LoadInv
<1>1. /\ task = [t \in Thread |-> "outside"] /\ msg = [t \in Thread |-> None] /\ nr_cpus_wanted = 0
      /\ \A c \in Cpu : cpu[c].running = None /\ cpu[c].current = None /\ ~ cpu[c].chain
  BY DEF Init
<1>2. MsgIsTrue /\ OnRqIsTrue /\ CurrentIsRunning /\ NoChainWithoutThread
  BY <1>1 DEF MsgIsTrue, MsgAt, OnRqIsTrue, OnRqAt, CurrentIsRunning, NoChainWithoutThread
<1>3. Counted = {}
  BY <1>1 DEF Counted, IsCounted
<1>4. CountIsExact
  BY <1>1, <1>3, CountEmpty DEF CountIsExact
<1>5. QED
  BY <1>2, <1>4 DEF LoadInv

\* Every step keeps both invariants.
LEMMA NextKeeps ==
  ASSUME CountingLaws, ThreadsInv, ~ EarlyReturn, [Next]_vars
  PROVE  ThreadsInv' /\ (LoadInv /\ ~ ChainDeparts => LoadInv')
<1>1. CASE Next
  BY <1>1, PntStepsKeep, HandlersKeep DEF Next
<1>2. CASE UNCHANGED vars
  <2>1. Quiet
    BY <1>2 DEF vars, Quiet, ThreadsInv, Types, SamePnts, SameKernel
  <2>2. ThreadsInv'
    BY <2>1, QuietKeeps
  <2>3. LoadInv => LoadInv'
    BY <2>1, StillLoad DEF Quiet, SameCpus
  <2>4. QED
    BY <2>2, <2>3
<1>3. QED
  BY <1>1, <1>2

\* How often a thread is on the queue.
LEMMA QueuedCounts ==
  ASSUME CountingLaws, Types, LineIsExact, NEW t \in Thread
  PROVE  Queued(t) = IF thr[t].enqueued THEN 1 ELSE 0
<1> DEFINE S == {i \in DOMAIN rq : rq[i] = t}
<1>1. DOMAIN rq = 1 .. Len(rq)
  BY DEF Types
<1>2. CASE thr[t].enqueued
  <2>1. PICK i \in 1 .. Len(rq) : rq[i] = t
    BY <1>2 DEF LineIsExact
  <2>2. S = {i}
    BY <1>1, <2>1 DEF LineIsExact
  <2>3. QED
    BY Zenon, <1>2, <2>2, CountSingle DEF Queued
<1>3. CASE ~ thr[t].enqueued
  <2>1. S = {}
    BY <1>1, <1>3 DEF LineIsExact
  <2>2. QED
    BY <1>3, <2>1, CountEmpty DEF Queued
<1>4. QED
  BY <1>2, <1>3

\* The invariant of the threads gives ThreadsAreKept.
LEMMA InvGivesThreadsAreKept ==
  ASSUME CountingLaws, ThreadsInv
  PROVE  ThreadsAreKept
<1>1. Types /\ LineIsExact /\ OnePntAsks /\ StreamHolds /\ EnqueuedOrPending /\ RefsAreExact
  BY DEF ThreadsInv
<1>2. \A t \in Thread : Queued(t) = IF thr[t].enqueued THEN 1 ELSE 0
  BY <1>1, QueuedCounts
<1>3. ASSUME NEW t \in Thread, NEW c \in InLimbo(t) PROVE thr[t].pending_latch /\ (cpu[c].fresh => task[t] = "runnable")
  BY <1>1 DEF InLimbo, OnePntAsks
<1>4. WaitingIsKept
  <2>1. ASSUME NEW t \in Thread, task[t] = "runnable"
        PROVE  IF thr[t].pending_latch THEN Queued(t) = 0 /\ InLimbo(t) # {}
               ELSE Queued(t) = 1 /\ \A c \in InLimbo(t) : ~ cpu[c].fresh
    <3>1. WaitsAt(t)
      BY <1>1 DEF EnqueuedOrPending
    <3>2. CASE thr[t].pending_latch
      <4>1. ~ thr[t].enqueued /\ \E c \in Cpu : cpu[c].pc = "run" /\ cpu[c].t = t
        BY <2>1, <3>1, <3>2 DEF WaitsAt
      <4>2. QED
        BY <1>2, <3>2, <4>1 DEF InLimbo
    <3>3. CASE ~ thr[t].pending_latch
      <4>1. thr[t].enqueued
        BY <2>1, <3>1, <3>3 DEF WaitsAt
      <4>2. Queued(t) = 1
        BY <1>2, <4>1
      <4>3. \A c \in InLimbo(t) : FALSE
        BY <1>3, <3>3
      <4>4. QED
        BY <3>3, <4>2, <4>3, Zenon
    <3>4. QED
      BY <3>2, <3>3
  <2>2. QED
    BY <2>1 DEF WaitingIsKept
<1>5. OthersCannotRun
  <2>1. ASSUME NEW t \in Thread, task[t] # "runnable"
        PROVE  Queued(t) = 0 /\ \A c \in InLimbo(t) : ~ cpu[c].fresh
    <3>1. ~ thr[t].enqueued
      BY <1>1, <2>1 DEF EnqueuedOrPending, WaitsAt
    <3>2. QED
      BY <1>2, <1>3, <2>1, <3>1
  <2>2. ASSUME NEW t \in Thread PROVE Cardinality({c \in InLimbo(t) : cpu[c].fresh}) <= 1
    <3> DEFINE S == {c \in InLimbo(t) : cpu[c].fresh}
    <3>1. \A c, d \in S : c = d
      BY <1>1 DEF OnePntAsks, InLimbo
    <3>2. CASE S = {}
      <4>1. Cardinality({}) = 0
        BY CountEmpty
      <4> HIDE DEF S
      <4>2. Cardinality(S) = 0
        BY <3>2, <4>1, Zenon
      <4>3. QED
        BY <4>2 DEF S
    <3>3. CASE S # {}
      <4>1. PICK c \in S : TRUE
        BY <3>3
      <4>2. S = {c}
        BY <3>1, <4>1
      <4> HIDE DEF S
      <4>3. Cardinality(S) = 1
        BY Zenon, <4>2, CountSingle
      <4>4. QED
        BY <4>3 DEF S
    <3>4. QED
      BY <3>2, <3>3
  <2>3. QED
    BY <2>1, <2>2 DEF OthersCannotRun
<1>6. KnownWhileReferenced
  <2>1. ASSUME NEW t \in Thread
        PROVE  LET stream == task[t] # "outside" \/ (~ Unlocked(t) /\ Leaves(msg[t]))
                   pnts == {c \in Cpu : cpu[c].t = t}
               IN  /\ thr[t].refcnt = (IF stream THEN 1 ELSE 0) + Cardinality(pnts)
                   /\ t \in sw_lookup <=> thr[t].refcnt > 0
                   /\ Queued(t) > 0 => stream
    <3> DEFINE stream == task[t] # "outside" \/ (~ Unlocked(t) /\ Leaves(msg[t]))
    <3>1. thr[t].sched <=> stream
      BY <1>1 DEF StreamHolds, StreamAt, Unlocked
    <3>2. Queued(t) > 0 => stream
      BY <1>1, <1>2 DEF EnqueuedOrPending, WaitsAt
    <3> HIDE DEF stream
    <3>3. /\ thr[t].refcnt = (IF thr[t].sched THEN 1 ELSE 0) + Cardinality({c \in Cpu : cpu[c].t = t})
          /\ t \in sw_lookup <=> thr[t].refcnt > 0
      BY <1>1 DEF RefsAreExact, Pnts
    <3>4. /\ thr[t].refcnt = (IF stream THEN 1 ELSE 0) + Cardinality({c \in Cpu : cpu[c].t = t})
          /\ t \in sw_lookup <=> thr[t].refcnt > 0
      BY <3>1, <3>3
    <3>5. QED
      BY <3>2, <3>4, Zenon DEF stream
  <2>2. QED
    BY <2>1, Zenon DEF KnownWhileReferenced
<1>7. QED
  BY <1>4, <1>5, <1>6 DEF ThreadsAreKept

\* That of the load gives LoadIsKept.
LEMMA InvGivesLoadIsKept ==
  ASSUME LoadInv
  PROVE  LoadIsKept
<1>1. ASSUME \A t \in Thread : Unlocked(t)
      PROVE  nr_cpus_wanted = Cardinality({t \in Thread : task[t] \in {"runnable", "latched", "running"}})
  <2>1. Counted = {t \in Thread : task[t] \in {"runnable", "latched", "running"}}
    BY <1>1 DEF Counted, IsCounted, Unlocked
  <2>2. QED
    BY <2>1 DEF LoadInv, CountIsExact
<1>2. QED
  BY <1>1 DEF LoadIsKept, LoadIsExact, LoadInv

-----------------------------------------------------------------------------
(* The theorems. *)

INSTANCE FiniteSetTheorems

\* The counting facts of FluxThreadProofs hold.
LEMMA CountingHolds == CountingLaws
<1>1. Cardinality({}) = 0 /\ \A x : Cardinality({x}) = 1
  BY FS_EmptySet, FS_Singleton, Zenon
<1>2. ASSUME NEW S, IsFiniteSet(S) PROVE Cardinality(S) \in Nat /\ (Cardinality(S) = 0 => S = {})
  BY <1>2, FS_CardinalityType, FS_EmptySet
<1>3. ASSUME NEW S, NEW T, IsFiniteSet(T), S \subseteq T PROVE IsFiniteSet(S)
  BY <1>3, FS_Subset
<1>4. ASSUME NEW S, NEW x, IsFiniteSet(S), x \notin S PROVE Cardinality(S \cup {x}) = Cardinality(S) + 1
  BY <1>4, FS_AddElement
<1>5. ASSUME NEW S, NEW x, IsFiniteSet(S), x \in S
      PROVE  IsFiniteSet(S \ {x}) /\ Cardinality(S \ {x}) = Cardinality(S) - 1
  BY <1>5, FS_RemoveElement
<1>6. QED
  BY <1>1, <1>2, <1>3, <1>4, <1>5, Zenon DEF CountingLaws

\* Unless a thread comes back before Flux has forgotten it, no thread is lost, none is
\* run by two PNTs, and each is known exactly as long as somebody refers to it, for any
\* number of threads and CPUs.
THEOREM FluxKeepsThreads ==
  ASSUME ~ EarlyReturn
  PROVE  Spec => []ThreadsAreKept
<1>1. Init => ThreadsInv
  BY CountingHolds, InitGivesThreads
<1>2. ThreadsInv /\ [Next]_vars => ThreadsInv'
  BY CountingHolds, NextKeeps
<1>3. ThreadsInv => ThreadsAreKept
  BY CountingHolds, InvGivesThreadsAreKept
<1>4. QED
  BY <1>1, <1>2, <1>3, PTL DEF Spec

\* If, further, no thread leaves that runs by a switchto, Biff's count is the number of
\* threads that run or wait, and its current thread is the one that runs, or that began
\* the chain, for any number of threads and CPUs.
THEOREM FluxKeepsLoad ==
  ASSUME ~ EarlyReturn, ~ ChainDeparts
  PROVE  Spec => []LoadIsKept
<1>1. Init => ThreadsInv /\ LoadInv
  BY CountingHolds, InitGivesThreads, InitGivesLoad
<1>2. ThreadsInv /\ LoadInv /\ [Next]_vars => ThreadsInv' /\ LoadInv'
  BY CountingHolds, NextKeeps
<1>3. LoadInv => LoadIsKept
  BY InvGivesLoadIsKept
<1>4. QED
  BY <1>1, <1>2, <1>3, PTL DEF Spec
=============================================================================
