------------------------- MODULE FluxHandlerProofs -------------------------
(***************************************************************************)
(* The other handlers of FluxThread, those that move more than one thread  *)
(* or CPU: a thread that leaves, comes or is switched to, and the end of a *)
(* handler.  They keep the invariants of FluxThreadProofs.  Then what the  *)
(* steps of PNT have in common, which module FluxTheorems takes up.        *)
(***************************************************************************)
EXTENDS FluxThreadProofs

\* remove: the others keep their order
LEMMA RemoveKeepsLine ==
  ASSUME rq \in Seq(Thread), LineIsExact, NEW t \in Thread, thr[t].enqueued, rq' = Without(t),
         thr'[t].enqueued = FALSE, \A u \in Thread \ {t} : thr'[u].enqueued = thr[u].enqueued
  PROVE  LineIsExact' /\ rq' \in Seq(Thread)
<1> DEFINE n == Len(rq)
           k == CHOOSE j \in DOMAIN rq : rq[j] = t
<1>1. n \in Nat /\ n = Len(rq) /\ DOMAIN rq = 1 .. n
  OBVIOUS
<1>2. \A i, j \in 1 .. n : rq[i] = rq[j] => i = j
  BY DEF LineIsExact
<1>3. k \in 1 .. n /\ rq[k] = t
  BY <1>1 DEF LineIsExact
<1>4. rq' = SubSeq(rq, 1, k - 1) \o SubSeq(rq, k + 1, n)
  BY DEF Without
<1> HIDE DEF n, k
<1>5. /\ rq' \in Seq(Thread) /\ Len(rq') = n - 1
      /\ \A i \in 1 .. (k - 1) : rq'[i] = rq[i]
      /\ \A i \in k .. (n - 1) : rq'[i] = rq[i + 1]
  <2>1. IsWithout(SubSeq(rq, 1, k - 1) \o SubSeq(rq, k + 1, n), rq, Thread, n, k)
    BY <1>1, <1>3, RemoveAt, Zenon
  <2>2. QED
    BY <1>4, <2>1, Zenon DEF IsWithout
<1>6. ASSUME NEW i \in 1 .. Len(rq'), NEW j \in 1 .. Len(rq'), rq'[i] = rq'[j] PROVE i = j
  <2> DEFINE At(x) == IF x < k THEN x ELSE x + 1
  <2>1. At(i) \in 1 .. n /\ At(j) \in 1 .. n /\ rq'[i] = rq[At(i)] /\ rq'[j] = rq[At(j)]
    BY <1>1, <1>3, <1>5
  <2> HIDE DEF At
  <2>2. At(i) = At(j)
    BY <1>2, <1>6, <2>1, Zenon
  <2>3. QED
    BY <1>1, <1>3, <1>5, <2>2 DEF At
<1>7. ASSUME NEW u \in Thread PROVE thr'[u].enqueued <=> \E i \in 1 .. Len(rq') : rq'[i] = u
  <2>1. CASE u = t
    <3>1. ASSUME NEW i \in 1 .. Len(rq'), rq'[i] = t PROVE FALSE
      <4>1. CASE i < k
        BY <1>2, <1>1, <1>3, <1>5, <3>1, <4>1
      <4>2. CASE ~ (i < k)
        <5>1. i + 1 \in 1 .. n /\ rq[i + 1] = t
          BY <1>1, <1>3, <1>5, <3>1, <4>2
        <5>2. i + 1 = k
          BY <1>2, <1>3, <5>1
        <5>3. QED
          BY <1>1, <1>3, <4>2, <5>2
      <4>3. QED
        BY <4>1, <4>2
    <3>2. QED
      BY <2>1, <3>1
  <2>2. CASE u # t
    <3>1. ASSUME NEW i \in 1 .. n, rq[i] = u PROVE \E j \in 1 .. Len(rq') : rq'[j] = u
      <4>1. CASE i < k
        BY <1>1, <1>3, <1>5, <3>1, <4>1
      <4>2. CASE i > k
        <5>1. i - 1 \in 1 .. Len(rq') /\ rq'[i - 1] = u
          BY <1>1, <1>3, <1>5, <3>1, <4>2
        <5>2. QED
          BY <5>1
      <4>3. QED
        BY <1>1, <1>3, <2>2, <3>1, <4>1, <4>2
    <3>2. ASSUME NEW i \in 1 .. Len(rq'), rq'[i] = u PROVE \E j \in 1 .. n : rq[j] = u
      <4>1. CASE i < k
        BY <1>1, <1>3, <1>5, <3>2, <4>1
      <4>2. CASE ~ (i < k)
        <5>1. i + 1 \in 1 .. n /\ rq[i + 1] = u
          BY <1>1, <1>3, <1>5, <3>2, <4>2
        <5>2. QED
          BY <5>1
      <4>3. QED
        BY <4>1, <4>2
    <3>3. QED
      BY <2>2, <3>1, <3>2, Zenon DEF LineIsExact, n
  <2>3. QED
    BY <2>1, <2>2
<1>8. QED
  BY <1>5, <1>6, <1>7 DEF LineIsExact

\* MSG_TASK_DEPARTED: the thread leaves from wherever it is.  The request is taken back iff it
\* was made: the thread does not run by a switchto.
LEMMA DepartedKeeps ==
  ASSUME CountingLaws, ThreadsInv, NEW t \in Thread, handle_departed(t)
  PROVE  ThreadsInv' /\ (LoadInv /\ ~ ChainDeparts => LoadInv')
<1>1. Types /\ LineIsExact
  BY DEF ThreadsInv
<1>2. /\ Sent(t, Message("departed", None, FALSE)) /\ Turns(t, "outside")
      /\ LineIsExact' /\ thr'[t].enqueued = FALSE /\ Frees(t)
      /\ nr_cpus_wanted' = nr_cpus_wanted - (IF thr[t].on_rq THEN 1 ELSE 0)
      /\ task[t] \notin {"outside", "latched"} /\ (ChainDeparts \/ ~ ByChain(t))
  <2> USE <1>1
  <2> DEFINE Freed(c) == [cpu[c] EXCEPT !.current = None, !.running = None, !.chain = FALSE, !.resched = FALSE]
             cpus == [c \in Cpu |-> IF c \in Where(t) THEN Freed(c) ELSE cpu[c]]
             j == [thr[t] EXCEPT !.enqueued = FALSE, !.synced = FALSE]
  <2>1. \A c \in Cpu : cpu[c] \in CpuRec
    BY DEF Types
  <2>2. \A c \in Cpu : Freed(c) \in CpuRec
    BY <2>1, Zenon DEF CpuRec, ThreadOrNone
  <2>3. \A c \in Cpu : /\ PntsAlike(cpu[c], Freed(c)) /\ Freed(c).latched = cpu[c].latched
                       /\ Freed(c).current = None /\ Freed(c).running = None /\ Freed(c).chain = FALSE
    BY <2>1 DEF CpuRec, PntsAlike
  <2>4. Send(t, Message("departed", None, FALSE), cpus)
    BY Zenon DEF handle_departed
  <2> HIDE DEF Freed
  <2>5. \A c \in Cpu : cpus[c] = IF cpu[c].running = t THEN Freed(c) ELSE cpu[c]
    BY DEF Where
  <2>6. cpus \in [Cpu -> CpuRec]
    BY <2>1, <2>2
  <2> HIDE DEF cpus
  <2>7. \A c \in Cpu : PntsAlike(cpu[c], cpus[c])
    BY <2>3, <2>5 DEF PntsAlike
  <2>8. thr[t] \in ThreadRec
    BY DEF Types
  <2>9. j \in ThreadRec
    BY <2>8, Zenon DEF ThreadRec
  <2>10. /\ j.refcnt = thr[t].refcnt /\ j.sched = thr[t].sched /\ j.on_rq = thr[t].on_rq
         /\ j.pending_latch = thr[t].pending_latch /\ j.enqueued = FALSE
    BY <2>8 DEF ThreadRec
  <2>11. thr' = [thr EXCEPT ![t] = j]
    BY Zenon DEF handle_departed
  <2> HIDE DEF j
  <2>12. Touches(t) /\ thr'[t].pending_latch = thr[t].pending_latch /\ thr'[t].enqueued = FALSE
    BY <2>9, <2>10, <2>11 DEF Types, Touches
  <2>13. LineIsExact' /\ rq' \in Seq(Thread)
    <3>1. rq \in Seq(Thread) /\ \A u \in Thread \ {t} : thr'[u].enqueued = thr[u].enqueued
      BY <2>12 DEF Types, Touches
    <3>2. CASE thr[t].enqueued
      <4>1. rq' = Without(t)
        BY Zenon, <3>2 DEF handle_departed
      <4>2. QED
        BY Zenon, <2>12, <3>1, <3>2, <4>1, RemoveKeepsLine
    <3>3. CASE ~ thr[t].enqueued
      <4>1. rq' = rq
        BY Zenon, <3>3 DEF handle_departed
      <4>2. QED
        BY <2>12, <3>1, <3>3, <4>1 DEF LineIsExact
    <3>4. QED
      BY <3>2, <3>3
  <2>14. task' \in [Thread -> TaskState] /\ Turns(t, "outside")
    BY Zenon, TaskChanges DEF Types, handle_departed, TaskState, Turns
  <2>15. /\ sw_lookup' = sw_lookup /\ nr_cpus_wanted' \in Int
         /\ nr_cpus_wanted' = nr_cpus_wanted - (IF thr[t].on_rq THEN 1 ELSE 0)
    <3>1. sw_lookup' = sw_lookup /\ nr_cpus_wanted' = nr_cpus_wanted - (IF thr[t].on_rq THEN 1 ELSE 0)
      BY Zenon DEF handle_departed
    <3>2. nr_cpus_wanted \in Int
      BY DEF Types
    <3>3. QED
      BY <3>1, <3>2
  <2>16. Message("departed", None, FALSE) \in Msg
    BY Zenon, MessageIsMsg
  <2>17. Sent(t, Message("departed", None, FALSE)) /\ \A c \in Cpu : SameKernel(cpus[c], cpu'[c])
    BY <2>4, <2>6, <2>7, <2>12, <2>13, <2>14, <2>15, <2>16, SendSent, Zenon
  <2>18. Frees(t)
    BY <2>3, <2>5, <2>17 DEF Frees, SameKernel
  <2>19. task[t] \notin {"outside", "latched"} /\ (ChainDeparts \/ ~ ByChain(t))
    BY Zenon DEF handle_departed, ByChain, Where
  <2>20. QED
    BY <2>12, <2>13, <2>14, <2>15, <2>17, <2>18, <2>19, Zenon
<1>3. ThreadsInv'
  <2> DEFINE m == Message("departed", None, FALSE)
  <2>1. Types /\ KernelHas /\ LineIsExact
    BY DEF ThreadsInv
  <2>2. /\ Sent(t, m) /\ Turns(t, "outside") /\ LineIsExact' /\ thr'[t].enqueued = FALSE /\ Frees(t)
        /\ task[t] \notin {"outside", "latched"}
    BY <2>1, <1>2, Zenon
  <2>3. m # None /\ Leaves(m)
    BY Zenon, MessageIsMsg DEF Leaves
  <2> HIDE DEF m
  <2>4. StreamAt(t)
    BY DEF ThreadsInv, StreamHolds
  <2>5. KernelHas'
    <3>1. \A c \in Cpu : /\ cpu'[c].latched = cpu[c].latched
                         /\ cpu'[c].running # None => cpu[c].running # t /\ cpu'[c].running = cpu[c].running
      BY <2>2 DEF Frees, SameKernel
    <3>2. \A u \in Thread : u # t => task'[u] = task[u]
      BY <2>2 DEF Turns
    <3>3. ASSUME NEW c \in Cpu
          PROVE  /\ cpu'[c].running # None => task'[cpu'[c].running] = "running"
                 /\ cpu'[c].latched # None => task'[cpu'[c].latched] = "latched"
      <4>1. cpu[c].running \in ThreadOrNone /\ cpu[c].latched \in ThreadOrNone
        BY <2>1, CpuThreads
      <4>2. cpu'[c].running # None => task'[cpu'[c].running] = "running"
        BY <2>1, <3>1, <3>2, <4>1 DEF KernelHas, ThreadOrNone
      <4>3. cpu'[c].latched # None => task'[cpu'[c].latched] = "latched"
        BY <2>1, <2>2, <3>1, <3>2, <4>1 DEF KernelHas, ThreadOrNone
      <4>4. QED
        BY <4>2, <4>3
    <3>4. ASSUME NEW c \in Cpu, NEW d \in Cpu
          PROVE  /\ cpu'[c].running # None /\ cpu'[c].running = cpu'[d].running => c = d
                 /\ cpu'[c].latched # None /\ cpu'[c].latched = cpu'[d].latched => c = d
      BY <2>1, <3>1 DEF KernelHas
    <3>5. QED
      BY <3>3, <3>4 DEF KernelHas
  <2>6. StreamAt(t)' /\ WaitsAt(t)'
    BY <2>2, <2>3, <2>4 DEF StreamAt, WaitsAt, Sent, Turns
  <2>7. QED
    BY <2>2, <2>5, <2>6, SentKeeps DEF Turns
<1>4. LoadInv /\ ~ ChainDeparts => LoadInv'
  <2> HAVE LoadInv /\ ~ ChainDeparts
  <2> DEFINE m == Message("departed", None, FALSE)
  <2>1. Types /\ LineIsExact /\ CurrentIsRunning /\ NoChainWithoutThread /\ OnRqAt(t) /\ nr_cpus_wanted \in Int
    BY DEF ThreadsInv, LoadInv, OnRqIsTrue, Types
  <2>2. /\ Sent(t, m) /\ Turns(t, "outside") /\ Frees(t)
        /\ nr_cpus_wanted' = nr_cpus_wanted - (IF thr[t].on_rq THEN 1 ELSE 0)
        /\ task[t] \notin {"outside", "latched"} /\ ~ ByChain(t)
    BY <2>1, <1>2, Zenon
  <2>3. m # None /\ m.type = "departed"
    BY Zenon, MessageIsMsg
  <2> HIDE DEF m
  <2>4. CurrentIsRunning' /\ NoChainWithoutThread' /\ \A u \in Thread \ {t} : ByChain(u)' <=> ByChain(u)
    <3>1. \A c \in Cpu :
            \/ cpu[c].running = t /\ cpu'[c].current = None /\ cpu'[c].running = None /\ ~ cpu'[c].chain
            \/ /\ cpu[c].running # t /\ cpu'[c].current = cpu[c].current
               /\ cpu'[c].running = cpu[c].running /\ cpu'[c].chain = cpu[c].chain
      BY <2>2 DEF Frees, SameKernel
    <3>2. CurrentIsRunning' /\ NoChainWithoutThread'
      BY <2>1, <3>1 DEF CurrentIsRunning, NoChainWithoutThread
    <3>3. QED
      BY <3>1, <3>2 DEF ByChain
  <2>5. LoadFrame({t})
    BY <2>2, <2>4 DEF LoadFrame, Sent, Turns
  <2>6. task'[t] = "outside" /\ msg[t] = None /\ msg'[t] = m /\ task[t] \in TaskState
    BY <2>1, <2>2 DEF Sent, Turns, Types
  <2>7. MsgAt(t)' /\ OnRqAt(t)' /\ ~ IsCounted(t)'
    BY <2>3, <2>6 DEF MsgAt, OnRqAt, IsCounted
  <2>8. IsCounted(t) <=> thr[t].on_rq
    BY <2>1, <2>2, <2>6 DEF IsCounted, OnRqAt, TaskState
  <2>9. nr_cpus_wanted' = nr_cpus_wanted + One(IsCounted(t)') - One(IsCounted(t))
    <3>1. One(IsCounted(t)') = 0 /\ One(IsCounted(t)) = IF thr[t].on_rq THEN 1 ELSE 0
      BY <2>7, <2>8 DEF One
    <3>2. QED
      BY <2>1, <2>2, <3>1
  <2>10. QED
    BY <2>4, <2>5, <2>7, <2>9, LoadKeeps
<1>5. QED
  BY <1>3, <1>4

\* The kernel's part of a switchto, with and without a message.
LEMMA SwitchtoKernel ==
  ASSUME Types, KernelHas, NEW t \in Thread, NEW c \in Cpu, NEW to \in Thread, task[to] = "blocked",
         cpu[c].running = t, task' = [task EXCEPT ![t] = "blocked", ![to] = "running"],
         Becomes(c, cpu[c].current, to, TRUE, cpu[c].latched)
  PROVE  /\ KernelHas' /\ t # to /\ task[t] = "running" /\ task'[t] = "blocked" /\ task'[to] = "running"
         /\ \A u \in Thread \ {t, to} : task'[u] = task[u]
<1>1. t # None /\ to \in ThreadOrNone /\ to # None
  BY FluxAssumption DEF ThreadOrNone
<1>2. task[t] = "running"
  BY <1>1 DEF KernelHas
<1>3. t # to /\ task'[t] = "blocked" /\ task'[to] = "running" /\ \A u \in Thread \ {t, to} : task'[u] = task[u]
  BY <1>2 DEF Types
<1>4. \A d \in Cpu : cpu[d].running # to /\ cpu[d].latched # to
  BY <1>1 DEF KernelHas
<1>5. /\ \A d \in Cpu \ {c} : cpu[d].running # None => task'[cpu[d].running] = "running"
      /\ \A d \in Cpu : cpu[d].latched # None => task'[cpu[d].latched] = "latched"
  BY Zenon, <1>1, <1>2, <1>3, <1>4, CpuThreads DEF KernelHas, ThreadOrNone
<1>6. cpu[c].latched # None => \A d \in Cpu \ {c} : cpu[d].latched # cpu[c].latched
  BY DEF KernelHas
<1>7. cpu[c].latched \in ThreadOrNone
  BY CpuThreads
<1>8. KernelHas'
  BY <1>1, <1>3, <1>4, <1>5, <1>6, <1>7, KernelChanges, Zenon
<1>9. QED
  BY Zenon, <1>2, <1>3, <1>8

\* One thread runs in place of another: the request is kept.
LEMMA CountSwaps ==
  ASSUME CountingLaws, CountIsExact, NEW t \in Thread, NEW to \in Thread, t # to,
         \A u \in Thread \ {t, to} : IsCounted(u)' <=> IsCounted(u),
         IsCounted(t), ~ IsCounted(to), ~ IsCounted(t)', IsCounted(to)', nr_cpus_wanted' = nr_cpus_wanted
  PROVE  CountIsExact'
<1> DEFINE rest == Counted \ {t}
<1>1. IsFiniteSet(Counted) /\ Cardinality(Counted) \in Nat
  <2>1. IsFiniteSet(Thread) /\ Counted \subseteq Thread
    BY FluxAssumption DEF Counted
  <2>2. QED
    BY <2>1, SubsetIsFinite, CountIsNat
<1>2. t \in Counted /\ to \notin rest /\ Counted' = rest \cup {to}
  BY DEF Counted
<1>3. IsFiniteSet(rest) /\ Cardinality(rest) = Cardinality(Counted) - 1
  BY <1>1, <1>2, CountRemoves
<1>4. Cardinality(rest \cup {to}) = Cardinality(rest) + 1
  BY Zenon, <1>2, <1>3, CountAdds
<1>5. QED
  BY <1>1, <1>2, <1>3, <1>4 DEF CountIsExact

\* MSG_TASK_SWITCHTO: the kernel tells Flux of the first switch of a chain, and nobody within
\* it.  The thread switched to runs on the request of the one that began the chain.
LEMMA SwitchtoKeeps ==
  ASSUME CountingLaws, ThreadsInv, NEW t \in Thread, NEW c \in Cpu, NEW to \in Thread, handle_switchto(t, c, to)
  PROVE  ThreadsInv' /\ (LoadInv => LoadInv')
<1>1. Types
  BY DEF ThreadsInv
<1>2. ASSUME ~ cpu[c].chain
      PROVE  /\ Sent(t, Message("switchto", c, FALSE)) /\ task' = [task EXCEPT ![t] = "blocked", ![to] = "running"]
             /\ SameLine /\ Becomes(c, cpu[c].current, to, TRUE, cpu[c].latched) /\ nr_cpus_wanted' = nr_cpus_wanted
             /\ cpu[c].running = t /\ task[to] = "blocked" /\ msg[to] = None
  <2> USE <1>1, <1>2
  <2> DEFINE k == [cpu[c] EXCEPT !.running = to, !.chain = TRUE]
  <2>1. cpu[c] \in CpuRec
    BY DEF Types
  <2>2. k \in CpuRec
    BY <2>1, Zenon DEF CpuRec, ThreadOrNone
  <2>3. /\ PntsAlike(cpu[c], k)
        /\ k.current = cpu[c].current /\ k.running = to /\ k.chain = TRUE /\ k.latched = cpu[c].latched
    BY <2>1 DEF CpuRec, PntsAlike
  <2>4. Send(t, Message("switchto", c, FALSE), [cpu EXCEPT ![c] = k]) /\ Unsynced(t)
    BY Zenon DEF handle_switchto
  <2> HIDE DEF k
  <2>5. task' \in [Thread -> TaskState]
    BY Zenon DEF Types, handle_switchto, TaskState
  <2>6. /\ sw_lookup' = sw_lookup /\ rq' = rq /\ rq' \in Seq(Thread)
        /\ nr_cpus_wanted' \in Int /\ nr_cpus_wanted' = nr_cpus_wanted
    BY DEF Types, handle_switchto
  <2>7. Touches(t) /\ thr'[t].pending_latch = thr[t].pending_latch /\ SameLine
    BY <2>4, <2>6, UnsyncedTouches, Zenon DEF Types, SameLine
  <2>8. Message("switchto", c, FALSE) \in Msg
    BY Zenon, MessageIsMsg
  <2>9. Sent(t, Message("switchto", c, FALSE)) /\ Becomes(c, k.current, k.running, k.chain, k.latched)
    BY <2>2, <2>3, <2>4, <2>5, <2>6, <2>7, <2>8, SendSentCpu, Zenon
  <2>10. QED
    BY <2>3, <2>6, <2>7, <2>9, Zenon DEF handle_switchto, Unlocked
<1>3. ASSUME cpu[c].chain
      PROVE  /\ Types' /\ SamePnts /\ task' = [task EXCEPT ![t] = "blocked", ![to] = "running"]
             /\ UNCHANGED <<msg, thr, sw_lookup, rq, nr_cpus_wanted>>
             /\ Becomes(c, cpu[c].current, to, TRUE, cpu[c].latched)
             /\ cpu[c].running = t /\ task[to] = "blocked" /\ msg[to] = None /\ msg[t] = None
  <2> USE <1>1, <1>3
  <2> DEFINE k == [cpu[c] EXCEPT !.running = to, !.chain = TRUE]
  <2>1. cpu[c] \in CpuRec
    BY DEF Types
  <2>2. k \in CpuRec
    BY <2>1, Zenon DEF CpuRec, ThreadOrNone
  <2>3. /\ k.t = cpu[c].t /\ k.pc = cpu[c].pc /\ k.fresh = cpu[c].fresh
        /\ k.current = cpu[c].current /\ k.running = to /\ k.chain = TRUE /\ k.latched = cpu[c].latched
    BY <2>1 DEF CpuRec
  <2>4. cpu' = [cpu EXCEPT ![c] = k]
    BY DEF handle_switchto
  <2> HIDE DEF k
  <2>5. cpu' \in [Cpu -> CpuRec] /\ cpu'[c] = k /\ \A d \in Cpu \ {c} : cpu'[d] = cpu[d]
    BY <2>2, <2>4 DEF Types
  <2>6. SamePnts /\ Becomes(c, cpu[c].current, to, TRUE, cpu[c].latched)
    BY <2>3, <2>5 DEF SamePnts, Becomes, SameKernel
  <2>7. task' \in [Thread -> TaskState]
    BY DEF Types, handle_switchto, TaskState
  <2>8. UNCHANGED <<msg, thr, sw_lookup, rq, nr_cpus_wanted>>
    BY DEF handle_switchto
  <2>9. Types'
    BY <2>5, <2>7, <2>8 DEF Types
  <2>10. QED
    BY <2>6, <2>8, <2>9, Zenon DEF handle_switchto, Unlocked
<1>4. ThreadsInv'
  <2>1. Types /\ KernelHas /\ LineIsExact
    BY DEF ThreadsInv
  <2>2. CASE ~ cpu[c].chain
    <3> DEFINE m == Message("switchto", c, FALSE)
    <3>1. /\ Sent(t, m) /\ task' = [task EXCEPT ![t] = "blocked", ![to] = "running"] /\ SameLine
          /\ Becomes(c, cpu[c].current, to, TRUE, cpu[c].latched)
          /\ cpu[c].running = t /\ task[to] = "blocked" /\ msg[to] = None
      BY <2>1, <2>2, <1>2, Zenon
    <3>2. m # None /\ ~ Leaves(m)
      BY Zenon, MessageIsMsg DEF Leaves
    <3> HIDE DEF m
    <3>3. /\ KernelHas' /\ t # to /\ task[t] = "running" /\ task'[t] = "blocked" /\ task'[to] = "running"
          /\ \A u \in Thread \ {t, to} : task'[u] = task[u]
      BY <2>1, <3>1, SwitchtoKernel, Zenon
    <3>4. /\ ~ thr[t].enqueued /\ ~ thr[t].pending_latch /\ thr[t].sched
          /\ ~ thr[to].enqueued /\ ~ thr[to].pending_latch /\ thr[to].sched
      BY <3>1, <3>3, KernelThread
    <3>5. LineIsExact'
      BY <2>1, <3>1 DEF LineIsExact, SameLine
    <3>6. StreamAt(t)' /\ WaitsAt(t)'
      BY <3>1, <3>2, <3>3, <3>4 DEF StreamAt, WaitsAt, Sent, SameLine
    <3>7. StreamAt(to)' /\ WaitsAt(to)'
      BY <3>1, <3>3, <3>4 DEF StreamAt, WaitsAt, Sent, SameLine
    <3>8. QED
      BY Zenon, <3>1, <3>3, <3>4, <3>5, <3>6, <3>7, SentKeeps
  <2>3. CASE cpu[c].chain
    <3>1. /\ Types' /\ SamePnts /\ task' = [task EXCEPT ![t] = "blocked", ![to] = "running"]
          /\ UNCHANGED <<msg, thr, sw_lookup, rq>>
          /\ Becomes(c, cpu[c].current, to, TRUE, cpu[c].latched)
          /\ cpu[c].running = t /\ task[to] = "blocked" /\ msg[to] = None /\ msg[t] = None
      BY <2>1, <2>3, <1>3, Zenon
    <3>2. /\ KernelHas' /\ t # to /\ task[t] = "running" /\ task'[t] = "blocked" /\ task'[to] = "running"
          /\ \A u \in Thread \ {t, to} : task'[u] = task[u]
      BY <2>1, <3>1, SwitchtoKernel, Zenon
    <3>3. /\ ~ thr[t].enqueued /\ ~ thr[t].pending_latch /\ thr[t].sched
          /\ ~ thr[to].enqueued /\ ~ thr[to].pending_latch /\ thr[to].sched
      BY <3>1, <3>2, KernelThread
    <3>4. PntsAsk'
      BY <3>1, SamePntsAsk DEF ThreadsInv
    <3>5. RefsAreExact'
      BY <3>1, SameRefs DEF ThreadsInv
    <3>6. LineIsExact'
      BY <2>1, <3>1 DEF LineIsExact
    <3>7. StreamHolds'
      <4>1. ASSUME NEW u \in Thread PROVE StreamAt(u)'
        BY Zenon, <3>1, <3>2, <3>3 DEF ThreadsInv, StreamHolds, StreamAt
      <4>2. QED
        BY <4>1 DEF StreamHolds
    <3>8. \A d \in Cpu : /\ cpu'[d].t = cpu[d].t /\ (cpu'[d].fresh => cpu[d].fresh)
                         /\ cpu[d].pc = "run" <=> cpu'[d].pc = "run"
      BY <3>1 DEF SamePnts, Asking
    <3>9. EnqueuedOrPending'
      <4>1. ASSUME NEW u \in Thread PROVE WaitsAt(u)'
        <5>1. WaitsAt(u)
          BY DEF ThreadsInv, EnqueuedOrPending
        <5>2. QED
          BY Zenon, <3>1, <3>2, <3>3, <3>8, <5>1 DEF WaitsAt
      <4>2. QED
        BY <4>1 DEF EnqueuedOrPending
    <3>10. OnePntAsks'
      <4>1. ASSUME NEW d \in Cpu, cpu'[d].pc = "run"
            PROVE  thr'[cpu'[d].t].pending_latch /\ (cpu'[d].fresh => task'[cpu'[d].t] = "runnable")
        <5>1. cpu[d].pc = "run" /\ cpu[d].t \in Thread
          BY <3>8, <4>1 DEF ThreadsInv, Types, CpuRec, PntsAsk, Asking, ThreadOrNone
        <5>2. thr[cpu[d].t].pending_latch /\ (cpu[d].fresh => task[cpu[d].t] = "runnable")
          BY <5>1 DEF ThreadsInv, OnePntAsks
        <5>3. cpu[d].t \notin {t, to}
          BY <3>3, <5>2
        <5>4. cpu'[d].t = cpu[d].t /\ task'[cpu[d].t] = task[cpu[d].t] /\ thr' = thr /\ (cpu'[d].fresh => cpu[d].fresh)
          BY Zenon, <3>1, <3>2, <3>8, <5>1, <5>3
        <5>5. QED
          BY <5>2, <5>4, Zenon
      <4>2. QED
        BY <3>8, <4>1 DEF ThreadsInv, OnePntAsks
    <3>11. QED
      BY <3>1, <3>2, <3>4, <3>5, <3>6, <3>7, <3>9, <3>10 DEF ThreadsInv
  <2>4. QED
    BY <2>2, <2>3
<1>5. LoadInv => LoadInv'
  <2> HAVE LoadInv
  <2> DEFINE m == Message("switchto", c, FALSE)
  <2>1. /\ Types /\ KernelHas /\ CurrentIsRunning /\ NoChainWithoutThread /\ OnRqAt(t) /\ OnRqAt(to)
        /\ MsgIsTrue /\ OnRqIsTrue /\ CountIsExact
    BY DEF ThreadsInv, LoadInv, OnRqIsTrue
  <2>2. /\ task' = [task EXCEPT ![t] = "blocked", ![to] = "running"] /\ nr_cpus_wanted' = nr_cpus_wanted
        /\ Becomes(c, cpu[c].current, to, TRUE, cpu[c].latched)
        /\ cpu[c].running = t /\ task[to] = "blocked" /\ msg[to] = None /\ msg[t] = None
        /\ \A u \in Thread : thr'[u].on_rq = thr[u].on_rq
        /\ \A u \in Thread \ {t} : msg'[u] = msg[u]
        /\ IF cpu[c].chain THEN msg'[t] = None ELSE msg'[t] = m
    <3>1. CASE cpu[c].chain
      BY Zenon, <2>1, <3>1, <1>3
    <3>2. CASE ~ cpu[c].chain
      <4>1. /\ Sent(t, m) /\ task' = [task EXCEPT ![t] = "blocked", ![to] = "running"]
            /\ Becomes(c, cpu[c].current, to, TRUE, cpu[c].latched) /\ nr_cpus_wanted' = nr_cpus_wanted
            /\ cpu[c].running = t /\ task[to] = "blocked" /\ msg[to] = None
        BY <2>1, <3>2, <1>2, Zenon
      <4> HIDE DEF m
      <4>2. /\ msg[t] = None /\ msg'[t] = m /\ \A u \in Thread \ {t} : msg'[u] = msg[u]
            /\ \A u \in Thread : thr'[u].on_rq = thr[u].on_rq
        BY <4>1 DEF Sent
      <4>3. QED
        BY <3>2, <4>1, <4>2, Zenon
    <3>3. QED
      BY Zenon, <3>1, <3>2
  <2>3. m # None /\ m.type = "switchto"
    BY Zenon, MessageIsMsg
  <2> HIDE DEF m
  <2>4. /\ KernelHas' /\ t # to /\ task[t] = "running" /\ task'[t] = "blocked" /\ task'[to] = "running"
        /\ \A u \in Thread \ {t, to} : task'[u] = task[u]
    <3>1. /\ task' = [task EXCEPT ![t] = "blocked", ![to] = "running"] /\ cpu[c].running = t /\ task[to] = "blocked"
          /\ Becomes(c, cpu[c].current, to, TRUE, cpu[c].latched)
      BY <2>2, Zenon
    <3>2. Types /\ KernelHas
      BY <2>1
    <3>3. QED
      BY <3>1, <3>2, SwitchtoKernel, Zenon
  <2>5. (ByChain(t) <=> cpu[c].chain) /\ t # None /\ to # None
    BY <2>1, <2>2, RunsInOnePlace, FluxAssumption
  <2>6. /\ CurrentIsRunning' /\ NoChainWithoutThread'
        /\ \A u : u # to /\ u # t => (ByChain(u)' <=> ByChain(u))
    <3>1. cpu[c].current # None
      BY <2>1, <2>2, <2>5 DEF CurrentIsRunning
    <3>2. /\ cpu'[c].current = cpu[c].current /\ cpu'[c].running = to /\ cpu'[c].chain = TRUE
          /\ \A d \in Cpu \ {c} : /\ cpu'[d].current = cpu[d].current /\ cpu'[d].running = cpu[d].running
                                  /\ cpu'[d].chain = cpu[d].chain
      BY <2>2 DEF Becomes, SameKernel
    <3>3. CurrentIsRunning' /\ NoChainWithoutThread'
      BY <2>1, <2>5, <3>1, <3>2 DEF CurrentIsRunning, NoChainWithoutThread
    <3>4. \A u : u # to /\ u # t => (ByChain(u)' <=> ByChain(u))
      BY <2>2, <3>2 DEF ByChain
    <3>5. QED
      BY <3>3, <3>4
  <2>7. LoadFrame({t, to})
    BY Zenon, <2>2, <2>4, <2>6 DEF LoadFrame
  <2>8. ByChain(to)'
    BY <2>2 DEF ByChain, Becomes
  <2>9. msg'[to] = None /\ ~ thr[to].on_rq
    BY <2>1, <2>2, <2>4 DEF OnRqAt
  <2>10. MsgAt(t)' /\ ~ IsCounted(t)' /\ IsCounted(t)
    BY <2>2, <2>3, <2>4 DEF MsgAt, IsCounted
  <2>11. MsgAt(to)' /\ IsCounted(to)' /\ ~ IsCounted(to)
    BY <2>2, <2>4, <2>9 DEF MsgAt, IsCounted
  <2>12. OnRqAt(to)'
    BY <2>2, <2>4, <2>8, <2>9 DEF OnRqAt
  <2>13. OnRqAt(t)'
    <3>1. CASE cpu[c].chain
      <4>1. ~ thr[t].on_rq
        BY <2>1, <2>2, <2>4, <2>5, <3>1 DEF OnRqAt
      <4>2. QED
        BY <2>2, <2>4, <3>1, <4>1 DEF OnRqAt
    <3>2. CASE ~ cpu[c].chain
      BY <2>2, <2>3, <2>4, <3>2 DEF OnRqAt, OnRq
    <3>3. QED
      BY <3>1, <3>2
  <2>14. \A u \in Thread \ {t, to} : MsgAt(u)' /\ OnRqAt(u)' /\ (IsCounted(u)' <=> IsCounted(u))
    BY <2>1, <2>7, FrameKeeps
  <2>15. MsgIsTrue' /\ OnRqIsTrue'
    BY <2>10, <2>11, <2>12, <2>13, <2>14 DEF MsgIsTrue, OnRqIsTrue
  <2>16. CountIsExact'
    BY <2>1, <2>2, <2>4, <2>10, <2>11, <2>14, CountSwaps
  <2>17. QED
    BY <2>6, <2>15, <2>16 DEF LoadInv
<1>6. QED
  BY <1>4, <1>5

\* The references of the PNTs, counted.
LEMMA PntsCount ==
  ASSUME CountingLaws, NEW t
  PROVE  IsFiniteSet(Pnts(t)) /\ Cardinality(Pnts(t)) \in Nat /\ (Cardinality(Pnts(t)) = 0 <=> Pnts(t) = {})
<1>1. IsFiniteSet(Cpu) /\ Pnts(t) \subseteq Cpu
  BY FluxAssumption DEF Pnts
<1>2. IsFiniteSet(Pnts(t))
  BY <1>1, SubsetIsFinite
<1>3. QED
  BY <1>2, CountIsNat, CountEmpty

\* A thread that is not known is referred to by nobody.
LEMMA UnknownIsFree ==
  ASSUME CountingLaws, ThreadsInv, NEW t \in Thread, t \notin sw_lookup
  PROVE  ~ thr[t].sched /\ thr[t].refcnt = 0 /\ Pnts(t) = {}
<1>1. thr[t].refcnt = (IF thr[t].sched THEN 1 ELSE 0) + Cardinality(Pnts(t)) /\ ~ (thr[t].refcnt > 0)
  BY DEF ThreadsInv, RefsAreExact
<1>2. QED
  BY <1>1, PntsCount

\* MSG_TASK_NEW: the thread has its first reference, and is enqueued if it is runnable.
LEMMA NewKeeps ==
  ASSUME CountingLaws, ThreadsInv, ~ EarlyReturn, NEW t \in Thread, NEW runnable \in BOOLEAN, handle_new(t, runnable)
  PROVE  ThreadsInv' /\ (LoadInv => LoadInv')
<1>1. Types
  BY DEF ThreadsInv
<1>2. /\ t \notin sw_lookup /\ sw_lookup' = sw_lookup \cup {t} /\ msg' = msg /\ cpu' = cpu
      /\ task[t] = "outside" /\ msg[t] = None
      /\ task' \in [Thread -> TaskState] /\ Turns(t, IF runnable THEN "runnable" ELSE "blocked")
      /\ thr' \in [Thread -> ThreadRec] /\ \A u \in Thread \ {t} : thr'[u] = thr[u]
      /\ thr'[t].sched = TRUE /\ thr'[t].refcnt = 1 /\ thr'[t].on_rq = runnable
      /\ thr'[t].pending_latch = FALSE /\ thr'[t].enqueued = runnable
      /\ rq' = (IF runnable THEN Append(rq, t) ELSE rq)
      /\ nr_cpus_wanted' = nr_cpus_wanted + (IF runnable THEN 1 ELSE 0) /\ nr_cpus_wanted' \in Int
  <2> USE <1>1
  <2> DEFINE j == [sched |-> TRUE, refcnt |-> 1, on_rq |-> runnable, on_cpu |-> FALSE,
                   pending_latch |-> FALSE, synced |-> TRUE, enqueued |-> runnable, times_up |-> FALSE]
  <2>1. /\ t \notin sw_lookup /\ task[t] = "outside" /\ msg[t] = None /\ msg' = msg /\ cpu' = cpu
        /\ task' = [task EXCEPT ![t] = IF runnable THEN "runnable" ELSE "blocked"]
    BY Zenon DEF handle_new, Unlocked
  <2>2. /\ sw_lookup' = sw_lookup \cup {t} /\ thr' = [thr EXCEPT ![t] = j]
        /\ nr_cpus_wanted' = nr_cpus_wanted + (IF runnable THEN 1 ELSE 0)
        /\ rq' = (IF runnable THEN Append(rq, t) ELSE rq)
    BY <2>1, Zenon DEF handle_new
  <2>3. j \in ThreadRec
    BY DEF ThreadRec
  <2>4. /\ j.sched = TRUE /\ j.refcnt = 1 /\ j.on_rq = runnable /\ j.pending_latch = FALSE
        /\ j.enqueued = runnable
    OBVIOUS
  <2> HIDE DEF j
  <2>5. thr' \in [Thread -> ThreadRec] /\ thr'[t] = j /\ \A u \in Thread \ {t} : thr'[u] = thr[u]
    BY <2>2, <2>3 DEF Types
  <2>6. task' \in [Thread -> TaskState] /\ Turns(t, IF runnable THEN "runnable" ELSE "blocked")
    BY <2>1 DEF Types, TaskState, Turns
  <2>7. nr_cpus_wanted' \in Int
    BY <2>2 DEF Types
  <2>8. QED
    BY <2>1, <2>2, <2>4, <2>5, <2>6, <2>7, Zenon
<1>3. ThreadsInv'
  <2> DEFINE x == IF runnable THEN "runnable" ELSE "blocked"
  <2>1. Types /\ KernelHas /\ LineIsExact /\ PntsAsk /\ OnePntAsks /\ StreamHolds /\ EnqueuedOrPending /\ RefsAreExact
    BY DEF ThreadsInv
  <2>2. /\ t \notin sw_lookup /\ sw_lookup' = sw_lookup \cup {t} /\ msg' = msg /\ cpu' = cpu
        /\ task[t] = "outside" /\ msg[t] = None
        /\ task' \in [Thread -> TaskState] /\ Turns(t, x)
        /\ thr' \in [Thread -> ThreadRec] /\ \A u \in Thread \ {t} : thr'[u] = thr[u]
        /\ thr'[t].sched = TRUE /\ thr'[t].refcnt = 1
        /\ thr'[t].pending_latch = FALSE /\ thr'[t].enqueued = runnable
        /\ rq' = (IF runnable THEN Append(rq, t) ELSE rq) /\ nr_cpus_wanted' \in Int
    BY <2>1, <1>2, Zenon
  <2>3. x \in {"runnable", "blocked"} /\ (x = "runnable" <=> runnable)
    OBVIOUS
  <2> HIDE DEF x
  <2>4. Pnts(t) = {} /\ ~ thr[t].sched
    BY <2>2, UnknownIsFree
  <2>5. ~ thr[t].enqueued
    BY <2>1, <2>2 DEF EnqueuedOrPending, WaitsAt
  <2>6. LineIsExact' /\ rq' \in Seq(Thread)
    <3>1. CASE runnable
      BY Zenon, <2>1, <2>2, <2>5, <3>1, EnqueueKeepsLine DEF Types
    <3>2. CASE ~ runnable
      BY <2>1, <2>2, <2>5, <3>2 DEF Types, LineIsExact
    <3>3. QED
      BY <3>1, <3>2
  <2>7. Types'
    BY <2>1, <2>2, <2>6 DEF Types
  <2>8. PntsAsk'
    BY <2>1, <2>2 DEF PntsAsk
  <2>9. KernelHas'
    BY <2>1, <2>2, SameKernelHas DEF SameKernel, Turns
  <2>10. StreamHolds'
    <3>1. ASSUME NEW u \in Thread PROVE StreamAt(u)'
      <4>1. StreamAt(u)
        BY <2>1 DEF StreamHolds
      <4>2. CASE u = t
        BY <2>2, <2>3, <4>2 DEF StreamAt, Turns
      <4>3. CASE u # t
        BY <2>2, <4>1, <4>3 DEF StreamAt, Turns
      <4>4. QED
        BY <4>2, <4>3
    <3>2. QED
      BY <3>1 DEF StreamHolds
  <2>11. EnqueuedOrPending'
    <3>1. ASSUME NEW u \in Thread PROVE WaitsAt(u)'
      <4>1. WaitsAt(u)
        BY <2>1 DEF EnqueuedOrPending
      <4>2. CASE u = t
        BY <2>2, <2>3, <4>2 DEF WaitsAt, Turns
      <4>3. CASE u # t
        BY <2>2, <4>1, <4>3 DEF WaitsAt, Turns
      <4>4. QED
        BY <4>2, <4>3
    <3>2. QED
      BY <3>1 DEF EnqueuedOrPending
  <2>12. OnePntAsks'
    <3>1. ASSUME NEW c \in Cpu, cpu[c].pc = "run" PROVE cpu[c].t \in Thread \ {t}
      BY <2>1, <2>4, <3>1 DEF Types, CpuRec, PntsAsk, Asking, ThreadOrNone, Pnts
    <3>2. QED
      BY <2>1, <2>2, <3>1 DEF OnePntAsks, Turns
  <2>13. RefsAreExact'
    <3>1. \A u : Pnts(u)' = Pnts(u)
      BY <2>2 DEF Pnts
    <3>2. Cardinality({}) = 0
      BY CountEmpty
    <3>3. ASSUME NEW u \in Thread
          PROVE  /\ thr'[u].refcnt = (IF thr'[u].sched THEN 1 ELSE 0) + Cardinality(Pnts(u)')
                 /\ u \in sw_lookup' <=> thr'[u].refcnt > 0
      <4>1. CASE u = t
        <5>1. Cardinality(Pnts(u)') = 0
          BY <2>4, <3>1, <3>2, <4>1
        <5>2. thr'[u].sched = TRUE /\ thr'[u].refcnt = 1 /\ u \in sw_lookup'
          BY <2>2, <4>1
        <5>3. QED
          BY <5>1, <5>2
      <4>2. CASE u # t
        BY <2>1, <2>2, <3>1, <4>2 DEF RefsAreExact
      <4>3. QED
        BY <4>1, <4>2
    <3>4. QED
      BY <3>3 DEF RefsAreExact
  <2>14. QED
    BY <2>6, <2>7, <2>8, <2>9, <2>10, <2>11, <2>12, <2>13 DEF ThreadsInv
<1>4. LoadInv => LoadInv'
  <2> HAVE LoadInv
  <2>1. Types /\ CurrentIsRunning /\ NoChainWithoutThread /\ nr_cpus_wanted \in Int
    BY DEF ThreadsInv, LoadInv, Types
  <2>2. /\ msg' = msg /\ cpu' = cpu /\ task[t] = "outside" /\ msg[t] = None
        /\ Turns(t, IF runnable THEN "runnable" ELSE "blocked")
        /\ \A u \in Thread \ {t} : thr'[u] = thr[u]
        /\ thr'[t].on_rq = runnable /\ nr_cpus_wanted' = nr_cpus_wanted + (IF runnable THEN 1 ELSE 0)
    BY <2>1, <1>2, Zenon
  <2>3. SameCpus
    BY <2>2 DEF SameCpus, SameKernel
  <2>4. CurrentIsRunning' /\ NoChainWithoutThread' /\ \A u : ByChain(u)' <=> ByChain(u)
    BY <2>1, <2>3, SameCpusKeep
  <2>5. LoadFrame({t})
    BY <2>2, <2>4 DEF LoadFrame, Turns
  <2>6. MsgAt(t)' /\ OnRqAt(t)' /\ (IsCounted(t)' <=> runnable) /\ ~ IsCounted(t)
    BY <2>2 DEF MsgAt, OnRqAt, IsCounted, Turns
  <2>7. nr_cpus_wanted' = nr_cpus_wanted + One(IsCounted(t)') - One(IsCounted(t))
    BY <2>1, <2>2, <2>6 DEF One
  <2>8. QED
    BY <2>4, <2>5, <2>6, <2>7, LoadKeeps
<1>5. QED
  BY <1>3, <1>4

\* The rest of a handler: flux_request_cpus() follows what the thread did, and the last
\* message takes the reference of the stream.
LEMMA HandlerEndsKeeps ==
  ASSUME CountingLaws, ThreadsInv, NEW t \in Thread, HandlerEnds(t)
  PROVE  ThreadsInv' /\ (LoadInv => LoadInv')
<1>1. Types
  BY DEF ThreadsInv
<1>2. /\ msg[t] \in Msg /\ msg[t] # None /\ msg'[t] = None /\ \A u \in Thread \ {t} : msg'[u] = msg[u]
      /\ msg' \in [Thread -> Msg \cup {None}] /\ task' = task /\ rq' = rq /\ cpu' = cpu
      /\ thr' \in [Thread -> ThreadRec] /\ \A u \in Thread \ {t} : thr'[u] = thr[u]
      /\ thr'[t].enqueued = thr[t].enqueued /\ thr'[t].pending_latch = thr[t].pending_latch
      /\ thr'[t].on_rq = OnRq(msg[t], thr[t].on_rq) /\ thr'[t].sched = (thr[t].sched /\ ~ Leaves(msg[t]))
      /\ thr'[t].refcnt = thr[t].refcnt - (IF Leaves(msg[t]) THEN 1 ELSE 0)
      /\ sw_lookup' = (IF Leaves(msg[t]) /\ thr[t].refcnt = 1 THEN sw_lookup \ {t} ELSE sw_lookup)
      /\ nr_cpus_wanted' = nr_cpus_wanted + Wants(msg[t]) /\ nr_cpus_wanted' \in Int
  <2> USE <1>1
  <2> DEFINE m == msg[t]
             a == OnRq(m, thr[t].on_rq)
             b == OnCpu(m, thr[t].on_cpu)
             s == thr[t].sched /\ ~ Leaves(m)
             n == thr[t].refcnt - (IF Leaves(m) THEN 1 ELSE 0)
             j == [thr[t] EXCEPT !.synced = TRUE, !.on_rq = a, !.on_cpu = b, !.sched = s, !.refcnt = n]
  <2>1. thr[t] \in ThreadRec
    BY DEF Types
  <2>2. a \in BOOLEAN /\ b \in BOOLEAN /\ s \in BOOLEAN
    BY Zenon DEF OnRq, OnCpu
  <2>3. n \in Int
    BY <2>1 DEF ThreadRec
  <2>4. /\ m # None /\ msg' = [msg EXCEPT ![t] = None] /\ task' = task /\ rq' = rq /\ cpu' = cpu
        /\ nr_cpus_wanted' = nr_cpus_wanted + Wants(m) /\ thr' = [thr EXCEPT ![t] = j]
        /\ sw_lookup' = (IF Leaves(m) /\ thr[t].refcnt = 1 THEN sw_lookup \ {t} ELSE sw_lookup)
    <3>1. m # None /\ msg' = [msg EXCEPT ![t] = None] /\ task' = task /\ rq' = rq /\ cpu' = cpu
      BY Zenon DEF HandlerEnds, Unlocked
    <3>2. nr_cpus_wanted' = nr_cpus_wanted + Wants(m) /\ (IF Leaves(m) THEN Forget(t) ELSE sw_lookup' = sw_lookup)
      BY Zenon DEF HandlerEnds
    <3>3. thr' = [thr EXCEPT ![t] = j]
      BY DEF HandlerEnds
    <3>4. QED
      BY <3>1, <3>2, <3>3 DEF Forget
  <2>5. Wants(m) \in Int
    BY DEF Wants
  <2> HIDE DEF m, a, b, s, n
  <2>6. j \in ThreadRec
    BY <2>1, <2>2, <2>3, Zenon DEF ThreadRec
  <2>7. /\ j.enqueued = thr[t].enqueued /\ j.pending_latch = thr[t].pending_latch /\ j.on_rq = a /\ j.sched = s
        /\ j.refcnt = n
    BY <2>1 DEF ThreadRec
  <2> HIDE DEF j
  <2>8. thr' \in [Thread -> ThreadRec] /\ thr'[t] = j /\ \A u \in Thread \ {t} : thr'[u] = thr[u]
    BY <2>4, <2>6 DEF Types
  <2>9. /\ m \in Msg /\ msg'[t] = None /\ \A u \in Thread \ {t} : msg'[u] = msg[u]
        /\ msg' \in [Thread -> Msg \cup {None}]
    BY <2>4 DEF Types, m
  <2>10. nr_cpus_wanted' \in Int
    BY <2>4, <2>5 DEF Types
  <2>11. QED
    BY <2>4, <2>7, <2>8, <2>9, <2>10, Zenon DEF m, a, s, n
<1>3. ThreadsInv'
  <2> DEFINE last == Leaves(msg[t])
  <2>1. Types /\ KernelHas /\ LineIsExact /\ PntsAsk /\ OnePntAsks /\ StreamHolds /\ EnqueuedOrPending /\ RefsAreExact
    BY DEF ThreadsInv
  <2>2. /\ msg[t] # None /\ msg'[t] = None /\ \A u \in Thread \ {t} : msg'[u] = msg[u]
        /\ msg' \in [Thread -> Msg \cup {None}] /\ task' = task /\ rq' = rq /\ cpu' = cpu
        /\ thr' \in [Thread -> ThreadRec] /\ \A u \in Thread \ {t} : thr'[u] = thr[u]
        /\ thr'[t].enqueued = thr[t].enqueued /\ thr'[t].pending_latch = thr[t].pending_latch
        /\ thr'[t].sched = (thr[t].sched /\ ~ last)
        /\ thr'[t].refcnt = thr[t].refcnt - (IF last THEN 1 ELSE 0)
        /\ sw_lookup' = (IF last /\ thr[t].refcnt = 1 THEN sw_lookup \ {t} ELSE sw_lookup)
        /\ nr_cpus_wanted' \in Int
    BY <2>1, <1>2, Zenon
  <2>3. last \in BOOLEAN /\ thr[t].sched \in BOOLEAN /\ thr[t].refcnt \in Int
    BY <2>1 DEF Leaves, Types, ThreadRec
  <2>4. (thr[t].sched <=> task[t] # "outside" \/ last) /\ (last => task[t] = "outside")
    BY <2>1, <2>2 DEF StreamHolds, StreamAt
  <2> HIDE DEF last
  <2>5. Types'
    BY <2>1, <2>2 DEF Types
  <2>6. PntsAsk'
    BY <2>1, <2>2 DEF PntsAsk
  <2>7. KernelHas'
    BY <2>1, <2>2 DEF KernelHas
  <2>8. \A u \in Thread : thr'[u].enqueued = thr[u].enqueued /\ thr'[u].pending_latch = thr[u].pending_latch
    BY <2>2
  <2>9. LineIsExact'
    BY <2>1, <2>2, <2>8 DEF LineIsExact
  <2>10. EnqueuedOrPending'
    BY <2>1, <2>2, <2>8 DEF EnqueuedOrPending, WaitsAt
  <2>11. OnePntAsks'
    <3>1. ASSUME NEW c \in Cpu, cpu[c].pc = "run" PROVE cpu[c].t \in Thread
      BY <2>1, <3>1 DEF Types, CpuRec, PntsAsk, Asking, ThreadOrNone
    <3>2. QED
      BY <2>1, <2>2, <2>8, <3>1 DEF OnePntAsks
  <2>12. StreamHolds'
    <3>1. ASSUME NEW u \in Thread PROVE StreamAt(u)'
      <4>1. CASE u = t
        BY Zenon, <2>2, <2>4, <4>1 DEF StreamAt
      <4>2. CASE u # t
        BY <2>1, <2>2, <4>2 DEF StreamHolds, StreamAt
      <4>3. QED
        BY <4>1, <4>2
    <3>2. QED
      BY <3>1 DEF StreamHolds
  <2>13. RefsAreExact'
    <3>1. \A u : Pnts(u)' = Pnts(u)
      BY <2>2 DEF Pnts
    <3>2. ASSUME NEW u \in Thread
          PROVE  /\ thr'[u].refcnt = (IF thr'[u].sched THEN 1 ELSE 0) + Cardinality(Pnts(u))
                 /\ u \in sw_lookup' <=> thr'[u].refcnt > 0
      <4>1. /\ thr[u].refcnt = (IF thr[u].sched THEN 1 ELSE 0) + Cardinality(Pnts(u))
            /\ u \in sw_lookup <=> thr[u].refcnt > 0
            /\ Cardinality(Pnts(u)) \in Nat
        BY <2>1, PntsCount DEF RefsAreExact
      <4>2. CASE u # t
        BY <2>2, <4>1, <4>2
      <4>3. CASE u = t /\ last
        <5>1. thr[t].sched /\ ~ thr'[t].sched
          BY Zenon, <2>2, <2>4, <4>3
        <5>2. /\ thr'[t].refcnt = thr[t].refcnt - 1
              /\ sw_lookup' = (IF thr[t].refcnt = 1 THEN sw_lookup \ {t} ELSE sw_lookup)
          BY <2>2, <4>3
        <5>3. QED
          BY <4>1, <4>3, <5>1, <5>2
      <4>4. CASE u = t /\ ~ last
        BY <2>2, <2>3, <4>1, <4>4
      <4>5. QED
        BY <4>2, <4>3, <4>4
    <3>3. QED
      BY <3>1, <3>2 DEF RefsAreExact
  <2>14. QED
    BY <2>5, <2>6, <2>7, <2>9, <2>10, <2>11, <2>12, <2>13 DEF ThreadsInv
<1>4. LoadInv => LoadInv'
  <2> HAVE LoadInv
  <2>1. Types /\ CurrentIsRunning /\ NoChainWithoutThread /\ OnRqAt(t) /\ MsgAt(t) /\ nr_cpus_wanted \in Int
    BY DEF ThreadsInv, LoadInv, OnRqIsTrue, MsgIsTrue, Types
  <2>2. /\ msg[t] # None /\ msg'[t] = None /\ \A u \in Thread \ {t} : msg'[u] = msg[u]
        /\ task' = task /\ cpu' = cpu /\ \A u \in Thread \ {t} : thr'[u] = thr[u]
        /\ thr'[t].on_rq = OnRq(msg[t], thr[t].on_rq) /\ nr_cpus_wanted' = nr_cpus_wanted + Wants(msg[t])
    BY <2>1, <1>2, Zenon
  <2>3. SameCpus
    BY <2>2 DEF SameCpus, SameKernel
  <2>4. CurrentIsRunning' /\ NoChainWithoutThread' /\ \A u : ByChain(u)' <=> ByChain(u)
    BY <2>1, <2>3, SameCpusKeep
  <2>5. LoadFrame({t})
    BY <2>2, <2>4 DEF LoadFrame
  <2>6. MsgAt(t)'
    BY <2>2 DEF MsgAt
  <2>7. OnRqAt(t)'
    BY <2>1, <2>2, <2>4, Zenon DEF OnRqAt
  <2>8. nr_cpus_wanted' = nr_cpus_wanted + One(IsCounted(t)') - One(IsCounted(t))
    <3>1. IsCounted(t)' <=> task[t] \in {"runnable", "latched", "running"}
      BY <2>2 DEF IsCounted
    <3>2. CASE msg[t].type = "wakeup"
      <4>1. IsCounted(t)' /\ ~ IsCounted(t) /\ Wants(msg[t]) = 1
        BY <2>1, <2>2, <3>1, <3>2 DEF MsgAt, IsCounted, Wants
      <4>2. QED
        BY <2>1, <2>2, <4>1 DEF One
    <3>3. CASE msg[t].type = "blocked"
      <4>1. ~ IsCounted(t)' /\ IsCounted(t) /\ Wants(msg[t]) = -1
        BY <2>1, <2>2, <3>1, <3>3 DEF MsgAt, IsCounted, Wants
      <4>2. QED
        BY <2>1, <2>2, <4>1 DEF One
    <3>4. CASE msg[t].type \notin {"wakeup", "blocked"}
      <4>1. (IsCounted(t)' <=> IsCounted(t)) /\ Wants(msg[t]) = 0
        BY <2>2, <3>1, <3>4 DEF IsCounted, Wants
      <4>2. QED
        BY <2>1, <2>2, <4>1 DEF One
    <3>5. QED
      BY <3>2, <3>3, <3>4
  <2>9. QED
    BY <2>4, <2>5, <2>6, <2>7, <2>8, LoadKeeps
<1>5. QED
  BY <1>3, <1>4

\* All of them.
LEMMA HandlersKeep ==
  ASSUME CountingLaws, ThreadsInv, ~ EarlyReturn, NEW t \in Thread, OnThread(t)
  PROVE  ThreadsInv' /\ (LoadInv /\ ~ ChainDeparts => LoadInv')
<1>1. CASE \E runnable \in BOOLEAN : handle_new(t, runnable)
  BY <1>1, NewKeeps
<1>2. CASE \E c \in Cpu : handle_on_cpu(t, c) \/ handle_blocked(t, c) \/ handle_preempt(t, c)
  BY <1>2, OnCpuKeeps, BlockedKeeps, PreemptKeeps
<1>3. CASE \E c \in Cpu : handle_preempt_latched(t, c)
  BY <1>3, PreemptLatchedKeeps
<1>4. CASE \E c \in Cpu, to \in Thread : handle_switchto(t, c, to)
  BY <1>4, SwitchtoKeeps
<1>5. CASE handle_wakeup(t) \/ handle_prio_changed(t) \/ handle_departed(t) \/ handle_dead(t)
  BY <1>5, WakeupKeeps, ChangedKeeps, DepartedKeeps, DeadKeeps
<1>6. CASE HandlerEnds(t)
  BY <1>6, HandlerEndsKeeps
<1>7. QED
  BY <1>1, <1>2, <1>3, <1>4, <1>5, <1>6 DEF OnThread

-----------------------------------------------------------------------------
(* What the steps of PNT have in common. *)

\* pop_first
LEMMA PopKeepsLine ==
  ASSUME rq \in Seq(Thread), LineIsExact, rq # << >>, rq' = Tail(rq), NEW t \in Thread, t = Head(rq),
         thr'[t].enqueued = FALSE, \A u \in Thread \ {t} : thr'[u].enqueued = thr[u].enqueued
  PROVE  LineIsExact' /\ rq' \in Seq(Thread) /\ thr[t].enqueued
<1>1. Len(rq) \in Nat /\ Len(rq) # 0 /\ rq[1] = t
  OBVIOUS
<1>2. rq' \in Seq(Thread) /\ Len(rq') = Len(rq) - 1 /\ \A i \in 1 .. Len(rq') : rq'[i] = rq[i + 1]
  BY <1>1
<1>3. \A i, j \in 1 .. Len(rq') : rq'[i] = rq'[j] => i = j
  BY <1>1, <1>2 DEF LineIsExact
<1>4. thr[t].enqueued
  BY <1>1 DEF LineIsExact
<1>5. ASSUME NEW u \in Thread PROVE thr'[u].enqueued <=> \E i \in 1 .. Len(rq') : rq'[i] = u
  <2>1. CASE u = t
    BY <1>1, <1>2, <2>1 DEF LineIsExact
  <2>2. CASE u # t
    <3>1. ASSUME NEW i \in 1 .. Len(rq), rq[i] = u PROVE i - 1 \in 1 .. Len(rq') /\ rq'[i - 1] = u
      BY <1>1, <1>2, <2>2, <3>1
    <3>2. ASSUME NEW i \in 1 .. Len(rq'), rq'[i] = u PROVE i + 1 \in 1 .. Len(rq) /\ rq[i + 1] = u
      BY <1>1, <1>2, <3>2
    <3>3. QED
      BY <2>2, <3>1, <3>2, Zenon DEF LineIsExact
  <2>3. QED
    BY <2>1, <2>2
<1>6. QED
  BY <1>2, <1>3, <1>4, <1>5 DEF LineIsExact

\* Over() and Again() give the thread up and keep the kernel's part.
LEMMA OverGives ==
  ASSUME NEW k \in CpuRec
  PROVE  /\ Over(k) \in CpuRec /\ Over(k).t = None /\ Over(k).pc \in {"out", "end"}
         /\ Again(k) \in CpuRec /\ Again(k).t = None /\ Again(k).pc \in {"out", "end", "loop"}
         /\ SameKernel(k, Over(k)) /\ SameKernel(k, Again(k))
<1> DEFINE p == IF k.busy = None THEN "out" ELSE "end"
<1>1. Over(k) \in CpuRec
  <2>1. p \in {"out", "loop", "pick", "end"} \cup Asking /\ 0 \in Int
    OBVIOUS
  <2> HIDE DEF p
  <2>2. [k EXCEPT !.pc = p, !.i = 0, !.cur = None, !.t = None, !.fresh = FALSE] \in CpuRec
    BY <2>1, Zenon DEF CpuRec, ThreadOrNone
  <2>3. QED
    BY <2>2 DEF Over, p
<1>2. Over(k).t = None /\ Over(k).pc \in {"out", "end"} /\ SameKernel(k, Over(k))
  BY DEF Over, CpuRec, SameKernel
<1>3. k.i + 1 \in Int
  BY DEF CpuRec
<1> HIDE DEF p
<1>4. [Over(k) EXCEPT !.pc = "loop", !.i = k.i + 1] \in CpuRec
  BY <1>1, <1>3, Zenon DEF CpuRec
<1>5. Again(k) \in CpuRec
  BY <1>1, <1>4 DEF Again
<1>6. Again(k).t = None /\ Again(k).pc \in {"out", "end", "loop"} /\ SameKernel(k, Again(k))
  BY <1>1, <1>2 DEF Again, CpuRec, SameKernel
<1>7. QED
  BY <1>1, <1>2, <1>5, <1>6

\* flux_prepare_to_run takes a reference to t for CPU c.
LEMMA RefGained ==
  ASSUME CountingLaws, RefsAreExact, NEW c \in Cpu, NEW t \in Thread, cpu[c].t = None, cpu'[c].t = t,
         \A d \in Cpu \ {c} : cpu'[d].t = cpu[d].t,
         \A u \in Thread \ {t} : thr'[u] = thr[u],
         thr'[t].sched = thr[t].sched, thr'[t].refcnt = thr[t].refcnt + 1,
         sw_lookup' = sw_lookup, thr[t].sched
  PROVE  RefsAreExact'
<1>1. ASSUME NEW u \in Thread \ {t} PROVE Pnts(u)' = Pnts(u)
  BY FluxAssumption DEF Pnts
<1>2. Pnts(t)' = Pnts(t) \cup {c} /\ c \notin Pnts(t)
  BY FluxAssumption DEF Pnts
<1>3. Cardinality(Pnts(t)') = Cardinality(Pnts(t)) + 1 /\ Cardinality(Pnts(t)) \in Nat
  <2>1. IsFiniteSet(Pnts(t)) /\ Cardinality(Pnts(t)) \in Nat
    BY PntsCount
  <2>2. Cardinality(Pnts(t) \cup {c}) = Cardinality(Pnts(t)) + 1
    BY Zenon, <1>2, <2>1, CountAdds
  <2>3. QED
    BY <1>2, <2>1, <2>2
<1>4. ASSUME NEW u \in Thread
      PROVE  /\ thr'[u].refcnt = (IF thr'[u].sched THEN 1 ELSE 0) + Cardinality(Pnts(u)')
             /\ u \in sw_lookup' <=> thr'[u].refcnt > 0
  <2>1. /\ thr[u].refcnt = (IF thr[u].sched THEN 1 ELSE 0) + Cardinality(Pnts(u))
        /\ u \in sw_lookup <=> thr[u].refcnt > 0
    BY DEF RefsAreExact
  <2>2. CASE u = t
    <3>1. thr[t].refcnt = 1 + Cardinality(Pnts(t))
      BY <2>1, <2>2
    <3>2. thr'[t].refcnt = 1 + Cardinality(Pnts(t)') /\ thr'[t].refcnt > 0 /\ t \in sw_lookup'
      BY <1>3, <2>1, <2>2, <3>1
    <3>3. QED
      BY Zenon, <2>2, <3>2
  <2>3. CASE u # t
    BY <1>1, <2>1, <2>3
  <2>4. QED
    BY <2>2, <2>3
<1>5. QED
  BY <1>4 DEF RefsAreExact

\* flux_thread_decref drops the reference of CPU c, and forgets the thread with the last.
LEMMA RefLost ==
  ASSUME CountingLaws, RefsAreExact, NEW c \in Cpu, NEW t \in Thread, cpu[c].t = t, cpu'[c].t = None,
         \A d \in Cpu \ {c} : cpu'[d].t = cpu[d].t,
         \A u \in Thread \ {t} : thr'[u] = thr[u],
         thr'[t].sched = thr[t].sched, thr'[t].refcnt = thr[t].refcnt - 1, Forget(t)
  PROVE  RefsAreExact'
<1>1. ASSUME NEW u \in Thread \ {t} PROVE Pnts(u)' = Pnts(u)
  BY FluxAssumption DEF Pnts
<1>2. Pnts(t)' = Pnts(t) \ {c} /\ c \in Pnts(t)
  BY FluxAssumption DEF Pnts
<1>3. Cardinality(Pnts(t)') = Cardinality(Pnts(t)) - 1 /\ Cardinality(Pnts(t)) \in Nat /\ Cardinality(Pnts(t)) # 0
  BY Zenon, <1>2, PntsCount, CountRemoves
<1>4. sw_lookup' = IF thr[t].refcnt = 1 THEN sw_lookup \ {t} ELSE sw_lookup
  BY DEF Forget
<1>5. ASSUME NEW u \in Thread
      PROVE  /\ thr'[u].refcnt = (IF thr'[u].sched THEN 1 ELSE 0) + Cardinality(Pnts(u)')
             /\ u \in sw_lookup' <=> thr'[u].refcnt > 0
  <2>1. /\ thr[u].refcnt = (IF thr[u].sched THEN 1 ELSE 0) + Cardinality(Pnts(u))
        /\ u \in sw_lookup <=> thr[u].refcnt > 0
    BY DEF RefsAreExact
  <2>2. CASE u = t
    <3>1. thr[t].refcnt \in Nat /\ thr[t].refcnt > 0 /\ t \in sw_lookup
      BY <1>3, <2>1, <2>2
    <3>2. t \in sw_lookup' <=> thr[t].refcnt - 1 > 0
      BY <1>4, <3>1
    <3>3. thr'[t].refcnt = (IF thr'[t].sched THEN 1 ELSE 0) + Cardinality(Pnts(t)')
      BY <1>3, <2>1, <2>2
    <3>4. QED
      BY <2>2, <3>2, <3>3
  <2>3. CASE u # t
    BY <1>1, <1>4, <2>1, <2>3
  <2>4. QED
    BY <2>2, <2>3
<1>6. QED
  BY <1>5 DEF RefsAreExact

\* No PNT but that of c can run t.
NoOther(c, t) == \A d \in Cpu \ {c} : ~ (cpu[d].pc = "run" /\ cpu[d].t = t)

\* The step of the PNT of c about t.
PntStep(c, t) ==
  /\ Types'
  /\ \A d \in Cpu \ {c} : cpu'[d].t = cpu[d].t /\ cpu'[d].pc = cpu[d].pc /\ (cpu'[d].fresh => cpu[d].fresh)
  /\ \A u \in Thread \ {t} : thr'[u] = thr[u] /\ task'[u] = task[u] /\ msg'[u] = msg[u]

\* It keeps the invariant if it does so for c and t.
LEMMA PntKeeps ==
  ASSUME ThreadsInv, NEW c \in Cpu, NEW t \in Thread, PntStep(c, t),
         LineIsExact', KernelHas', RefsAreExact', StreamAt(t)', WaitsAt(t)',
         cpu'[c].t # None <=> cpu'[c].pc \in Asking,
         cpu[c].pc = "run" => cpu[c].t = t,
         NoOther(c, t) \/ (thr'[t].pending_latch = thr[t].pending_latch /\ task'[t] = task[t]),
         cpu'[c].pc = "run" => /\ cpu'[c].t = t /\ NoOther(c, t) /\ thr'[t].pending_latch
                               /\ cpu'[c].fresh => task'[t] = "runnable"
  PROVE  ThreadsInv'
<1>1. Types /\ PntsAsk /\ OnePntAsks /\ StreamHolds /\ EnqueuedOrPending
  BY DEF ThreadsInv
<1>2. /\ Types'
      /\ \A d \in Cpu \ {c} : cpu'[d].t = cpu[d].t /\ cpu'[d].pc = cpu[d].pc /\ (cpu'[d].fresh => cpu[d].fresh)
      /\ \A u \in Thread \ {t} : thr'[u] = thr[u] /\ task'[u] = task[u] /\ msg'[u] = msg[u]
  BY DEF PntStep
<1>3. PntsAsk'
  BY <1>1, <1>2 DEF PntsAsk
<1>4. StreamHolds'
  BY <1>1, <1>2 DEF StreamHolds, StreamAt
<1>5. EnqueuedOrPending'
  <2>1. ASSUME NEW u \in Thread \ {t} PROVE WaitsAt(u)'
    <3>1. WaitsAt(u) /\ thr'[u] = thr[u] /\ task'[u] = task[u]
      BY <1>1, <1>2 DEF EnqueuedOrPending
    <3>2. ASSUME NEW d \in Cpu, cpu[d].pc = "run" /\ cpu[d].t = u PROVE cpu'[d].pc = "run" /\ cpu'[d].t = u
      BY <1>2, <3>2
    <3>3. QED
      BY <3>1, <3>2 DEF WaitsAt
  <2>2. QED
    BY <2>1 DEF EnqueuedOrPending
<1>6. ASSUME NEW d \in Cpu \ {c}, cpu'[d].pc = "run"
      PROVE  thr'[cpu'[d].t].pending_latch /\ (cpu'[d].fresh => task'[cpu'[d].t] = "runnable")
  <2>1. cpu[d].pc = "run" /\ cpu'[d].t = cpu[d].t /\ (cpu'[d].fresh => cpu[d].fresh)
    BY <1>2, <1>6
  <2>2. cpu[d].t \in Thread
    BY <1>1, <2>1 DEF Types, CpuRec, PntsAsk, Asking, ThreadOrNone
  <2>3. thr[cpu[d].t].pending_latch /\ (cpu[d].fresh => task[cpu[d].t] = "runnable")
    BY <1>1, <2>1 DEF OnePntAsks
  <2>4. thr'[cpu[d].t].pending_latch = thr[cpu[d].t].pending_latch /\ task'[cpu[d].t] = task[cpu[d].t]
    <3>1. CASE cpu[d].t = t
      BY <2>1, <3>1 DEF NoOther
    <3>2. CASE cpu[d].t # t
      BY <1>2, <2>2, <3>2
    <3>3. QED
      BY <3>1, <3>2
  <2>5. QED
    BY <2>1, <2>3, <2>4, Zenon
<1>7. \A d, e \in Cpu : cpu'[d].pc = "run" /\ cpu'[e].pc = "run" /\ cpu'[d].t = cpu'[e].t => d = e
  <2>1. ASSUME cpu'[c].pc = "run", NEW d \in Cpu \ {c}, cpu'[d].pc = "run" PROVE cpu'[d].t # cpu'[c].t
    BY <1>2, <2>1 DEF NoOther
  <2>2. \A d, e \in Cpu \ {c} : cpu'[d].pc = "run" /\ cpu'[e].pc = "run" /\ cpu'[d].t = cpu'[e].t => d = e
    BY <1>1, <1>2 DEF OnePntAsks
  <2>3. QED
    BY <2>1, <2>2
<1>8. OnePntAsks'
  BY <1>6, <1>7 DEF OnePntAsks
<1>9. QED
  BY <1>2, <1>3, <1>4, <1>5, <1>8 DEF ThreadsInv

\* A PNT that can run a thread is the one that can.
LEMMA AskerIsTheOne ==
  ASSUME ThreadsInv, NEW c \in Cpu, cpu[c].pc = "run"
  PROVE  /\ cpu[c].t \in Thread /\ NoOther(c, cpu[c].t) /\ thr[cpu[c].t].pending_latch
         /\ ~ thr[cpu[c].t].enqueued
<1>1. Types /\ PntsAsk /\ OnePntAsks /\ EnqueuedOrPending
  BY DEF ThreadsInv
<1>2. cpu[c].t \in Thread
  BY <1>1 DEF Types, CpuRec, PntsAsk, Asking, ThreadOrNone
<1>3. NoOther(c, cpu[c].t) /\ thr[cpu[c].t].pending_latch
  BY <1>1 DEF OnePntAsks, NoOther
<1>4. WaitsAt(cpu[c].t)
  BY <1>1, <1>2 DEF EnqueuedOrPending
<1>5. QED
  BY <1>2, <1>3, <1>4, Zenon DEF WaitsAt

\* A step that only moves PNTs which have no thread, or marks a thread whose time is up.
Quiet ==
  /\ Types' /\ SamePnts /\ \A c \in Cpu : SameKernel(cpu[c], cpu'[c])
  /\ task' = task /\ msg' = msg /\ sw_lookup' = sw_lookup /\ rq' = rq /\ nr_cpus_wanted' = nr_cpus_wanted
  /\ \A u \in Thread :
        /\ thr'[u].sched = thr[u].sched /\ thr'[u].refcnt = thr[u].refcnt /\ thr'[u].on_rq = thr[u].on_rq
        /\ thr'[u].pending_latch = thr[u].pending_latch /\ thr'[u].enqueued = thr[u].enqueued
=============================================================================
