----------------------------- MODULE O1CpuProofs -----------------------------
(***************************************************************************)
(* The safety of one CPU of the O1 scheduler, for every set of tasks,      *)
(* number of priorities, set of nice values and time slice.                *)
(*                                                                         *)
(* The properties of O1Cpu are not inductive one by one.  IInv is: the     *)
(* four that relate run_state, static_priority and the arrays are carried  *)
(* as RqInv, in terms of the (task, priority) pairs the arrays hold, so    *)
(* that each action needs only what push, pop and erase do to them.  These *)
(* facts of PrioArray come first, on one deque and then on the array, for  *)
(* every number of buckets and every array.                                *)
(***************************************************************************)
EXTENDS O1Cpu, SequenceTheorems, WellFoundedInduction, TLAPS

-----------------------------------------------------------------------------
(* Deques without duplicates.                                              *)

\* push_front() of a task that is not in the deque.
LEMMA ConsSeq ==
  ASSUME NEW q \in Seq(Task), IsInjective(q), NEW t \in Task, ~Found(q, t)
  PROVE  /\ <<t>> \o q \in Seq(Task)
         /\ <<t>> \o q # << >>
         /\ IsInjective(<<t>> \o q)
         /\ \A u : Found(<<t>> \o q, u) <=> u = t \/ Found(q, u)
<1> DEFINE c == <<t>> \o q
<1>1. /\ c \in Seq(Task) /\ Len(c) = Len(q) + 1 /\ Len(q) \in Nat
      /\ c[1] = t
      /\ \A i \in 1 .. Len(q) : c[i + 1] = q[i]
  OBVIOUS
<1>2. \A i \in 1 .. Len(c) : i = 1 \/ (i - 1 \in 1 .. Len(q) /\ c[i] = q[i - 1])
  <2> TAKE i \in 1 .. Len(c)
  <2> CASE i # 1
    <3>1. i - 1 \in 1 .. Len(q)
      BY <1>1
    <3>2. c[(i - 1) + 1] = q[i - 1]
      BY <1>1, <3>1
    <3> QED BY <3>1, <3>2
  <2> QED OBVIOUS
<1>3. DOMAIN c = 1 .. Len(c) /\ DOMAIN q = 1 .. Len(q)
  BY <1>1
<1> HIDE DEF c
<1>4. IsInjective(c)
  <2> SUFFICES ASSUME NEW i \in 1 .. Len(c), NEW j \in 1 .. Len(c), c[i] = c[j]
               PROVE  i = j
    BY <1>3 DEF IsInjective
  <2>1. CASE i = 1 /\ j # 1
    BY Zenon, <1>1, <1>2, <2>1 DEF Found
  <2>2. CASE i # 1 /\ j = 1
    BY <1>1, <1>2, <2>2 DEF Found
  <2>3. CASE i # 1 /\ j # 1
    <3>1. i - 1 \in DOMAIN q /\ j - 1 \in DOMAIN q /\ q[i - 1] = q[j - 1]
      BY <1>2, <1>3, <2>3
    <3>2. i - 1 = j - 1
      BY <3>1 DEF IsInjective
    <3> QED BY <3>2
  <2> QED BY <2>1, <2>2, <2>3
<1>5. ASSUME NEW u PROVE Found(c, u) <=> u = t \/ Found(q, u)
  <2>1. Found(c, u) => u = t \/ Found(q, u)
    BY ZenonT(30), <1>1, <1>2 DEF Found
  <2>2. Found(q, u) => Found(c, u)
    <3> SUFFICES ASSUME NEW i \in 1 .. Len(q), q[i] = u PROVE Found(c, u)
      BY DEF Found
    <3>1. i + 1 \in 1 .. Len(c) /\ c[i + 1] = u
      BY <1>1
    <3> QED BY <3>1 DEF Found
  <2>3. Found(c, t)
    <3>1. 1 \in 1 .. Len(c)
      BY <1>1
    <3> QED BY <1>1, <3>1 DEF Found
  <2> QED BY <2>1, <2>2, <2>3
<1>6. c # << >>
  BY <1>1
<1> QED BY <1>1, <1>4, <1>5, <1>6 DEF c

\* push_back() of a task that is not in the deque.
LEMMA AppendSeq ==
  ASSUME NEW q \in Seq(Task), IsInjective(q), NEW t \in Task, ~Found(q, t)
  PROVE  /\ Append(q, t) \in Seq(Task)
         /\ Append(q, t) # << >>
         /\ IsInjective(Append(q, t))
         /\ \A u : Found(Append(q, t), u) <=> u = t \/ Found(q, u)
<1> DEFINE c == Append(q, t)
<1>1. /\ c \in Seq(Task) /\ Len(c) = Len(q) + 1 /\ Len(q) \in Nat
      /\ c[Len(q) + 1] = t
      /\ \A i \in 1 .. Len(q) : c[i] = q[i]
      /\ DOMAIN c = 1 .. Len(c) /\ DOMAIN q = 1 .. Len(q)
  OBVIOUS
<1> HIDE DEF c
<1>2. c # << >>
  BY <1>1
<1>3. \A i \in 1 .. Len(c) : i = Len(q) + 1 \/ i \in 1 .. Len(q)
  BY <1>1
<1>4. IsInjective(c)
  BY <1>1, <1>3 DEF IsInjective, Found
<1>5. ASSUME NEW u PROVE Found(c, u) <=> u = t \/ Found(q, u)
  <2>1. 1 .. Len(q) \subseteq 1 .. Len(c) /\ Len(q) + 1 \in 1 .. Len(c)
    BY <1>1
  <2> QED BY <1>1, <1>3, <2>1 DEF Found
<1> QED BY <1>1, <1>2, <1>4, <1>5 DEF c

\* pop_front().
LEMMA TailSeq ==
  ASSUME NEW q \in Seq(Task), IsInjective(q), q # << >>
  PROVE  /\ Head(q) \in Task /\ Found(q, Head(q))
         /\ Tail(q) \in Seq(Task)
         /\ IsInjective(Tail(q))
         /\ \A u : Found(Tail(q), u) <=> u # Head(q) /\ Found(q, u)
<1> DEFINE c == Tail(q)
<1>1. /\ c \in Seq(Task) /\ Len(c) = Len(q) - 1 /\ Len(q) \in Nat \ {0}
      /\ Head(q) = q[1] /\ Head(q) \in Task
      /\ \A i \in 1 .. Len(c) : c[i] = q[i + 1]
      /\ DOMAIN c = 1 .. Len(c) /\ DOMAIN q = 1 .. Len(q)
  OBVIOUS
<1> HIDE DEF c
<1>2. \A i \in 1 .. Len(c) : i + 1 \in 1 .. Len(q)
  BY <1>1
<1>3. IsInjective(c)
  <2> SUFFICES ASSUME NEW i \in 1 .. Len(c), NEW j \in 1 .. Len(c), c[i] = c[j]
               PROVE  i = j
    BY <1>1 DEF IsInjective
  <2>1. i + 1 \in DOMAIN q /\ j + 1 \in DOMAIN q /\ q[i + 1] = q[j + 1]
    BY <1>1, <1>2
  <2>2. i + 1 = j + 1
    BY <2>1 DEF IsInjective
  <2> QED BY <2>2
<1>4. ASSUME NEW u PROVE Found(c, u) <=> u # Head(q) /\ Found(q, u)
  <2>1. 1 \in 1 .. Len(q)
    BY <1>1
  <2>2. Found(c, u) => u # Head(q) /\ Found(q, u)
    <3> SUFFICES ASSUME NEW i \in 1 .. Len(c), c[i] = u
                 PROVE  u # Head(q) /\ Found(q, u)
      BY DEF Found
    <3>1. i + 1 \in 1 .. Len(q) /\ q[i + 1] = u /\ i + 1 # 1
      BY <1>1, <1>2
    <3> QED BY <1>1, <2>1, <3>1 DEF Found, IsInjective
  <2>3. u # Head(q) /\ Found(q, u) => Found(c, u)
    <3> SUFFICES ASSUME NEW i \in 1 .. Len(q), q[i] = u, u # Head(q)
                 PROVE  Found(c, u)
      BY DEF Found
    <3>1. i - 1 \in 1 .. Len(c)
      BY <1>1
    <3>2. c[i - 1] = q[(i - 1) + 1]
      BY <1>1, <3>1
    <3> QED BY <3>1, <3>2 DEF Found
  <2> QED BY <2>2, <2>3
<1>5. Found(q, Head(q))
  <2>1. 1 \in 1 .. Len(q)
    BY <1>1
  <2> QED BY <1>1, <2>1 DEF Found
<1> QED BY <1>1, <1>3, <1>4, <1>5 DEF c

\* erase() of the first occurrence std::find meets.
LEMMA RemoveSeq ==
  ASSUME NEW q \in Seq(Task), IsInjective(q), NEW t \in Task, Found(q, t)
  PROVE  LET c == EraseAt(q, Find(q, t))
         IN  /\ c \in Seq(Task)
             /\ IsInjective(c)
             /\ \A u : Found(c, u) <=> u # t /\ Found(q, u)
<1> DEFINE k == Find(q, t)
           c == EraseAt(q, k)
<1>1. Len(q) \in Nat /\ DOMAIN q = 1 .. Len(q)
  OBVIOUS
<1>2. k \in 1 .. Len(q) /\ q[k] = t
  <2>1. PICK n \in 1 .. Len(q) : q[n] = t
    BY DEF Found
  <2>2. \A m \in 1 .. Len(q) : q[m] = t => n <= m
    BY <1>1, <2>1 DEF IsInjective
  <2> QED BY <2>1, <2>2 DEF Find
<1> HIDE DEF k
<1> DEFINE l == SubSeq(q, 1, k - 1)
           r == SubSeq(q, k + 1, Len(q))
<1>3. l \in Seq(Task) /\ Len(l) = k - 1 /\ \A i \in 1 .. k - 1 : l[i] = q[i]
  BY <1>1, <1>2
<1>4. r \in Seq(Task) /\ Len(r) = Len(q) - k /\ \A i \in 1 .. Len(q) - k : r[i] = q[k + i]
  <2>1. \A i \in k + 1 .. Len(q) : q[i] \in Task
    BY <1>1, <1>2, ElementOfSeq
  <2>2. k + 1 \in Int /\ Len(q) \in Int
    BY <1>1, <1>2
  <2>3. /\ r \in Seq(Task)
        /\ Len(r) = IF k + 1 <= Len(q) THEN Len(q) - (k + 1) + 1 ELSE 0
        /\ \A i \in 1 .. Len(q) - (k + 1) + 1 : r[i] = q[(k + 1) + i - 1]
    BY <2>1, <2>2, SubSeqProperties
  <2> HIDE DEF r
  <2>4. Len(r) = Len(q) - k
    <3>1. Len(r) = IF k + 1 <= Len(q) THEN Len(q) - (k + 1) + 1 ELSE 0
      BY <2>3
    <3>2. Len(q) \in Nat /\ k \in 1 .. Len(q)
      BY <1>1, <1>2
    <3> QED BY <3>1, <3>2
  <2>5. ASSUME NEW i \in 1 .. Len(q) - k PROVE r[i] = q[k + i]
    <3>1. i \in 1 .. Len(q) - (k + 1) + 1 /\ (k + 1) + i - 1 = k + i
      BY <1>1, <1>2
    <3> QED BY <2>3, <3>1
  <2> QED BY <2>3, <2>4, <2>5
<1>5. /\ c \in Seq(Task) /\ Len(c) = Len(q) - 1 /\ DOMAIN c = 1 .. Len(c)
      /\ \A i \in 1 .. Len(c) : c[i] = IF i < k THEN q[i] ELSE q[i + 1]
  <2>0. c = l \o r
    BY DEF EraseAt
  <2> HIDE DEF l, r, c
  <2>1. c \in Seq(Task) /\ Len(c) = Len(l) + Len(r)
    BY Zenon, <2>0, <1>3, <1>4, ConcatProperties
  <2>2. \A i \in 1 .. Len(l) + Len(r) : c[i] = IF i <= Len(l) THEN l[i] ELSE r[i - Len(l)]
    BY <2>0, <1>3, <1>4, ConcatProperties
  <2>3. Len(c) = Len(q) - 1
    BY <1>1, <1>2, <1>3, <1>4, <2>1
  <2>4. ASSUME NEW i \in 1 .. Len(c)
        PROVE  c[i] = IF i < k THEN q[i] ELSE q[i + 1]
    <3>0. i \in 1 .. Len(l) + Len(r)
      BY <2>1
    <3>1. CASE i < k
      <4>1. i <= Len(l) /\ i \in 1 .. k - 1
        BY <1>1, <1>2, <1>3, <3>1
      <4> QED BY <1>3, <2>2, <3>0, <3>1, <4>1
    <3>2. CASE ~(i < k)
      <4>1. ~(i <= Len(l)) /\ i - Len(l) \in 1 .. Len(q) - k /\ k + (i - Len(l)) = i + 1
        BY <1>1, <1>2, <1>3, <2>3, <3>2
      <4> QED BY Zenon, <1>4, <2>2, <3>0, <3>2, <4>1
    <3> QED BY <3>1, <3>2
  <2> QED BY <2>1, <2>3, <2>4
<1> HIDE DEF c
<1>6. \A i \in 1 .. Len(c) : i \in 1 .. Len(q) /\ i + 1 \in 1 .. Len(q)
  BY <1>1, <1>5
<1>7. IsInjective(c)
  <2> SUFFICES ASSUME NEW i \in 1 .. Len(c), NEW j \in 1 .. Len(c), c[i] = c[j]
               PROVE  i = j
    BY <1>5 DEF IsInjective
  <2> DEFINE f(m) == IF m < k THEN m ELSE m + 1
  <2>1. f(i) \in DOMAIN q /\ f(j) \in DOMAIN q /\ q[f(i)] = q[f(j)]
    BY <1>1, <1>2, <1>5, <1>6
  <2>2. f(i) = f(j)
    BY <2>1 DEF IsInjective
  <2> QED BY <1>1, <1>2, <1>5, <2>2
<1>8. ASSUME NEW u PROVE Found(c, u) <=> u # t /\ Found(q, u)
  <2>1. Found(c, u) => u # t /\ Found(q, u)
    <3> SUFFICES ASSUME NEW i \in 1 .. Len(c), c[i] = u
                 PROVE  u # t /\ Found(q, u)
      BY DEF Found
    <3> DEFINE m == IF i < k THEN i ELSE i + 1
    <3>1. m \in 1 .. Len(q) /\ q[m] = u /\ m # k
      BY <1>1, <1>2, <1>5, <1>6
    <3> HIDE DEF m
    <3> QED BY <1>1, <1>2, <3>1 DEF Found, IsInjective
  <2>2. u # t /\ Found(q, u) => Found(c, u)
    <3> SUFFICES ASSUME NEW i \in 1 .. Len(q), q[i] = u, u # t
                 PROVE  Found(c, u)
      BY DEF Found
    <3> DEFINE m == IF i < k THEN i ELSE i - 1
    <3>1. i # k
      BY <1>2
    <3>2. m \in 1 .. Len(c)
      BY <1>1, <1>2, <1>5, <3>1
    <3>3. c[m] = u
      BY <1>1, <1>2, <1>5, <3>1, <3>2
    <3> HIDE DEF m
    <3> QED BY <3>2, <3>3 DEF Found
  <2> QED BY <2>1, <2>2
<1> QED BY <1>5, <1>7, <1>8 DEF c, k

-----------------------------------------------------------------------------
(* Arrays.                                                                 *)

\* A well-formed array: a bit is set exactly when its bucket is not empty, and
\* no task is twice in a bucket.
WellFormed(a) ==
  /\ a \in Array
  /\ \A i \in Idx : i \in a.bitmap <=> a.queues[i] # << >>
  /\ \A i \in Idx : IsInjective(a.queues[i])

\* Priorities and bucket indices correspond one to one.
LEMMA IdxOfPrio ==
  /\ \A p \in Prio : p \in Int /\ p - kBasePrio \in Idx
  /\ \A i \in Idx : kBasePrio + i \in Prio /\ (kBasePrio + i) - kBasePrio = i
  /\ \A p, o \in Prio : p - kBasePrio = o - kBasePrio => p = o
  /\ \A p \in Prio : kBasePrio + (p - kBasePrio) = p
BY PrioAssumption DEF Prio, Idx

\* A new array is well formed and holds nothing.
LEMMA EmptyArrayHolds ==
  /\ WellFormed(EmptyArray)
  /\ \A t, p : p \in Prio => ~Holds(EmptyArray, t, p)
  /\ ArrayEmpty(EmptyArray)
<1>1. /\ EmptyArray \in Array
      /\ \A i \in Idx : EmptyArray.queues[i] = << >>
      /\ EmptyArray.bitmap = {}
  BY DEF EmptyArray, Array
<1>2. IsInjective(<< >>)
  BY DEF IsInjective
<1>3. \A t : ~Found(<< >>, t)
  BY DEF Found
<1> QED BY <1>1, <1>2, <1>3, IdxOfPrio DEF WellFormed, Holds, ArrayEmpty

\* The bitmap and the buckets agree on emptiness.
LEMMA EmptyAgrees ==
  ASSUME NEW a, WellFormed(a)
  PROVE  /\ ArrayEmpty(a) <=> ArraySizeZero(a)
         /\ ArrayEmpty(a) <=> \A t \in Task, p \in Prio : ~Holds(a, t, p)
<1>1. /\ a.bitmap \subseteq Idx /\ a.queues \in [Idx -> Seq(Task)]
      /\ \A i \in Idx : i \in a.bitmap <=> a.queues[i] # << >>
  BY DEF WellFormed, Array
<1>2. ArrayEmpty(a) <=> ArraySizeZero(a)
  BY <1>1 DEF ArrayEmpty, ArraySizeZero
<1>3. ASSUME NEW i \in Idx, a.queues[i] # << >>
      PROVE  \E t \in Task, p \in Prio : Holds(a, t, p)
  <2>1. a.queues[i] \in Seq(Task)
    BY <1>1
  <2>2. a.queues[i][1] \in Task /\ 1 \in 1 .. Len(a.queues[i])
    BY <1>3, <2>1
  <2>3. Holds(a, a.queues[i][1], kBasePrio + i) /\ kBasePrio + i \in Prio
    BY <2>2, IdxOfPrio DEF Holds, Found
  <2> QED BY <2>2, <2>3
<1>4. ASSUME NEW t \in Task, NEW p \in Prio, Holds(a, t, p)
      PROVE  a.queues[p - kBasePrio] # << >> /\ p - kBasePrio \in Idx
  BY <1>4, IdxOfPrio DEF Holds, Found
<1> QED BY <1>2, <1>3, <1>4 DEF ArraySizeZero

\* Replacing bucket i by q gives a well-formed array if the bits follow.
LEMMA ReplaceBucket ==
  ASSUME NEW a, WellFormed(a), NEW i \in Idx, NEW q \in Seq(Task), IsInjective(q),
         NEW b \in SUBSET Idx,
         i \in b <=> q # << >>, \A j \in Idx \ {i} : j \in b <=> j \in a.bitmap,
         NEW c, c = [bitmap |-> b, queues |-> [a.queues EXCEPT ![i] = q]]
  PROVE  /\ WellFormed(c)
         /\ \A t : \A p \in Prio : Holds(c, t, p) <=> IF p - kBasePrio = i THEN Found(q, t)
                                                     ELSE Holds(a, t, p)
<1>1. a.bitmap \subseteq Idx /\ a.queues \in [Idx -> Seq(Task)]
  BY DEF WellFormed, Array
<1>2. c \in Array /\ c.bitmap = b /\ c.queues[i] = q
      /\ \A j \in Idx \ {i} : c.queues[j] = a.queues[j]
  BY <1>1 DEF Array
<1>3. WellFormed(c)
  BY <1>2 DEF WellFormed
<1>4. ASSUME NEW t, NEW p \in Prio
      PROVE  Holds(c, t, p) <=> IF p - kBasePrio = i THEN Found(q, t) ELSE Holds(a, t, p)
  BY <1>2, IdxOfPrio DEF Holds
<1> QED BY <1>3, <1>4

\* push() adds exactly the task, in the bucket of its priority.
LEMMA PushHolds ==
  ASSUME NEW a, WellFormed(a), NEW t \in Task, NEW p \in Prio, NEW front \in BOOLEAN,
         ~Holds(a, t, p)
  PROVE  /\ WellFormed(Push(a, t, p, front))
         /\ \A u : \A o \in Prio : Holds(Push(a, t, p, front), u, o)
                                     <=> (u = t /\ o = p) \/ Holds(a, u, o)
<1> DEFINE i == p - kBasePrio
           q == IF front THEN <<t>> \o a.queues[i] ELSE Append(a.queues[i], t)
<1>1. /\ i \in Idx /\ a.queues[i] \in Seq(Task) /\ IsInjective(a.queues[i])
      /\ ~Found(a.queues[i], t) /\ a.bitmap \subseteq Idx
  BY IdxOfPrio DEF WellFormed, Array, Holds
<1>2. /\ q \in Seq(Task) /\ q # << >> /\ IsInjective(q)
      /\ \A u : Found(q, u) <=> u = t \/ Found(a.queues[i], u)
  BY <1>1, ConsSeq, AppendSeq
<1>3. Push(a, t, p, front) = [bitmap |-> a.bitmap \cup {i}, queues |-> [a.queues EXCEPT ![i] = q]]
  BY DEF Push
<1> HIDE DEF q
<1>4. /\ WellFormed(Push(a, t, p, front))
      /\ \A u : \A o \in Prio : Holds(Push(a, t, p, front), u, o)
             <=> IF o - kBasePrio = i THEN Found(q, u) ELSE Holds(a, u, o)
  <2> DEFINE b == a.bitmap \cup {i}
  <2>1. b \in SUBSET Idx /\ (i \in b <=> q # << >>)
        /\ \A j \in Idx \ {i} : j \in b <=> j \in a.bitmap
    BY <1>1, <1>2
  <2>2. Push(a, t, p, front) = [bitmap |-> b, queues |-> [a.queues EXCEPT ![i] = q]]
    BY <1>3
  <2> HIDE DEF i, b
  <2> QED BY <1>1, <1>2, <2>1, <2>2, ReplaceBucket
<1>5. \A o \in Prio : o - kBasePrio = i <=> o = p
  BY IdxOfPrio
<1> QED BY <1>2, <1>4, <1>5 DEF Holds

\* The bits BitsAfter() leaves.
LEMMA BitsAfterBits ==
  ASSUME NEW a, WellFormed(a), NEW i \in Idx, i \in a.bitmap, NEW q
  PROVE  /\ BitsAfter(a, i, q) \in SUBSET Idx
         /\ i \in BitsAfter(a, i, q) <=> q # << >>
         /\ \A j \in Idx \ {i} : j \in BitsAfter(a, i, q) <=> j \in a.bitmap
BY DEF BitsAfter, WellFormed, Array

\* __builtin_ctzll() of a bitmap that is not zero.
LEMMA LowestBitIsLowest ==
  ASSUME NEW a, a \in Array, ~ArrayEmpty(a)
  PROVE  LowestBit(a) \in a.bitmap /\ \A j \in a.bitmap : LowestBit(a) <= j
<1>1. a.bitmap \subseteq Nat /\ a.bitmap # {}
  BY PrioAssumption DEF Array, Idx, ArrayEmpty
<1> DEFINE less == OpToRel(<, Nat)
<1>a. \A x, y \in Nat : <<x, y>> \in less <=> x < y
  BY DEF OpToRel
<1>b. IsWellFoundedOn(less, Nat)
  BY Zenon, NatLessThanWellFounded
<1> HIDE DEF less
<1>2. PICK i \in a.bitmap : \A j \in a.bitmap : ~ (<<j, i>> \in less)
  BY <1>1, <1>b, WFMin
<1>3. ASSUME NEW j \in a.bitmap PROVE i <= j
  <2>1. i \in Nat /\ j \in Nat /\ ~ (<<j, i>> \in less)
    BY <1>1, <1>2
  <2>2. ~ (j < i)
    BY <1>a, <2>1
  <2> QED BY <2>1, <2>2
<1> QED BY <1>3 DEF LowestBit

\* pop() returns a task of the best priority held, and removes exactly it.
LEMMA PopHolds ==
  ASSUME NEW a, WellFormed(a), ~ArrayEmpty(a)
  PROVE  LET t == PopTask(a)
         IN  /\ t \in Task
             /\ WellFormed(Pop(a))
             /\ \E p \in Prio :
                  /\ Holds(a, t, p)
                  /\ \A u \in Task : \A o \in Prio : Holds(a, u, o) => p <= o
                  /\ \A u : \A o \in Prio :
                       Holds(Pop(a), u, o) <=> Holds(a, u, o) /\ ~(u = t /\ o = p)
<1> DEFINE i == LowestBit(a)
           b == a.queues[i]
           q == Tail(b)
           t == PopTask(a)
           p == kBasePrio + i
<1>1. i \in a.bitmap /\ \A j \in a.bitmap : i <= j
  BY LowestBitIsLowest DEF WellFormed
<1>2. i \in Idx /\ b \in Seq(Task) /\ IsInjective(b) /\ b # << >>
  BY <1>1 DEF WellFormed, Array
<1>3. /\ t = Head(b) /\ t \in Task /\ Found(b, t)
      /\ q \in Seq(Task) /\ IsInjective(q)
      /\ \A u : Found(q, u) <=> u # t /\ Found(b, u)
  BY <1>2, TailSeq DEF PopTask
<1>4. p \in Prio /\ p - kBasePrio = i /\ \A o \in Prio : o - kBasePrio = i <=> o = p
  BY <1>2, IdxOfPrio
<1>5. Holds(a, t, p)
  BY <1>3, <1>4 DEF Holds
<1>6. ASSUME NEW u \in Task, NEW o \in Prio, Holds(a, u, o)
      PROVE  p <= o
  <2>1. o - kBasePrio \in a.bitmap
    BY <1>6, IdxOfPrio DEF WellFormed, Holds, Found
  <2>2. i <= o - kBasePrio
    BY <1>1, <2>1
  <2> QED BY <1>2, <2>2, PrioAssumption DEF Prio, Idx
<1>7. Pop(a) = [bitmap |-> BitsAfter(a, i, q), queues |-> [a.queues EXCEPT ![i] = q]]
  BY DEF Pop
<1> HIDE DEF i, q, t
<1>8. /\ WellFormed(Pop(a))
      /\ \A u : \A o \in Prio : Holds(Pop(a), u, o)
             <=> IF o - kBasePrio = i THEN Found(q, u) ELSE Holds(a, u, o)
  <2>1. /\ BitsAfter(a, i, q) \in SUBSET Idx
        /\ i \in BitsAfter(a, i, q) <=> q # << >>
        /\ \A j \in Idx \ {i} : j \in BitsAfter(a, i, q) <=> j \in a.bitmap
    BY <1>1, <1>2, BitsAfterBits
  <2> QED BY <1>2, <1>3, <1>7, <2>1, ReplaceBucket
<1>9. \A u : \A o \in Prio : Holds(Pop(a), u, o) <=> Holds(a, u, o) /\ ~(u = t /\ o = p)
  BY <1>3, <1>4, <1>8 DEF Holds
<1> QED BY <1>3, <1>4, <1>5, <1>6, <1>8, <1>9 DEF t

\* erase() of a task it finds removes exactly that task.
LEMMA EraseHolds ==
  ASSUME NEW a, WellFormed(a), NEW t \in Task, NEW p \in Prio, Holds(a, t, p)
  PROVE  /\ WellFormed(EraseFrom(a, t, p))
         /\ \A u : \A o \in Prio : Holds(EraseFrom(a, t, p), u, o)
                                     <=> Holds(a, u, o) /\ ~(u = t /\ o = p)
<1> DEFINE i == p - kBasePrio
           b == a.queues[i]
           q == EraseAt(b, Find(b, t))
<1>1. /\ i \in Idx /\ b \in Seq(Task) /\ IsInjective(b) /\ Found(b, t)
      /\ i \in a.bitmap
  BY IdxOfPrio DEF WellFormed, Array, Holds, Found
<1>2. /\ q \in Seq(Task) /\ IsInjective(q)
      /\ \A u : Found(q, u) <=> u # t /\ Found(b, u)
  BY <1>1, RemoveSeq
<1>3. EraseFrom(a, t, p) = [bitmap |-> BitsAfter(a, i, q), queues |-> [a.queues EXCEPT ![i] = q]]
  BY DEF EraseFrom
<1> HIDE DEF q
<1>4. /\ WellFormed(EraseFrom(a, t, p))
      /\ \A u : \A o \in Prio : Holds(EraseFrom(a, t, p), u, o)
             <=> IF o - kBasePrio = i THEN Found(q, u) ELSE Holds(a, u, o)
  <2>1. /\ BitsAfter(a, i, q) \in SUBSET Idx
        /\ i \in BitsAfter(a, i, q) <=> q # << >>
        /\ \A j \in Idx \ {i} : j \in BitsAfter(a, i, q) <=> j \in a.bitmap
    BY <1>1, BitsAfterBits
  <2> QED BY <1>1, <1>2, <1>3, <2>1, ReplaceBucket
<1>5. \A o \in Prio : o - kBasePrio = i <=> o = p
  BY IdxOfPrio
<1> QED BY <1>2, <1>4, <1>5 DEF Holds

-----------------------------------------------------------------------------
(* One CPU.                                                                *)

\* The run queue holds exactly the kQueued tasks, each once and in the bucket
\* of its priority.
RqInv ==
  /\ WellFormed(active) /\ WellFormed(expired)
  /\ \A t \in Task, p \in Prio : Holds(active, t, p) \/ Holds(expired, t, p) =>
       run_state[t] = "kQueued" /\ static_priority[t] = p
  /\ \A t \in Task, p \in Prio : ~(Holds(active, t, p) /\ Holds(expired, t, p))
  /\ QueuedIsInRq

IInv == TypeOK /\ RqInv /\ StatesAgree /\ QueuedHasTime

\* RqInv is the four properties of the run queue.
LEMMA RqInvMeaning ==
  ASSUME RqInv
  PROVE  BitmapExact /\ NoDuplicates /\ InOwnBucket /\ QueuedIsInRq
<1>1. BitmapExact /\ \A a \in {active, expired} : \A i \in Idx : IsInjective(a.queues[i])
  BY DEF RqInv, WellFormed, BitmapExact
<1>2. InOwnBucket
  BY DEF RqInv, InOwnBucket
<1>3. ASSUME NEW t \in Task, InArray(active, t), InArray(expired, t) PROVE FALSE
  <2>1. PICK p \in Prio : Holds(active, t, p)
    BY <1>3 DEF InArray
  <2>2. PICK o \in Prio : Holds(expired, t, o)
    BY <1>3 DEF InArray
  <2> QED BY <2>1, <2>2 DEF RqInv
<1> QED BY <1>1, <1>2, <1>3 DEF NoDuplicates, RqInv

-----------------------------------------------------------------------------
\* The time left after a charge.
LEMMA ChargedType ==
  ASSUME NEW r \in 0 .. TimeSlice, NEW u \in Nat
  PROVE  Charged(r, u) \in 0 .. TimeSlice
BY SliceAssumption DEF Charged

\* What a step with an Enqueue() of t has done.
Enqueued(t) ==
  /\ RqInv'
  /\ active' \in Array /\ expired' \in Array
  /\ run_state' \in [Task -> RunState]
  /\ run_state' = [run_state EXCEPT ![t] = "kQueued"]
  /\ static_priority' \in [Task -> Prio]
  /\ prio_boost' \in [Task -> BOOLEAN]
  /\ remaining_time' \in [Task -> 0 .. TimeSlice]
  /\ remaining_time'[t] > 0
  /\ \A u \in Task \ {t} : remaining_time'[u] = remaining_time[u]

\* Enqueue() of a task that is not queued keeps the run queue consistent, and
\* gives the task time to run.
LEMMA EnqueueRq ==
  ASSUME TypeOK, RqInv,
         NEW t \in Task, NEW p \in Prio, NEW b \in BOOLEAN, NEW r \in 0 .. TimeSlice,
         run_state[t] # "kQueued",
         Enqueue(t, p, b, r),
         static_priority' = [static_priority EXCEPT ![t] = p]
  PROVE  Enqueued(t)
<1>1. /\ run_state' = [run_state EXCEPT ![t] = "kQueued"]
      /\ run_state' \in [Task -> RunState]
      /\ prio_boost' \in [Task -> BOOLEAN]
      /\ static_priority' \in [Task -> Prio]
  BY DEF TypeOK, Enqueue, RunState
<1>2. \A o \in Prio : ~Holds(active, t, o) /\ ~Holds(expired, t, o)
  BY DEF RqInv
<1>3. \A u \in Task \ {t} : run_state'[u] = run_state[u] /\ static_priority'[u] = static_priority[u]
  BY DEF TypeOK, Enqueue
<1>4. run_state'[t] = "kQueued" /\ static_priority'[t] = p
  BY DEF TypeOK, Enqueue
<1>5. CASE r > 0
  <2>1. /\ active' = Push(active, t, p, b) /\ expired' = expired
        /\ remaining_time' = [remaining_time EXCEPT ![t] = r]
    BY <1>5 DEF Enqueue
  <2>2. /\ WellFormed(active')
        /\ \A u \in Task : \A o \in Prio :
             Holds(active', u, o) <=> (u = t /\ o = p) \/ Holds(active, u, o)
    BY <1>2, <2>1, PushHolds DEF RqInv
  <2>3. WellFormed(expired') /\ \A u \in Task, o \in Prio : Holds(expired', u, o) <=> Holds(expired, u, o)
    BY <2>1 DEF RqInv
  <2>4. \A u \in Task, o \in Prio : Holds(active', u, o) \/ Holds(expired', u, o) =>
          run_state'[u] = "kQueued" /\ static_priority'[u] = o
    BY <1>2, <1>3, <1>4, <2>2, <2>3 DEF RqInv
  <2>5. \A u \in Task, o \in Prio : ~(Holds(active', u, o) /\ Holds(expired', u, o))
    BY <1>2, <2>2, <2>3 DEF RqInv
  <2>6. ASSUME NEW u \in Task, run_state'[u] = "kQueued"
        PROVE  Holds(active', u, static_priority'[u]) \/ Holds(expired', u, static_priority'[u])
    <3>1. CASE u = t
      BY <1>4, <2>2, <3>1
    <3>2. CASE u # t
      BY <1>3, <2>2, <2>3, <2>6, <3>2 DEF RqInv, QueuedIsInRq, TypeOK
    <3> QED BY <3>1, <3>2
  <2>7. RqInv'
    BY <2>2, <2>3, <2>4, <2>5, <2>6 DEF RqInv, QueuedIsInRq
  <2>8. /\ remaining_time' \in [Task -> 0 .. TimeSlice] /\ remaining_time'[t] > 0
        /\ \A u \in Task \ {t} : remaining_time'[u] = remaining_time[u]
    BY <1>5, <2>1 DEF TypeOK
  <2> QED BY Zenon, <1>1, <2>2, <2>3, <2>7, <2>8 DEF WellFormed, Enqueued
<1>6. CASE ~(r > 0)
  <2>1. /\ expired' = Push(expired, t, p, b) /\ active' = active
        /\ remaining_time' = [remaining_time EXCEPT ![t] = TimeSlice]
    BY <1>6 DEF Enqueue
  <2>2. /\ WellFormed(expired')
        /\ \A u \in Task : \A o \in Prio :
             Holds(expired', u, o) <=> (u = t /\ o = p) \/ Holds(expired, u, o)
    BY <1>2, <2>1, PushHolds DEF RqInv
  <2>3. WellFormed(active') /\ \A u \in Task, o \in Prio : Holds(active', u, o) <=> Holds(active, u, o)
    BY <2>1 DEF RqInv
  <2>4. \A u \in Task, o \in Prio : Holds(active', u, o) \/ Holds(expired', u, o) =>
          run_state'[u] = "kQueued" /\ static_priority'[u] = o
    BY <1>2, <1>3, <1>4, <2>2, <2>3 DEF RqInv
  <2>5. \A u \in Task, o \in Prio : ~(Holds(active', u, o) /\ Holds(expired', u, o))
    BY <1>2, <2>2, <2>3 DEF RqInv
  <2>6. ASSUME NEW u \in Task, run_state'[u] = "kQueued"
        PROVE  Holds(active', u, static_priority'[u]) \/ Holds(expired', u, static_priority'[u])
    <3>1. CASE u = t
      BY <1>4, <2>2, <3>1
    <3>2. CASE u # t
      BY <1>3, <2>2, <2>3, <2>6, <3>2 DEF RqInv, QueuedIsInRq, TypeOK
    <3> QED BY <3>1, <3>2
  <2>7. RqInv'
    BY <2>2, <2>3, <2>4, <2>5, <2>6 DEF RqInv, QueuedIsInRq
  <2>8. /\ remaining_time' \in [Task -> 0 .. TimeSlice] /\ remaining_time'[t] > 0
        /\ \A u \in Task \ {t} : remaining_time'[u] = remaining_time[u]
    BY <2>1, SliceAssumption DEF TypeOK
  <2> QED BY Zenon, <1>1, <2>2, <2>3, <2>7, <2>8 DEF WellFormed, Enqueued
<1> QED BY <1>5, <1>6

\* Erase() of a queued task, whatever the task becomes, takes exactly it out.
LEMMA EraseRq ==
  ASSUME TypeOK, RqInv, NEW t \in Task, run_state[t] = "kQueued", Erase(t),
         NEW s \in RunState \ {"kQueued"},
         run_state' = [run_state EXCEPT ![t] = s],
         UNCHANGED static_priority
  PROVE  RqInv' /\ active' \in Array /\ expired' \in Array
<1> DEFINE p == static_priority[t]
<1>1. p \in Prio
  BY DEF TypeOK
<1>2. \A u \in Task \ {t} : run_state'[u] = run_state[u]
  BY DEF TypeOK
<1>3. run_state'[t] # "kQueued"
  BY DEF TypeOK
<1>4. /\ WellFormed(active') /\ WellFormed(expired')
      /\ \A u \in Task, o \in Prio : Holds(active', u, o) <=> Holds(active, u, o) /\ u # t
      /\ \A u \in Task, o \in Prio : Holds(expired', u, o) <=> Holds(expired, u, o) /\ u # t
  <2>1. CASE Holds(active, t, p) /\ active' = EraseFrom(active, t, p) /\ expired' = expired
    <3>1. /\ WellFormed(active')
          /\ \A u \in Task : \A o \in Prio : Holds(active', u, o) <=> Holds(active, u, o) /\ ~(u = t /\ o = p)
      BY <1>1, <2>1, EraseHolds DEF RqInv
    <3>2. \A o \in Prio : Holds(active, t, o) => o = p
      BY DEF RqInv
    <3>3. \A o \in Prio : ~Holds(expired, t, o)
      BY <1>1, <2>1 DEF RqInv
    <3> QED BY <2>1, <3>1, <3>2, <3>3 DEF RqInv
  <2>2. CASE ~Holds(active, t, p) /\ Holds(expired, t, p)
             /\ expired' = EraseFrom(expired, t, p) /\ active' = active
    <3>1. /\ WellFormed(expired')
          /\ \A u \in Task : \A o \in Prio : Holds(expired', u, o) <=> Holds(expired, u, o) /\ ~(u = t /\ o = p)
      BY <1>1, <2>2, EraseHolds DEF RqInv
    <3>2. \A o \in Prio : Holds(expired, t, o) => o = p
      BY DEF RqInv
    <3>3. \A o \in Prio : ~Holds(active, t, o)
      BY <1>1, <2>2 DEF RqInv
    <3> QED BY <2>2, <3>1, <3>2, <3>3 DEF RqInv
  <2> QED BY <2>1, <2>2 DEF Erase
<1>5. \A u \in Task, o \in Prio : Holds(active', u, o) \/ Holds(expired', u, o) =>
        run_state'[u] = "kQueued" /\ static_priority'[u] = o
  BY <1>2, <1>4 DEF RqInv
<1>6. \A u \in Task, o \in Prio : ~(Holds(active', u, o) /\ Holds(expired', u, o))
  BY <1>4 DEF RqInv
<1>7. ASSUME NEW u \in Task, run_state'[u] = "kQueued"
      PROVE  Holds(active', u, static_priority'[u]) \/ Holds(expired', u, static_priority'[u])
  <2>1. u # t /\ run_state[u] = "kQueued" /\ static_priority'[u] = static_priority[u]
        /\ static_priority[u] \in Prio
    BY <1>2, <1>3, <1>7 DEF TypeOK
  <2> QED BY <1>4, <2>1 DEF RqInv, QueuedIsInRq
<1> QED BY <1>4, <1>5, <1>6, <1>7 DEF RqInv, QueuedIsInRq, WellFormed

\* Dequeue() from a queue that is not empty takes out exactly one queued task.
LEMMA DequeueRq ==
  ASSUME TypeOK, RqInv, ~(ArrayEmpty(active) /\ ArrayEmpty(expired)),
         DequeueArrays,
         run_state' = [run_state EXCEPT ![PopTask(PopArray)] = "kRunnable"],
         UNCHANGED static_priority
  PROVE  /\ RqInv' /\ active' \in Array /\ expired' \in Array
         /\ PopTask(PopArray) \in Task
         /\ run_state[PopTask(PopArray)] = "kQueued"
<1> DEFINE t == PopTask(PopArray)
           other == IF ArrayEmpty(active) THEN active ELSE expired
<1>1. WellFormed(PopArray) /\ ~ArrayEmpty(PopArray)
  BY DEF RqInv, PopArray
<1>2. /\ active' = Pop(PopArray) /\ expired' = other
      /\ WellFormed(other)
  BY DEF DequeueArrays, RqInv
<1>3. \A u \in Task, o \in Prio : Holds(active, u, o) \/ Holds(expired, u, o)
                             <=> Holds(PopArray, u, o) \/ Holds(other, u, o)
  BY DEF PopArray
<1>4. \A u \in Task, o \in Prio : ~(Holds(PopArray, u, o) /\ Holds(other, u, o))
  BY DEF PopArray, RqInv
<1>5. PICK p \in Prio :
        /\ t \in Task /\ WellFormed(Pop(PopArray)) /\ Holds(PopArray, t, p)
        /\ \A u : \A o \in Prio :
             Holds(Pop(PopArray), u, o) <=> Holds(PopArray, u, o) /\ ~(u = t /\ o = p)
  BY <1>1, PopHolds
<1> HIDE DEF t, other
<1>6. run_state[t] = "kQueued" /\ static_priority[t] = p
  BY <1>3, <1>5 DEF RqInv
<1>7. \A o \in Prio : (Holds(PopArray, t, o) => o = p) /\ ~Holds(other, t, o)
  BY <1>3, <1>4, <1>5, <1>6 DEF RqInv
<1>8. /\ run_state'[t] = "kRunnable"
      /\ \A u \in Task \ {t} : run_state'[u] = run_state[u]
  BY <1>5 DEF TypeOK, t
<1>9. \A u \in Task, o \in Prio : Holds(active', u, o) \/ Holds(expired', u, o) =>
        run_state'[u] = "kQueued" /\ static_priority'[u] = o
  BY <1>2, <1>3, <1>5, <1>7, <1>8 DEF RqInv
<1>10. \A u \in Task, o \in Prio : ~(Holds(active', u, o) /\ Holds(expired', u, o))
  BY <1>2, <1>4, <1>5
<1>11. ASSUME NEW u \in Task, run_state'[u] = "kQueued"
       PROVE  Holds(active', u, static_priority'[u]) \/ Holds(expired', u, static_priority'[u])
  <2>1. u # t /\ run_state[u] = "kQueued" /\ static_priority'[u] = static_priority[u]
        /\ static_priority[u] \in Prio
    BY <1>8, <1>11 DEF TypeOK
  <2> QED BY <1>2, <1>3, <1>5, <2>1 DEF RqInv, QueuedIsInRq
<1>12. RqInv'
  BY <1>2, <1>5, <1>9, <1>10, <1>11 DEF RqInv, QueuedIsInRq
<1> QED BY <1>2, <1>5, <1>6, <1>12 DEF WellFormed, t

-----------------------------------------------------------------------------
\* The constructors of O1Rq and O1Task leave a CPU that satisfies the invariant.
THEOREM InitInv == Init => IInv
<1> SUFFICES ASSUME Init PROVE IInv
  OBVIOUS
<1> USE DEF Init
<1>1. TypeOK
  <2>1. EmptyArray \in Array
    BY EmptyArrayHolds DEF WellFormed
  <2>2. 120 \in Prio
    BY NiceAssumption
  <2>3. TimeSlice \in 0 .. TimeSlice
    BY SliceAssumption
  <2>4. /\ static_priority \in [Task -> Prio] /\ remaining_time \in [Task -> 0 .. TimeSlice]
        /\ run_state \in [Task -> RunState] /\ prio_boost \in [Task -> BOOLEAN]
    BY <2>2, <2>3 DEF RunState
  <2> QED BY Zenon, <2>1, <2>4 DEF TypeOK
<1>2. RqInv
  BY EmptyArrayHolds DEF RqInv, QueuedIsInRq
<1> QED BY <1>1, <1>2, NoTaskAssumption DEF IInv, StatesAgree, QueuedHasTime

-----------------------------------------------------------------------------
\* A step that ends in Enqueue(): the handlers that queue a task differ only in
\* its priority, its boost and what is left of its slice.
LEMMA EnqueueStep ==
  ASSUME IInv,
         NEW t \in Task, NEW p \in Prio, NEW b \in BOOLEAN, NEW r \in 0 .. TimeSlice,
         run_state[t] # "kQueued",
         Enqueue(t, p, b, r),
         static_priority' = [static_priority EXCEPT ![t] = p],
         preempt_curr' = preempt_curr,
         (current' = current /\ current # t) \/ current' = NoTask,
         \/ next' = next /\ next # t /\ (next # NoTask => current' = current)
         \/ next' = NoTask /\ next \in {t, NoTask}
  PROVE  IInv'
<1>1. TypeOK /\ RqInv /\ StatesAgree /\ QueuedHasTime
  BY DEF IInv
<1>2. Enqueued(t)
  BY Zenon, <1>1, EnqueueRq
<1>3. TypeOK'
  BY <1>1, <1>2 DEF TypeOK, Enqueued
<1>4. run_state'[t] = "kQueued" /\ \A u \in Task \ {t} : run_state'[u] = run_state[u]
  BY <1>1, <1>2 DEF TypeOK, Enqueued
<1>5. StatesAgree'
  BY <1>1, <1>4, NoTaskAssumption DEF StatesAgree, TypeOK
<1>6. QueuedHasTime'
  BY <1>1, <1>2, <1>4 DEF QueuedHasTime, Enqueued
<1> QED BY <1>2, <1>3, <1>5, <1>6 DEF IInv, Enqueued

\* A step that neither touches the arrays nor queues or unqueues a task.
LEMMA RqFrame ==
  ASSUME TypeOK, RqInv, UNCHANGED <<active, expired>>,
         \A t \in Task : run_state'[t] = "kQueued" <=> run_state[t] = "kQueued",
         \A t \in Task : run_state[t] = "kQueued" => static_priority'[t] = static_priority[t]
  PROVE  RqInv'
BY DEF RqInv, QueuedIsInRq

\* Every action keeps IInv.
LEMMA StepInv == IInv /\ [Next]_vars => IInv'
<1> SUFFICES ASSUME IInv, [Next]_vars PROVE IInv'
  OBVIOUS
<1> USE NoTaskAssumption
<1>0. TypeOK /\ RqInv /\ StatesAgree /\ QueuedHasTime
  BY DEF IInv
<1>a. /\ \A n \in Nice : 120 + n \in Prio
      /\ Charges \subseteq Nat /\ TimeSlice \in 0 .. TimeSlice /\ TimeSlice > 0
  BY SliceAssumption, NiceAssumption
<1>b. \A t \in Task : /\ static_priority[t] \in Prio /\ prio_boost[t] \in BOOLEAN
                      /\ remaining_time[t] \in 0 .. TimeSlice
                      /\ [static_priority EXCEPT ![t] = static_priority[t]] = static_priority
  BY <1>0 DEF TypeOK
<1>c. \A t \in Task, u \in Charges : Charged(remaining_time[t], u) \in 0 .. TimeSlice
  BY <1>a, <1>b, ChargedType
<1>1. ASSUME NEW t \in Task, NEW n \in Nice, NEW b \in BOOLEAN, Migrate(t, n, b)
      PROVE  IInv'
  <2>1. /\ run_state[t] = "free" /\ Enqueue(t, 120 + n, b, TimeSlice)
        /\ static_priority' = [static_priority EXCEPT ![t] = 120 + n]
        /\ current' = current /\ preempt_curr' = preempt_curr /\ next' = next
    BY <1>1 DEF Migrate, cpuVars
  <2>2. t # current /\ t # next
    BY <1>0, <2>1 DEF StatesAgree
  <2> QED BY Zenon, <1>a, <2>1, <2>2, EnqueueStep
<1>2. ASSUME NEW t \in Task, NEW b \in BOOLEAN, TaskRunnable(t, b)
      PROVE  IInv'
  <2>1. /\ run_state[t] = "kBlocked" /\ next = NoTask
        /\ Enqueue(t, static_priority[t], b, remaining_time[t])
        /\ static_priority' = static_priority
        /\ current' = current /\ preempt_curr' = preempt_curr /\ next' = next
    BY <1>2 DEF TaskRunnable, cpuVars
  <2>2. t # current
    BY <1>0, <2>1 DEF StatesAgree
  <2> QED BY <1>b, <2>1, <2>2, EnqueueStep
<1>3. ASSUME NEW t \in Task, NEW u \in Charges, TaskBlocked(t, u)
      PROVE  IInv'
  <2>1. TypeOK'
    BY <1>0, <1>3, <1>c DEF TypeOK, TaskBlocked, ClearCurrent, rqVars, RunState
  <2>2. run_state'[t] = "kBlocked" /\ \A v \in Task \ {t} : run_state'[v] = run_state[v]
                                             /\ remaining_time'[v] = remaining_time[v]
    BY <1>0, <1>3 DEF TypeOK, TaskBlocked
  <2>3. RqInv'
    BY <1>0, <1>3, <2>2, RqFrame DEF TaskBlocked, rqVars
  <2>4. StatesAgree' /\ QueuedHasTime'
    BY <1>0, <1>3, <2>2 DEF StatesAgree, QueuedHasTime, TaskBlocked, ClearCurrent, TypeOK
  <2> QED BY <2>1, <2>3, <2>4 DEF IInv
<1>4. ASSUME NEW t \in Task, NEW u \in Charges, TaskYield(t, u)
      PROVE  IInv'
  <2>1. /\ run_state[t] = "kOnCpu" /\ next = NoTask /\ next' = next
        /\ Enqueue(t, static_priority[t], prio_boost[t], Charged(remaining_time[t], u))
        /\ static_priority' = static_priority /\ preempt_curr' = preempt_curr
        /\ (current' = current /\ current # t) \/ current' = NoTask
    BY <1>4 DEF TaskYield, ClearCurrent
  <2> QED BY <1>b, <1>c, <2>1, EnqueueStep
<1>5. ASSUME NEW t \in Task, NEW u \in Charges, TaskPreempted(t, u)
      PROVE  IInv'
  <2>1. /\ run_state[t] = "kOnCpu" /\ next = NoTask /\ next' = next
        /\ Enqueue(t, static_priority[t], TRUE, Charged(remaining_time[t], u))
        /\ static_priority' = static_priority /\ preempt_curr' = preempt_curr
        /\ (current' = current /\ current # t) \/ current' = NoTask
    BY Zenon, <1>5 DEF TaskPreempted, ClearCurrent
  <2> QED BY Zenon, <1>b, <1>c, <2>1, EnqueueStep
<1>6. ASSUME NEW t \in Task, NEW n \in Nice, TaskRequeued(t, n)
      PROVE  IInv'
  <2> DEFINE p == static_priority[t]
             o == 120 + n
             a == IF Holds(active, t, p) THEN EraseFrom(active, t, p) ELSE active
             e == IF Holds(active, t, p) THEN expired ELSE EraseFrom(expired, t, p)
  <2>1. /\ run_state[t] = "kQueued" /\ run_state' = run_state /\ prio_boost' = prio_boost
        /\ Holds(active, t, p) \/ Holds(expired, t, p)
        /\ static_priority' = [static_priority EXCEPT ![t] = o]
        /\ current' = current /\ next' = next /\ preempt_curr' = preempt_curr
    BY <1>6 DEF TaskRequeued, cpuVars
  <2>2. remaining_time[t] > 0
    BY <1>0, <2>1 DEF QueuedHasTime
  <2>3. active' = Push(a, t, o, prio_boost[t]) /\ expired' = e
        /\ remaining_time' = [remaining_time EXCEPT ![t] = remaining_time[t]]
    BY Zenon, <1>6, <2>2 DEF TaskRequeued
  <2>4. remaining_time' = remaining_time
    BY <1>0, <2>3 DEF TypeOK
  <2>5. /\ WellFormed(a) /\ WellFormed(e)
        /\ \A v \in Task, q \in Prio : Holds(a, v, q) <=> Holds(active, v, q) /\ v # t
        /\ \A v \in Task, q \in Prio : Holds(e, v, q) <=> Holds(expired, v, q) /\ v # t
    <3>1. p \in Prio
      BY <1>b
    <3>2. \A q \in Prio : Holds(active, t, q) \/ Holds(expired, t, q) => q = p
      BY <1>0 DEF RqInv
    <3>3. CASE Holds(active, t, p)
      <4>1. /\ WellFormed(EraseFrom(active, t, p))
            /\ \A v \in Task : \A q \in Prio : Holds(EraseFrom(active, t, p), v, q)
                                   <=> Holds(active, v, q) /\ ~(v = t /\ q = p)
        BY <1>0, <3>1, <3>3, EraseHolds DEF RqInv
      <4>2. \A q \in Prio : ~Holds(expired, t, q)
        BY <1>0, <3>1, <3>2, <3>3 DEF RqInv
      <4> QED BY <1>0, <3>2, <3>3, <4>1, <4>2 DEF RqInv
    <3>4. CASE ~Holds(active, t, p)
      <4>1. /\ WellFormed(EraseFrom(expired, t, p))
            /\ \A v \in Task : \A q \in Prio : Holds(EraseFrom(expired, t, p), v, q)
                                   <=> Holds(expired, v, q) /\ ~(v = t /\ q = p)
        BY <1>0, <2>1, <3>1, <3>4, EraseHolds DEF RqInv
      <4>2. \A q \in Prio : ~Holds(active, t, q)
        BY <3>2, <3>4
      <4> QED BY <1>0, <3>2, <3>4, <4>1, <4>2 DEF RqInv
    <3> QED BY <3>3, <3>4
  <2>6. o \in Prio /\ prio_boost[t] \in BOOLEAN
    BY <1>a, <1>b
  <2> HIDE DEF a, e, o
  <2>7. /\ WellFormed(active') /\ WellFormed(expired')
        /\ \A v \in Task : \A q \in Prio : Holds(active', v, q) <=> (v = t /\ q = o) \/ Holds(a, v, q)
        /\ \A v \in Task : \A q \in Prio : Holds(expired', v, q) <=> Holds(e, v, q)
    BY <2>3, <2>5, <2>6, PushHolds
  <2>8. /\ static_priority'[t] = o
        /\ \A v \in Task \ {t} : static_priority'[v] = static_priority[v] /\ static_priority[v] \in Prio
    BY <1>0, <2>1 DEF TypeOK
  <2>9. RqInv'
    <3>1. \A v \in Task, q \in Prio : Holds(active', v, q) \/ Holds(expired', v, q) =>
            run_state'[v] = "kQueued" /\ static_priority'[v] = q
      BY <1>0, <2>1, <2>5, <2>7, <2>8 DEF RqInv
    <3>2. \A v \in Task, q \in Prio : ~(Holds(active', v, q) /\ Holds(expired', v, q))
      BY <1>0, <2>5, <2>7 DEF RqInv
    <3>3. QueuedIsInRq'
      BY SMTT(30), <1>0, <2>1, <2>5, <2>6, <2>7, <2>8 DEF RqInv, QueuedIsInRq
    <3> QED BY <2>7, <3>1, <3>2, <3>3 DEF RqInv
  <2>10. static_priority' \in [Task -> Prio]
    BY <1>0, <2>1, <2>6 DEF TypeOK
  <2>11. TypeOK'
    BY <1>0, <2>1, <2>4, <2>7, <2>10 DEF TypeOK, WellFormed
  <2>12. StatesAgree' /\ QueuedHasTime'
    BY <1>0, <2>1, <2>4 DEF StatesAgree, QueuedHasTime
  <2> QED BY <2>9, <2>11, <2>12 DEF IInv
<1>7. ASSUME NEW t \in Task, NEW n \in Nice, TaskPriorityChanged(t, n)
      PROVE  IInv'
  <2>1. TypeOK'
    BY <1>0, <1>7, <1>a DEF TypeOK, TaskPriorityChanged, rqVars, cpuVars
  <2>2. RqInv'
    BY <1>0, <1>7, RqFrame DEF TaskPriorityChanged, rqVars, TypeOK
  <2>3. StatesAgree' /\ QueuedHasTime'
    BY <1>0, <1>7 DEF StatesAgree, QueuedHasTime, TaskPriorityChanged, cpuVars
  <2> QED BY <2>1, <2>2, <2>3 DEF IInv
<1>8. ASSUME NEW t \in Task, TaskDeparted(t)
      PROVE  IInv'
  <2>1. /\ next = NoTask /\ run_state' = [run_state EXCEPT ![t] = "free"]
        /\ UNCHANGED <<preempt_curr, next, static_priority, prio_boost, remaining_time>>
    BY <1>8 DEF TaskDeparted
  <2>2. run_state'[t] = "free" /\ \A v \in Task \ {t} : run_state'[v] = run_state[v]
    BY <1>0, <2>1 DEF TypeOK
  <2>3. current' \in {current, NoTask} /\ (current' = t => current' = NoTask)
    BY <1>0, <1>8 DEF TaskDeparted, ClearCurrent, StatesAgree
  <2>4. RqInv' /\ active' \in Array /\ expired' \in Array
    <3>1. CASE run_state[t] = "kQueued"
      <4>1. Erase(t)
        BY <1>8, <3>1 DEF TaskDeparted
      <4> QED BY Zenon, <1>0, <2>1, <3>1, <4>1, EraseRq DEF RunState
    <3>2. CASE run_state[t] # "kQueued"
      <4>1. UNCHANGED <<active, expired>>
        BY <1>8, <3>2 DEF TaskDeparted, rqVars
      <4> QED BY <1>0, <2>1, <2>2, <3>2, <4>1, RqFrame DEF TypeOK
    <3> QED BY <3>1, <3>2
  <2>5. TypeOK'
    BY <1>0, <2>1, <2>3, <2>4 DEF TypeOK, RunState
  <2>6. StatesAgree' /\ QueuedHasTime'
    BY <1>0, <2>1, <2>2, <2>3 DEF StatesAgree, QueuedHasTime, TypeOK
  <2> QED BY <2>4, <2>5, <2>6 DEF IInv
<1>9. ASSUME NEW u \in Charges, CpuTick(u)
      PROVE  IInv'
  <2>1. current \in Task /\ run_state[current] = "kOnCpu"
    BY <1>0, <1>9 DEF CpuTick, StatesAgree, TypeOK
  <2>2. TypeOK'
    BY <1>0, <1>9, <1>c, <2>1 DEF TypeOK, CpuTick, rqVars
  <2>3. RqInv'
    BY <1>0, <1>9, RqFrame DEF CpuTick, rqVars
  <2>4. \A t \in Task : t # current => remaining_time'[t] = remaining_time[t]
    BY <1>0, <1>9 DEF TypeOK, CpuTick
  <2>5. StatesAgree' /\ QueuedHasTime'
    BY <1>0, <1>9, <2>1, <2>4 DEF StatesAgree, QueuedHasTime, CpuTick
  <2> QED BY <2>2, <2>3, <2>5 DEF IInv
<1>10. ASSUME NEW boosted \in BOOLEAN, O1Schedule(boosted)
       PROVE  IInv'
  <2> DEFINE over == preempt_curr /\ current # NoTask
             cur  == IF over /\ ~RqEmpty THEN NoTask ELSE current
             pop  == ~boosted /\ cur = NoTask /\ ~(ArrayEmpty(active) /\ ArrayEmpty(expired))
  <2>1. /\ next = NoTask /\ preempt_curr' = FALSE /\ current' = cur
        /\ cur \in {current, NoTask}
        /\ static_priority' = static_priority /\ prio_boost' = prio_boost
    BY <1>10 DEF O1Schedule
  <2>2. /\ remaining_time' \in [Task -> 0 .. TimeSlice]
        /\ \A t \in Task : remaining_time'[t] = remaining_time[t] \/ remaining_time'[t] > 0
    <3>1. CASE over /\ RqEmpty
      <4>1. remaining_time' = [remaining_time EXCEPT ![current] = TimeSlice]
        BY <1>10, <3>1 DEF O1Schedule
      <4> QED BY Zenon, <1>0, <1>a, <4>1 DEF TypeOK
    <3>2. CASE ~(over /\ RqEmpty)
      <4>1. remaining_time' = remaining_time
        BY <1>10, <3>2 DEF O1Schedule
      <4> QED BY <1>0, <4>1 DEF TypeOK
    <3> QED BY <3>1, <3>2
  <2>3. CASE pop
    <3> DEFINE t == PopTask(PopArray)
    <3>1. /\ DequeueArrays /\ next' = t /\ cur = NoTask
          /\ run_state' = [run_state EXCEPT ![t] = "kRunnable"]
          /\ ~(ArrayEmpty(active) /\ ArrayEmpty(expired))
      BY <1>10, <2>3 DEF O1Schedule
    <3>2. /\ RqInv' /\ active' \in Array /\ expired' \in Array
          /\ t \in Task /\ run_state[t] = "kQueued"
      BY <1>0, <2>1, <3>1, DequeueRq
    <3> HIDE DEF t
    <3>3. run_state'[t] = "kRunnable" /\ \A v \in Task \ {t} : run_state'[v] = run_state[v]
      BY <1>0, <3>1, <3>2 DEF TypeOK
    <3>4. TypeOK'
      BY Zenon, <1>0, <2>1, <2>2, <3>1, <3>2 DEF TypeOK, RunState
    <3>5. StatesAgree' /\ QueuedHasTime'
      BY <1>0, <2>1, <2>2, <3>1, <3>2, <3>3 DEF StatesAgree, QueuedHasTime
    <3> QED BY <3>2, <3>4, <3>5 DEF IInv
  <2>4. CASE ~pop
    <3>1. /\ next' \in {cur, NoTask} /\ run_state' = run_state
          /\ UNCHANGED <<active, expired>>
      BY <1>10, <2>4 DEF O1Schedule, rqVars
    <3> HIDE DEF cur
    <3>2. TypeOK'
      BY Zenon, <1>0, <2>1, <2>2, <3>1 DEF TypeOK
    <3>3. RqInv'
      BY <1>0, <2>1, <3>1, RqFrame
    <3>4. StatesAgree' /\ QueuedHasTime'
      BY <1>0, <2>1, <2>2, <3>1 DEF StatesAgree, QueuedHasTime
    <3> QED BY <3>2, <3>3, <3>4 DEF IInv
  <2> QED BY <2>3, <2>4
<1>11. ASSUME CommitOk PROVE IInv'
  <2>1. next \in Task /\ run_state[next] \in {"kOnCpu", "kRunnable"}
    BY <1>0, <1>11 DEF CommitOk, StatesAgree, TypeOK
  <2>2. TypeOK'
    BY <1>0, <1>11, <2>1 DEF TypeOK, CommitOk, rqVars, RunState
  <2>3. run_state'[next] = "kOnCpu" /\ \A t \in Task \ {next} : run_state'[t] = run_state[t]
    BY <1>0, <1>11, <2>1 DEF TypeOK, CommitOk
  <2>4. RqInv'
    BY <1>0, <1>11, <2>1, <2>3, RqFrame DEF CommitOk, rqVars
  <2>5. StatesAgree' /\ QueuedHasTime'
    BY <1>0, <1>11, <2>1, <2>3 DEF StatesAgree, QueuedHasTime, CommitOk
  <2> QED BY <2>2, <2>4, <2>5 DEF IInv
<1>12. ASSUME NEW u \in Charges, CommitFailed(u)
       PROVE  IInv'
  <2>1. next \in Task /\ run_state[next] \in {"kOnCpu", "kRunnable"}
    BY <1>0, <1>12 DEF CommitFailed, StatesAgree, TypeOK
  <2> DEFINE r == IF next = current THEN Charged(remaining_time[next], u) ELSE remaining_time[next]
  <2>2. r \in 0 .. TimeSlice
    BY <1>b, <1>c, <2>1
  <2>3. /\ Enqueue(next, static_priority[next], TRUE, r)
        /\ static_priority' = static_priority /\ preempt_curr' = preempt_curr /\ next' = NoTask
        /\ (current' = current /\ current # next) \/ current' = NoTask
    BY Zenon, <1>12 DEF CommitFailed, ClearCurrent
  <2> HIDE DEF r
  <2> QED BY Zenon, <1>b, <2>1, <2>2, <2>3, EnqueueStep
<1>13. ASSUME UNCHANGED vars PROVE IInv'
  BY Zenon, <1>0, <1>13 DEF IInv, vars, TypeOK, RqInv, StatesAgree, QueuedHasTime, QueuedIsInRq
<1> QED BY <1>1, <1>2, <1>3, <1>4, <1>5, <1>6, <1>7, <1>8, <1>9, <1>10, <1>11, <1>12, <1>13
        DEF Next

-----------------------------------------------------------------------------
\* Every reachable state of a CPU of the O1 scheduler satisfies IInv.
THEOREM Invariance == Spec => []IInv
BY InitInv, StepInv, PTL DEF Spec

\* Fields keep their types: in particular every static_priority has a bucket.
THEOREM TypeCorrect == Spec => []TypeOK
<1>1. IInv => TypeOK
  BY DEF IInv
<1> QED BY <1>1, Invariance, PTL

\* The run queue is consistent: the bitmap is exact, no task is queued twice, a
\* queued task is in the bucket of its current priority with time left and none is
\* lost, so the CHECK(false) of O1Rq::Erase() and the CHECKs of O1Rq::Dequeue() never
\* fail.
THEOREM RunQueueConsistent == Spec => []RunQueueOK
<1>1. IInv => RunQueueOK
  BY RqInvMeaning DEF IInv, RunQueueOK
<1> QED BY <1>1, Invariance, PTL

\* current is on the CPU and kRunnable is transitory, after any sequence of
\* messages, ticks and failed commits.
THEOREM TaskStatesAgree == Spec => []StatesAgree
<1>1. IInv => StatesAgree
  BY DEF IInv
<1> QED BY <1>1, Invariance, PTL

-----------------------------------------------------------------------------
(* The refinement of O1Policy: every step of the CPU is a step of the policy *)
(* on the sets of tasks that the two arrays hold, or changes none of them.  *)

\* A push adds its task, and no other, to the array.
LEMMA PushIn ==
  ASSUME NEW a, WellFormed(a), NEW t \in Task, NEW p \in Prio, NEW b \in BOOLEAN, ~Holds(a, t, p)
  PROVE  \A u \in Task : InArray(Push(a, t, p, b), u) <=> u = t \/ InArray(a, u)
<1>1. \A u : \A o \in Prio : Holds(Push(a, t, p, b), u, o) <=> (u = t /\ o = p) \/ Holds(a, u, o)
  BY Zenon, PushHolds
<1> QED BY <1>1 DEF InArray

\* erase() of the only occurrence takes the task, and no other, out of the array.
LEMMA EraseIn ==
  ASSUME NEW a, WellFormed(a), NEW t \in Task, NEW p \in Prio, Holds(a, t, p),
         \A o \in Prio : Holds(a, t, o) => o = p
  PROVE  \A u \in Task : InArray(EraseFrom(a, t, p), u) <=> u # t /\ InArray(a, u)
<1>1. \A u : \A o \in Prio : Holds(EraseFrom(a, t, p), u, o)
                               <=> Holds(a, u, o) /\ ~(u = t /\ o = p)
  BY Zenon, EraseHolds
<1> QED BY <1>1 DEF InArray

\* The sets are the kQueued tasks, each in one of them.
LEMMA QueuedSets ==
  ASSUME TypeOK, RqInv, NEW t \in Task
  PROVE  /\ static_priority[t] \in Prio
         /\ t \in Running <=> Holds(active, t, static_priority[t])
         /\ t \in Waiting <=> Holds(expired, t, static_priority[t])
         /\ t \in Running \cup Waiting <=> run_state[t] = "kQueued"
         /\ ~(t \in Running /\ t \in Waiting)
         /\ \A p \in Prio : Holds(active, t, p) \/ Holds(expired, t, p) => p = static_priority[t]
<1>1. static_priority[t] \in Prio
  BY DEF TypeOK
<1> QED BY Zenon, <1>1 DEF RqInv, QueuedIsInRq, Running, Waiting, InArray

\* A step with an Enqueue() is the policy's Add.
LEMMA EnqueueAdds ==
  ASSUME IInv, NEW t \in Task, NEW p \in Prio, NEW b \in BOOLEAN, NEW r \in 0 .. TimeSlice,
         run_state[t] # "kQueued", Enqueue(t, p, b, r),
         static_priority' = [static_priority EXCEPT ![t] = p],
         Picked' \in {Picked, NoTask}
  PROVE  Policy!Next
<1>1. TypeOK /\ RqInv /\ WellFormed(active) /\ WellFormed(expired)
  BY DEF IInv, RqInv
<1>2. t \notin Running \cup Waiting /\ ~Holds(active, t, p) /\ ~Holds(expired, t, p)
  BY <1>1, QueuedSets DEF Running, Waiting, InArray
<1>3. \/ Running' = Running \cup {t} /\ Waiting' = Waiting
      \/ Waiting' = Waiting \cup {t} /\ Running' = Running
  <2>1. CASE r > 0
    <3>1. active' = Push(active, t, p, b) /\ expired' = expired
      BY <2>1 DEF Enqueue
    <3>2. \A u \in Task : InArray(active', u) <=> u = t \/ InArray(active, u)
      BY Zenon, <1>1, <1>2, <3>1, PushIn
    <3> QED BY <3>1, <3>2 DEF Running, Waiting
  <2>2. CASE ~(r > 0)
    <3>1. expired' = Push(expired, t, p, b) /\ active' = active
      BY <2>2 DEF Enqueue
    <3>2. \A u \in Task : InArray(expired', u) <=> u = t \/ InArray(expired, u)
      BY Zenon, <1>1, <1>2, <3>1, PushIn
    <3> QED BY <3>1, <3>2 DEF Running, Waiting
  <2> QED BY <2>1, <2>2
<1>4. Policy!Add(t)
  BY Zenon, <1>2, <1>3 DEF Policy!Add
<1> QED BY <1>4 DEF Policy!Next

\* The policy does not see a step that changes neither the arrays nor a priority.
LEMMA Unseen ==
  ASSUME UNCHANGED <<active, expired, static_priority>>, Picked' = Picked
  PROVE  UNCHANGED Policy!vars
BY DEF Policy!vars, Running, Waiting

\* Erase() of a queued task.
LEMMA EraseRemoves ==
  ASSUME IInv, NEW t \in Task, run_state[t] = "kQueued", Erase(t)
  PROVE  Running' = Running \ {t} /\ Waiting' = Waiting \ {t}
<1> DEFINE p == static_priority[t]
<1>1. TypeOK /\ RqInv /\ WellFormed(active) /\ WellFormed(expired)
  BY Zenon DEF IInv, RqInv
<1>2. /\ p \in Prio /\ \A o \in Prio : Holds(active, t, o) \/ Holds(expired, t, o) => o = p
      /\ t \in Running <=> Holds(active, t, p)
      /\ t \in Waiting <=> Holds(expired, t, p)
      /\ ~(t \in Running /\ t \in Waiting)
  BY Zenon, <1>1, QueuedSets
<1>3. CASE Holds(active, t, p) /\ active' = EraseFrom(active, t, p) /\ expired' = expired
  <2>1. \A u \in Task : InArray(active', u) <=> u # t /\ InArray(active, u)
    BY Zenon, <1>1, <1>2, <1>3, EraseIn
  <2> QED BY Zenon, <1>2, <1>3, <2>1 DEF Running, Waiting
<1>4. CASE /\ ~Holds(active, t, p) /\ Holds(expired, t, p)
           /\ expired' = EraseFrom(expired, t, p) /\ active' = active
  <2>1. \A u \in Task : InArray(expired', u) <=> u # t /\ InArray(expired, u)
    BY Zenon, <1>1, <1>2, <1>4, EraseIn
  <2> QED BY Zenon, <1>2, <1>4, <2>1 DEF Running, Waiting
<1> QED BY <1>3, <1>4 DEF Erase

\* A Dequeue() from a queue that is not empty is the policy's Pick.
LEMMA DequeuePicks ==
  ASSUME IInv, ~(ArrayEmpty(active) /\ ArrayEmpty(expired)), DequeueArrays,
         UNCHANGED static_priority, Picked = NoTask, Picked' = PopTask(PopArray)
  PROVE  Policy!Next
<1> DEFINE t == PopTask(PopArray)
<1>1. TypeOK /\ RqInv /\ WellFormed(active) /\ WellFormed(expired)
  BY DEF IInv, RqInv
<1>2. WellFormed(PopArray) /\ ~ArrayEmpty(PopArray)
  BY <1>1 DEF PopArray
<1>3. ArrayEmpty(active) <=> Running = {}
  BY <1>1, EmptyAgrees DEF Running, InArray
<1>4. Policy!Epoch = {u \in Task : InArray(PopArray, u)}
  BY <1>3 DEF Policy!Epoch, PopArray, Running, Waiting
<1>5. PICK p \in Prio :
        /\ t \in Task /\ Holds(PopArray, t, p)
        /\ \A u \in Task : \A o \in Prio : Holds(PopArray, u, o) => p <= o
        /\ \A u : \A o \in Prio :
             Holds(Pop(PopArray), u, o) <=> Holds(PopArray, u, o) /\ ~(u = t /\ o = p)
  BY <1>2, PopHolds
<1> HIDE DEF t
<1>6. \A u \in Task, o \in Prio : Holds(PopArray, u, o) => o = static_priority[u]
  BY Zenon, <1>1, QueuedSets DEF PopArray
<1>7. t \in Policy!Epoch /\ \A u \in Policy!Epoch : static_priority[t] <= static_priority[u]
  BY <1>4, <1>5, <1>6 DEF InArray
<1>8. Running' = Policy!Epoch \ {t}
  <2>1. \A u \in Task : InArray(Pop(PopArray), u) <=> u # t /\ InArray(PopArray, u)
    BY <1>5, <1>6 DEF InArray
  <2> QED BY <1>4, <2>1 DEF DequeueArrays, Running
<1>9. Waiting' = IF Running = {} THEN {} ELSE Waiting
  BY <1>3 DEF DequeueArrays, Running, Waiting
<1>10. Policy!Pick(t)
  BY <1>7, <1>8, <1>9 DEF Policy!Pick, t
<1> QED BY <1>5, <1>10 DEF Policy!Next

\* Every step of the CPU is a step of the policy or one it does not see.
LEMMA StepRefines == IInv /\ [Next]_vars => [Policy!Next]_(Policy!vars)
<1> SUFFICES ASSUME IInv, [Next]_vars PROVE Policy!Next \/ UNCHANGED Policy!vars
  OBVIOUS
<1> USE NoTaskAssumption
<1>0. TypeOK /\ RqInv /\ StatesAgree /\ QueuedHasTime
  BY DEF IInv
<1>a. /\ \A n \in Nice : 120 + n \in Prio
      /\ Charges \subseteq Nat /\ TimeSlice \in 0 .. TimeSlice
  BY SliceAssumption, NiceAssumption
<1>b. \A t \in Task : /\ static_priority[t] \in Prio /\ prio_boost[t] \in BOOLEAN
                      /\ remaining_time[t] \in 0 .. TimeSlice
                      /\ [static_priority EXCEPT ![t] = static_priority[t]] = static_priority
  BY <1>0 DEF TypeOK
<1>c. \A t \in Task, u \in Charges : Charged(remaining_time[t], u) \in 0 .. TimeSlice
  BY <1>a, <1>b, ChargedType
<1>d. /\ next = NoTask => Picked = NoTask
      /\ next' = NoTask => Picked' = NoTask
  BY DEF Picked
<1>1. ASSUME NEW t \in Task, NEW n \in Nice, NEW b \in BOOLEAN, Migrate(t, n, b)
      PROVE  Policy!Next
  <2>1. /\ run_state[t] = "free" /\ Enqueue(t, 120 + n, b, TimeSlice)
        /\ static_priority' = [static_priority EXCEPT ![t] = 120 + n]
        /\ Picked' = Picked
    BY <1>1 DEF Migrate, cpuVars, Picked
  <2> QED BY Zenon, <1>a, <2>1, EnqueueAdds
<1>2. ASSUME NEW t \in Task, NEW b \in BOOLEAN, TaskRunnable(t, b)
      PROVE  Policy!Next
  <2>1. /\ run_state[t] = "kBlocked" /\ static_priority' = static_priority /\ Picked' = NoTask
        /\ Enqueue(t, static_priority[t], b, remaining_time[t])
    BY <1>2, <1>d DEF TaskRunnable, cpuVars
  <2> QED BY <1>b, <2>1, EnqueueAdds
<1>3. ASSUME NEW t \in Task, NEW u \in Charges, TaskBlocked(t, u)
      PROVE  UNCHANGED Policy!vars
  BY <1>3, <1>d, Unseen DEF TaskBlocked, rqVars
<1>4. ASSUME NEW t \in Task, NEW u \in Charges, TaskYield(t, u)
      PROVE  Policy!Next
  <2>1. /\ run_state[t] = "kOnCpu" /\ static_priority' = static_priority /\ Picked' = NoTask
        /\ Enqueue(t, static_priority[t], prio_boost[t], Charged(remaining_time[t], u))
    BY <1>4, <1>d DEF TaskYield
  <2> QED BY <1>b, <1>c, <2>1, EnqueueAdds
<1>5. ASSUME NEW t \in Task, NEW u \in Charges, TaskPreempted(t, u)
      PROVE  Policy!Next
  <2>1. /\ run_state[t] = "kOnCpu" /\ static_priority' = static_priority /\ Picked' = NoTask
        /\ Enqueue(t, static_priority[t], TRUE, Charged(remaining_time[t], u))
    BY Zenon, <1>5, <1>d DEF TaskPreempted
  <2> QED BY Zenon, <1>b, <1>c, <2>1, EnqueueAdds
<1>6. ASSUME NEW t \in Task, NEW n \in Nice, TaskRequeued(t, n)
      PROVE  Policy!Next
  <2> DEFINE p == static_priority[t]
             o == 120 + n
             a == IF Holds(active, t, p) THEN EraseFrom(active, t, p) ELSE active
             e == IF Holds(active, t, p) THEN expired ELSE EraseFrom(expired, t, p)
  <2>1. /\ run_state[t] = "kQueued" /\ Picked' = Picked
        /\ Holds(active, t, p) \/ Holds(expired, t, p)
        /\ static_priority' = [static_priority EXCEPT ![t] = o]
    BY <1>6 DEF TaskRequeued, cpuVars, Picked
  <2>2. active' = Push(a, t, o, prio_boost[t]) /\ expired' = e
    <3>1. remaining_time[t] > 0
      BY Zenon, <1>0, <2>1 DEF QueuedHasTime
    <3> QED BY Zenon, <1>6, <3>1 DEF TaskRequeued
  <2>3. /\ p \in Prio /\ t \in Running \cup Waiting
        /\ \A q \in Prio : Holds(active, t, q) \/ Holds(expired, t, q) => q = p
        /\ ~(Holds(active, t, p) /\ Holds(expired, t, p))
    BY <1>0, <2>1, QueuedSets
  <2>4. /\ WellFormed(a) /\ ~Holds(a, t, o)
        /\ \A u \in Task : InArray(a, u) <=> u # t /\ InArray(active, u)
        /\ \A u \in Task : InArray(e, u) <=> u # t /\ InArray(expired, u)
    <3>0. WellFormed(active) /\ WellFormed(expired) /\ o \in Prio
      BY Zenon, <1>0, <1>a DEF RqInv
    <3>1. CASE Holds(active, t, p)
      <4>1. WellFormed(a) /\ \A u \in Task : InArray(a, u) <=> u # t /\ InArray(active, u)
        BY Zenon, <2>3, <3>0, <3>1, EraseIn, EraseHolds
      <4>2. \A u \in Task : InArray(e, u) <=> u # t /\ InArray(expired, u)
        BY <2>3, <3>1 DEF InArray
      <4> QED BY <3>0, <4>1, <4>2 DEF InArray
    <3>2. CASE ~Holds(active, t, p)
      <4>1. \A u \in Task : InArray(e, u) <=> u # t /\ InArray(expired, u)
        BY Zenon, <2>1, <2>3, <3>0, <3>2, EraseIn
      <4>2. a = active /\ ~InArray(active, t)
        BY <2>3, <3>2 DEF InArray
      <4> QED BY Zenon, <3>0, <4>1, <4>2 DEF InArray
    <3> QED BY Zenon, <3>1, <3>2
  <2>5. o \in Prio /\ prio_boost[t] \in BOOLEAN
    BY <1>a, <1>b
  <2> HIDE DEF a, e, o
  <2>6. \A u \in Task : InArray(active', u) <=> u = t \/ InArray(a, u)
    BY Zenon, <2>2, <2>4, <2>5, PushIn
  <2>7. Running' = Running \cup {t} /\ Waiting' = Waiting \ {t}
    BY <2>2, <2>4, <2>6 DEF Running, Waiting
  <2>8. Policy!Renice(t)
    BY Zenon, <2>1, <2>3, <2>5, <2>7 DEF Policy!Renice
  <2> QED BY <2>8 DEF Policy!Next
<1>7. ASSUME NEW t \in Task, NEW n \in Nice, TaskPriorityChanged(t, n)
      PROVE  Policy!Next
  <2>1. /\ run_state[t] # "kQueued" /\ Picked' = Picked
        /\ static_priority' = [static_priority EXCEPT ![t] = 120 + n]
        /\ Running' = Running /\ Waiting' = Waiting
    BY <1>7 DEF TaskPriorityChanged, rqVars, cpuVars, Picked, Running, Waiting
  <2>2. t \notin Running \cup Waiting
    BY <1>0, <2>1, QueuedSets
  <2>3. Policy!SetPrio(t)
    BY Zenon, <1>a, <2>1, <2>2 DEF Policy!SetPrio
  <2> QED BY <2>3 DEF Policy!Next
<1>8. ASSUME NEW t \in Task, TaskDeparted(t)
      PROVE  Policy!Next \/ UNCHANGED Policy!vars
  <2>1. UNCHANGED static_priority /\ Picked = NoTask /\ Picked' = NoTask
    BY <1>8, <1>d DEF TaskDeparted
  <2>2. CASE run_state[t] = "kQueued"
    <3>1. Running' = Running \ {t} /\ Waiting' = Waiting \ {t}
      BY <1>8, <2>2, EraseRemoves DEF TaskDeparted
    <3>2. t \in Running \cup Waiting
      BY <1>0, <2>2, QueuedSets
    <3>3. Policy!Remove(t)
      BY <2>1, <3>1, <3>2 DEF Policy!Remove
    <3> QED BY <3>3 DEF Policy!Next
  <2>3. CASE run_state[t] # "kQueued"
    BY <1>8, <2>1, <2>3, Unseen DEF TaskDeparted, rqVars
  <2> QED BY <2>2, <2>3
<1>9. ASSUME NEW u \in Charges, CpuTick(u)
      PROVE  UNCHANGED Policy!vars
  BY <1>9, <1>d, Unseen DEF CpuTick, rqVars
<1>10. ASSUME NEW boosted \in BOOLEAN, O1Schedule(boosted)
       PROVE  Policy!Next \/ UNCHANGED Policy!vars
  <2> DEFINE over == preempt_curr /\ current # NoTask
             cur  == IF over /\ ~RqEmpty THEN NoTask ELSE current
             pop  == ~boosted /\ cur = NoTask /\ ~(ArrayEmpty(active) /\ ArrayEmpty(expired))
  <2>1. UNCHANGED static_priority /\ Picked = NoTask /\ current' = cur
    BY <1>10, <1>d DEF O1Schedule
  <2>2. CASE pop
    <3>1. /\ DequeueArrays /\ next' = PopTask(PopArray) /\ cur = NoTask
          /\ ~(ArrayEmpty(active) /\ ArrayEmpty(expired))
      BY <1>10, <2>2 DEF O1Schedule
    <3>2. Picked' = PopTask(PopArray)
      BY <2>1, <3>1 DEF Picked
    <3> QED BY <2>1, <3>1, <3>2, DequeuePicks
  <2>3. CASE ~pop
    <3>1. next' \in {cur, NoTask} /\ UNCHANGED <<active, expired>>
      BY <1>10, <2>3 DEF O1Schedule, rqVars
    <3> HIDE DEF cur
    <3>2. Picked' = NoTask
      BY <2>1, <3>1 DEF Picked
    <3> QED BY <2>1, <3>1, <3>2, Unseen
  <2> QED BY <2>2, <2>3
<1>11. ASSUME CommitOk PROVE Policy!Next \/ UNCHANGED Policy!vars
  <2>1. UNCHANGED <<active, expired, static_priority>> /\ Picked' = NoTask
    BY <1>11, <1>d DEF CommitOk, rqVars
  <2>2. CASE Picked = NoTask
    BY <2>1, <2>2, Unseen
  <2>3. CASE Picked # NoTask
    <3>1. Policy!Run
      BY <2>1, <2>3 DEF Policy!Run, Running, Waiting
    <3> QED BY <3>1 DEF Policy!Next
  <2> QED BY <2>2, <2>3
<1>12. ASSUME NEW u \in Charges, CommitFailed(u)
       PROVE  Policy!Next
  <2>1. next \in Task /\ run_state[next] # "kQueued"
    BY <1>0, <1>12 DEF CommitFailed, StatesAgree, TypeOK
  <2> DEFINE r == IF next = current THEN Charged(remaining_time[next], u) ELSE remaining_time[next]
  <2>2. r \in 0 .. TimeSlice
    BY <1>b, <1>c, <2>1
  <2>3. /\ Enqueue(next, static_priority[next], TRUE, r)
        /\ static_priority' = static_priority /\ Picked' = NoTask
    BY Zenon, <1>12, <1>d DEF CommitFailed
  <2> HIDE DEF r
  <2> QED BY Zenon, <1>b, <2>1, <2>2, <2>3, EnqueueAdds
<1>13. ASSUME UNCHANGED vars PROVE UNCHANGED Policy!vars
  BY <1>13, Unseen DEF vars, Picked
<1> QED BY <1>1, <1>2, <1>3, <1>4, <1>5, <1>6, <1>7, <1>8, <1>9, <1>10, <1>11, <1>12, <1>13
        DEF Next

\* For every set of tasks and number of priorities, the CPU schedules as O1Policy says:
\* Dequeue() takes a task of the best priority of the running epoch, and an expired task
\* waits until the epoch has no task left.
THEOREM ImplementsPolicy == Spec => RefinesPolicy
<1>1. Init => Policy!Init
  <2> SUFFICES ASSUME Init PROVE Policy!Init
    OBVIOUS
  <2>1. Running = {} /\ Waiting = {}
    BY EmptyArrayHolds DEF Init, Running, Waiting, InArray
  <2>2. 120 \in Prio
    BY NiceAssumption
  <2> QED BY <2>1, <2>2 DEF Init, Policy!Init, Picked
<1> QED BY <1>1, Invariance, StepRefines, PTL DEF Spec, RefinesPolicy, Policy!Spec
=============================================================================
