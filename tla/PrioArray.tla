------------------------------ MODULE PrioArray ------------------------------
(***************************************************************************)
(* The prio_array of the O1 scheduler (schedulers/o1/o1_scheduler.h): one  *)
(* FIFO bucket per priority and a bitmap with one bit per bucket, so that  *)
(* the best non-empty bucket is found with one count-trailing-zeros.       *)
(*                                                                         *)
(* An array is a record: "bitmap" is the set of the indices whose bit is   *)
(* set, "queues" maps an index to its deque, front first.  The operators   *)
(* are the member functions; each returns the new array (or the task).     *)
(***************************************************************************)
EXTENDS Integers, Sequences, Functions

CONSTANTS
  Task,        \* the tasks (O1Task objects) the scheduler may meet
  kBasePrio,   \* static_priority of bucket 0 (100 in the code)
  kNumPrio     \* number of buckets (40 in the code)

ASSUME PrioAssumption == kBasePrio \in Nat /\ kNumPrio \in Nat \ {0}

Idx == 0 .. kNumPrio - 1

\* The static priorities whose bucket exists: the CHECKs of push() and erase().
Prio == kBasePrio .. kBasePrio + kNumPrio - 1

Array == [bitmap : SUBSET Idx, queues : [Idx -> Seq(Task)]]

EmptyArray == [bitmap |-> {}, queues |-> [i \in Idx |-> << >>]]

\* empty(): looks at the bitmap only.
ArrayEmpty(a) == a.bitmap = {}

\* size() = 0: looks at the buckets only.
ArraySizeZero(a) == \A i \in Idx : a.queues[i] = << >>

\* push(): into the bucket of priority p, at the front or at the back.
Push(a, t, p, front) ==
  LET i == p - kBasePrio
      q == a.queues[i]
  IN  [bitmap |-> a.bitmap \cup {i},
       queues |-> [a.queues EXCEPT ![i] = IF front THEN <<t>> \o q
                                                   ELSE Append(q, t)]]

\* The bits left after bucket i became q: its bit is cleared when q is empty.
BitsAfter(a, i, q) == IF q = << >> THEN a.bitmap \ {i} ELSE a.bitmap

\* Seeded fault: leading zeros are counted, not trailing ones.
HighestBit(a) == CHOOSE i \in a.bitmap : \A j \in a.bitmap : i >= j

\* __builtin_ctzll(bitmap): the lowest set bit.
LowestBit(a) == CHOOSE i \in a.bitmap : \A j \in a.bitmap : i <= j

\* pop(): the task it returns ...
PopTask(a) == Head(a.queues[LowestBit(a)])

\* ... and the array it leaves.
Pop(a) ==
  LET i == LowestBit(a)
      q == Tail(a.queues[i])
  IN  [bitmap |-> BitsAfter(a, i, q), queues |-> [a.queues EXCEPT ![i] = q]]

\* Whether std::find meets t in a deque.
Found(q, t) == \E n \in 1 .. Len(q) : q[n] = t

\* Whether it does in the bucket of priority p: erase() returns this.
Holds(a, t, p) == Found(a.queues[p - kBasePrio], t)

\* std::find: the first position of t in the bucket.
Find(q, t) == CHOOSE n \in 1 .. Len(q) :
                 /\ q[n] = t
                 /\ \A m \in 1 .. Len(q) : q[m] = t => n <= m

\* deque::erase() of position n.
EraseAt(q, n) == SubSeq(q, 1, n - 1) \o SubSeq(q, n + 1, Len(q))

\* erase(): the array it leaves when it returns true.
EraseFrom(a, t, p) ==
  LET i == p - kBasePrio
      q == EraseAt(a.queues[i], Find(a.queues[i], t))
  IN  [bitmap |-> BitsAfter(a, i, q), queues |-> [a.queues EXCEPT ![i] = q]]

\* t is in some bucket of the array.
InArray(a, t) == \E p \in Prio : Holds(a, t, p)
=============================================================================
