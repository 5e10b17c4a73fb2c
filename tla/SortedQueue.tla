----------------------------- MODULE SortedQueue -----------------------------
(***************************************************************************)
(* What lib/avl.bpf.h promises: the nodes stand in a line by key, a new    *)
(* node behind the nodes of the same key ("ties go to the right").  A node *)
(* that does not fit waits on a stack of orphans; when a node leaves the   *)
(* line, the top orphan is tried again.                                    *)
(***************************************************************************)
EXTENDS Integers, Sequences, SequencesExt

CONSTANTS Id,    \* the nodes
          Keys,  \* Keys[x]: the keys node x may get
          Null

VARIABLES line,    \* the nodes of the tree, in order
          orphans, \* the orphans, the newest one first
          key,     \* key[x]: the key of node x, 0 once it has left
          got      \* the node the last pop returned

qvars == <<line, orphans, key, got>>

\* How many nodes of the line stay in front of a new node with key k.
Before(l, k) == Len(SelectSeq(l, LAMBDA x : key[x] <= k))

\* l with x at the place of its key, for a sorted l.
Placed(l, x, k) == InsertAt(l, Before(l, k) + 1, x)

QInit ==
  /\ line = << >> /\ orphans = << >>
  /\ key = [x \in Id |-> 0]
  /\ got = Null

Insert(x) ==
  \E k \in Keys[x] :
    /\ key' = [key EXCEPT ![x] = k]
    /\ \/ line' = Placed(line, x, k) /\ UNCHANGED orphans
       \/ orphans' = <<x>> \o orphans /\ UNCHANGED line
    /\ got' = Null

\* The rest of the line and of the orphans once x has left the line.
Left(x) ==
  LET rest == Remove(line, x)
  IN  \/ /\ line' = rest
         /\ UNCHANGED orphans
      \/ /\ orphans # << >>
         /\ line' = Placed(rest, Head(orphans), key[Head(orphans)])
         /\ orphans' = Tail(orphans)

Delete(x) ==
  /\ got' = Null
  /\ key' = [key EXCEPT ![x] = 0]
  /\ \/ x \in ToSet(line) /\ Left(x)
     \/ /\ x \in ToSet(orphans)
        /\ orphans' = Remove(orphans, x)
        /\ UNCHANGED line

\* pop_min takes the first and pop_max the last node of the line.
Pop(first) ==
  /\ line # << >>
  /\ LET x == IF first THEN Head(line) ELSE Last(line)
     IN  got' = x /\ key' = [key EXCEPT ![x] = 0] /\ Left(x)

QNext ==
  \/ \E x \in Id : x \notin ToSet(line) \cup ToSet(orphans) /\ Insert(x)
  \/ \E x \in Id : Delete(x)
  \/ Pop(TRUE) \/ Pop(FALSE)

QSpec == QInit /\ [][QNext]_qvars
=============================================================================
