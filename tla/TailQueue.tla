----------------------------- MODULE TailQueue -----------------------------
(***************************************************************************)
(* What lib/queue.bpf.h promises: "Usage is the same as TAILQ", lists of   *)
(* elements with insertion at both ends and beside an element, removal     *)
(* anywhere, and concatenation.                                            *)
(***************************************************************************)
EXTENDS Naturals, Sequences, SequencesExt

CONSTANT List

VARIABLE lists   \* lists[l]: the elements of list l, in order

Free(e) == \A l \in List : e \notin ToSet(lists[l])

Becomes(l, s) == lists' = [lists EXCEPT ![l] = s]

\* e becomes the i-th element of l.
Insert(l, e, i) == Free(e) /\ Becomes(l, InsertAt(lists[l], i, e))

\* The elements of R are taken out of l.
Drop(l, R) == Becomes(l, SelectSeq(lists[l], LAMBDA e : e \notin R))

Concat(l, k) == lists' = [lists EXCEPT ![l] = lists[l] \o lists[k], ![k] = << >>]

InsertHead(l, e) == Insert(l, e, 1)
InsertTail(l, e) == Insert(l, e, Len(lists[l]) + 1)

PositionOf(l, f) == SelectInSeq(lists[l], LAMBDA e : e = f)

InsertBefore(l, f, e) == f \in ToSet(lists[l]) /\ Insert(l, e, PositionOf(l, f))
InsertAfter(l, f, e) == f \in ToSet(lists[l]) /\ Insert(l, e, PositionOf(l, f) + 1)
=============================================================================
