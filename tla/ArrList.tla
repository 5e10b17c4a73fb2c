------------------------------ MODULE ArrList ------------------------------
(***************************************************************************)
(* The doubly linked list of lib/queue.bpf.h, whose elements sit in an     *)
(* array: links are ids, position + 1, and id 0 means no element           *)
(* (lib/arr_structs.bpf.h).  Several lists share the array, an element is  *)
(* in one of them at most.                                                 *)
(***************************************************************************)
EXTENDS Integers, Sequences, SequencesExt, FiniteSets

CONSTANTS List,         \* the list heads
          Size,         \* arr_sz
          EmptyConcat   \* whether an empty list may be appended to another one

VARIABLES head,  \* head[l]: struct arr_list
          elem,  \* elem[i]: struct arr_list_entry of array position i
          op     \* the operation just done, and on what

vars == <<head, elem, op>>

Pos == 0 .. Size - 1
NoElem == Size

\* __id_to_elem and __elem_to_id; BOUNDED_ARRAY_IDX gives no element out of bounds.
Elem(id) == IF id # 0 /\ id - 1 < Size THEN id - 1 ELSE NoElem
Id(e) == e + 1

IsEmpty(l) == head[l].first = 0
First(l) == Elem(head[l].first)
Last_(l) == Elem(head[l].last)
NextOf(e) == Elem(elem[e].next)
PrevOf(e) == Elem(elem[e].prev)

\* f with field of element e set, if there is an e.
SetNext(f, e, id) == IF e = NoElem THEN f ELSE [f EXCEPT ![e].next = id]
SetPrev(f, e, id) == IF e = NoElem THEN f ELSE [f EXCEPT ![e].prev = id]

\* arr_list_foreach: the elements visited from the first one on, at most max.
RECURSIVE Walk(_, _)
Walk(e, max) == IF e = NoElem \/ max = 0 THEN << >> ELSE <<e>> \o Walk(NextOf(e), max - 1)

\* arr_list_foreach_reverse.
RECURSIVE WalkBack(_, _)
WalkBack(e, max) ==
  IF e = NoElem \/ max = 0 THEN << >> ELSE <<e>> \o WalkBack(PrevOf(e), max - 1)

Forward(l) == Walk(First(l), Size + 1)
Backward(l) == WalkBack(Last_(l), Size + 1)

Listed == UNION {ToSet(Forward(l)) : l \in List}

-----------------------------------------------------------------------------
Init ==
  /\ head = [l \in List |-> [first |-> 0, last |-> 0]]
  /\ elem = [e \in Pos |-> [next |-> 0, prev |-> 0]]
  /\ op = <<"init">>

InsertHead(l, e) ==
  /\ elem' = LET f == [elem EXCEPT ![e] = [prev |-> 0, next |-> head[l].first]]
             IN  IF IsEmpty(l) THEN f ELSE SetPrev(f, First(l), Id(e))
  /\ head' = [head EXCEPT ![l] = [first |-> Id(e), last |-> IF IsEmpty(l) THEN Id(e) ELSE @.last]]
  /\ op' = <<"insert_head", l, e>>

InsertTail(l, e) ==
  /\ elem' = LET f == [elem EXCEPT ![e] = [prev |-> head[l].last, next |-> 0]]
             IN  IF IsEmpty(l) THEN f ELSE SetNext(f, Last_(l), Id(e))
  /\ head' = [head EXCEPT ![l] = [first |-> IF IsEmpty(l) THEN Id(e) ELSE @.first, last |-> Id(e)]]
  /\ op' = <<"insert_tail", l, e>>

InsertBefore(l, b, e) ==
  /\ elem' = [SetNext(elem, PrevOf(b), Id(e)) EXCEPT
                ![e] = [prev |-> elem[b].prev, next |-> Id(b)],
                ![b].prev = Id(e)]
  /\ head' = IF head[l].first = Id(b) THEN [head EXCEPT ![l].first = Id(e)] ELSE head
  /\ op' = <<"insert_before", l, e, b>>

InsertAfter(l, a, e) ==
  /\ elem' = [SetPrev(elem, NextOf(a), Id(e)) EXCEPT
                ![e] = [prev |-> Id(a), next |-> elem[a].next],
                ![a].next = Id(e)]
  /\ head' = IF head[l].last = Id(a) THEN [head EXCEPT ![l].last = Id(e)] ELSE head
  /\ op' = <<"insert_after", l, e, a>>

\* arr_list_remove, as a step from one pair of a head and the elements to the next.
Removed(s, e) ==
  LET n == s.f[e].next
      p == s.f[e].prev
      g == SetPrev(SetNext(s.f, Elem(p), n), Elem(n), p)
  IN  [hd |-> [first |-> IF s.hd.first = Id(e) THEN n ELSE s.hd.first,
               last |-> IF s.hd.last = Id(e) THEN p ELSE s.hd.last],
       f |-> [g EXCEPT ![e] = [next |-> 0, prev |-> 0]]]

Remove_(l, e) ==
  LET s == Removed([hd |-> head[l], f |-> elem], e)
  IN  /\ head' = [head EXCEPT ![l] = s.hd]
      /\ elem' = s.f
      /\ op' = <<"remove", l, e>>

PopFirst(l) ==
  LET e == First(l)
  IN  /\ e # NoElem
      /\ head' = [head EXCEPT ![l] = [first |-> elem[e].next,
                                      last |-> IF @.last = Id(e) THEN 0 ELSE @.last]]
      /\ elem' = [SetPrev(elem, NextOf(e), 0) EXCEPT ![e].next = 0]
      /\ op' = <<"pop_first", l, e>>

\* Seeded fault of RemoveIf: the next element is looked up after the removal.
RECURSIVE RemoveIfUnsafe(_, _, _, _, _)
RemoveIfUnsafe(s, e, field, R, max) ==
  IF e = NoElem \/ max = 0 THEN s
  ELSE LET s2 == IF e \in R THEN Removed(s, e) ELSE s
       IN  RemoveIfUnsafe(s2, Elem(s2.f[e][field]), field, R, max - 1)

\* A loop over arr_list_foreach_safe (field next) or arr_list_foreach_reverse_safe
\* (field prev) whose body removes the elements of R.
RECURSIVE RemoveIf(_, _, _, _, _)
RemoveIf(s, e, field, R, max) ==
  IF e = NoElem \/ max = 0 THEN s
  ELSE LET t == Elem(s.f[e][field])
       IN  RemoveIf(IF e \in R THEN Removed(s, e) ELSE s, t, field, R, max - 1)

ForeachSafe(l, field, R) ==
  LET s == RemoveIf([hd |-> head[l], f |-> elem],
                    IF field = "next" THEN First(l) ELSE Last_(l), field, R, Size)
  IN  /\ head' = [head EXCEPT ![l] = s.hd]
      /\ elem' = s.f
      /\ op' = <<"foreach_safe", l, R>>

Concat(l, k) ==
  /\ IsEmpty(k) => EmptyConcat
  /\ elem' = SetPrev(SetNext(elem, Last_(l), head[k].first), First(k), head[l].last)
  /\ head' = [head EXCEPT ![l] = [first |-> IF IsEmpty(l) THEN head[k].first ELSE @.first,
                                  last |-> head[k].last],
                          ![k] = [first |-> 0, last |-> 0]]
  /\ op' = <<"concat", l, k>>

Next ==
  \/ \E l \in List, e \in Pos \ Listed :
       \/ InsertHead(l, e) \/ InsertTail(l, e)
       \/ \E b \in ToSet(Forward(l)) : InsertBefore(l, b, e) \/ InsertAfter(l, b, e)
  \/ \E l \in List : \E e \in ToSet(Forward(l)) : Remove_(l, e)
  \/ \E l \in List : PopFirst(l)
  \/ \E l \in List, field \in {"next", "prev"}, R \in SUBSET Pos : ForeachSafe(l, field, R)
  \/ \E l, k \in List : l # k /\ Concat(l, k)

Spec == Init /\ [][Next]_vars

-----------------------------------------------------------------------------
\* Walking back from the last element meets the elements of the list in reverse:
\* last, and the prev links that remove and insert_before rely on, are right.
BackwardIsReverse == \A l \in List : Backward(l) = Reverse(Forward(l))

T == INSTANCE TailQueue WITH lists <- [l \in List |-> Forward(l)]

\* Every operation does to the list what the TAILQ operation of its name does.
StepIsTailQ ==
  LET l == op'[2]
      e == op'[3]
  IN  CASE op'[1] = "insert_head" -> T!InsertHead(l, e)
        [] op'[1] = "insert_tail" -> T!InsertTail(l, e)
        [] op'[1] = "insert_before" -> T!InsertBefore(l, op'[4], e)
        [] op'[1] = "insert_after" -> T!InsertAfter(l, op'[4], e)
        [] op'[1] = "remove" -> T!Drop(l, {e})
        [] op'[1] = "pop_first" -> Forward(l)[1] = e /\ T!Drop(l, {e})
        [] op'[1] = "foreach_safe" -> T!Drop(l, e)
        [] op'[1] = "concat" -> T!Concat(l, e)
        [] op'[1] = "init" -> FALSE

=============================================================================
