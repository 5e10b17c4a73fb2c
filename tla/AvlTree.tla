------------------------------ MODULE AvlTree ------------------------------
(***************************************************************************)
(* The array-based AVL tree of lib/avl.bpf.h.  h is a tree with its nodes: *)
(* the fields of struct avl_tree, and in h.n those of every struct         *)
(* avl_node.  Node ids are positions in the array, Null stands for id 0.   *)
(*                                                                         *)
(* The two children are kid["l"] and kid["r"], so that one definition      *)
(* serves a rotation and its mirror image; the source spells out both.     *)
(* Loops are bounded by MaxHeight, as BPF wants it: a node for which       *)
(* insert finds no place becomes an orphan.  h.assert records an           *)
(* AVL_ASSERT that failed; the ones that guard a child which must be there  *)
(* are the domain of h.n.                                                  *)
(*                                                                         *)
(* A node that has left the tree is blanked: insert sets every field that  *)
(* is read later.                                                          *)
(***************************************************************************)
EXTENDS Integers, Sequences, SequencesExt

CONSTANTS Id,         \* the nodes of the array
          Keys,       \* Keys[x]: the keys the caller may give node x
          MaxHeight,  \* MAX_AVL_HEIGHT
          ArrSize,    \* arr_sz, at least the greatest id
          ElemSize,   \* the size of an array element
          FieldOff,   \* the place of the avl_node in its element
          Null        \* id 0

\* What is assumed of the constants.
AvlAssumption ==
  /\ MaxHeight \in Nat \ {0, 1}
  /\ Null = 0
  /\ Id \subseteq 1 .. ArrSize
  /\ FieldOff \in 0 .. ElemSize - 1

VARIABLES h,    \* the tree
          got   \* what the last pop_min or pop_max returned

vars == <<h, got>>

Side == {"l", "r"}
Other(s) == IF s = "l" THEN "r" ELSE "l"
Sign(s) == IF s = "l" THEN -1 ELSE 1

Blank == [key |-> 0, kid |-> [s \in Side |-> Null], up |-> Null, balance |-> 0,
          is_orphan |-> FALSE, prev |-> Null, next |-> Null]

\* avl_tree_init.
Empty == [root |-> Null, min |-> Null, min_key |-> 0, max |-> Null, max_key |-> 0,
          first_orphan |-> Null, n |-> [x \in Id |-> Blank], assert |-> FALSE]

\* The child of p that was x becomes y: the root if there is no p.
Relinked(t, p, x, y) ==
  IF p = Null THEN [t EXCEPT !.root = y]
  ELSE [t EXCEPT !.n[p].kid[IF t.n[p].kid["l"] = x THEN "l" ELSE "r"] = y]

WithParent(t, x, p) == IF x = Null THEN t ELSE [t EXCEPT !.n[x].up = p]

\* __avl_id_to_node in a BPF program: the offset of the node must be below the
\* bound of BOUNDED_ARRAY_IDX.  The operations below use ids that pass, which
\* NodesReachable is about.
IdToNode(id) ==
  LET p == (id - 1) * ElemSize + FieldOff
  IN  IF id = 0 \/ p >= (ArrSize - 1) * ElemSize + FieldOff THEN Null ELSE id

-----------------------------------------------------------------------------
(* Orphans *)

\* Seeded fault of InsertOrphan: the next orphan keeps its prev.
InsertOrphanUnlinked(t, x) ==
  [t EXCEPT !.first_orphan = x, !.n[x].next = t.first_orphan, !.n[x].prev = Null]

InsertOrphan(t, x) ==
  LET next == t.first_orphan
      u == [t EXCEPT !.first_orphan = x, !.n[x].next = next, !.n[x].prev = Null]
  IN  IF next = Null THEN u ELSE [u EXCEPT !.n[next].prev = x]

RemoveOrphan(t, x) ==
  LET prev == t.n[x].prev
      next == t.n[x].next
      u == IF t.first_orphan = x THEN [t EXCEPT !.first_orphan = next] ELSE t
      v == IF prev = Null THEN u ELSE [u EXCEPT !.n[prev].next = next]
      w == IF next = Null THEN v ELSE [v EXCEPT !.n[next].prev = prev]
  IN  [w EXCEPT !.n[x].next = Null, !.n[x].prev = Null]

PopFirstOrphan(t) ==
  LET first == t.first_orphan
      next == t.n[first].next
      u == [t EXCEPT !.first_orphan = next, !.n[first].next = Null,
                     !.n[first].prev = Null]
  IN  IF next = Null THEN u ELSE [u EXCEPT !.n[next].prev = Null]

-----------------------------------------------------------------------------
(* Searching: lookup, the first and the last node, the neighbours *)

RECURSIVE LookupFrom(_, _, _, _)
LookupFrom(t, x, k, i) ==
  IF i = MaxHeight \/ x = Null THEN Null
  ELSE IF t.n[x].key = k THEN x
  ELSE LookupFrom(t, t.n[x].kid[IF k < t.n[x].key THEN "l" ELSE "r"], k, i + 1)

Lookup(t, k) == LookupFrom(t, t.root, k, 0)

\* avl_min_node for side "l", avl_max_node for side "r".
RECURSIVE Outermost(_, _, _, _)
Outermost(t, x, s, i) ==
  IF i = MaxHeight \/ x = Null THEN Null
  ELSE IF t.n[x].kid[s] = Null THEN x
  ELSE Outermost(t, t.n[x].kid[s], s, i + 1)

MinNode(t, x) == Outermost(t, x, "l", 0)
MaxNode(t, x) == Outermost(t, x, "r", 0)

\* The first ancestor that x is not on side s of.
RECURSIVE Ancestor(_, _, _, _)
Ancestor(t, x, s, i) ==
  LET p == t.n[x].up
  IN  IF i = MaxHeight \/ p = Null THEN Null
      ELSE IF t.n[p].kid[Other(s)] = x THEN p
      ELSE Ancestor(t, p, s, i + 1)

NextNode(t, x) ==
  IF t.n[x].kid["r"] # Null THEN MinNode(t, t.n[x].kid["r"]) ELSE Ancestor(t, x, "r", 0)

PrevNode(t, x) ==
  IF t.n[x].kid["l"] # Null THEN MaxNode(t, t.n[x].kid["l"]) ELSE Ancestor(t, x, "l", 0)

-----------------------------------------------------------------------------
(* Rotations of the subtree at x, whose child z on side s is too deep *)

\* Seeded fault of Rotate: a balanced z, which only deletion meets, is forgotten.
RotateUnstarred(t, x, z, s) ==
  LET o == Other(s)
      t23 == t.n[z].kid[o]
      u == WithParent([t EXCEPT !.n[x].kid[s] = t23, !.n[z].kid[o] = x], t23, x)
  IN  [u EXCEPT !.n[x].up = z, !.n[x].balance = 0, !.n[z].balance = 0]

Rotate(t, x, z, s) ==
  LET o == Other(s)
      t23 == t.n[z].kid[o]
      star == t.n[z].balance = 0
      u == WithParent([t EXCEPT !.n[x].kid[s] = t23, !.n[z].kid[o] = x], t23, x)
  IN  [u EXCEPT !.n[x].up = z,
                !.n[x].balance = IF star THEN Sign(s) ELSE 0,
                !.n[z].balance = IF star THEN - Sign(s) ELSE 0]

DoubleRotate(t, x, z, s) ==
  LET o == Other(s)
      y == t.n[z].kid[o]
      heavy == t.n[y].balance * Sign(s)
      tx == t.n[y].kid[o]
      tz == t.n[y].kid[s]
      u == [t EXCEPT !.n[y].kid = [d \in Side |-> IF d = o THEN x ELSE z],
                     !.n[x].kid[s] = tx, !.n[x].up = y,
                     !.n[z].kid[o] = tz, !.n[z].up = y]
      v == WithParent(WithParent(u, tx, x), tz, z)
  IN  [v EXCEPT !.n[y].balance = 0,
                !.n[x].balance = IF heavy > 0 THEN - Sign(s) ELSE 0,
                !.n[z].balance = IF heavy < 0 THEN Sign(s) ELSE 0]

RotateLeft(t, x, z) == Rotate(t, x, z, "r")
RotateRight(t, x, z) == Rotate(t, x, z, "l")
RotateRightLeft(t, x, z) == DoubleRotate(t, x, z, "r")
RotateLeftRight(t, x, z) == DoubleRotate(t, x, z, "l")

\* Rotate at x, and hang the subtree's new root under x's old parent.
Rebalanced(t, x, z, s) ==
  LET p == t.n[x].up
      single == t.n[z].balance * Sign(s) >= 0
      str == IF single THEN z ELSE t.n[z].kid[Other(s)]
      u == CASE single /\ s = "r" -> RotateLeft(t, x, z)
             [] single /\ s = "l" -> RotateRight(t, x, z)
             [] ~single /\ s = "r" -> RotateRightLeft(t, x, z)
             [] ~single /\ s = "l" -> RotateLeftRight(t, x, z)
  IN  Relinked([u EXCEPT !.n[str].up = p], p, x, str)

-----------------------------------------------------------------------------
(* avl_tree_insert *)

\* The search for a parent stops one level short, so that the tree stays within
\* MaxHeight.
Steps == MaxHeight - 1

\* Walk down from y, a child of x on side s: the parent, the side, and what
\* stands in the way there.
RECURSIVE Descend(_, _, _, _, _, _)
Descend(t, k, x, s, y, i) ==
  IF i = Steps \/ y = Null THEN [x |-> x, s |-> s, y |-> y]
  ELSE LET d == IF k < t.n[y].key THEN "l" ELSE "r"
       IN  Descend(t, k, y, d, t.n[y].kid[d], i + 1)

\* Walk up: the subtree at z, a child of x, has grown by one level.
RECURSIVE Grow(_, _, _, _)
Grow(t, x, z, i) ==
  IF i = MaxHeight \/ x = Null THEN t
  ELSE LET s == IF t.n[x].kid["l"] = z THEN "l" ELSE "r"
           b == t.n[x].balance
       IN  CASE b = 0         -> Grow([t EXCEPT !.n[x].balance = Sign(s)],
                                      t.n[x].up, x, i + 1)
             [] b = - Sign(s) -> [t EXCEPT !.n[x].balance = 0]
             [] b = Sign(s)   -> Rebalanced(t, x, z, s)

Cached(t, x) ==
  LET k == t.n[x].key
      u == IF t.min = Null \/ k < t.min_key
           THEN [t EXCEPT !.min = x, !.min_key = k] ELSE t
  IN  IF t.max = Null \/ k >= t.max_key
      THEN [u EXCEPT !.max = x, !.max_key = k] ELSE u

Inserted(t, x) ==
  LET k == t.n[x].key
      u == [t EXCEPT !.n[x].kid = [s \in Side |-> Null], !.n[x].balance = 0,
                     !.n[x].is_orphan = FALSE]
      spot == Descend(u, k, Null, "l", u.root, 0)
      v == [u EXCEPT !.n[x].up = spot.x]
  IN  IF spot.y # Null
      THEN InsertOrphan([u EXCEPT !.n[x].is_orphan = TRUE], x)
      ELSE IF spot.x = Null
      THEN [v EXCEPT !.root = x, !.min = x, !.min_key = k, !.max = x, !.max_key = k]
      ELSE Cached(Grow([v EXCEPT !.n[spot.x].kid[spot.s] = x], spot.x, x, 0), x)

-----------------------------------------------------------------------------
(* avl_tree_delete *)

\* x leaves its place to y; x's children are left alone.
Replaced(t, x, y) ==
  WithParent(Relinked(t, t.n[x].up, x, y), y, t.n[x].up)

\* Walk up: the subtree of x on side s has lost a level.
RECURSIVE Shrink(_, _, _, _)
Shrink(t, x, s, i) ==
  IF i = MaxHeight \/ x = Null THEN t
  ELSE LET b == t.n[x].balance
           p == t.n[x].up
           z == t.n[x].kid[Other(s)]
           ps == IF p # Null /\ t.n[p].kid["l"] = x THEN "l" ELSE "r"
       IN  CASE b = 0 -> [t EXCEPT !.n[x].balance = - Sign(s)]
             [] b = Sign(s) -> Shrink([t EXCEPT !.n[x].balance = 0], p, ps, i + 1)
             [] b = - Sign(s) /\ z = Null -> [t EXCEPT !.assert = TRUE]
             [] b = - Sign(s) /\ z # Null ->
                  LET u == Rebalanced(t, x, z, Other(s))
                  IN  IF t.n[z].balance = 0 THEN u ELSE Shrink(u, p, ps, i + 1)

\* The cached min and max when x leaves.
Uncached(t, x) ==
  LET next == NextNode(t, x)
      prev == PrevNode(t, x)
      u == IF t.min # x THEN t
           ELSE [t EXCEPT !.min = next,
                          !.min_key = IF next = Null THEN @ ELSE t.n[next].key]
  IN  IF t.max # x THEN u
      ELSE [u EXCEPT !.max = prev,
                     !.max_key = IF prev = Null THEN @ ELSE t.n[prev].key]

\* Both children present: next takes the balance of the place it moves to.
Successor(t, x, next) == [t EXCEPT !.n[next].balance = t.n[x].balance]

\* x is taken out of the tree; y and s say where a level was lost.
Unlinked(t, x) ==
  LET l == t.n[x].kid["l"]
      r == t.n[x].kid["r"]
      p == t.n[x].up
      next == NextNode(t, x)
      np == t.n[next].up
      t1 == Successor(t, x, next)
      t2 == IF np = x THEN t1
            ELSE LET u == Replaced(t1, next, t1.n[next].kid["r"])
                 IN  WithParent([u EXCEPT !.n[next].kid["r"] = r], r, next)
      t3 == Replaced(t2, x, next)
  IN  IF l = Null \/ r = Null
      THEN [t |-> Replaced(t, x, IF l = Null THEN r ELSE l), y |-> p,
            s |-> IF p # Null /\ t.n[p].kid["l"] = x THEN "l" ELSE "r"]
      ELSE [t |-> WithParent([t3 EXCEPT !.n[next].kid["l"] = l], l, next),
            y |-> IF np = x THEN next ELSE np,
            s |-> IF np # x /\ t.n[np].kid["l"] = next THEN "l" ELSE "r"]

Deleted(t, x) ==
  IF t.n[x].is_orphan
  THEN [RemoveOrphan(t, x) EXCEPT !.n[x].is_orphan = FALSE]
  ELSE LET u == Unlinked(Uncached(t, x), x)
           v == Shrink(u.t, u.y, u.s, 0)
       IN  IF v.assert \/ v.first_orphan = Null THEN v
           ELSE Inserted(PopFirstOrphan(v), v.first_orphan)

\* The deleted node's fields are not looked at again.
Gone(t, x) == [t EXCEPT !.n[x] = Blank]

-----------------------------------------------------------------------------
(* The callers: a node is inserted with a key, deleted, or popped *)

RECURSIVE InOrder(_, _)
InOrder(t, x) ==
  IF x = Null THEN << >>
  ELSE InOrder(t, t.n[x].kid["l"]) \o <<x>> \o InOrder(t, t.n[x].kid["r"])

RECURSIVE OrphanList(_, _)
OrphanList(t, x) == IF x = Null THEN << >> ELSE <<x>> \o OrphanList(t, t.n[x].next)

Line == InOrder(h, h.root)
Orphans == OrphanList(h, h.first_orphan)
Members == ToSet(Line \o Orphans)

Init == h = Empty /\ got = Null

Insert(x) ==
  /\ \E k \in Keys[x] : h' = Inserted([h EXCEPT !.n[x].key = k], x)
  /\ got' = Null

Delete(x) ==
  /\ h' = Gone(Deleted(h, x), x)
  /\ got' = Null

PopMin ==
  /\ h.min # Null
  /\ h' = Gone(Deleted(h, h.min), h.min)
  /\ got' = h.min

PopMax ==
  /\ h.max # Null
  /\ h' = Gone(Deleted(h, h.max), h.max)
  /\ got' = h.max

Next ==
  \/ \E x \in Id \ Members : Insert(x)
  \/ \E x \in Members : Delete(x)
  \/ PopMin \/ PopMax

Spec == Init /\ [][Next]_vars

-----------------------------------------------------------------------------
(* Properties *)

RECURSIVE Height(_, _)
Height(t, x) ==
  IF x = Null THEN 0
  ELSE LET l == Height(t, t.n[x].kid["l"])
           r == Height(t, t.n[x].kid["r"])
       IN  1 + IF l > r THEN l ELSE r

\* "We always have the AVL tree balanced": every stored balance is the true
\* difference of the heights, within -1..1, and "we must never grow the tree
\* beyond what BPF can search".  The parent of a child is its parent.
Balanced ==
  /\ Height(h, h.root) <= MaxHeight
  /\ h.root # Null => h.n[h.root].up = Null
  /\ \A x \in ToSet(Line) :
       /\ h.n[x].balance \in -1 .. 1
       /\ h.n[x].balance = Height(h, h.n[x].kid["r"]) - Height(h, h.n[x].kid["l"])
       /\ \A s \in Side : h.n[x].kid[s] # Null => h.n[h.n[x].kid[s]].up = x

\* The cached min and max are the leftmost and the rightmost node, with their
\* keys, also among nodes of the same key ("Extreme Subtlety alert!").
CacheExact ==
  LET line == Line
  IN  IF line = << >> THEN h.min = Null /\ h.max = Null
      ELSE /\ h.min = Head(line) /\ h.min_key = h.n[h.min].key
           /\ h.max = Last(line) /\ h.max_key = h.n[h.max].key

\* "If a node gets into the tree, we expect to be able to delete you from the
\* tree": lookup finds every key of the tree and no other, next and prev walk the
\* whole line, and no AVL_ASSERT fails.
SearchesComplete ==
  LET line == Line
      keyed == {h.n[z].key : z \in ToSet(line)}
  IN  /\ ~h.assert
      /\ \A k \in UNION {Keys[x] : x \in Id} :
           LET y == Lookup(h, k)
           IN  IF k \in keyed THEN y \in ToSet(line) /\ h.n[y].key = k ELSE y = Null
      /\ \A i \in 1 .. Len(line) :
           /\ NextNode(h, line[i]) = IF i = Len(line) THEN Null ELSE line[i + 1]
           /\ PrevNode(h, line[i]) = IF i = 1 THEN Null ELSE line[i - 1]

\* pop_min and pop_max come back empty-handed only if nothing is stored, orphans
\* included: the last node to leave the tree takes an orphan in.
PopFindsNode == Members # {} => Line # << >>

\* A node of the tree can be looked up by its id: "p can legitimately be
\* (arr_sz-1) * e + f, when we're looking up the last node in the array".
NodesReachable == \A x \in Members : IdToNode(x) = x

\* The tree with its orphans, rotations and caches is a line of nodes sorted by
\* key, ties in the order of insertion, with a stack of nodes that did not fit.
Keyed == [x \in Id |-> h.n[x].key]

Q == INSTANCE SortedQueue WITH line <- Line, orphans <- Orphans, key <- Keyed

=============================================================================
