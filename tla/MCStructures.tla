---------------------------- MODULE MCStructures ----------------------------
(***************************************************************************)
(* Instances of BPF programs and their data structures: a tree of twelve   *)
(* nodes with keys of their own (part "deep"), which is what it takes for  *)
(* rotations on several levels, low trees whose nodes share keys and may   *)
(* find no place ("ties", and lower still, so that several nodes wait,     *)
(* "crowd"), lists in one array ("lists"), and threads in Flux ("flux").   *)
(* A behaviour is one of the part that the initial state chooses; the      *)
(* others rest.                                                            *)
(***************************************************************************)
EXTENDS FluxThread, TLC

CONSTANT List

VARIABLES part, h, got, low, popped, head, elem, op

Deep == INSTANCE AvlTree WITH
          Id <- 1 .. 12, Keys <- [x \in 1 .. 12 |-> {x}], MaxHeight <- 5,
          ArrSize <- 13, ElemSize <- 8, FieldOff <- 2, Null <- 0
Ties == INSTANCE AvlTree WITH
          Id <- 1 .. 5, Keys <- [x \in 1 .. 5 |-> {1, 2}], MaxHeight <- 3,
          ArrSize <- 6, ElemSize <- 8, FieldOff <- 2, Null <- 0, h <- low, got <- popped
Crowd == INSTANCE AvlTree WITH
           Id <- 1 .. 5, Keys <- [x \in 1 .. 5 |-> {1, 2}], MaxHeight <- 2,
           ArrSize <- 6, ElemSize <- 8, FieldOff <- 2, Null <- 0, h <- low, got <- popped
L == INSTANCE ArrList WITH Size <- 4, EmptyConcat <- FALSE

\* The threads and the CPUs are interchangeable.
Symmetry == Permutations(Thread) \cup Permutations(Cpu)

ASSUME AvlAssumptions == Deep!AvlAssumption /\ Ties!AvlAssumption /\ Crowd!AvlAssumption

dvars == <<h, got>>
tvars == <<low, popped>>
lvars == <<head, elem, op>>

MCInit ==
  /\ part \in {"deep", "ties", "crowd", "lists", "flux"}
  /\ IF part = "deep" THEN Deep!Init ELSE h = 0 /\ got = 0
  /\ IF part \in {"ties", "crowd"} THEN Ties!Init ELSE low = 0 /\ popped = 0
  /\ IF part = "lists" THEN L!Init ELSE head = 0 /\ elem = 0 /\ op = 0
  /\ Init

MCNext ==
  \/ part = "deep" /\ Deep!Next /\ UNCHANGED <<part, tvars, lvars, vars>>
  \/ part = "ties" /\ Ties!Next /\ UNCHANGED <<part, dvars, lvars, vars>>
  \/ part = "crowd" /\ Crowd!Next /\ UNCHANGED <<part, dvars, lvars, vars>>
  \/ part = "lists" /\ L!Next /\ UNCHANGED <<part, dvars, tvars, vars>>
  \/ part = "flux" /\ Next /\ UNCHANGED <<part, dvars, tvars, lvars>>

MCSpec == MCInit /\ [][MCNext]_<<part, dvars, tvars, lvars, vars>>

\* op and got only label the step just taken; popped is part of what a SortedQueue promises.
MCView == <<part, h, tvars, head, elem, vars>>

-----------------------------------------------------------------------------
\* The stored balances are the true ones, the tree never grows beyond what a BPF program
\* can search, every node is found by its key and from its neighbours, the cached min and
\* max are the ends of the tree, also among equal keys, and pop_min and pop_max find a
\* node as long as anything is stored, orphans included.
TreesAreSound ==
  /\ part = "deep" => Deep!Balanced /\ Deep!SearchesComplete
  /\ part = "ties" => Ties!Balanced /\ Ties!SearchesComplete
  /\ part = "crowd" => Crowd!Balanced /\ Crowd!SearchesComplete
  /\ part \in {"ties", "crowd"} => Ties!CacheExact /\ Ties!PopFindsNode

\* The tree with its orphans is a line sorted by key and a stack of waiting nodes.
TreeIsSortedQueue ==
  (part \in {"ties", "crowd"} => Ties!Q!QInit) /\ [][(part \in {"ties", "crowd"}) => Ties!Q!QNext]_tvars

\* The lists behave like the tail queues of "man queue", operation by operation, and
\* walking one backward meets its elements in reverse.
ListsAreTailQ == [][part = "lists" => L!StepIsTailQ /\ L!BackwardIsReverse']_lvars
=============================================================================
