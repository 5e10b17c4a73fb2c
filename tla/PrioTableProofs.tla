--------------------------- MODULE PrioTableProofs ---------------------------
(***************************************************************************)
(* The safety of the priority table, for every set of writers and every    *)
(* number of items, cells, retries and updates: the agent takes no torn    *)
(* item and no update is lost.                                             *)
(*                                                                         *)
(* Both properties rest on IInv.  Its core is that a sequence count is odd *)
(* exactly while one writer is inside the item, and that it never wraps:   *)
(* every two increments were paid for by an update (Budget).  What the     *)
(* agent has read of an item is what the item holds, as long as the count  *)
(* is still the even one that it read first (AgentInv).                    *)
(***************************************************************************)
EXTENDS PrioTable, FiniteSetTheorems, WellFoundedInduction, TLAPS

WriterPc == {"idle", "load", "cas", "try", "trycas", "a", "b", "end", "mark", "cell",
             "cellcas", "overflow"}
WriterRec == [pc : WriterPc, i : Nat, seq : Nat, new : Nat, k : Nat]
AgentPc == {"poll", "exchange", "scan", "store", "begin", "a", "b", "end"}
AgentRec == [pc : AgentPc, full : BOOLEAN, c : Nat, idx : Item \cup {Free},
             todo : SUBSET Item, seq : Nat, a : Nat, b : Nat]

Types ==
  /\ item \in [Item -> [seq : Nat, a : Nat, b : Nat]]
  /\ scrape_all \in Nat
  /\ entries \in [Cell -> Item \cup {Free}]
  /\ writer \in [Writer -> WriterRec]
  /\ \A w \in Writer : ~ At(w, "idle") => writer[w].i \in Item
  /\ agent \in AgentRec
  /\ view \in [Item -> Nat \X Nat]
  /\ updates \in 0 .. MaxUpdates

\* The writers that have begun an update and not yet locked an item.
Early == {w \in Writer : writer[w].pc \in {"load", "cas", "try", "trycas"}}

Odd(n) == n % 2

\* Two increments of a count for every update: with fewer than SeqMod / 2 updates no
\* count wraps.
Budget ==
  /\ IsFiniteSet(Early)
  /\ \A i \in Item : item[i].seq + Odd(item[i].seq) + 2 * Cardinality(Early) <= 2 * updates

\* The count of a locked item is odd and its writer knows it; the writer wrote what it
\* has passed.  An item nobody is inside of is whole.
LockInv ==
  /\ \A w \in Writer : writer[w].pc \in {"cas", "trycas"} => Odd(writer[w].seq) = 0
  /\ \A w \in Writer : Inside(w) => Odd(writer[w].seq) = 1
  /\ \A w \in Writer : At(w, "b") => item[writer[w].i].a = writer[w].new
  /\ \A w \in Writer : At(w, "end") =>
       item[writer[w].i].a = writer[w].new /\ item[writer[w].i].b = writer[w].new
  /\ \A i \in Item : Odd(item[i].seq) = 0 => item[i].a = item[i].b
  /\ WritersExclude

ReadPc == {"begin", "a", "b", "end"}

\* What the agent has read so far is what the item holds, if the count it began with is
\* even and still the item's: counts only grow, and halves change under odd ones.
AgentInv ==
  /\ agent.pc \in ReadPc => agent.todo # {} /\ ~ agent.full
  /\ agent.pc \notin ReadPc => agent.todo = {}
  /\ agent.pc = "poll" => ~ agent.full
  /\ agent.pc \in {"exchange", "scan"} => agent.c <= Cap
  /\ agent.pc = "store" => agent.c \in Cell /\ agent.idx \in Item /\ entries[agent.c] = agent.idx
  /\ agent.pc \in {"a", "b", "end"} => agent.seq <= item[Reading].seq
  /\ agent.pc \in {"b", "end"} /\ Odd(agent.seq) = 0 /\ agent.seq = item[Reading].seq =>
       agent.a = item[Reading].a
  /\ agent.pc = "end" /\ Odd(agent.seq) = 0 /\ agent.seq = item[Reading].seq =>
       agent.b = item[Reading].b

Whole == \A i \in Item : view[i][1] = view[i][2]

IInv == Types /\ Budget /\ LockInv /\ AgentInv /\ Whole /\ NoLostUpdate

-----------------------------------------------------------------------------
\* The item the agent reads is one it was told of.
LEMMA ReadingInTodo ==
  ASSUME Types, agent.todo # {}
  PROVE  Reading \in agent.todo /\ Reading \in Item
<1>1. agent.todo \subseteq Item /\ Item \subseteq Nat
  BY SizeAssumption DEF Types, AgentRec, Item
<1> DEFINE less == OpToRel(<, Nat)
<1>a. \A x, y \in Nat : <<x, y>> \in less <=> x < y
  BY DEF OpToRel
<1>b. IsWellFoundedOn(less, Nat)
  BY Zenon, NatLessThanWellFounded
<1> HIDE DEF less
<1>2. PICK i \in agent.todo : \A j \in agent.todo : ~ (<<j, i>> \in less)
  BY Zenon, <1>1, <1>b, WFMin
<1>3. ASSUME NEW j \in agent.todo PROVE i <= j
  <2>1. i \in Nat /\ j \in Nat /\ ~ (<<j, i>> \in less)
    BY Zenon, <1>1, <1>2
  <2> QED BY <1>a, <2>1
<1>4. Reading \in agent.todo
  BY <1>3 DEF Reading
<1> QED BY <1>1, <1>4

\* The cell a writer tries exists.
LEMMA CellOfType ==
  ASSUME Types, NEW w \in Writer
  PROVE  CellOf(w) \in Cell
<1>1. writer[w].i + writer[w].k \in Nat
  BY DEF Types, WriterRec
<1> QED BY <1>1, SizeAssumption DEF CellOf, Cell

-----------------------------------------------------------------------------
(* What a step of a writer does to its record, and to the item it updates. *)

WriterBecomes(w, pc, i, seq, new, k) ==
  /\ writer' \in [Writer -> WriterRec]
  /\ writer'[w].pc = pc /\ writer'[w].i = i /\ writer'[w].seq = seq
  /\ writer'[w].new = new /\ writer'[w].k = k
  /\ \A v \in Writer : v # w => writer'[v] = writer[v]

ItemBecomes(i, seq, a, b) ==
  /\ item' \in [Item -> [seq : Nat, a : Nat, b : Nat]]
  /\ item'[i].seq = seq /\ item'[i].a = a /\ item'[i].b = b
  /\ \A j \in Item : j # i => item'[j] = item[j]

\* A step that moves the program counter only.
LEMMA SetPc ==
  ASSUME Types, NEW w \in Writer, NEW pc \in WriterPc,
         writer' = [writer EXCEPT ![w].pc = pc]
  PROVE  WriterBecomes(w, pc, writer[w].i, writer[w].seq, writer[w].new, writer[w].k)
BY DEF Types, WriterBecomes, WriterRec

\* A load of the sequence count.
LEMMA SetPcSeq ==
  ASSUME Types, NEW w \in Writer, NEW pc \in WriterPc, NEW seq \in Nat,
         writer' = [writer EXCEPT ![w].pc = pc, ![w].seq = seq]
  PROVE  WriterBecomes(w, pc, writer[w].i, seq, writer[w].new, writer[w].k)
BY Zenon DEF Types, WriterBecomes, WriterRec

\* A step through the slots of the stream.
LEMMA SetPcK ==
  ASSUME Types, NEW w \in Writer, NEW pc \in WriterPc, NEW k \in Nat,
         writer' = [writer EXCEPT ![w].k = k, ![w].pc = pc]
  PROVE  WriterBecomes(w, pc, writer[w].i, writer[w].seq, writer[w].new, k)
BY Zenon DEF Types, WriterBecomes, WriterRec

\* The return of a call.
LEMMA SetIdle ==
  ASSUME Types, NEW w \in Writer,
         writer' = [writer EXCEPT ![w] = WriterIdle]
  PROVE  WriterBecomes(w, "idle", 0, 0, 0, 0)
BY DEF Types, WriterBecomes, WriterRec, WriterIdle, WriterPc

\* The begin of a call, on item i and with value n.
LEMMA SetBegun ==
  ASSUME Types, NEW w \in Writer, NEW pc \in WriterPc, NEW i \in Nat, NEW n \in Nat,
         writer' = [writer EXCEPT ![w] = [WriterIdle EXCEPT !.pc = pc, !.i = i, !.new = n]]
  PROVE  WriterBecomes(w, pc, i, 0, n, 0)
BY Zenon DEF Types, WriterBecomes, WriterRec, WriterIdle

\* A store to the sequence count of an item.
LEMMA SetSeq ==
  ASSUME Types, NEW i \in Item, NEW seq \in Nat,
         item' = [item EXCEPT ![i].seq = seq]
  PROVE  ItemBecomes(i, seq, item[i].a, item[i].b)
BY DEF Types, ItemBecomes

\* A store to one half of the data of an item.
LEMMA SetHalf ==
  ASSUME Types, NEW i \in Item, NEW h \in {"a", "b"}, NEW n \in Nat,
         item' = [item EXCEPT ![i][h] = n]
  PROVE  ItemBecomes(i, item[i].seq, IF h = "a" THEN n ELSE item[i].a,
                                     IF h = "b" THEN n ELSE item[i].b)
BY DEF Types, ItemBecomes

-----------------------------------------------------------------------------
(* The kinds of steps a writer makes, as far as the invariant is concerned. *)

EarlyPc == {"load", "cas", "try", "trycas"}
InsidePc == {"a", "b", "end"}
MarkPc == {"mark", "cell", "cellcas", "overflow"}

OnlyWriter(w) ==
  /\ writer' \in [Writer -> WriterRec]
  /\ \A v \in Writer : v # w => writer'[v] = writer[v]
  /\ agent' = agent /\ view' = view

\* A new update.
BeginStep(w) ==
  /\ OnlyWriter(w)
  /\ At(w, "idle") /\ writer'[w].pc \in {"load", "try"} /\ writer'[w].i \in Item
  /\ updates < MaxUpdates /\ updates' = updates + 1
  /\ UNCHANGED <<item, scrape_all, entries>>

\* A step that only looks: before the lock, which may be given up, or on the way to
\* announcing the update.
QuietStep(w) ==
  /\ OnlyWriter(w)
  /\ \/ writer[w].pc \in EarlyPc /\ writer'[w].pc = "idle"
     \/ /\ writer[w].pc \in EarlyPc /\ writer'[w].pc \in EarlyPc /\ writer'[w].i = writer[w].i
        /\ writer'[w].pc \in {"cas", "trycas"} => Odd(writer'[w].seq) = 0
     \/ writer[w].pc \in MarkPc /\ writer'[w].pc \in MarkPc /\ writer'[w].i = writer[w].i
  /\ UNCHANGED <<item, scrape_all, entries, updates>>

\* The exchange that makes the count odd.
LockStep(w) ==
  /\ OnlyWriter(w)
  /\ writer[w].pc \in {"cas", "trycas"} /\ writer'[w].pc = "a" /\ writer'[w].i = writer[w].i
  /\ item[writer[w].i].seq = writer[w].seq /\ writer'[w].seq = writer[w].seq + 1
  /\ ItemBecomes(writer[w].i, writer[w].seq + 1, item[writer[w].i].a, item[writer[w].i].b)
  /\ UNCHANGED <<scrape_all, entries, updates>>

\* A store to one of the halves.
WriteStep(w) ==
  /\ OnlyWriter(w)
  /\ writer'[w].i = writer[w].i /\ writer'[w].seq = writer[w].seq /\ writer'[w].new = writer[w].new
  /\ \/ /\ At(w, "a") /\ writer'[w].pc = "b"
        /\ ItemBecomes(writer[w].i, item[writer[w].i].seq, writer[w].new, item[writer[w].i].b)
     \/ /\ At(w, "b") /\ writer'[w].pc = "end"
        /\ ItemBecomes(writer[w].i, item[writer[w].i].seq, item[writer[w].i].a, writer[w].new)
  /\ UNCHANGED <<scrape_all, entries, updates>>

\* write_end(), which makes the count even.
EndStep(w) ==
  /\ OnlyWriter(w)
  /\ At(w, "end") /\ writer'[w].pc = "mark" /\ writer'[w].i = writer[w].i
  /\ ItemBecomes(writer[w].i, writer[w].seq + 1, item[writer[w].i].a, item[writer[w].i].b)
  /\ UNCHANGED <<scrape_all, entries, updates>>

\* The update is announced, in a cell or by scrape_all.
AnnounceStep(w) ==
  /\ OnlyWriter(w)
  /\ writer[w].pc \in MarkPc /\ writer'[w].pc = "idle"
  /\ \/ /\ \E c \in Cell : entries[c] = Free /\ entries' = [entries EXCEPT ![c] = writer[w].i]
        /\ UNCHANGED scrape_all
     \/ scrape_all' = scrape_all + 1 /\ UNCHANGED entries
  /\ UNCHANGED <<item, updates>>

WriterStep(w) ==
  \/ BeginStep(w) \/ QuietStep(w) \/ LockStep(w) \/ WriteStep(w) \/ EndStep(w) \/ AnnounceStep(w)

\* The budget leaves room for the two increments of an update: no count wraps.
LEMMA NoWrap ==
  ASSUME Types, Budget, LockInv, NEW w \in Writer, ~ At(w, "idle"),
         item[writer[w].i].seq = writer[w].seq,
         writer[w].pc \in {"cas", "trycas", "end"}
  PROVE  (writer[w].seq + 1) % SeqMod = writer[w].seq + 1
<1> DEFINE i == writer[w].i
           s == writer[w].seq
<1>1. i \in Item /\ s \in Nat /\ updates \in Nat /\ updates <= MaxUpdates
  BY SizeAssumption DEF Types, WriterRec
<1>2. Cardinality(Early) \in Nat
  BY FS_CardinalityType DEF Budget
<1>3. s + Odd(s) + 2 * Cardinality(Early) <= 2 * updates
  BY <1>1 DEF Budget
<1>4. ASSUME At(w, "end") PROVE s + 1 < SeqMod
  <2>1. Odd(s) = 1
    BY <1>4 DEF LockInv, Inside, At
  <2> HIDE DEF s
  <2> QED BY <1>1, <1>2, <1>3, <2>1, SizeAssumption, SeqAssumption
<1>5. ASSUME writer[w].pc \in {"cas", "trycas"} PROVE s + 1 < SeqMod
  <2>1. Odd(s) = 0
    BY <1>5 DEF LockInv
  <2>2. w \in Early
    BY <1>5 DEF Early
  <2>3. Cardinality(Early) # 0
    BY <2>2, FS_EmptySet DEF Budget
  <2> HIDE DEF s
  <2> QED BY <1>1, <1>2, <1>3, <2>1, <2>3, SizeAssumption, SeqAssumption
<1>6. s + 1 < SeqMod
  BY <1>4, <1>5 DEF At
<1>7. \A n \in Nat : n < SeqMod => n % SeqMod = n
  BY SizeAssumption
<1> QED BY <1>1, <1>6, <1>7

\* Every step of a writer is of one of these kinds.
LEMMA WriterSteps ==
  ASSUME Types, Budget, LockInv, NEW w \in Writer, Begin(w) \/ WriteBeginCas(w) \/ Update(w)
  PROVE  WriterStep(w)
<1>0. writer[w] \in WriterRec /\ (~ At(w, "idle") => writer[w].i \in Item)
  BY DEF Types
<1> USE DEF WriterBecomes, OnlyWriter
<1>1. ASSUME Begin(w) PROVE BeginStep(w)
  <2>1. PICK i \in Item, how \in {"load", "try"} :
          writer' = [writer EXCEPT ![w] = [WriterIdle EXCEPT !.pc = how, !.i = i, !.new = updates + 1]]
    BY Zenon, <1>1 DEF Begin
  <2>2. i \in Nat /\ updates + 1 \in Nat /\ how \in WriterPc
    BY SizeAssumption DEF Item, WriterPc, Types
  <2>3. WriterBecomes(w, how, i, 0, updates + 1, 0)
    BY Zenon, <2>1, <2>2, SetBegun
  <2> QED BY Zenon, <1>1, <2>3 DEF Begin, BeginStep
<1>2. ASSUME WriteBeginCas(w) \/ TryWriteCas(w), item[writer[w].i].seq = writer[w].seq
      PROVE LockStep(w)
  <2>1. Locked(w) /\ writer[w].pc \in {"cas", "trycas"} /\ UNCHANGED <<scrape_all, entries, agent, view, updates>>
    BY <1>2 DEF WriteBeginCas, TryWriteCas, At
  <2>2. writer[w].i \in Item /\ writer[w].seq + 1 \in Nat /\ "a" \in WriterPc
    BY <1>0, <2>1 DEF At, WriterRec, WriterPc
  <2>3. /\ item' = [item EXCEPT ![writer[w].i].seq = writer[w].seq + 1]
        /\ writer' = [writer EXCEPT ![w].pc = "a", ![w].seq = writer[w].seq + 1]
    BY Zenon, <1>2, <2>1, NoWrap DEF Locked, At
  <2>4. WriterBecomes(w, "a", writer[w].i, writer[w].seq + 1, writer[w].new, writer[w].k)
    BY Zenon, <2>2, <2>3, SetPcSeq
  <2>5. ItemBecomes(writer[w].i, writer[w].seq + 1, item[writer[w].i].a, item[writer[w].i].b)
    BY Zenon, <2>2, <2>3, SetSeq
  <2> QED BY <1>2, <2>1, <2>4, <2>5 DEF LockStep
<1>3. ASSUME WriteBeginLoad(w) PROVE QuietStep(w)
  <2>1. item[writer[w].i].seq \in Nat /\ "cas" \in WriterPc
    BY <1>0, <1>3 DEF WriteBeginLoad, At, Types, WriterPc
  <2>2. WriterBecomes(w, "cas", writer[w].i, item[writer[w].i].seq, writer[w].new, writer[w].k)
    BY Zenon, <1>3, <2>1, SetPcSeq DEF WriteBeginLoad
  <2> QED BY <1>3, <2>2 DEF WriteBeginLoad, QuietStep, EarlyPc, At, Odd
<1>4. ASSUME WriteBeginAgain(w) PROVE QuietStep(w)
  <2>1. WriterBecomes(w, "load", writer[w].i, writer[w].seq, writer[w].new, writer[w].k)
    BY Zenon, <1>4, SetPc DEF WriteBeginAgain, Goes, WriterPc
  <2> QED BY <1>4, <2>1 DEF WriteBeginAgain, QuietStep, EarlyPc, At
<1>5. ASSUME TryWriteBegin(w) PROVE QuietStep(w)
  <2>1. item[writer[w].i].seq \in Nat /\ "trycas" \in WriterPc
    BY <1>0, <1>5 DEF TryWriteBegin, At, Types, WriterPc
  <2>2. CASE item[writer[w].i].seq % 2 = 0
    <3>1. WriterBecomes(w, "trycas", writer[w].i, item[writer[w].i].seq, writer[w].new, writer[w].k)
      BY <1>5, <2>1, <2>2, SetPcSeq DEF TryWriteBegin
    <3> QED BY <1>5, <2>2, <3>1 DEF TryWriteBegin, QuietStep, EarlyPc, At, Odd
  <2>3. CASE item[writer[w].i].seq % 2 # 0
    <3>1. WriterBecomes(w, "idle", 0, 0, 0, 0)
      BY <1>5, <2>3, SetIdle DEF TryWriteBegin
    <3> QED BY <1>5, <3>1 DEF TryWriteBegin, QuietStep, EarlyPc, At
  <2> QED BY <2>2, <2>3
<1>6. ASSUME TryWriteCas(w), item[writer[w].i].seq # writer[w].seq PROVE QuietStep(w)
  <2>1. WriterBecomes(w, "idle", 0, 0, 0, 0)
    BY <1>6, SetIdle DEF TryWriteCas
  <2> QED BY <1>6, <2>1 DEF TryWriteCas, QuietStep, EarlyPc, At
<1>7. ASSUME Write(w) PROVE WriteStep(w)
  <2>1. /\ writer[w].i \in Item /\ writer[w].pc \in {"a", "b"} /\ writer[w].new \in Nat
        /\ item' = [item EXCEPT ![writer[w].i][writer[w].pc] = writer[w].new]
    BY <1>0, <1>7 DEF Write, At, WriterRec
  <2>2. ItemBecomes(writer[w].i, item[writer[w].i].seq,
                    IF At(w, "a") THEN writer[w].new ELSE item[writer[w].i].a,
                    IF At(w, "b") THEN writer[w].new ELSE item[writer[w].i].b)
    BY Zenon, <2>1, SetHalf DEF At
  <2>3. WriterBecomes(w, IF At(w, "a") THEN "b" ELSE "end", writer[w].i, writer[w].seq,
                      writer[w].new, writer[w].k)
    BY Zenon, <1>7, SetPc DEF Write, Goes, WriterPc
  <2> QED BY Zenon, <1>7, <2>1, <2>2, <2>3 DEF Write, WriteStep, At
<1>8. ASSUME WriteEnd(w) PROVE EndStep(w)
  <2>1. /\ writer[w].i \in Item /\ writer[w].seq + 1 \in Nat /\ At(w, "end") /\ ~ At(w, "idle")
        /\ item[writer[w].i].seq = writer[w].seq
    BY <1>0, <1>8 DEF WriteEnd, At, WriterRec, LockInv, WritersExclude, Inside
  <2>2. item' = [item EXCEPT ![writer[w].i].seq = writer[w].seq + 1]
    BY Zenon, <1>8, <2>1, NoWrap DEF WriteEnd, At
  <2>3. ItemBecomes(writer[w].i, writer[w].seq + 1, item[writer[w].i].a, item[writer[w].i].b)
    BY Zenon, <2>1, <2>2, SetSeq
  <2>4. WriterBecomes(w, "mark", writer[w].i, writer[w].seq, writer[w].new, writer[w].k)
    BY Zenon, <1>8, SetPc DEF WriteEnd, Goes, WriterPc
  <2> QED BY <1>8, <2>3, <2>4 DEF WriteEnd, EndStep
<1>n. ASSUME NextCell(w), writer[w].pc \in {"cell", "cellcas"},
             UNCHANGED <<item, scrape_all, entries, agent, view, updates>>
      PROVE QuietStep(w)
  <2>1. CASE writer[w].k = NumRetries
    <3>1. WriterBecomes(w, "overflow", writer[w].i, writer[w].seq, writer[w].new, writer[w].k)
      BY <1>n, <2>1, SetPc DEF NextCell, Goes, WriterPc
    <3> QED BY <1>n, <3>1 DEF QuietStep, MarkPc
  <2>2. CASE writer[w].k # NumRetries
    <3>1. writer[w].k + 1 \in Nat /\ "cell" \in WriterPc
      BY <1>0 DEF WriterRec, WriterPc
    <3>2. WriterBecomes(w, "cell", writer[w].i, writer[w].seq, writer[w].new, writer[w].k + 1)
      BY Zenon, <1>n, <2>2, <3>1, SetPcK DEF NextCell
    <3> QED BY <1>n, <3>2 DEF QuietStep, MarkPc
  <2> QED BY <2>1, <2>2
<1>9. ASSUME MarkLoad(w) PROVE QuietStep(w)
  <2>1. PICK pc \in {"overflow", "cell"} : writer' = [writer EXCEPT ![w].pc = pc]
    BY Zenon, <1>9 DEF MarkLoad, Goes
  <2>2. WriterBecomes(w, pc, writer[w].i, writer[w].seq, writer[w].new, writer[w].k)
    BY Zenon, <2>1, SetPc DEF WriterPc
  <2> QED BY <1>9, <2>2 DEF MarkLoad, QuietStep, MarkPc, At
<1>10. ASSUME CellLoad(w) PROVE QuietStep(w)
  <2>1. CASE entries[CellOf(w)] = Free
    <3>1. WriterBecomes(w, "cellcas", writer[w].i, writer[w].seq, writer[w].new, writer[w].k)
      BY <1>10, <2>1, SetPc DEF CellLoad, Goes, WriterPc
    <3> QED BY <1>10, <3>1 DEF CellLoad, QuietStep, MarkPc, At
  <2> QED BY <1>10, <1>n, <2>1 DEF CellLoad, At
<1>11. ASSUME CellCas(w) PROVE QuietStep(w) \/ AnnounceStep(w)
  <2>1. CASE NextCell(w) /\ UNCHANGED entries
    <3>1. UNCHANGED <<item, scrape_all, entries, agent, view, updates>> /\ writer[w].pc = "cellcas"
      BY <1>11, <2>1 DEF CellCas, At
    <3> QED BY <1>n, <2>1, <3>1
  <2>2. CASE /\ entries[CellOf(w)] = Free
             /\ entries' = [entries EXCEPT ![CellOf(w)] = writer[w].i]
             /\ writer' = [writer EXCEPT ![w] = WriterIdle]
    <3>1. WriterBecomes(w, "idle", 0, 0, 0, 0)
      BY Zenon, <2>2, SetIdle
    <3> QED BY Zenon, <1>11, <2>2, <3>1, CellOfType DEF CellCas, AnnounceStep, MarkPc, At
  <2> QED BY <1>11, <2>1, <2>2 DEF CellCas
<1>12. ASSUME MarkOverflow(w) PROVE AnnounceStep(w)
  <2>1. WriterBecomes(w, "idle", 0, 0, 0, 0)
    BY Zenon, <1>12, SetIdle DEF MarkOverflow
  <2> QED BY <1>12, <2>1 DEF MarkOverflow, AnnounceStep, MarkPc, At
<1> QED BY <1>1, <1>2, <1>3, <1>4, <1>5, <1>6, <1>7, <1>8, <1>9, <1>10, <1>11, <1>12
        DEF WriterStep, Update, WriteBeginCas

-----------------------------------------------------------------------------
\* A writer keeps the types.
LEMMA WriterTypes ==
  ASSUME Types, NEW w \in Writer, WriterStep(w)
  PROVE  Types'
<1>0. writer' \in [Writer -> WriterRec] /\ agent' = agent /\ view' = view
  BY Zenon DEF WriterStep, BeginStep, QuietStep, LockStep, WriteStep, EndStep, AnnounceStep, OnlyWriter
<1>1. \A v \in Writer : writer'[v].pc # "idle" => writer'[v].i \in Item
  BY Zenon DEF WriterStep, BeginStep, QuietStep, LockStep, WriteStep, EndStep, AnnounceStep, OnlyWriter,
         EarlyPc, MarkPc, Types, At
<1>2. item' \in [Item -> [seq : Nat, a : Nat, b : Nat]]
  BY Zenon DEF WriterStep, BeginStep, QuietStep, LockStep, WriteStep, EndStep, AnnounceStep,
         ItemBecomes, Types
<1>3. scrape_all' \in Nat /\ entries' \in [Cell -> Item \cup {Free}]
  <2>1. CASE AnnounceStep(w)
    <3>1. writer[w].i \in Item
      BY <2>1 DEF AnnounceStep, MarkPc, Types, At
    <3> QED BY <2>1, <3>1 DEF AnnounceStep, Types
  <2> QED BY Zenon, <2>1 DEF WriterStep, BeginStep, QuietStep, LockStep, WriteStep, EndStep, Types
<1>4. updates' \in 0 .. MaxUpdates
  BY SMTT(30), SizeAssumption
     DEF WriterStep, BeginStep, QuietStep, LockStep, WriteStep, EndStep, AnnounceStep, Types
<1> QED BY <1>0, <1>1, <1>2, <1>3, <1>4 DEF Types, At

\* A writer keeps the budget: what begins is paid for, a lock and write_end() spend
\* what was paid.
LEMMA WriterBudget ==
  ASSUME Types, Budget, LockInv, NEW w \in Writer, WriterStep(w)
  PROVE  Budget'
<1>0. /\ \A i \in Item : item[i].seq \in Nat
      /\ updates \in Nat /\ IsFiniteSet(Early) /\ Cardinality(Early) \in Nat
      /\ \A i \in Item : item[i].seq + Odd(item[i].seq) + 2 * Cardinality(Early) <= 2 * updates
  BY SizeAssumption, FS_CardinalityType DEF Types, Budget
<1>o. \A v \in Writer \ {w} : v \in Early' <=> v \in Early
  BY Zenon
     DEF Early, WriterStep, BeginStep, QuietStep, LockStep, WriteStep, EndStep, AnnounceStep,
         OnlyWriter
<1>s. Early \subseteq Writer /\ Early' \subseteq Writer
  BY DEF Early
<1>1. CASE BeginStep(w)
  <2>1. Early' = Early \cup {w} /\ w \notin Early
    BY <1>1, <1>o, <1>s DEF BeginStep, Early, At
  <2>2. IsFiniteSet(Early') /\ Cardinality(Early') = Cardinality(Early) + 1
    BY <1>0, <2>1, FS_AddElement
  <2>3. item' = item /\ updates' = updates + 1
    BY <1>1 DEF BeginStep
  <2> QED BY <1>0, <2>2, <2>3 DEF Budget, Odd
<1>2. CASE QuietStep(w) \/ AnnounceStep(w)
  <2>1. w \notin Early => w \notin Early'
    BY <1>2 DEF QuietStep, AnnounceStep, Early, EarlyPc, MarkPc
  <2>1a. Early' \in SUBSET Early
    BY <2>1, <1>o, <1>s
  <2>2. IsFiniteSet(Early') /\ Cardinality(Early') \in Nat /\ Cardinality(Early') <= Cardinality(Early)
    BY <1>0, <2>1a, FS_Subset, FS_CardinalityType
  <2>3. item' = item /\ updates' = updates
    BY <1>2 DEF QuietStep, AnnounceStep
  <2> QED BY <1>0, <2>2, <2>3 DEF Budget, Odd
<1>3. CASE LockStep(w)
  <2>1. Early' = Early \ {w} /\ w \in Early
    BY <1>3, <1>o, <1>s DEF LockStep, Early
  <2>2. IsFiniteSet(Early') /\ Cardinality(Early') = Cardinality(Early) - 1
    BY <1>0, <2>1, FS_RemoveElement
  <2>3. /\ writer[w].i \in Item /\ item[writer[w].i].seq % 2 = 0
        /\ item'[writer[w].i].seq = item[writer[w].i].seq + 1
        /\ \A j \in Item : j # writer[w].i => item'[j] = item[j]
        /\ updates' = updates
    BY Zenon, <1>3 DEF LockStep, ItemBecomes, LockInv, Odd, Types, At
  <2>4. ASSUME NEW j \in Item
        PROVE  item'[j].seq + Odd(item'[j].seq) + 2 * Cardinality(Early') <= 2 * updates'
    <3>1. CASE j = writer[w].i
      BY <1>0, <2>2, <2>3, <3>1 DEF Odd
    <3>2. CASE j # writer[w].i
      BY <1>0, <2>2, <2>3, <3>2 DEF Odd
    <3> QED BY <3>1, <3>2
  <2>5. \A j \in Item : item'[j].seq + Odd(item'[j].seq) + 2 * Cardinality(Early') <= 2 * updates'
    BY <2>4, Zenon
  <2> QED BY <2>2, <2>5 DEF Budget
<1>4. CASE WriteStep(w) \/ EndStep(w)
  <2>1. Early' = Early
    BY <1>4, <1>o, <1>s DEF WriteStep, EndStep, Early, At
  <2>2. /\ writer[w].i \in Item /\ item[writer[w].i].seq % 2 = 1
        /\ item'[writer[w].i].seq \in {item[writer[w].i].seq, item[writer[w].i].seq + 1}
        /\ \A j \in Item : j # writer[w].i => item'[j] = item[j]
        /\ updates' = updates
    <3>1. Inside(w) /\ writer[w].pc # "idle"
      BY <1>4 DEF WriteStep, EndStep, Inside, At
    <3>2. writer[w].i \in Item
      BY <3>1 DEF Types, At
    <3>3. item[writer[w].i].seq = writer[w].seq /\ item[writer[w].i].seq % 2 = 1
      BY <3>1 DEF LockInv, WritersExclude, Odd
    <3>4. CASE WriteStep(w)
      BY Zenon, <3>2, <3>3, <3>4 DEF WriteStep, ItemBecomes
    <3>5. CASE EndStep(w)
      BY <3>2, <3>3, <3>5 DEF EndStep, ItemBecomes
    <3> QED BY Zenon, <1>4, <3>4, <3>5
  <2>3. ASSUME NEW j \in Item
        PROVE  item'[j].seq + Odd(item'[j].seq) + 2 * Cardinality(Early') <= 2 * updates'
    <3>1. CASE j = writer[w].i
      BY SMTT(30), <1>0, <2>1, <2>2, <3>1 DEF Odd
    <3>2. CASE j # writer[w].i
      BY <1>0, <2>1, <2>2, <3>2 DEF Odd
    <3> QED BY <3>1, <3>2
  <2>4. \A j \in Item : item'[j].seq + Odd(item'[j].seq) + 2 * Cardinality(Early') <= 2 * updates'
    BY <2>3, Zenon
  <2> QED BY <1>0, <2>1, <2>4 DEF Budget
<1> QED BY <1>1, <1>2, <1>3, <1>4 DEF WriterStep

\* A writer that locks finds the count even, so nobody inside; one that writes is alone.
LEMMA WriterLock ==
  ASSUME Types, LockInv, NEW w \in Writer, WriterStep(w)
  PROVE  LockInv'
<1> DEFINE i == writer[w].i
<1>0. /\ \A v \in Writer : writer[v].pc # "idle" => writer[v].i \in Item
      /\ \A v \in Writer : writer[v].seq \in Nat
      /\ \A v \in Writer : v # w => writer'[v] = writer[v]
  BY Zenon DEF Types, WriterRec, At, WriterStep, BeginStep, QuietStep, LockStep, WriteStep, EndStep,
         AnnounceStep, OnlyWriter
<1>1. CASE BeginStep(w) \/ QuietStep(w) \/ AnnounceStep(w)
  <2>1. item' = item /\ ~ Inside(w) /\ writer'[w].pc \notin InsidePc
    BY <1>1 DEF BeginStep, QuietStep, AnnounceStep, Inside, InsidePc, EarlyPc, MarkPc, At
  <2>2. writer'[w].pc \in {"cas", "trycas"} => Odd(writer'[w].seq) = 0
    BY <1>1 DEF BeginStep, QuietStep, AnnounceStep, EarlyPc, MarkPc
  <2> QED BY SMTT(30), <1>0, <2>1, <2>2 DEF LockInv, WritersExclude, Inside, InsidePc, At
<1>2. CASE LockStep(w)
  <2>1. /\ i \in Item /\ Odd(item[i].seq) = 0 /\ Odd(item'[i].seq) = 1
        /\ writer'[w].pc = "a" /\ writer'[w].i = i /\ writer'[w].seq = item'[i].seq
        /\ \A j \in Item : j # i => item'[j] = item[j]
    BY SMTT(30), <1>0, <1>2 DEF LockStep, LockInv, ItemBecomes, Odd
  <2>2. \A v \in Writer : Inside(v) => v # w /\ writer[v].i # i
    BY SMTT(30), <1>2, <2>1 DEF LockStep, LockInv, WritersExclude, Inside
  <2> HIDE DEF i
  <2> QED BY <1>0, <2>1, <2>2 DEF LockInv, WritersExclude, Inside, At
<1>3. CASE WriteStep(w)
  <2>1. /\ i \in Item /\ item'[i].seq = item[i].seq /\ Odd(item[i].seq) = 1 /\ item[i].seq = writer[w].seq
        /\ writer'[w].i = i /\ writer'[w].seq = writer[w].seq /\ writer'[w].new = writer[w].new
        /\ \A j \in Item : j # i => item'[j] = item[j]
        /\ Inside(w)
    BY Zenon, <1>0, <1>3 DEF WriteStep, LockInv, WritersExclude, Inside, ItemBecomes, At
  <2>2. \/ writer'[w].pc = "b" /\ item'[i].a = writer[w].new
        \/ writer'[w].pc = "end" /\ item'[i].a = writer[w].new /\ item'[i].b = writer[w].new
    BY Zenon, <1>3 DEF WriteStep, LockInv, ItemBecomes, At
  <2>3. \A v \in Writer : Inside(v) /\ v # w => writer[v].i # i
    BY <2>1 DEF LockInv, WritersExclude
  <2> HIDE DEF i
  <2> QED BY <1>0, <2>1, <2>2, <2>3 DEF LockInv, WritersExclude, Inside, At
<1>4. CASE EndStep(w)
  <2>1. /\ i \in Item /\ Odd(item'[i].seq) = 0 /\ item'[i].a = item'[i].b
        /\ writer'[w].pc = "mark"
        /\ \A j \in Item : j # i => item'[j] = item[j]
        /\ Inside(w)
    BY SMTT(30), <1>0, <1>4 DEF EndStep, LockInv, WritersExclude, Inside, ItemBecomes, At, Odd
  <2>2. \A v \in Writer : Inside(v) /\ v # w => writer[v].i # i
    BY Zenon, <2>1 DEF LockInv, WritersExclude
  <2> HIDE DEF i
  <2> QED BY <1>0, <2>1, <2>2 DEF LockInv, WritersExclude, Inside, At
<1> QED BY <1>1, <1>2, <1>3, <1>4 DEF WriterStep

\* Under the agent's eyes counts only grow, and a half changes only under an odd one.
LEMMA WriterAgent ==
  ASSUME Types, LockInv, AgentInv, NEW w \in Writer, WriterStep(w)
  PROVE  AgentInv'
<1>1. agent' = agent /\ Reading' = Reading
  BY Zenon DEF Reading, WriterStep, BeginStep, QuietStep, LockStep, WriteStep, EndStep, AnnounceStep,
         OnlyWriter
<1>2. ASSUME NEW j \in Item
      PROVE  \/ item'[j] = item[j]
             \/ item'[j].seq > item[j].seq
             \/ item'[j].seq = item[j].seq /\ Odd(item[j].seq) = 1
  <2>0. item[j].seq \in Nat
    BY DEF Types
  <2>1. CASE LockStep(w)
    BY SMTT(30), <2>0, <2>1 DEF LockStep, ItemBecomes
  <2>2. Inside(w) => item[writer[w].i].seq = writer[w].seq /\ Odd(item[writer[w].i].seq) = 1
    BY DEF LockInv, WritersExclude
  <2>3. CASE EndStep(w)
    BY <2>0, <2>2, <2>3 DEF EndStep, ItemBecomes, Inside, At
  <2>4. CASE WriteStep(w)
    BY Zenon, <2>2, <2>4 DEF WriteStep, ItemBecomes, Inside, At
  <2> QED BY <2>1, <2>3, <2>4 DEF WriterStep, BeginStep, QuietStep, AnnounceStep
<1>3. agent.pc = "store" => entries'[agent.c] = entries[agent.c]
  <2>1. CASE AnnounceStep(w)
    BY SMTT(30), <2>1 DEF AnnounceStep, AgentInv, Types, Item, Free
  <2> QED BY Zenon, <2>1 DEF WriterStep, BeginStep, QuietStep, LockStep, WriteStep, EndStep
<1>4. agent.pc \in ReadPc => Reading \in Item /\ item[Reading].seq \in Nat /\ item'[Reading].seq \in Nat
  BY Zenon, ReadingInTodo, WriterTypes DEF AgentInv, Types
<1>5. agent.seq \in Nat
  BY DEF Types, AgentRec
<1>6. /\ agent.pc \in {"a", "b", "end"} => agent.seq <= item'[Reading].seq
      /\ agent.pc \in {"b", "end"} /\ Odd(agent.seq) = 0 /\ agent.seq = item'[Reading].seq =>
           item'[Reading] = item[Reading]
  BY <1>2, <1>4, <1>5 DEF AgentInv, ReadPc
<1> QED BY <1>1, <1>3, <1>6 DEF AgentInv, ReadPc

\* A writer that makes an item newer than the view is about to announce it, and gives
\* up announcing only by doing it.
LEMMA WriterKeeps ==
  ASSUME Types, NoLostUpdate, NEW w \in Writer, WriterStep(w)
  PROVE  NoLostUpdate'
<1> SUFFICES ASSUME NEW j \in Item
             PROVE  \/ view'[j] = <<item'[j].a, item'[j].b>>
                    \/ scrape_all' > 0 \/ WillRead(j)'
                    \/ \E c \in Cell : entries'[c] = j
                    \/ \E v \in Writer : Announcing(v, j)'
  BY DEF NoLostUpdate
<1>0. /\ view' = view /\ WillRead(j)' = WillRead(j)
      /\ \A v \in Writer : v # w => Announcing(v, j)' = Announcing(v, j)
  BY Zenon
     DEF WriterStep, BeginStep, QuietStep, LockStep, WriteStep, EndStep, AnnounceStep,
         OnlyWriter,
         WillRead, Announcing
<1>1. CASE BeginStep(w) \/ QuietStep(w)
  <2>1. item' = item /\ scrape_all' = scrape_all /\ entries' = entries
    BY <1>1 DEF BeginStep, QuietStep
  <2>2. Announcing(w, j) => Announcing(w, j)'
    BY <1>1 DEF BeginStep, QuietStep, Announcing, EarlyPc, MarkPc, At
  <2> QED BY <1>0, <2>1, <2>2 DEF NoLostUpdate
<1>2. CASE LockStep(w) \/ WriteStep(w) \/ EndStep(w)
  <2>1. scrape_all' = scrape_all /\ entries' = entries
    BY Zenon, <1>2 DEF LockStep, WriteStep, EndStep
  <2>2. writer'[w].i = writer[w].i /\ writer'[w].pc \in {"a", "b", "end", "mark"}
    BY Zenon, <1>2 DEF LockStep, WriteStep, EndStep
  <2>3. j # writer[w].i => item'[j] = item[j]
    BY Zenon, <1>2 DEF LockStep, WriteStep, EndStep, ItemBecomes
  <2> QED BY <1>0, <2>1, <2>2, <2>3 DEF NoLostUpdate, Announcing
<1>3. CASE AnnounceStep(w)
  <2>1. item' = item /\ scrape_all \in Nat
    BY Zenon, <1>3 DEF AnnounceStep, Types
  <2>2. CASE UNCHANGED scrape_all /\ \E c \in Cell : entries[c] = Free /\ entries' = [entries EXCEPT ![c] = writer[w].i]
    <3>1. PICK c \in Cell : entries[c] = Free /\ entries' = [entries EXCEPT ![c] = writer[w].i]
      BY Zenon, <2>2
    <3>2. entries'[c] = writer[w].i /\ \A d \in Cell : entries[d] = j => entries'[d] = j
      BY <3>1, SizeAssumption DEF Types, Item, Free
    <3> QED BY <1>0, <2>1, <2>2, <3>2 DEF NoLostUpdate, Announcing
  <2>3. CASE scrape_all' = scrape_all + 1
    BY SMTT(30), <2>1, <2>3
  <2> QED BY Zenon, <1>3, <2>2, <2>3 DEF AnnounceStep
<1> QED BY <1>1, <1>2, <1>3 DEF WriterStep

-----------------------------------------------------------------------------
(* The agent *)

AgentBecomes(pc, full, c, idx, todo) ==
  /\ agent' \in AgentRec
  /\ agent'.pc = pc /\ agent'.full = full /\ agent'.c = c /\ agent'.idx = idx
  /\ agent'.todo = todo

\* The return of NextUpdatedIndex().
LEMMA SetReturned ==
  ASSUME Types, NEW todo \in SUBSET Item, Returns(todo)
  PROVE  AgentBecomes(IF todo = {} THEN "poll" ELSE "begin", FALSE, 0, Free, todo)
BY Zenon DEF Types, Returns, AgentBecomes, AgentRec, AgentPc

\* The scan goes on.
LEMMA SetScanned ==
  ASSUME Types, NEW c \in Nat, agent' = [agent EXCEPT !.pc = "scan", !.c = c, !.idx = Free]
  PROVE  AgentBecomes("scan", agent.full, c, Free, agent.todo)
BY Zenon DEF Types, AgentBecomes, AgentRec, AgentPc

\* NextUpdatedIndex() keeps the invariant: an entry is taken from its cell only to be
\* read, alone or in a scan of every item, and scrape_all is reset before that scan.
LEMMA PollKeeps ==
  ASSUME IInv, PollLoad \/ PollExchange \/ ScanLoad \/ ScanStore
  PROVE  Types' /\ AgentInv' /\ NoLostUpdate' /\ UNCHANGED <<item, writer, view, updates>>
<1> USE DEF AgentBecomes
<1>0. /\ Types /\ AgentInv /\ NoLostUpdate /\ agent \in AgentRec
      /\ agent.todo = {} /\ UNCHANGED <<item, writer, view, updates>>
  BY DEF IInv, Types, AgentInv, ReadPc, PollLoad, PollExchange, ScanLoad, ScanStore
<1>a. \A j \in Item, v \in Writer : Announcing(v, j)' = Announcing(v, j)
  BY <1>0 DEF Announcing
<1>t. ASSUME agent' \in AgentRec, scrape_all' \in Nat, entries' \in [Cell -> Item \cup {Free}]
      PROVE  Types'
  BY <1>0, <1>t DEF Types, At
<1>1. CASE PollLoad
  <2>1. AgentBecomes(IF scrape_all > 0 THEN "exchange" ELSE "scan", FALSE, 0, agent.idx, {})
    BY Zenon, <1>0, <1>1 DEF PollLoad, AgentRec, AgentPc
  <2>2. scrape_all' = scrape_all /\ entries' = entries /\ ~ agent.full /\ agent.pc = "poll"
    BY <1>0, <1>1 DEF PollLoad, AgentInv
  <2>3. Types'
    BY <1>0, <1>t, <2>1, <2>2 DEF Types
  <2>4. AgentInv'
    BY <2>1, SizeAssumption DEF AgentInv, ReadPc
  <2>5. NoLostUpdate'
    BY <1>0, <1>a, <2>1, <2>2 DEF NoLostUpdate, WillRead
  <2> QED BY <1>0, <2>3, <2>4, <2>5
<1>2. CASE PollExchange
  <2>1. AgentBecomes("scan", TRUE, agent.c, agent.idx, {})
    BY Zenon, <1>0, <1>2 DEF PollExchange, AgentRec, AgentPc
  <2>3. Types'
    BY <1>0, <1>2, <1>t, <2>1 DEF Types, PollExchange
  <2>4. AgentInv'
    BY <1>0, <1>2, <2>1 DEF AgentInv, ReadPc, PollExchange
  <2>5. NoLostUpdate'
    BY <2>1 DEF NoLostUpdate, WillRead
  <2> QED BY <1>0, <2>3, <2>4, <2>5
<1>3. CASE ScanLoad
  <2>0. agent.pc = "scan" /\ scrape_all' = scrape_all /\ entries' = entries /\ agent.c \in Nat /\ agent.c <= Cap
    BY <1>0, <1>3 DEF ScanLoad, AgentInv, AgentRec
  <2>1. CASE agent.c = Cap
    <3> DEFINE todo == IF agent.full THEN Item ELSE {}
    <3>1. AgentBecomes(IF todo = {} THEN "poll" ELSE "begin", FALSE, 0, Free, todo)
      BY Zenon, <1>0, <1>3, <2>1, SetReturned DEF ScanLoad
    <3>2. Types'
      BY <1>0, <2>0, <1>t, <3>1 DEF Types
    <3>3. AgentInv'
      BY <3>1 DEF AgentInv, ReadPc
    <3>4. NoLostUpdate'
      BY <1>0, <1>a, <2>0, <3>1 DEF NoLostUpdate, WillRead
    <3> QED BY <1>0, <3>2, <3>3, <3>4
  <2>2. CASE agent.c # Cap /\ entries[agent.c] = Free
    <3>1. AgentBecomes("scan", agent.full, agent.c + 1, agent.idx, {})
      BY <1>0, <1>3, <2>2 DEF ScanLoad, AgentRec
    <3>2. Types'
      BY <1>0, <2>0, <1>t, <3>1 DEF Types
    <3>3. AgentInv'
      BY <2>0, <2>2, <3>1, SizeAssumption DEF AgentInv, ReadPc
    <3>4. NoLostUpdate'
      BY <1>0, <1>a, <2>0, <3>1 DEF NoLostUpdate, WillRead
    <3> QED BY <1>0, <3>2, <3>3, <3>4
  <2>3. CASE agent.c # Cap /\ entries[agent.c] # Free
    <3>0. agent.c \in Cell /\ entries[agent.c] \in Item
      BY <1>0, <2>0, <2>3, SizeAssumption DEF Types, Cell
    <3>1. AgentBecomes("store", agent.full, agent.c, entries[agent.c], {})
      BY ZenonT(30), <1>0, <1>3, <2>3, <3>0 DEF ScanLoad, AgentRec, AgentPc
    <3>2. Types'
      BY <1>0, <2>0, <1>t, <3>1 DEF Types
    <3>3. AgentInv'
      BY <2>0, <3>0, <3>1 DEF AgentInv, ReadPc
    <3>4. NoLostUpdate'
      BY <1>0, <1>a, <2>0, <3>1 DEF NoLostUpdate, WillRead
    <3> QED BY <1>0, <3>2, <3>3, <3>4
  <2> QED BY <2>1, <2>2, <2>3
<1>4. CASE ScanStore
  <2>0. /\ agent.pc = "store" /\ scrape_all' = scrape_all
        /\ agent.c \in Cell /\ agent.idx \in Item /\ entries[agent.c] = agent.idx
        /\ entries' = [entries EXCEPT ![agent.c] = Free]
    BY <1>0, <1>4 DEF ScanStore, AgentInv
  <2>e. /\ entries' \in [Cell -> Item \cup {Free}]
        /\ \A j \in Item : j # agent.idx /\ (\E c \in Cell : entries[c] = j)
                             => \E c \in Cell : entries'[c] = j
    BY <1>0, <2>0 DEF Types
  <2>1. CASE agent.full
    <3>0. agent' = [agent EXCEPT !.pc = "scan", !.c = agent.c + 1, !.idx = Free]
      BY <1>4, <2>1 DEF ScanStore
    <3>c. agent.c + 1 \in Nat
      BY <1>0 DEF AgentRec
    <3>d. AgentBecomes("scan", agent.full, agent.c + 1, Free, agent.todo)
      BY Zenon, <1>0, <3>0, <3>c, SetScanned
    <3>1. AgentBecomes("scan", agent.full, agent.c + 1, Free, {})
      BY <1>0, <3>d
    <3>2. Types'
      BY Zenon, <1>0, <2>0, <2>e, <1>t, <3>1 DEF Types
    <3>3. AgentInv'
      BY <2>0, <3>1, SizeAssumption DEF AgentInv, ReadPc, Cell
    <3>4. NoLostUpdate'
      BY <2>1, <3>1 DEF NoLostUpdate, WillRead
    <3> QED BY <1>0, <3>2, <3>3, <3>4
  <2>2. CASE ~ agent.full
    <3>1. AgentBecomes("begin", FALSE, 0, Free, {agent.idx})
      BY Zenon, <1>0, <1>4, <2>0, <2>2, SetReturned DEF ScanStore
    <3>2. Types'
      BY <1>0, <2>0, <2>e, <1>t, <3>1 DEF Types
    <3>3. AgentInv'
      BY <3>1 DEF AgentInv, ReadPc
    <3>4. NoLostUpdate'
      BY <1>0, <1>a, <2>0, <2>e, <2>2, <3>1 DEF NoLostUpdate, WillRead
    <3> QED BY <1>0, <3>2, <3>3, <3>4
  <2> QED BY <2>1, <2>2
<1> QED BY <1>1, <1>2, <1>3, <1>4

\* The readers of an item keep the invariant: read_end() accepts halves of one even
\* count, which are the item's.
LEMMA ReadKeeps ==
  ASSUME IInv, ReadBegin \/ Read \/ ReadEnd
  PROVE  /\ Types' /\ AgentInv' /\ Whole' /\ NoLostUpdate'
         /\ UNCHANGED <<item, scrape_all, entries, writer, updates>>
<1> USE DEF AgentBecomes
<1>0. /\ Types /\ AgentInv /\ LockInv /\ Whole /\ NoLostUpdate /\ agent \in AgentRec
      /\ agent.pc \in ReadPc /\ agent.todo # {} /\ ~ agent.full
      /\ UNCHANGED <<item, scrape_all, entries, writer, updates>>
  BY DEF IInv, Types, AgentInv, ReadPc, ReadBegin, Read, ReadEnd
<1>a. \A j \in Item, v \in Writer : Announcing(v, j)' = Announcing(v, j)
  BY <1>0 DEF Announcing
<1>r. Reading \in agent.todo /\ Reading \in Item
  BY <1>0, ReadingInTodo
<1>i. item[Reading] \in [seq : Nat, a : Nat, b : Nat] /\ agent.seq \in Nat
  BY <1>0, <1>r DEF Types, AgentRec
<1>t. ASSUME agent' \in AgentRec, view' \in [Item -> Nat \X Nat] PROVE Types'
  BY <1>0, <1>t DEF Types, At
<1>1. CASE ReadBegin \/ Read
  <2>1. /\ AgentBecomes(agent'.pc, FALSE, agent.c, agent.idx, agent.todo)
        /\ view' = view
        /\ \/ agent'.pc = "a" /\ agent'.seq = item[Reading].seq
           \/ agent.pc = "a" /\ agent'.pc = "b" /\ agent'.a = item[Reading].a /\ agent'.seq = agent.seq
           \/ /\ agent.pc = "b" /\ agent'.pc = "end" /\ agent'.b = item[Reading].b
              /\ agent'.a = agent.a /\ agent'.seq = agent.seq
    <3>1. CASE ReadBegin
      BY Zenon, <1>0, <1>i, <3>1 DEF ReadBegin, AgentRec, AgentPc
    <3>2. CASE Read /\ agent.pc = "a"
      BY Zenon, <1>0, <1>i, <3>2 DEF Read, AgentRec, AgentPc
    <3>3. CASE Read /\ agent.pc = "b"
      BY Zenon, <1>0, <1>i, <3>3 DEF Read, AgentRec, AgentPc
    <3> QED BY Zenon, <1>1, <3>1, <3>2, <3>3 DEF Read
  <2>2. Reading' = Reading
    BY <2>1 DEF Reading
  <2>3. Types'
    BY Zenon, <1>0, <1>t, <2>1 DEF Types
  <2>4. AgentInv'
    BY SMTT(30), <1>0, <1>i, <2>1, <2>2 DEF AgentInv, ReadPc
  <2>5. NoLostUpdate'
    BY Zenon, <1>0, <1>a, <2>1 DEF NoLostUpdate, WillRead, ReadPc
  <2> QED BY <1>0, <2>1, <2>3, <2>4, <2>5 DEF Whole
<1>2. CASE ReadEnd /\ ~ (agent.seq % 2 = 0 /\ agent.seq = item[Reading].seq)
  <2>1. AgentBecomes("begin", FALSE, agent.c, agent.idx, agent.todo) /\ view' = view
    BY <1>0, <1>2 DEF ReadEnd, AgentRec, AgentPc
  <2>2. Types'
    BY <1>0, <1>t, <2>1 DEF Types
  <2>3. AgentInv'
    BY <1>0, <2>1 DEF AgentInv, ReadPc
  <2>4. NoLostUpdate'
    BY <1>0, <1>a, <2>1 DEF NoLostUpdate, WillRead, ReadPc
  <2> QED BY <1>0, <2>1, <2>2, <2>3, <2>4 DEF Whole
<1>3. CASE ReadEnd /\ agent.seq % 2 = 0 /\ agent.seq = item[Reading].seq
  <2>1. /\ agent.a = item[Reading].a /\ agent.b = item[Reading].b
        /\ item[Reading].a = item[Reading].b
        /\ view' = [view EXCEPT ![Reading] = <<item[Reading].a, item[Reading].b>>]
    BY Zenon, <1>0, <1>r, <1>3 DEF ReadEnd, AgentInv, LockInv, Odd
  <2>2. /\ view' \in [Item -> Nat \X Nat]
        /\ view'[Reading] = <<item[Reading].a, item[Reading].b>>
        /\ \A j \in Item : j # Reading => view'[j] = view[j]
    BY <1>0, <1>r, <1>i, <2>1 DEF Types
  <2>3. Whole'
    BY <1>0, <2>1, <2>2 DEF Whole
  <2>4. /\ agent' \in AgentRec /\ ~ agent'.full
        /\ agent'.todo = agent.todo \ {Reading}
        /\ agent'.pc = IF agent'.todo = {} THEN "poll" ELSE "begin"
    <3>1. CASE agent.todo \ {Reading} = {}
      BY <1>0, <1>3, <3>1 DEF ReadEnd, AgentIdle, AgentRec, AgentPc
    <3>2. CASE agent.todo \ {Reading} # {}
      BY Zenon, <1>0, <1>3, <3>2 DEF ReadEnd, AgentRec, AgentPc
    <3> QED BY <3>1, <3>2
  <2>5. Types'
    BY <1>t, <2>2, <2>4
  <2>6. AgentInv'
    BY <2>4 DEF AgentInv, ReadPc
  <2>7. NoLostUpdate'
    BY Zenon, <1>0, <1>a, <2>2, <2>4 DEF NoLostUpdate, WillRead, ReadPc
  <2> QED BY <1>0, <2>3, <2>5, <2>6, <2>7
<1> QED BY <1>1, <1>2, <1>3

-----------------------------------------------------------------------------
\* The empty table satisfies the invariant.
LEMMA InitInv == Init => IInv
<1> SUFFICES ASSUME Init PROVE IInv
  OBVIOUS
<1>1. Types
  BY SMTT(30), SizeAssumption
     DEF Init, Types, WriterIdle, WriterRec, WriterPc, AgentIdle, AgentRec, AgentPc, At, Item,
         Free
<1>2. Budget
  <2>1. Early = {}
    BY DEF Init, Early, WriterIdle
  <2>2. Cardinality(Early) = 0 /\ IsFiniteSet(Early)
    BY <2>1, FS_EmptySet
  <2> QED BY <2>2 DEF Init, Budget, Odd
<1>3. LockInv
  BY DEF Init, LockInv, WritersExclude, WriterIdle, Inside, At
<1>4. AgentInv /\ Whole /\ NoLostUpdate
  BY DEF Init, AgentInv, AgentIdle, ReadPc, Whole, NoLostUpdate
<1> QED BY <1>1, <1>2, <1>3, <1>4 DEF IInv

\* Every step keeps the invariant.
LEMMA StepInv == IInv /\ [Next]_vars => IInv'
<1> SUFFICES ASSUME IInv, [Next]_vars PROVE IInv'
  OBVIOUS
<1>u. ASSUME UNCHANGED <<item, writer, updates>> PROVE Budget /\ LockInv => Budget' /\ LockInv'
  <2>1. Early' = Early
    BY <1>u DEF Early
  <2> QED BY Zenon, <1>u, <2>1 DEF Budget, LockInv, WritersExclude, Inside, At
<1>1. ASSUME NEW w \in Writer, Begin(w) \/ WriteBeginCas(w) \/ Update(w) PROVE IInv'
  <2>1. WriterStep(w)
    BY <1>1, WriterSteps DEF IInv
  <2>2. Types' /\ Budget' /\ LockInv' /\ AgentInv' /\ NoLostUpdate'
    BY <2>1, WriterTypes, WriterBudget, WriterLock, WriterAgent, WriterKeeps DEF IInv
  <2>3. view' = view
    BY Zenon, <2>1
       DEF WriterStep, BeginStep, QuietStep, LockStep, WriteStep, EndStep, AnnounceStep,
           OnlyWriter
  <2> QED BY <2>2, <2>3 DEF IInv, Whole
<1>2. CASE PollLoad \/ PollExchange \/ ScanLoad \/ ScanStore
  BY Zenon, <1>2, <1>u, PollKeeps DEF IInv, Whole
<1>3. CASE ReadBegin \/ Read \/ ReadEnd
  BY <1>3, <1>u, ReadKeeps DEF IInv
<1>4. CASE UNCHANGED vars
  <2>1. UNCHANGED <<item, scrape_all, entries, writer, agent, view, updates>>
    BY <1>4 DEF vars
  <2>2. Types' /\ Whole'
    BY <2>1 DEF IInv, Types, At, Whole
  <2>3. AgentInv'
    BY <2>1 DEF IInv, AgentInv, Reading
  <2>4. NoLostUpdate'
    BY <2>1 DEF IInv, NoLostUpdate, WillRead, Announcing
  <2> QED BY <1>u, <2>1, <2>2, <2>3, <2>4 DEF IInv
<1> QED BY <1>1, <1>2, <1>3, <1>4 DEF Next, Agent

\* Every reachable state of the table satisfies IInv.
THEOREM Invariance == Spec => []IInv
BY InitInv, StepInv, PTL DEF Spec

\* read_end() accepts no torn item, and writers exclude each other, whatever the
\* interleaving of any number of writers with the agent.
THEOREM ReadsAreWhole == Spec => []NoTornRead
<1>1. IInv => NoTornRead
  BY DEF IInv, LockInv, Whole, NoTornRead
<1> QED BY <1>1, Invariance, PTL

\* An item newer than the agent's view of it is always about to be announced, announced,
\* or about to be read: NextUpdatedIndex() may reset a cell and scrape_all without an
\* atomic exchange of both.
THEOREM UpdatesAreKept == Spec => []NoLostUpdate
<1>1. IInv => NoLostUpdate
  BY DEF IInv
<1> QED BY <1>1, Invariance, PTL
=============================================================================
