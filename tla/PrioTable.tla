----------------------------- MODULE PrioTable -----------------------------
(***************************************************************************)
(* The priority table, shared/prio_table: an application updates items of  *)
(* shared memory under a sequence count each, and announces every update   *)
(* in a stream of a few cells, or by scrape_all when the cells are taken.  *)
(* One agent polls the stream and reads the items it names.                *)
(*                                                                         *)
(* Every atomic access is a step.  A compare_exchange_weak may fail for no *)
(* reason.  An item's fields are two halves, written and read one by one.  *)
(* The calls of the application and the agent's loop around them are       *)
(* external: update, mark; poll, read, read again until read_end agrees.   *)
(***************************************************************************)
EXTENDS Integers, FiniteSets

CONSTANTS Writer,
          NumItems,    \* hdr()->si_num
          Cap,         \* hdr()->st_cap
          NumRetries,  \* num_retries of MarkUpdatedIndex
          SeqMod,      \* sequence counts wrap at this value: 2^32 in the program
          MaxUpdates   \* how many updates are made in all

ASSUME SizeAssumption ==
  /\ NumItems \in Nat /\ Cap \in Nat \ {0} /\ NumRetries \in Nat
  /\ SeqMod \in Nat /\ MaxUpdates \in Nat

\* A reader that sleeps through SeqMod / 2 updates of an item cannot tell: that
\* many do not happen.
ASSUME SeqAssumption == SeqMod % 2 = 0 /\ 2 * MaxUpdates < SeqMod

VARIABLES item,        \* item[i]: sequence count and the two halves
          scrape_all,  \* the overflow count
          entries,     \* entries[c]: an index, or Free
          writer,      \* writer[w]: what w is doing
          agent,       \* what the agent is doing
          view,        \* view[i]: the halves of item i the agent read last
          updates      \* how many updates were begun

vars == <<item, scrape_all, entries, writer, agent, view, updates>>

Item == 0 .. NumItems - 1
Cell == 0 .. Cap - 1
Free == -1

WriterIdle == [pc |-> "idle", i |-> 0, seq |-> 0, new |-> 0, k |-> 0]
AgentIdle == [pc |-> "poll", full |-> FALSE, c |-> 0, idx |-> Free, todo |-> {},
              seq |-> 0, a |-> 0, b |-> 0]

Init ==
  /\ item = [i \in Item |-> [seq |-> 0, a |-> 0, b |-> 0]]
  /\ scrape_all = 0
  /\ entries = [c \in Cell |-> Free]
  /\ writer = [w \in Writer |-> WriterIdle]
  /\ agent = AgentIdle
  /\ view = [i \in Item |-> <<0, 0>>]
  /\ updates = 0

At(w, pc) == writer[w].pc = pc
Goes(w, pc) == writer' = [writer EXCEPT ![w].pc = pc]

-----------------------------------------------------------------------------
(* seqcount: a writer *)

\* A writer begins an update of some item: by write_begin, or by try_write_begin
\* and doing something else if that fails.
Begin(w) ==
  /\ At(w, "idle") /\ updates < MaxUpdates
  /\ updates' = updates + 1
  /\ \E i \in Item, how \in {"load", "try"} :
       writer' = [writer EXCEPT ![w] = [WriterIdle EXCEPT !.pc = how, !.i = i, !.new = updates + 1]]
  /\ UNCHANGED <<item, scrape_all, entries, agent, view>>

\* The loads of write_begin, until no other writer has the lock.
WriteBeginLoad(w) ==
  /\ At(w, "load")
  /\ item[writer[w].i].seq % 2 = 0
  /\ writer' = [writer EXCEPT ![w].pc = "cas", ![w].seq = item[writer[w].i].seq]
  /\ UNCHANGED <<item, scrape_all, entries, agent, view, updates>>

Locked(w) ==
  /\ item' = [item EXCEPT ![writer[w].i].seq = (writer[w].seq + 1) % SeqMod]
  /\ writer' = [writer EXCEPT ![w].pc = "a", ![w].seq = (writer[w].seq + 1) % SeqMod]

WriteBeginCas(w) ==
  /\ At(w, "cas")
  /\ item[writer[w].i].seq = writer[w].seq
  /\ Locked(w)
  /\ UNCHANGED <<scrape_all, entries, agent, view, updates>>

\* The exchange fails; it has loaded the present value, and the loop goes on.
WriteBeginAgain(w) ==
  /\ At(w, "cas")
  /\ Goes(w, "load")
  /\ UNCHANGED <<item, scrape_all, entries, agent, view, updates>>

TryWriteBegin(w) ==
  /\ At(w, "try")
  /\ IF item[writer[w].i].seq % 2 = 0
     THEN writer' = [writer EXCEPT ![w].pc = "trycas", ![w].seq = item[writer[w].i].seq]
     ELSE writer' = [writer EXCEPT ![w] = WriterIdle]
  /\ UNCHANGED <<item, scrape_all, entries, agent, view, updates>>

TryWriteCas(w) ==
  /\ At(w, "trycas")
  /\ IF item[writer[w].i].seq = writer[w].seq
     THEN Locked(w)
     ELSE writer' = [writer EXCEPT ![w] = WriterIdle] /\ UNCHANGED item
  /\ UNCHANGED <<scrape_all, entries, agent, view, updates>>

Write(w) ==
  /\ writer[w].pc \in {"a", "b"}
  /\ item' = [item EXCEPT ![writer[w].i][writer[w].pc] = writer[w].new]
  /\ Goes(w, IF At(w, "a") THEN "b" ELSE "end")
  /\ UNCHANGED <<scrape_all, entries, agent, view, updates>>

\* Seeded fault of WriteEnd: the count stays odd.
WriteEndForgotten(w) ==
  /\ At(w, "end")
  /\ Goes(w, "mark")
  /\ UNCHANGED <<item, scrape_all, entries, agent, view, updates>>

WriteEnd(w) ==
  /\ At(w, "end")
  /\ item' = [item EXCEPT ![writer[w].i].seq = (writer[w].seq + 1) % SeqMod]
  /\ Goes(w, "mark")
  /\ UNCHANGED <<scrape_all, entries, agent, view, updates>>

-----------------------------------------------------------------------------
(* MarkUpdatedIndex *)

MarkLoad(w) ==
  /\ At(w, "mark")
  /\ Goes(w, IF scrape_all > 0 THEN "overflow" ELSE "cell")
  /\ UNCHANGED <<item, scrape_all, entries, agent, view, updates>>

CellOf(w) == (writer[w].i + writer[w].k) % Cap

\* The next cell, or the overflow after the last retry.
NextCell(w) ==
  IF writer[w].k = NumRetries
  THEN Goes(w, "overflow")
  ELSE writer' = [writer EXCEPT ![w].k = @ + 1, ![w].pc = "cell"]

CellLoad(w) ==
  /\ At(w, "cell")
  /\ IF entries[CellOf(w)] = Free THEN Goes(w, "cellcas") ELSE NextCell(w)
  /\ UNCHANGED <<item, scrape_all, entries, agent, view, updates>>

CellCas(w) ==
  /\ At(w, "cellcas")
  /\ \/ /\ entries[CellOf(w)] = Free
        /\ entries' = [entries EXCEPT ![CellOf(w)] = writer[w].i]
        /\ writer' = [writer EXCEPT ![w] = WriterIdle]
     \/ NextCell(w) /\ UNCHANGED entries
  /\ UNCHANGED <<item, scrape_all, agent, view, updates>>

MarkOverflow(w) ==
  /\ At(w, "overflow")
  /\ scrape_all' = scrape_all + 1
  /\ writer' = [writer EXCEPT ![w] = WriterIdle]
  /\ UNCHANGED <<item, entries, agent, view, updates>>

-----------------------------------------------------------------------------
(* NextUpdatedIndex, and the agent that calls it *)

PollLoad ==
  /\ agent.pc = "poll"
  /\ agent' = [agent EXCEPT !.pc = IF scrape_all > 0 THEN "exchange" ELSE "scan",
                            !.full = FALSE, !.c = 0]
  /\ UNCHANGED <<item, scrape_all, entries, writer, view, updates>>

PollExchange ==
  /\ agent.pc = "exchange"
  /\ scrape_all' = 0
  /\ agent' = [agent EXCEPT !.pc = "scan", !.full = TRUE]
  /\ UNCHANGED <<item, entries, writer, view, updates>>

\* The return value: after a full scan every item is read, after an index that
\* one; without entries the agent polls again.
Returns(todo) ==
  agent' = [agent EXCEPT !.pc = IF todo = {} THEN "poll" ELSE "begin",
                         !.todo = todo, !.full = FALSE, !.c = 0, !.idx = Free]

ScanLoad ==
  /\ agent.pc = "scan"
  /\ IF agent.c = Cap
     THEN Returns(IF agent.full THEN Item ELSE {})
     ELSE IF entries[agent.c] = Free
     THEN agent' = [agent EXCEPT !.c = @ + 1]
     ELSE agent' = [agent EXCEPT !.pc = "store", !.idx = entries[agent.c]]
  /\ UNCHANGED <<item, scrape_all, entries, writer, view, updates>>

\* Seeded fault of ScanStore: a full scan stops at the first entry, as usual.
ScanStoreStops ==
  /\ agent.pc = "store"
  /\ entries' = [entries EXCEPT ![agent.c] = Free]
  /\ Returns({agent.idx})
  /\ UNCHANGED <<item, scrape_all, writer, view, updates>>

ScanStore ==
  /\ agent.pc = "store"
  /\ entries' = [entries EXCEPT ![agent.c] = Free]
  /\ IF agent.full
     THEN agent' = [agent EXCEPT !.pc = "scan", !.c = @ + 1, !.idx = Free]
     ELSE Returns({agent.idx})
  /\ UNCHANGED <<item, scrape_all, writer, view, updates>>

\* The item the agent reads next.
Reading == CHOOSE i \in agent.todo : \A j \in agent.todo : i <= j

ReadBegin ==
  /\ agent.pc = "begin"
  /\ agent' = [agent EXCEPT !.pc = "a", !.seq = item[Reading].seq]
  /\ UNCHANGED <<item, scrape_all, entries, writer, view, updates>>

Read ==
  /\ agent.pc \in {"a", "b"}
  /\ agent' = IF agent.pc = "a"
              THEN [agent EXCEPT !.pc = "b", !.a = item[Reading].a]
              ELSE [agent EXCEPT !.pc = "end", !.b = item[Reading].b]
  /\ UNCHANGED <<item, scrape_all, entries, writer, view, updates>>

\* Seeded fault of ReadEnd: an odd count that has not changed is accepted.
ReadEndUnlocked ==
  LET ok == agent.seq = item[Reading].seq
      left == agent.todo \ {Reading}
  IN  /\ agent.pc = "end"
      /\ view' = IF ok THEN [view EXCEPT ![Reading] = <<agent.a, agent.b>>] ELSE view
      /\ agent' = IF ~ok THEN [agent EXCEPT !.pc = "begin"]
                  ELSE IF left = {} THEN AgentIdle
                  ELSE [agent EXCEPT !.pc = "begin", !.todo = left]
      /\ UNCHANGED <<item, scrape_all, entries, writer, updates>>

ReadEnd ==
  LET ok == agent.seq % 2 = 0 /\ agent.seq = item[Reading].seq
      left == agent.todo \ {Reading}
  IN  /\ agent.pc = "end"
      /\ view' = IF ok THEN [view EXCEPT ![Reading] = <<agent.a, agent.b>>] ELSE view
      /\ agent' = IF ~ok THEN [agent EXCEPT !.pc = "begin"]
                  ELSE IF left = {} THEN AgentIdle
                  ELSE [agent EXCEPT !.pc = "begin", !.todo = left]
      /\ UNCHANGED <<item, scrape_all, entries, writer, updates>>

-----------------------------------------------------------------------------
Update(w) ==
  \/ WriteBeginLoad(w) \/ WriteBeginAgain(w)
  \/ TryWriteBegin(w) \/ TryWriteCas(w)
  \/ Write(w) \/ WriteEnd(w)
  \/ MarkLoad(w) \/ CellLoad(w) \/ CellCas(w) \/ MarkOverflow(w)

Agent ==
  \/ PollLoad \/ PollExchange \/ ScanLoad \/ ScanStore
  \/ ReadBegin \/ Read \/ ReadEnd

Next == Agent \/ \E w \in Writer : Begin(w) \/ WriteBeginCas(w) \/ Update(w)

\* Threads run; an exchange that is tried again and again succeeds some time.
Fairness ==
  /\ WF_vars(Agent)
  /\ \A w \in Writer : WF_vars(Update(w)) /\ SF_vars(WriteBeginCas(w))

Spec == Init /\ [][Next]_vars /\ Fairness

-----------------------------------------------------------------------------
\* The table stays within its types, and the agent reads items only if it was
\* told of some.
TypeOK ==
  /\ item \in [Item -> [seq : 0 .. SeqMod - 1, a : 0 .. MaxUpdates, b : 0 .. MaxUpdates]]
  /\ scrape_all \in 0 .. MaxUpdates
  /\ entries \in [Cell -> Item \cup {Free}]
  /\ agent.todo \subseteq Item
  /\ agent.pc \in {"begin", "a", "b", "end"} => agent.todo # {}

Inside(w) == writer[w].pc \in {"a", "b", "end"}

\* write_begin and try_write_begin lock: one writer at a time is inside an item,
\* and at write_end the count is the one it began with (the DCHECK there).
WritersExclude ==
  \A w \in Writer :
    Inside(w) =>
      /\ item[writer[w].i].seq = writer[w].seq
      /\ \A v \in Writer \ {w} : Inside(v) => writer[v].i # writer[w].i

\* The agent never takes the halves of two updates for one item: read_end accepts
\* only what no writer touched, and writers are alone.
NoTornRead == WritersExclude /\ \A i \in Item : view[i][1] = view[i][2]

\* Writer w will still announce item i.
Announcing(w, i) ==
  writer[w].i = i /\ writer[w].pc \in {"a", "b", "end", "mark", "cell", "cellcas", "overflow"}

\* The agent will still read item i from the start.
WillRead(i) ==
  \/ agent.pc = "exchange" \/ agent.full
  \/ agent.pc = "store" /\ agent.idx = i
  \/ i \in agent.todo

\* No update is lost: an item that is newer than the agent's view of it is in the
\* stream or covered by scrape_all, or a writer is about to put it there, or the
\* agent is about to read it.  This is what the comment on the "non-atomic RMW"
\* of NextUpdatedIndex argues.
NoLostUpdate ==
  \A i \in Item :
    \/ view[i] = <<item[i].a, item[i].b>>
    \/ scrape_all > 0 \/ WillRead(i)
    \/ \E c \in Cell : entries[c] = i
    \/ \E w \in Writer : Announcing(w, i)

\* Every update is seen: some time after it the agent has read that value or a
\* later one.
UpdatesAreSeen ==
  \A i \in Item, n \in 1 .. MaxUpdates :
    item[i].b = n ~> view[i][2] >= n \/ view[i][2] = item[i].b
=============================================================================
