------------------------------ MODULE Channel ------------------------------
(***************************************************************************)
(* The ring of messages between the kernel and an agent, lib/channel.cc.   *)
(* Indices grow without end in unsigned arithmetic, IndexMod standing for  *)
(* 2^32; a message takes as many slots as its length needs.  The kernel's  *)
(* side is external, after the comment on struct ghost_ring.               *)
(*                                                                         *)
(* Peek is a load of tail, one of head and one of overflow; the agent      *)
(* handles the message where it lies in the ring and then consumes it.     *)
(***************************************************************************)
EXTENDS Integers, Sequences

CONSTANTS NElems,    \* header_->nelems, a power of two
          IndexMod,  \* 2^32
          LenMod,    \* 2^16, the width of a message's length
          SlotSize,  \* sizeof(ghost_msg)
          Length     \* the lengths of messages

\* What is assumed of the constants.
RingAssumption ==
  /\ IndexMod % NElems = 0 /\ NElems < IndexMod
  /\ Length \subseteq 1 .. LenMod - 1

VARIABLES head, tail, overflow,
          msgs,     \* msgs[i]: the message that begins in slot i, or Junk
          kernel,   \* the message being produced, or Junk
          agent     \* what the agent is doing

vars == <<head, tail, overflow, msgs, kernel, agent>>

Slot == 0 .. NElems - 1

Junk == [length |-> 0, late |-> FALSE]

AgentIdle == [pc |-> "peek", tail |-> 0]

Init ==
  /\ head \in {0, IndexMod - 1} /\ tail = head
  /\ overflow = 0
  /\ msgs = [i \in Slot |-> Junk]
  /\ kernel = Junk
  /\ agent = AgentIdle

\* roundup2(length, SlotSize) / SlotSize, in 32 bits.
SlotsOf(length) == (length + SlotSize - 1) \div SlotSize

-----------------------------------------------------------------------------
(* The kernel *)

Used == (head - tail + IndexMod) % IndexMod

KernelSlots(length) == (length + SlotSize - 1) \div SlotSize

\* There is room: the message is written before head tells of it.
KernelWrite ==
  /\ kernel = Junk
  /\ \E l \in Length :
       /\ Used + KernelSlots(l) <= NElems
       /\ kernel' = [length |-> l, late |-> overflow > 0]
       /\ msgs' = [i \in Slot |->
                     IF i = head % NElems THEN kernel'
                     ELSE IF (i - head + IndexMod) % NElems < KernelSlots(l) THEN Junk ELSE msgs[i]]
  /\ UNCHANGED <<head, tail, overflow, agent>>

KernelPublish ==
  /\ kernel # Junk
  /\ head' = (head + KernelSlots(kernel.length)) % IndexMod
  /\ kernel' = Junk
  /\ UNCHANGED <<tail, overflow, msgs, agent>>

\* There is no room.
KernelOverflow ==
  /\ kernel = Junk
  /\ \E l \in Length : Used + KernelSlots(l) > NElems
  /\ overflow' = 1
  /\ UNCHANGED <<head, tail, msgs, kernel, agent>>

-----------------------------------------------------------------------------
(* The agent *)

PeekTail ==
  /\ agent.pc = "peek"
  /\ agent' = [agent EXCEPT !.pc = "head", !.tail = tail]
  /\ UNCHANGED <<head, tail, overflow, msgs, kernel>>

PeekHead ==
  /\ agent.pc = "head"
  /\ agent' = IF head = agent.tail THEN AgentIdle ELSE [agent EXCEPT !.pc = "overflow"]
  /\ UNCHANGED <<head, tail, overflow, msgs, kernel>>

\* Seeded fault of PeekOverflow: it does not check.
PeekUnchecked ==
  /\ agent.pc = "overflow"
  /\ agent' = [agent EXCEPT !.pc = "consume"]
  /\ UNCHANGED <<head, tail, overflow, msgs, kernel>>

\* CHECK_EQ(overflow, 0) ends the agent.
PeekOverflow ==
  /\ agent.pc = "overflow"
  /\ agent' = [agent EXCEPT !.pc = IF overflow > 0 THEN "dead" ELSE "consume"]
  /\ UNCHANGED <<head, tail, overflow, msgs, kernel>>

\* The message Peek returned, which lies in the ring until it is consumed.
Peeked == msgs[agent.tail % NElems]

Consume ==
  /\ agent.pc = "consume"
  /\ tail' = (tail + SlotsOf(Peeked.length)) % IndexMod
  /\ agent' = AgentIdle
  /\ UNCHANGED <<head, overflow, msgs, kernel>>

Dead == agent.pc = "dead" /\ UNCHANGED vars

AgentStep == PeekTail \/ PeekHead \/ PeekOverflow \/ Consume

Next == KernelWrite \/ KernelPublish \/ KernelOverflow \/ AgentStep \/ Dead

Fairness == WF_vars(AgentStep)

Spec == Init /\ [][Next]_vars /\ Fairness

-----------------------------------------------------------------------------
\* The messages between two indices.
RECURSIVE From(_, _)
From(i, fuel) ==
  IF i = head \/ fuel = 0 THEN << >>
  ELSE LET m == msgs[i % NElems]
       IN  <<[m |-> m.length, late |-> m.late]>> \o
           From((i + KernelSlots(m.length)) % IndexMod, fuel - 1)

Q == INSTANCE MessageQueue WITH
       Message <- Length, queue <- From(tail, NElems), lost <- overflow > 0

\* The ring is a queue of messages, across the wrapping of its indices and with
\* messages of several slots; a message that comes after a lost one is never
\* consumed, because Peek reads overflow after head.
ImplementsQueue == Q!QSpec

\* The agent gets on: while there are messages it consumes one again and again, or it
\* finds that messages were lost.
MessagesAreTaken ==
  \/ []<>(head = tail \/ agent.pc = "dead")
  \/ []<><<tail' # tail>>_vars
=============================================================================
