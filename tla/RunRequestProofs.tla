------------------------- MODULE RunRequestProofs -------------------------
(***************************************************************************)
(* The ownership of transactions is a lock, for every set of agents, CPUs  *)
(* and groups that overlap in any way.                                     *)
(*                                                                         *)
(* Every agent's part of the invariant (Mine) is about the transactions it *)
(* owns.  A step of another agent leaves these alone (OthersKept): the     *)
(* exchange of Open() takes only what nobody owns, an agent that opens,    *)
(* aborts or releases one in a group owns it already, and one that opens   *)
(* a transaction without owning it has a CPU that is in no group of        *)
(* another agent.                                                          *)
(***************************************************************************)
EXTENDS RunRequest, WellFoundedInduction, TLAPS

Pcs == Ops \cup {"idle", "owner", "take", "open", "ready", "complete", "release", "abortcas",
                 "synced", "returned", "dead"}

Calls == [pc : Pcs, op : Ops \cup {None}, list : SUBSET Cpu, todo : SUBSET Cpu,
          target : Target \cup {None}, failed : BOOLEAN, ops : Nat]

States == {"ready", "claimed", "complete", "failed", "poisoned", "aborted"}

Txns == [state : States, owner : Agent \cup {None}, gtid : Target \cup {None},
         taken : Target \cup {None}, asked : BOOLEAN]

Types == txn \in [Cpu -> Txns] /\ agent \in [Agent -> Calls]

\* What a call is about.
CallInv ==
  \A a \in Agent :
    /\ agent[a].todo \subseteq agent[a].list
    /\ agent[a].pc # "idle" => agent[a].todo # {} /\ agent[a].op # None
    /\ IF Owning(a) THEN agent[a].list \in Groups[a] ELSE agent[a].list \subseteq Solo[a]
    /\ agent[a].pc \in {"owner", "take", "sync", "synced", "release", "returned"} => Owning(a)

\* What an agent owns, while it opens the transactions and afterwards.
Mine(a) ==
  /\ \A c \in Cpu : Holds(a, c) => txn[c].owner = a /\ txn[c].gtid = agent[a].target
  /\ Owning(a) /\ agent[a].pc \in {"open", "ready"} => txn[Turn(a)].owner = a
  /\ Owning(a) /\ agent[a].pc = "ready" => txn[Turn(a)].gtid = agent[a].target

OwnersInGroups ==
  \A c \in Cpu : txn[c].owner # None => \E g \in Groups[txn[c].owner] : c \in g

\* The kernel's claim takes the gtid; an open or aborted transaction was not claimed.
ExactInv ==
  /\ NoClobbering
  /\ \A c \in Cpu : txn[c].state \in {"ready", "aborted"} => txn[c].taken = None

IInv == Types /\ CallInv /\ (\A a \in Agent : Mine(a)) /\ OwnersInGroups /\ ExactInv

-----------------------------------------------------------------------------
\* A list that is not empty has a first CPU.
LEMMA TurnInTodo ==
  ASSUME Types, CallInv, NEW a \in Agent, agent[a].pc # "idle"
  PROVE  /\ Turn(a) \in agent[a].todo /\ Turn(a) \in agent[a].list /\ Turn(a) \in Cpu
         /\ Owning(a) => \E g \in Groups[a] : Turn(a) \in g
         /\ ~Owning(a) => Turn(a) \in Solo[a]
<1> DEFINE S == agent[a].todo
<1>1. S \subseteq Cpu /\ S \subseteq Nat /\ S # {}
  BY Zenon, SortAssumption DEF Types, Calls, CallInv
<1> DEFINE less == OpToRel(<, Nat)
<1>a. \A x, y \in Nat : <<x, y>> \in less <=> x < y
  BY DEF OpToRel
<1>b. IsWellFoundedOn(less, Nat)
  BY Zenon, NatLessThanWellFounded
<1> HIDE DEF less
<1>2. PICK i \in S : \A j \in S : ~ (<<j, i>> \in less)
  BY Zenon, <1>1, <1>b, WFMin
<1>3. ASSUME NEW j \in S PROVE i =< j
  <2>1. i \in Nat /\ j \in Nat /\ ~ (<<j, i>> \in less)
    BY Zenon, <1>1, <1>2
  <2> QED BY <1>a, <2>1
<1>4. Turn(a) \in S
  BY <1>3 DEF Turn, Min
<1> QED BY <1>1, <1>4 DEF CallInv

\* A step of agent a that stays in its call: where it is then, and what it has left.
Moves(a, pc, todo) ==
  /\ agent' \in [Agent -> Calls]
  /\ \A b \in Agent \ {a} : agent'[b] = agent[b]
  /\ agent'[a].pc = pc /\ agent'[a].todo = todo
  /\ agent'[a].list = agent[a].list /\ agent'[a].op = agent[a].op
  /\ agent'[a].target = agent[a].target

\* A step that ends the call.
Ends(a) ==
  /\ agent' \in [Agent -> Calls]
  /\ \A b \in Agent \ {a} : agent'[b] = agent[b]
  /\ agent'[a].pc = "idle" /\ agent'[a].op = None
  /\ agent'[a].todo = {} /\ agent'[a].list = {}

\* The turn of one CPU is over: the next one's is, or the agent goes on to pc.
Rest(a) == agent[a].todo \ {Turn(a)}
TurnOver(a, pc, next) ==
  IF Rest(a) = {} THEN Moves(a, pc, agent[a].list) ELSE Moves(a, next, Rest(a))

\* Steps that only change the place.
LEMMA SetPc ==
  ASSUME Types, NEW a \in Agent, NEW p \in Pcs, agent' = [agent EXCEPT ![a].pc = p]
  PROVE  Moves(a, p, agent[a].todo)
  BY DEF Types, Calls, Moves

\* Advance(a, pc), field by field.
LEMMA AdvanceFields ==
  ASSUME Types, NEW a \in Agent, NEW p \in Pcs
  PROVE  /\ Advance(a, p) \in Calls
         /\ Advance(a, p).pc = IF Rest(a) = {} THEN p ELSE agent[a].pc
         /\ Advance(a, p).todo = IF Rest(a) = {} THEN agent[a].list ELSE Rest(a)
         /\ Advance(a, p).list = agent[a].list /\ Advance(a, p).op = agent[a].op
         /\ Advance(a, p).target = agent[a].target
<1>1. agent[a] \in Calls /\ Rest(a) \in SUBSET Cpu
  BY DEF Types, Calls, Rest
<1>2. CASE Rest(a) = {}
  BY Zenon, <1>1, <1>2 DEF Advance, Rest, Calls
<1>3. CASE Rest(a) # {}
  BY <1>1, <1>3 DEF Advance, Rest, Calls
<1> QED BY <1>2, <1>3

\* The record an agent rests with.
LEMMA ReturnedFields ==
  ASSUME Types, NEW a \in Agent
  PROVE  /\ Returned(a) \in Calls
         /\ Returned(a).pc = "idle" /\ Returned(a).op = None
         /\ Returned(a).todo = {} /\ Returned(a).list = {}
  BY Zenon DEF Types, Calls, Returned, Idle, Pcs

\* Steps that end with Advance or with ReturnAfter.
LEMMA SetAdvance ==
  ASSUME Types, NEW a \in Agent, NEW p \in Pcs, agent' = [agent EXCEPT ![a] = Advance(a, p)]
  PROVE  TurnOver(a, p, agent[a].pc)
  BY AdvanceFields DEF Types, TurnOver, Moves

\* Returned ends the call.
LEMMA SetReturned ==
  ASSUME Types, NEW a \in Agent, agent' = [agent EXCEPT ![a] = Returned(a)]
  PROVE  Ends(a)
  BY ReturnedFields DEF Types, Ends

\* ReturnAfter ends the call at its last CPU, and goes on to the next one otherwise.
LEMMA SetReturnAfter ==
  ASSUME Types, CallInv, NEW a \in Agent, agent[a].pc # "idle",
         agent' = [agent EXCEPT ![a] = ReturnAfter(a)]
  PROVE  IF Rest(a) = {} THEN Ends(a) ELSE Moves(a, agent[a].pc, Rest(a))
<1>1. Rest(a) = {} <=> agent[a].todo = {Turn(a)}
  BY TurnInTodo DEF Rest
<1>2. CASE Rest(a) = {}
  BY <1>1, <1>2, SetReturned DEF ReturnAfter
<1>3. CASE Rest(a) # {}
  <2>1. agent' = [agent EXCEPT ![a] = Advance(a, "idle")] /\ "idle" \in Pcs
    BY Zenon, <1>1, <1>3 DEF ReturnAfter, Pcs
  <2>2. TurnOver(a, "idle", agent[a].pc)
    BY Zenon, <2>1, SetAdvance
  <2> QED BY <2>2, <1>3 DEF TurnOver
<1> QED BY <1>2, <1>3

-----------------------------------------------------------------------------
\* What the others own is left alone.
OthersKept(a) ==
  \A c \in Cpu, b \in Agent \ {a} :
    txn[c].owner = b => txn'[c].owner = b /\ txn'[c].gtid = txn[c].gtid

\* What a step of agent a leaves to the others is theirs as before.
LEMMA OthersMine ==
  ASSUME IInv, NEW a \in Agent, NEW b \in Agent \ {a}, agent'[b] = agent[b], OthersKept(a)
  PROVE  Mine(b)'
<1>1. /\ Owning(b)' = Owning(b) /\ Turn(b)' = Turn(b)
      /\ \A c \in Cpu : Holds(b, c)' = Holds(b, c)
  BY DEF Owning, Turn, Holds
<1>2. ASSUME NEW c \in Cpu, Holds(b, c) PROVE txn'[c].owner = b /\ txn'[c].gtid = agent[b].target
  BY <1>2 DEF IInv, Mine, OthersKept
<1>3. Owning(b) /\ agent[b].pc \in {"open", "ready"} =>
        txn'[Turn(b)].owner = b /\ txn'[Turn(b)].gtid = txn[Turn(b)].gtid
  BY TurnInTodo DEF IInv, Mine, OthersKept
<1> QED BY <1>1, <1>2, <1>3 DEF IInv, Mine

\* A call that goes on is about the same CPUs.
LEMMA CallGoesOn ==
  ASSUME IInv, NEW a \in Agent, NEW p, NEW s, Moves(a, p, s), s \subseteq agent[a].list, s # {},
         agent[a].pc # "idle",
         p \in {"owner", "take", "sync", "synced", "release", "returned"} => Owning(a)
  PROVE  CallInv'
<1> SUFFICES ASSUME NEW b \in Agent
             PROVE  /\ agent'[b].todo \subseteq agent'[b].list
                    /\ agent'[b].pc # "idle" => agent'[b].todo # {} /\ agent'[b].op # None
                    /\ IF Owning(b)' THEN agent'[b].list \in Groups[b]
                       ELSE agent'[b].list \subseteq Solo[b]
                    /\ agent'[b].pc \in {"owner", "take", "sync", "synced", "release",
                                         "returned"} => Owning(b)'
  BY DEF CallInv
<1>1. CASE b = a
  BY <1>1 DEF Moves, IInv, CallInv, Owning
<1>2. CASE b # a
  BY <1>2 DEF Moves, IInv, CallInv, Owning
<1> QED BY <1>1, <1>2

\* A call that ended is about nothing.
LEMMA CallIsOver ==
  ASSUME IInv, NEW a \in Agent, Ends(a)
  PROVE  CallInv' /\ Mine(a)'
<1>1. ~Owning(a)'
  BY SortAssumption DEF Ends, Owning, Ops
<1>2. ASSUME NEW b \in Agent \ {a} PROVE agent'[b] = agent[b]
  BY DEF Ends
<1>3. CallInv'
  BY <1>1, <1>2 DEF Ends, IInv, CallInv, Owning
<1>4. Mine(a)'
  BY <1>1 DEF Mine, Holds
<1> QED BY <1>3, <1>4

-----------------------------------------------------------------------------
\* What is to be shown of a step of agent a.
AgentPart(a) ==
  /\ agent' \in [Agent -> Calls] /\ CallInv' /\ Mine(a)'
  /\ \A b \in Agent \ {a} : agent'[b] = agent[b]
TxnPart(a) ==
  txn' \in [Cpu -> Txns] /\ OthersKept(a) /\ OwnersInGroups' /\ ExactInv'

\* Steps that leave the transactions alone.
LEMMA TxnUnchanged ==
  ASSUME IInv, NEW a \in Agent, UNCHANGED txn
  PROVE  TxnPart(a)
  BY DEF IInv, Types, TxnPart, OthersKept, OwnersInGroups, ExactInv, NoClobbering

\* A step that writes one transaction that no other agent owns.
LEMMA TxnWritten ==
  ASSUME IInv, NEW a \in Agent, NEW c \in Cpu, NEW t \in Txns,
         txn' = [txn EXCEPT ![c] = t],
         txn[c].owner \in {None, a}, t.owner \in {None, a, txn[c].owner},
         t.owner = a => \E g \in Groups[a] : c \in g,
         t.state = "claimed" => t.taken = t.gtid,
         t.state \in {"ready", "aborted"} => t.taken = None
  PROVE  TxnPart(a)
<1>1. txn' \in [Cpu -> Txns]
  BY DEF IInv, Types
<1>2. txn'[c] = t /\ \A d \in Cpu \ {c} : txn'[d] = txn[d]
  BY DEF IInv, Types
<1>3. OthersKept(a)
  BY <1>2, SortAssumption DEF OthersKept
<1>4. OwnersInGroups'
  BY <1>2, SortAssumption DEF IInv, OwnersInGroups
<1>5. ExactInv'
  BY <1>2 DEF IInv, ExactInv, NoClobbering
<1> QED BY <1>1, <1>3, <1>4, <1>5 DEF TxnPart

\* A transaction that an agent opens unowned belongs to nobody else.
LEMMA SoloIsMine ==
  ASSUME IInv, NEW a \in Agent, NEW c \in Solo[a], c \in Cpu
  PROVE  txn[c].owner \in {None, a}
<1> SUFFICES ASSUME txn[c].owner # None, txn[c].owner # a PROVE FALSE
  OBVIOUS
<1>1. txn[c].owner \in Agent
  BY DEF IInv, Types, Txns
<1>2. PICK g \in Groups[txn[c].owner] : c \in g
  BY DEF IInv, OwnersInGroups
<1> QED BY <1>1, <1>2, RunRequestAssumption

\* Open() of the transaction whose turn it is.
LEMMA OpenKeeps ==
  ASSUME IInv, NEW a \in Agent, OpenOwner(a) \/ OpenTake(a) \/ OpenFields(a) \/ OpenReady(a)
  PROVE  AgentPart(a) /\ TxnPart(a)
<1> USE DEF IInv
<1> DEFINE c == Turn(a)
           t == txn[c]
<1>0. agent[a].pc # "idle"
  BY DEF OpenOwner, OpenTake, OpenFields, OpenReady, At
<1>1. /\ c \in agent[a].todo /\ c \in agent[a].list /\ c \in Cpu
      /\ Owning(a) => \E g \in Groups[a] : c \in g
      /\ ~Owning(a) => c \in Solo[a]
  BY <1>0, TurnInTodo
<1>2. t \in Txns /\ agent[a] \in Calls /\ agent[a].todo # {}
  BY <1>0, <1>1 DEF Types, CallInv
<1>3. CASE OpenOwner(a)
  <2>1. PICK p \in {"open", "take"} : /\ agent' = [agent EXCEPT ![a].pc = p]
                                      /\ p = "open" => t.owner = a
    BY Zenon, <1>3 DEF OpenOwner
  <2>2. Moves(a, p, agent[a].todo) /\ Owning(a) /\ agent[a].pc = "owner"
    BY Zenon, <2>1, <1>3, SetPc DEF OpenOwner, At, Pcs, CallInv
  <2>3. CallInv'
    BY <2>2, <1>0, <1>2, CallGoesOn DEF CallInv
  <2>4. UNCHANGED txn
    BY <1>3 DEF OpenOwner
  <2>5. Mine(a)'
    BY <2>1, <2>2, <2>4 DEF Moves, Mine, Holds, Owning, Turn
  <2> QED BY <2>2, <2>3, <2>4, <2>5, TxnUnchanged DEF Moves, AgentPart
<1>4. CASE OpenTake(a)
  <2>1. PICK p \in {"open", "owner"} : /\ agent' = [agent EXCEPT ![a].pc = p]
                                       /\ p = "owner" => UNCHANGED txn
                                       /\ p = "open" => t.owner = None /\ txn' = [txn EXCEPT ![c].owner = a]
    BY <1>4 DEF OpenTake
  <2>2. Moves(a, p, agent[a].todo) /\ Owning(a) /\ agent[a].pc = "take"
    BY Zenon, <2>1, <1>4, SetPc DEF OpenTake, At, Pcs, CallInv
  <2>3. CallInv'
    BY <2>2, <1>0, <1>2, CallGoesOn DEF CallInv
  <2>4. CASE p = "owner"
    <3>1. Mine(a)'
      BY <2>1, <2>2, <2>4 DEF Moves, Mine, Holds, Owning, Turn
    <3> QED BY <2>1, <2>2, <2>3, <2>4, <3>1, TxnUnchanged DEF Moves, AgentPart
  <2>5. CASE p = "open"
    <3> DEFINE u == [t EXCEPT !.owner = a]
    <3>1. txn' = [txn EXCEPT ![c] = u] /\ t.owner = None
      BY <2>1, <2>5
    <3>2. u \in Txns /\ u.owner = a /\ u.gtid = t.gtid /\ u.state = t.state /\ u.taken = t.taken
      BY <1>2 DEF Txns
    <3> HIDE DEF u
    <3>3. TxnPart(a)
      BY Zenon, <3>1, <3>2, <1>1, <2>2, TxnWritten DEF ExactInv, NoClobbering
    <3>4. txn'[c] = u /\ \A d \in Cpu \ {c} : txn'[d] = txn[d]
      BY <3>1, <1>1 DEF Types
    <3>5. Mine(a)'
      <4>1. /\ Turn(a)' = c /\ Owning(a)' /\ agent'[a].pc = "open"
            /\ agent'[a].target = agent[a].target
        BY <2>2, <2>5 DEF Moves, Owning, Turn
      <4>2. \A d \in Cpu : Holds(a, d)' => d # c /\ Holds(a, d)
        BY <2>2, <2>5, <1>1 DEF Moves, Holds, Owning
      <4> QED BY <4>1, <4>2, <3>2, <3>4, <1>1 DEF Mine
    <3> QED BY <2>2, <2>3, <3>3, <3>5 DEF Moves, AgentPart
  <2> QED BY <2>4, <2>5
<1>5. CASE OpenFields(a)
  <2>0. agent[a].pc = "open"
    BY <1>5 DEF OpenFields, At
  <2>1. CASE committed(c) /\ (sync_group_owned(c) <=> Owning(a))
    <3> DEFINE u == [t EXCEPT !.gtid = agent[a].target]
    <3>1. txn' = [txn EXCEPT ![c] = u] /\ agent' = [agent EXCEPT ![a].pc = "ready"]
      BY <1>5, <2>1 DEF OpenFields, OpenStores
    <3>2. /\ u \in Txns /\ u.owner = t.owner /\ u.gtid = agent[a].target
          /\ u.state = t.state /\ u.taken = t.taken /\ t.state # "claimed"
      BY <1>2, <2>1 DEF Txns, Calls, committed
    <3> HIDE DEF u
    <3>3. Moves(a, "ready", agent[a].todo)
      BY Zenon, <3>1, SetPc DEF Pcs
    <3>4. t.owner \in {None, a} /\ (t.owner = a => Owning(a)) /\ (Owning(a) => t.owner = a)
      BY <2>0, <2>1, SortAssumption DEF sync_group_owned, Mine
    <3>5. TxnPart(a)
      BY Zenon, <3>1, <3>2, <3>4, <1>1, TxnWritten DEF ExactInv
    <3>6. txn'[c] = u /\ \A d \in Cpu \ {c} : txn'[d] = txn[d]
      BY <3>1, <1>1 DEF Types
    <3>7. Mine(a)'
      <4>1. /\ Turn(a)' = c /\ (Owning(a)' <=> Owning(a)) /\ agent'[a].pc = "ready"
            /\ agent'[a].target = agent[a].target
        BY <3>3 DEF Moves, Owning, Turn
      <4>2. \A d \in Cpu : Holds(a, d)' => d # c /\ Holds(a, d)
        BY <2>0, <3>3, <1>1 DEF Moves, Holds, Owning
      <4> QED BY <4>1, <4>2, <3>2, <3>4, <3>6, <1>1 DEF Mine
    <3>8. CallInv'
      BY Zenon, <3>3, <1>0, <1>2, CallGoesOn DEF CallInv
    <3> QED BY <3>3, <3>5, <3>7, <3>8 DEF Moves, AgentPart
  <2>2. CASE ~(committed(c) /\ (sync_group_owned(c) <=> Owning(a)))
    <3>1. UNCHANGED txn /\ agent' = [agent EXCEPT ![a].pc = "dead"]
      BY <1>5, <2>2 DEF OpenFields
    <3>2. Moves(a, "dead", agent[a].todo)
      BY Zenon, <3>1, SetPc DEF Pcs
    <3>3. CallInv'
      BY Zenon, <3>2, <1>0, <1>2, CallGoesOn DEF CallInv
    <3>4. Mine(a)'
      BY <3>2 DEF Moves, Mine, Holds
    <3> QED BY <3>1, <3>2, <3>3, <3>4, TxnUnchanged DEF Moves, AgentPart
  <2> QED BY <2>1, <2>2
<1>6. CASE OpenReady(a)
  <2> DEFINE u == [t EXCEPT !.state = "ready", !.taken = None, !.asked = FALSE]
             p == IF agent[a].op = "syncabort" THEN "abort" ELSE agent[a].op
             n == IF Owning(a) THEN "owner" ELSE "open"
  <2>0. agent[a].pc = "ready" /\ agent[a].op \in Ops
    BY <1>0, <1>2, <1>6 DEF OpenReady, At, CallInv, Calls
  <2>1. txn' = [txn EXCEPT ![c] = u]
    BY <1>6 DEF OpenReady, OpenStores
  <2>2. /\ u \in Txns /\ u.owner = t.owner /\ u.gtid = t.gtid
        /\ u.state = "ready" /\ u.taken = None
    BY Zenon, <1>2 DEF Txns, States
  <2> HIDE DEF u
  <2>3. TurnOver(a, p, n)
    <3>1. agent[a].op \in Pcs /\ p \in Pcs /\ n \in Pcs
      BY <2>0 DEF Ops, Pcs
    <3> DEFINE r == Advance(a, agent[a].op)
    <3>2. /\ r \in Calls
          /\ r.pc = IF Rest(a) = {} THEN agent[a].op ELSE agent[a].pc
          /\ r.todo = IF Rest(a) = {} THEN agent[a].list ELSE Rest(a)
          /\ r.list = agent[a].list /\ r.op = agent[a].op /\ r.target = agent[a].target
      BY <3>1, AdvanceFields
    <3>3. Rest(a) = {} <=> agent[a].todo = {c}
      BY <1>1 DEF Rest
    <3>4. agent' = [agent EXCEPT ![a] =
             [r EXCEPT !.pc = IF agent[a].todo # {c} THEN n
                              ELSE IF @ = "syncabort" THEN "abort" ELSE @]]
      BY <1>6 DEF OpenReady
    <3> HIDE DEF r
    <3>5. agent' = [agent EXCEPT ![a] = [r EXCEPT !.pc = IF Rest(a) = {} THEN p ELSE n]]
      BY Zenon, <3>2, <3>3, <3>4 DEF Calls
    <3> DEFINE q == [r EXCEPT !.pc = IF Rest(a) = {} THEN p ELSE n]
    <3>6. /\ q \in Calls /\ q.pc = IF Rest(a) = {} THEN p ELSE n
          /\ q.todo = r.todo /\ q.list = r.list /\ q.op = r.op /\ q.target = r.target
      BY <3>1, <3>2 DEF Calls
    <3> HIDE DEF q, p, n
    <3>7. /\ agent' \in [Agent -> Calls] /\ agent'[a] = q
          /\ \A b \in Agent \ {a} : agent'[b] = agent[b]
      BY <3>5, <3>6 DEF q, Types
    <3>8. CASE Rest(a) = {}
      BY <3>2, <3>6, <3>7, <3>8 DEF TurnOver, Moves
    <3>9. CASE Rest(a) # {}
      BY <3>2, <3>6, <3>7, <3>9 DEF TurnOver, Moves
    <3> QED BY <3>8, <3>9
  <2>4. txn'[c] = u /\ \A d \in Cpu \ {c} : txn'[d] = txn[d]
    BY <2>1, <1>1 DEF Types
  <2>5. TxnPart(a)
    <3>1. t.owner \in {None, a}
      BY <2>0, <1>1, SoloIsMine DEF Mine
    <3>2. t.owner = a => \E g \in Groups[a] : c \in g
      BY Zenon, <1>1, SortAssumption DEF OwnersInGroups
    <3> QED BY Zenon, <2>1, <2>2, <3>1, <3>2, <1>1, TxnWritten
  <2>6. CASE Rest(a) = {}
    <3>1. Moves(a, p, agent[a].list) /\ (Owning(a) => p \in {"sync", "abort"})
          /\ (~Owning(a) => p \in {"commit", "submit", "abort"})
      BY <2>0, <2>3, <2>6 DEF TurnOver, Owning, Ops
    <3> HIDE DEF p
    <3>2. CallInv'
      BY <3>1, <1>0, <1>1, <1>2, CallGoesOn
    <3>3. Mine(a)'
      <4>1. /\ (Owning(a)' <=> Owning(a)) /\ (Owning(a) => agent'[a].pc \notin {"open", "ready"})
            /\ agent'[a].target = agent[a].target
        BY <3>1 DEF Moves, Owning
      <4>2. \A d \in Cpu : Holds(a, d)' => Owning(a) /\ (d = c \/ Holds(a, d))
        BY <2>0, <2>6, <3>1 DEF Moves, Holds, Owning, Rest
      <4> QED BY <4>1, <4>2, <2>0, <2>2, <2>4, <1>1 DEF Mine
    <3> QED BY <2>5, <3>1, <3>2, <3>3 DEF Moves, AgentPart
  <2>7. CASE Rest(a) # {}
    <3>1. Moves(a, n, Rest(a)) /\ n = IF Owning(a) THEN "owner" ELSE "open"
      BY <2>3, <2>7 DEF TurnOver
    <3> HIDE DEF n, p
    <3>2. CallInv'
      BY <3>1, <2>7, <1>0, <1>2, CallGoesOn DEF CallInv, Rest
    <3>3. Mine(a)'
      <4>1. /\ (Owning(a)' <=> Owning(a)) /\ (Owning(a) => agent'[a].pc = "owner")
            /\ agent'[a].target = agent[a].target
        BY <3>1 DEF Moves, Owning
      <4>2. \A d \in Cpu : Holds(a, d)' => Owning(a) /\ (d = c \/ Holds(a, d))
        BY <2>0, <3>1 DEF Moves, Holds, Owning, Rest
      <4> QED BY <4>1, <4>2, <2>0, <2>2, <2>4, <1>1 DEF Mine
    <3> QED BY <2>5, <3>1, <3>2, <3>3 DEF Moves, AgentPart
  <2> QED BY <2>6, <2>7
<1> QED BY <1>3, <1>4, <1>5, <1>6

\* SubmitRunRequests, CompleteRunRequest, and the system call of a sync-commit.
LEMMA CommitKeeps ==
  ASSUME IInv, NEW a \in Agent,
         Submit(a) \/ Complete(a) \/ SyncSubmit(a) \/ KernelSynced(a) \/ SyncReturn(a)
  PROVE  AgentPart(a) /\ TxnPart(a)
<1> USE DEF IInv
<1> DEFINE c == Turn(a)
           t == txn[c]
<1>0. agent[a].pc # "idle"
  BY Zenon DEF Submit, Complete, SyncSubmit, KernelSynced, SyncReturn, At
<1>1. /\ c \in agent[a].todo /\ c \in agent[a].list /\ c \in Cpu
      /\ Owning(a) => \E g \in Groups[a] : c \in g
      /\ ~Owning(a) => c \in Solo[a]
  BY <1>0, TurnInTodo
<1>2. t \in Txns /\ agent[a] \in Calls /\ agent[a].todo # {}
  BY <1>0, <1>1 DEF Types, CallInv
<1>3. CASE Submit(a)
  <2>1. ASSUME NEW d \in Cpu
        PROVE  /\ txn'[d] \in Txns /\ txn'[d].owner = txn[d].owner /\ txn'[d].gtid = txn[d].gtid
               /\ txn'[d].state = txn[d].state /\ txn'[d].taken = txn[d].taken
    <3>1. txn[d] \in Txns
      BY DEF Types
    <3>2. txn'[d] = txn[d] \/ txn'[d] = [txn[d] EXCEPT !.asked = TRUE]
      BY <1>3 DEF Submit
    <3> QED BY Zenon, <3>1, <3>2 DEF Txns
  <2>2. txn' \in [Cpu -> Txns]
    BY <2>1, <1>3 DEF Submit
  <2>3. TxnPart(a)
    BY <2>1, <2>2 DEF TxnPart, OthersKept, OwnersInGroups, ExactInv, NoClobbering
  <2>4. CASE agent[a].pc = "submit"
    <3>1. agent' = [agent EXCEPT ![a] = Returned(a)]
      BY <1>3, <2>4 DEF Submit, Types
    <3>2. Ends(a)
      BY Zenon, <3>1, SetReturned
    <3> QED BY <2>3, <3>2, CallIsOver DEF Ends, AgentPart
  <2>5. CASE agent[a].pc = "commit"
    <3>1. agent' = [agent EXCEPT ![a].pc = "complete"] /\ "complete" \in Pcs
      BY <1>3, <2>5 DEF Submit, Types, Pcs
    <3>2. Moves(a, "complete", agent[a].todo)
      BY Zenon, <3>1, SetPc
    <3>3. CallInv'
      BY Zenon, <3>2, <1>0, <1>2, CallGoesOn DEF CallInv
    <3>4. Mine(a)'
      BY <3>2, <2>1, <2>5 DEF Moves, Mine, Holds, Owning
    <3> QED BY <2>3, <3>2, <3>3, <3>4 DEF Moves, AgentPart
  <2> QED BY <2>4, <2>5, <1>3 DEF Submit
<1>4. CASE Complete(a)
  <2>1. UNCHANGED txn /\ agent[a].pc = "complete"
    BY <1>4 DEF Complete, At
  <2>2. CASE ~Owning(a)
    <3>1. agent' = [agent EXCEPT ![a] = ReturnAfter(a)]
      BY <1>4, <2>2 DEF Complete
    <3>2. IF Rest(a) = {} THEN Ends(a) ELSE Moves(a, "complete", Rest(a))
      BY Zenon, <3>1, <2>1, SetReturnAfter
    <3>3. CASE Rest(a) = {}
      BY <2>1, <3>2, <3>3, CallIsOver, TxnUnchanged DEF Ends, AgentPart
    <3>4. CASE Rest(a) # {}
      <4>1. Moves(a, "complete", Rest(a))
        BY <3>2, <3>4
      <4>2. CallInv'
        BY Zenon, <4>1, <3>4, <1>0, CallGoesOn DEF CallInv, Rest
      <4>3. Mine(a)'
        BY <4>1, <2>2 DEF Moves, Mine, Holds, Owning
      <4> QED BY <2>1, <4>1, <4>2, <4>3, TxnUnchanged DEF Moves, AgentPart
    <3> QED BY <3>3, <3>4
  <2>3. CASE Owning(a)
    <3> DEFINE failed == agent[a].failed \/ t.state # "complete"
               p == IF failed THEN "release" ELSE "dead"
               r == Advance(a, p)
    <3>1. agent' = [agent EXCEPT ![a] = [r EXCEPT !.failed = failed]]
      BY <1>4, <2>3 DEF Complete
    <3>2. p \in {"release", "dead"} /\ p \in Pcs /\ failed \in BOOLEAN
      BY <1>2 DEF Pcs, Calls
    <3>3. /\ r \in Calls
          /\ r.pc = IF Rest(a) = {} THEN p ELSE agent[a].pc
          /\ r.todo = IF Rest(a) = {} THEN agent[a].list ELSE Rest(a)
          /\ r.list = agent[a].list /\ r.op = agent[a].op /\ r.target = agent[a].target
      BY Zenon, <3>2, AdvanceFields
    <3> HIDE DEF failed, p, r
    <3>4. TurnOver(a, p, "complete")
      <4> DEFINE q == [r EXCEPT !.failed = failed]
      <4>1. /\ q \in Calls /\ q.pc = r.pc
            /\ q.todo = r.todo /\ q.list = r.list /\ q.op = r.op /\ q.target = r.target
        BY <3>2, <3>3 DEF Calls
      <4> HIDE DEF q
      <4>2. /\ agent' \in [Agent -> Calls] /\ agent'[a] = q
            /\ \A b \in Agent \ {a} : agent'[b] = agent[b]
        BY <3>1, <4>1 DEF q, Types
      <4> QED BY <2>1, <3>3, <4>1, <4>2 DEF TurnOver, Moves
    <3>5. CASE Rest(a) = {}
      <4>1. Moves(a, p, agent[a].list)
        BY <3>4, <3>5 DEF TurnOver
      <4>2. CallInv'
        BY <4>1, <2>3, <1>0, <1>1, CallGoesOn
      <4>3. Mine(a)'
        BY <4>1, <3>2, <2>1 DEF Moves, Mine, Holds, Owning
      <4> QED BY <2>1, <4>1, <4>2, <4>3, TxnUnchanged DEF Moves, AgentPart
    <3>6. CASE Rest(a) # {}
      <4>1. Moves(a, "complete", Rest(a))
        BY <3>4, <3>6 DEF TurnOver
      <4>2. CallInv'
        BY Zenon, <4>1, <3>6, <1>0, CallGoesOn DEF CallInv, Rest
      <4>3. Mine(a)'
        BY <4>1, <2>1 DEF Moves, Mine, Holds, Owning
      <4> QED BY <2>1, <4>1, <4>2, <4>3, TxnUnchanged DEF Moves, AgentPart
    <3> QED BY <3>5, <3>6
  <2> QED BY <2>2, <2>3
<1>5. CASE SyncSubmit(a)
  <2>1. ASSUME NEW d \in Cpu
        PROVE  /\ txn'[d] \in Txns /\ txn'[d].owner = txn[d].owner /\ txn'[d].gtid = txn[d].gtid
               /\ \/ txn'[d].state = txn[d].state /\ txn'[d].taken = txn[d].taken
                  \/ txn'[d].state = "claimed" /\ txn'[d].taken = txn[d].gtid
    <3>1. txn[d] \in Txns
      BY DEF Types
    <3>2. CASE d \in agent[a].list
      <4>1. txn'[d] = [txn[d] EXCEPT !.state = "claimed", !.taken = txn[d].gtid]
        BY Zenon, <1>5, <3>2 DEF SyncSubmit
      <4> QED BY Zenon, <3>1, <4>1 DEF Txns, States
    <3>3. CASE d \notin agent[a].list
      BY Zenon, <1>5, <3>1, <3>3 DEF SyncSubmit
    <3> QED BY <3>2, <3>3
  <2>2. txn' \in [Cpu -> Txns]
    BY Zenon, <2>1, <1>5 DEF SyncSubmit
  <2>3. TxnPart(a)
    BY <2>1, <2>2 DEF TxnPart, OthersKept, OwnersInGroups, ExactInv, NoClobbering
  <2>4. PICK p \in {"synced", "complete"} : agent' = [agent EXCEPT ![a].pc = p]
    BY Zenon, <1>5 DEF SyncSubmit
  <2>5. agent[a].pc = "sync" /\ Owning(a) /\ p \in Pcs
    BY Zenon, <1>5 DEF SyncSubmit, At, CallInv, Pcs
  <2>6. Moves(a, p, agent[a].todo)
    BY Zenon, <2>4, <2>5, SetPc
  <2>7. CallInv'
    BY Zenon, <2>5, <2>6, <1>0, <1>2, CallGoesOn DEF CallInv
  <2>8. Mine(a)'
    BY <2>1, <2>4, <2>5, <2>6 DEF Moves, Mine, Holds, Owning
  <2> QED BY <2>3, <2>6, <2>7, <2>8 DEF Moves, AgentPart
<1>6. CASE KernelSynced(a)
  <2> DEFINE u == [t EXCEPT !.state = "complete", !.owner = None]
  <2>1. agent[a].pc = "synced" /\ Owning(a) /\ "returned" \in Pcs
    BY <1>6 DEF KernelSynced, At, CallInv, Pcs
  <2>2. txn' = [txn EXCEPT ![c] = u]
    BY Zenon, <1>6, <1>1 DEF KernelSynced, Types, Txns
  <2>3. u \in Txns /\ u.owner = None /\ u.state = "complete"
    BY Zenon, <1>2 DEF Txns, States
  <2>4. t.owner = a
    BY <2>1, <1>1 DEF Mine, Holds
  <2> HIDE DEF u
  <2>5. TxnPart(a)
    BY Zenon, <2>2, <2>3, <2>4, <1>1, TxnWritten, SortAssumption
  <2>6. \A d \in Cpu \ {c} : txn'[d] = txn[d]
    BY <2>2, <1>1 DEF Types
  <2>7. TurnOver(a, "returned", "synced")
    <3>1. agent' = [agent EXCEPT ![a] = Advance(a, "returned")]
      BY <1>6 DEF KernelSynced
    <3> QED BY Zenon, <2>1, <3>1, SetAdvance
  <2>8. CASE Rest(a) = {}
    <3>1. Moves(a, "returned", agent[a].list)
      BY <2>7, <2>8 DEF TurnOver
    <3>2. CallInv'
      BY <3>1, <2>1, <1>0, <1>1, CallGoesOn
    <3>3. Mine(a)'
      BY Zenon, <3>1 DEF Moves, Mine, Holds
    <3> QED BY <2>5, <3>1, <3>2, <3>3 DEF Moves, AgentPart
  <2>9. CASE Rest(a) # {}
    <3>1. Moves(a, "synced", Rest(a))
      BY <2>7, <2>9 DEF TurnOver
    <3>2. CallInv'
      BY Zenon, <3>1, <2>1, <2>9, <1>0, CallGoesOn DEF CallInv, Rest
    <3>3. Mine(a)'
      <4>1. agent'[a].pc = "synced" /\ agent'[a].target = agent[a].target
        BY <3>1 DEF Moves
      <4>2. \A d \in Cpu : Holds(a, d)' => d # c /\ Holds(a, d)
        BY <3>1, <2>1 DEF Moves, Holds, Owning, Rest
      <4>3. Mine(a)
        OBVIOUS
      <4> HIDE DEF IInv
      <4> QED BY <4>1, <4>2, <4>3, <2>6 DEF Mine
    <3> QED BY <2>5, <3>1, <3>2, <3>3 DEF Moves, AgentPart
  <2> QED BY <2>8, <2>9
<1>7. CASE SyncReturn(a)
  <2>1. Ends(a) /\ UNCHANGED txn
    BY Zenon, <1>7, SetReturned DEF SyncReturn
  <2> QED BY Zenon, <2>1, CallIsOver, TxnUnchanged DEF Ends, AgentPart
<1> QED BY <1>3, <1>4, <1>5, <1>6, <1>7

\* Abort() and ReleaseSyncRequests: the agent goes through its list and lets go.
LEMMA LetGoKeeps ==
  ASSUME IInv, NEW a \in Agent, AbortLoad(a) \/ AbortCas(a) \/ Release(a)
  PROVE  AgentPart(a) /\ TxnPart(a)
<1> USE DEF IInv
<1> DEFINE c == Turn(a)
           t == txn[c]
<1>0. agent[a].pc # "idle" /\ agent[a].pc \in {"abort", "abortcas", "release"}
  BY DEF AbortLoad, AbortCas, Release, At
<1>1. /\ c \in agent[a].todo /\ c \in agent[a].list /\ c \in Cpu
      /\ Owning(a) => \E g \in Groups[a] : c \in g
      /\ ~Owning(a) => c \in Solo[a]
  BY <1>0, TurnInTodo
<1>2. t \in Txns /\ agent[a] \in Calls /\ agent[a].todo # {}
  BY <1>0, <1>1 DEF Types, CallInv
<1>3. t.owner \in {None, a}
  BY <1>0, <1>1, SoloIsMine DEF Mine, Holds
<1>4. ASSUME Rest(a) # {}, NEW p \in {"abort", "release"}, Moves(a, p, Rest(a)),
             p = "release" => agent[a].pc = "release",
             \A d \in Cpu \ {c} : txn'[d] = txn[d]
      PROVE  AgentPart(a)
  <2>1. CallInv'
    BY Zenon, <1>4, <1>0, CallGoesOn DEF CallInv, Rest
  <2>2. Mine(a)'
    <3>1. agent'[a].pc \notin {"open", "ready"} /\ agent'[a].target = agent[a].target
      BY <1>4 DEF Moves
    <3>2. \A d \in Cpu : Holds(a, d)' => d # c /\ Holds(a, d)
      BY <1>4, <1>0 DEF Moves, Holds, Owning, Rest
    <3>3. Mine(a)
      OBVIOUS
    <3> HIDE DEF IInv
    <3> QED BY Zenon, <3>1, <3>2, <3>3, <1>4 DEF Mine
  <2> QED BY <2>1, <2>2, <1>4 DEF Moves, AgentPart
<1>5. ASSUME Ends(a) PROVE AgentPart(a)
  BY Zenon, <1>5, CallIsOver DEF Ends, AgentPart
<1>6. CASE AbortLoad(a)
  <2>1. UNCHANGED txn /\ agent[a].pc = "abort"
    BY <1>6 DEF AbortLoad, At
  <2>2. CASE t.state = "ready"
    <3>1. agent' = [agent EXCEPT ![a].pc = "abortcas"] /\ "abortcas" \in Pcs
      BY <1>6, <2>2 DEF AbortLoad, Types, Pcs
    <3>2. Moves(a, "abortcas", agent[a].todo)
      BY Zenon, <3>1, SetPc
    <3>3. CallInv'
      BY Zenon, <3>2, <1>0, <1>2, CallGoesOn DEF CallInv
    <3>4. Mine(a)'
      BY Zenon, <3>2, <2>1 DEF Moves, Mine, Holds, Owning
    <3> QED BY <2>1, <3>2, <3>3, <3>4, TxnUnchanged DEF Moves, AgentPart
  <2>3. CASE t.state # "ready"
    <3>1. agent' = [agent EXCEPT ![a] = ReturnAfter(a)]
      BY <1>6, <2>3 DEF AbortLoad, Types
    <3>2. IF Rest(a) = {} THEN Ends(a) ELSE Moves(a, "abort", Rest(a))
      BY Zenon, <3>1, <2>1, SetReturnAfter
    <3> QED BY Zenon, <2>1, <3>2, <1>4, <1>5, TxnUnchanged
  <2> QED BY Zenon, <2>2, <2>3
<1>7. CASE AbortCas(a)
  <2>0. agent[a].pc = "abortcas"
    BY <1>7 DEF AbortCas, At
  <2>1. IF Rest(a) = {} THEN Ends(a) ELSE Moves(a, "abort", Rest(a))
    <3> DEFINE r == ReturnAfter(a)
               q == [r EXCEPT !.pc = IF @ = "abortcas" THEN "abort" ELSE @]
    <3>1. agent' = [agent EXCEPT ![a] = q]
      BY <1>7 DEF AbortCas
    <3>2. Rest(a) = {} <=> agent[a].todo = {c}
      BY <1>1 DEF Rest
    <3>3. CASE Rest(a) = {}
      <4>1. r = Returned(a)
        BY <3>2, <3>3 DEF ReturnAfter
      <4>2. /\ q \in Calls /\ q.pc = "idle" /\ q.op = None /\ q.todo = {} /\ q.list = {}
        BY <4>1, ReturnedFields DEF Calls
      <4> HIDE DEF q
      <4> QED BY <3>1, <3>3, <4>2 DEF Ends, Types
    <3>4. CASE Rest(a) # {}
      <4>1. r = Advance(a, "idle") /\ "idle" \in Pcs
        BY <3>2, <3>4 DEF ReturnAfter, Pcs
      <4>2. /\ r \in Calls /\ r.pc = "abortcas" /\ r.todo = Rest(a)
            /\ r.list = agent[a].list /\ r.op = agent[a].op /\ r.target = agent[a].target
        BY <4>1, <3>4, <2>0, AdvanceFields
      <4> HIDE DEF r
      <4>3. /\ q \in Calls /\ q.pc = "abort" /\ q.todo = Rest(a)
            /\ q.list = agent[a].list /\ q.op = agent[a].op /\ q.target = agent[a].target
        BY <4>2 DEF Calls, Pcs, Ops
      <4> HIDE DEF q
      <4> QED BY <3>1, <3>4, <4>3 DEF Moves, Types
    <3> QED BY <3>3, <3>4
  <2>2. TxnPart(a) /\ \A d \in Cpu \ {c} : txn'[d] = txn[d]
    <3>1. CASE t.state = "ready"
      <4> DEFINE u == [t EXCEPT !.state = "aborted", !.owner = None]
      <4>1. txn' = [txn EXCEPT ![c] = u]
        BY Zenon, <1>7, <3>1, <1>1 DEF AbortCas, Types, Txns
      <4>2. u \in Txns /\ u.owner = None /\ u.state = "aborted" /\ u.taken = None
        BY Zenon, <1>1, <1>2, <3>1 DEF Txns, States, ExactInv
      <4> HIDE DEF u
      <4>3. TxnPart(a)
        BY Zenon, <4>1, <4>2, <1>1, <1>3, TxnWritten, SortAssumption
      <4> QED BY <4>1, <4>3, <1>1 DEF Types
    <3>2. CASE t.state # "ready"
      BY <1>7, <3>2, TxnUnchanged DEF AbortCas
    <3> QED BY <3>1, <3>2
  <2> QED BY <2>1, <2>2, <1>4, <1>5
<1>8. CASE Release(a)
  <2>0. agent[a].pc = "release" /\ "dead" \in Pcs
    BY <1>8 DEF Release, At, Pcs
  <2>1. CASE ~committed(c) \/ ~sync_group_owned(c)
    <3>1. agent' = [agent EXCEPT ![a].pc = "dead"] /\ UNCHANGED txn
      BY <1>8, <2>1 DEF Release
    <3>2. Moves(a, "dead", agent[a].todo)
      BY Zenon, <3>1, <2>0, SetPc
    <3>3. CallInv'
      BY Zenon, <3>2, <1>0, <1>2, CallGoesOn DEF CallInv
    <3>4. Mine(a)'
      BY Zenon, <3>2 DEF Moves, Mine, Holds
    <3> QED BY <3>1, <3>2, <3>3, <3>4, TxnUnchanged DEF Moves, AgentPart
  <2>2. CASE ~(~committed(c) \/ ~sync_group_owned(c))
    <3> DEFINE u == [t EXCEPT !.owner = None]
    <3>1. txn' = [txn EXCEPT ![c] = u] /\ agent' = [agent EXCEPT ![a] = ReturnAfter(a)]
      BY <1>8, <2>2, <1>1 DEF Release, Types
    <3>2. /\ u \in Txns /\ u.owner = None /\ u.state = t.state /\ u.taken = t.taken
          /\ u.gtid = t.gtid
      BY <1>2 DEF Txns
    <3> HIDE DEF u
    <3>3. TxnPart(a)
      BY Zenon, <3>1, <3>2, <1>1, <1>3, TxnWritten, SortAssumption DEF ExactInv, NoClobbering
    <3>4. \A d \in Cpu \ {c} : txn'[d] = txn[d]
      BY <3>1, <1>1 DEF Types
    <3>5. IF Rest(a) = {} THEN Ends(a) ELSE Moves(a, "release", Rest(a))
      BY Zenon, <3>1, <2>0, SetReturnAfter
    <3> QED BY Zenon, <2>0, <3>3, <3>4, <3>5, <1>4, <1>5
  <2> QED BY <2>1, <2>2
<1> QED BY <1>6, <1>7, <1>8

\* A call begins with nothing opened.
LEMMA BeginKeeps ==
  ASSUME IInv, NEW a \in Agent, Begin(a)
  PROVE  AgentPart(a) /\ TxnPart(a)
<1> USE DEF IInv
<1>1. PICK op \in Ops, x \in Target :
        \E l \in IF op \in {"sync", "syncabort"} THEN Groups[a] ELSE (SUBSET Solo[a]) \ {{}} :
          agent' = [agent EXCEPT ![a] =
            [pc |-> IF op \in {"sync", "syncabort"} THEN "owner" ELSE "open", op |-> op,
             list |-> l, todo |-> l, target |-> x, failed |-> FALSE, ops |-> agent[a].ops + 1]]
  BY Zenon DEF Begin
<1> DEFINE sync == op \in {"sync", "syncabort"}
           pc == IF sync THEN "owner" ELSE "open"
<1>2. PICK l \in IF sync THEN Groups[a] ELSE (SUBSET Solo[a]) \ {{}} :
        agent' = [agent EXCEPT ![a] =
          [pc |-> pc, op |-> op, list |-> l, todo |-> l, target |-> x, failed |-> FALSE,
           ops |-> agent[a].ops + 1]]
  BY Zenon, <1>1
<1>3. l \subseteq Cpu /\ l # {} /\ agent[a].ops + 1 \in Nat
  BY SortAssumption DEF Types, Calls
<1> DEFINE r == [pc |-> pc, op |-> op, list |-> l, todo |-> l, target |-> x, failed |-> FALSE,
                 ops |-> agent[a].ops + 1]
<1>4. /\ r \in Calls /\ r.pc = pc /\ r.op = op /\ r.list = l /\ r.todo = l
  BY <1>3 DEF Calls, Pcs
<1>5. agent' = [agent EXCEPT ![a] = r]
  BY <1>2
<1> HIDE DEF r
<1>6. /\ agent' \in [Agent -> Calls] /\ agent'[a] = r
      /\ \A b \in Agent \ {a} : agent'[b] = agent[b]
  BY <1>4, <1>5 DEF Types
<1>7. Owning(a)' <=> sync
  BY <1>4, <1>6 DEF Owning
<1>8. CallInv'
  <2> SUFFICES ASSUME NEW b \in Agent
               PROVE  /\ agent'[b].todo \subseteq agent'[b].list
                      /\ agent'[b].pc # "idle" => agent'[b].todo # {} /\ agent'[b].op # None
                      /\ IF Owning(b)' THEN agent'[b].list \in Groups[b]
                         ELSE agent'[b].list \subseteq Solo[b]
                      /\ agent'[b].pc \in {"owner", "take", "sync", "synced", "release",
                                           "returned"} => Owning(b)'
    BY DEF CallInv
  <2>1. CASE b = a
    BY Zenon, <2>1, <1>3, <1>4, <1>6, <1>7, SortAssumption
  <2>2. CASE b # a
    BY <2>2, <1>6 DEF CallInv, Owning
  <2> QED BY <2>1, <2>2
<1>9. Mine(a)'
  BY Zenon, <1>4, <1>6, <1>7 DEF Mine, Holds
<1>10. UNCHANGED txn
  BY Zenon DEF Begin
<1> QED BY <1>6, <1>8, <1>9, <1>10, TxnUnchanged DEF AgentPart

\* A step of an agent keeps the invariant.
LEMMA AgentKeeps ==
  ASSUME IInv, NEW a \in Agent, Begin(a) \/ AgentStep(a)
  PROVE  IInv'
<1>1. AgentPart(a) /\ TxnPart(a)
  BY OpenKeeps, CommitKeeps, LetGoKeeps, BeginKeeps DEF AgentStep
<1>2. ASSUME NEW b \in Agent PROVE Mine(b)'
  <2>1. CASE b = a
    BY <1>1, <2>1 DEF AgentPart
  <2>2. CASE b # a
    BY <1>1, <2>2, OthersMine DEF AgentPart, TxnPart
  <2> QED BY <2>1, <2>2
<1> QED BY <1>1, <1>2 DEF IInv, Types, AgentPart, TxnPart

\* The kernel writes neither the owner nor the gtid of a transaction.
LEMMA KernelKeeps ==
  ASSUME IInv, NEW c \in Cpu, KernelClaim(c) \/ KernelCommit(c)
  PROVE  IInv'
<1> USE DEF IInv
<1>1. txn[c] \in Txns
  BY DEF Types
<1>2. PICK u \in Txns : /\ txn' = [txn EXCEPT ![c] = u]
                        /\ u.owner = txn[c].owner /\ u.gtid = txn[c].gtid
                        /\ \/ u.state = "claimed" /\ u.taken = u.gtid
                           \/ u.state \in {"complete", "failed", "poisoned"}
  <2>1. CASE KernelClaim(c)
    <3> DEFINE u == [txn[c] EXCEPT !.state = "claimed", !.taken = txn[c].gtid, !.asked = FALSE]
    <3>1. txn' = [txn EXCEPT ![c] = u]
      BY Zenon, <2>1, <1>1 DEF KernelClaim, Types, Txns
    <3>2. /\ u \in Txns /\ u.owner = txn[c].owner /\ u.gtid = txn[c].gtid
          /\ u.state = "claimed" /\ u.taken = u.gtid
      BY Zenon, <1>1 DEF Txns, States
    <3> QED BY Zenon, <3>1, <3>2
  <2>2. CASE KernelCommit(c)
    <3>1. PICK s \in {"complete", "failed", "poisoned"} : txn' = [txn EXCEPT ![c].state = s]
      BY Zenon, <2>2 DEF KernelCommit
    <3> DEFINE u == [txn[c] EXCEPT !.state = s]
    <3>2. u \in Txns /\ u.owner = txn[c].owner /\ u.gtid = txn[c].gtid /\ u.state = s
      BY <1>1 DEF Txns, States
    <3>3. txn' = [txn EXCEPT ![c] = u]
      BY <3>1 DEF Types
    <3> QED BY Zenon, <3>2, <3>3
  <2> QED BY <2>1, <2>2
<1>3. txn' \in [Cpu -> Txns] /\ txn'[c] = u /\ \A d \in Cpu \ {c} : txn'[d] = txn[d]
  BY <1>2 DEF Types
<1>4. UNCHANGED agent
  BY DEF KernelClaim, KernelCommit
<1>5. \A d \in Cpu : txn'[d].owner = txn[d].owner /\ txn'[d].gtid = txn[d].gtid
  BY <1>2, <1>3
<1>6. Types' /\ CallInv'
  BY Zenon, <1>3, <1>4 DEF Types, CallInv, Owning
<1>7. ASSUME NEW a \in Agent PROVE Mine(a)'
  <2>1. Owning(a) /\ agent[a].pc \in {"open", "ready"} => Turn(a) \in Cpu
    BY TurnInTodo
  <2>2. /\ Turn(a)' = Turn(a) /\ Owning(a)' = Owning(a) /\ agent'[a] = agent[a]
        /\ \A d \in Cpu : Holds(a, d)' = Holds(a, d)
    BY <1>4 DEF Turn, Owning, Holds
  <2> QED BY <1>5, <2>1, <2>2 DEF Mine
<1>8. OwnersInGroups'
  BY <1>5 DEF OwnersInGroups
<1>9. ExactInv'
  BY <1>2, <1>3 DEF ExactInv, NoClobbering
<1> QED BY <1>6, <1>7, <1>8, <1>9

\* Nothing is open at the start.
LEMMA InitInv == Init => IInv
<1> SUFFICES ASSUME Init PROVE IInv
  OBVIOUS
<1>1. Txn \in Txns /\ Txn.owner = None /\ Txn.state = "complete"
  BY DEF Txn, Txns, States
<1>2. Idle \in Calls /\ Idle.pc = "idle" /\ Idle.op = None /\ Idle.list = {} /\ Idle.todo = {}
  BY DEF Idle, Calls, Pcs
<1>3. \A c \in Cpu : txn[c] = Txn
  BY DEF Init
<1>4. \A a \in Agent : agent[a] = Idle /\ ~Owning(a)
  BY <1>2, SortAssumption DEF Init, Owning, Ops
<1>5. Types
  BY <1>1, <1>2 DEF Init, Types
<1>6. CallInv
  BY <1>2, <1>4 DEF CallInv
<1>7. \A a \in Agent : Mine(a)
  BY <1>4 DEF Mine, Holds
<1>8. OwnersInGroups /\ ExactInv
  BY <1>1, <1>3 DEF OwnersInGroups, ExactInv, NoClobbering
<1> QED BY <1>5, <1>6, <1>7, <1>8 DEF IInv

\* Every step keeps the invariant.
LEMMA StepInv == IInv /\ [Next]_vars => IInv'
<1> SUFFICES ASSUME IInv, [Next]_vars PROVE IInv'
  OBVIOUS
<1>1. CASE UNCHANGED vars
  <2> USE DEF IInv
  <2>1. txn' = txn /\ agent' = agent
    BY <1>1 DEF vars
  <2>2. Types' /\ CallInv'
    BY Zenon, <2>1 DEF Types, CallInv, Owning
  <2>3. ASSUME NEW a \in Agent PROVE Mine(a)'
    <3>1. /\ Turn(a)' = Turn(a) /\ Owning(a)' = Owning(a) /\ agent'[a] = agent[a]
          /\ \A d \in Cpu : Holds(a, d)' = Holds(a, d)
      BY <2>1 DEF Turn, Owning, Holds
    <3> QED BY <2>1, <3>1 DEF Mine
  <2>4. OwnersInGroups' /\ ExactInv'
    BY Zenon, <2>1 DEF OwnersInGroups, ExactInv, NoClobbering
  <2> QED BY <2>2, <2>3, <2>4
<1> QED BY <1>1, AgentKeeps, KernelKeeps DEF Next, Done

-----------------------------------------------------------------------------
\* For any number of agents and any groups: while an agent holds a transaction for a
\* group, between Open() and the release, it owns it and the transaction has the gtid
\* that this agent wrote.
THEOREM OwnershipIsALock == Spec => []OwnedIsMine
<1>1. IInv => OwnedIsMine
  BY Zenon DEF IInv, Mine, OwnedIsMine
<1> QED BY InitInv, StepInv, <1>1, PTL DEF Spec

\* The kernel commits the fields the opener wrote last, and a transaction that was
\* aborted was never taken by the kernel, whether or not callers await the commit.
THEOREM TransactionsAreExactly == Spec => [](NoClobbering /\ AbortIsExact)
<1>1. IInv => NoClobbering /\ AbortIsExact
  BY DEF IInv, ExactInv, AbortIsExact
<1> QED BY InitInv, StepInv, <1>1, PTL DEF Spec
=============================================================================
