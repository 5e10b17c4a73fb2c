---------------------------- MODULE RunRequest ----------------------------
(***************************************************************************)
(* The transactions of an enclave, LocalRunRequest and the commit methods  *)
(* of LocalEnclave (lib/enclave.cc).  Every CPU has one transaction in     *)
(* memory shared with the kernel.  An agent opens the transactions of a    *)
(* list of CPUs, one by one, and then                                      *)
(*   commit   CommitRunRequests: submit and wait for each of them,         *)
(*   submit   SubmitRunRequests: submit and go on,                         *)
(*   abort    Abort each of them,                                          *)
(*   sync     CommitSyncRequests: all of them or none; the agent owns the  *)
(*            transactions it opened for this.                             *)
(* The kernel may commit an open transaction nobody owns at any time.      *)
(* What it decides is external; "failed" stands for the failures           *)
(* CompleteRunRequest expects.                                             *)
(***************************************************************************)
EXTENDS Integers, FiniteSets, FiniteSetsExt

CONSTANTS Agent, Cpu, Target,
          Solo,         \* Solo[a]: the CPUs whose transactions a opens unowned
          Groups,       \* Groups[a]: the lists of CPUs a commits together
          MaxOps,       \* bound on the calls of an agent
          AwaitCommit,  \* whether a caller of Submit awaits the commit before it opens again
          None

Ops == {"commit", "submit", "abort", "sync", "syncabort"}

ASSUME SortAssumption ==
  /\ Cpu \subseteq Nat
  /\ Solo \in [Agent -> SUBSET Cpu]
  /\ \A a \in Agent : Groups[a] \subseteq (SUBSET Cpu) \ {{}}
  /\ None \notin Agent \cup Ops

ASSUME RunRequestAssumption ==
  /\ \A a, b \in Agent : a # b => Solo[a] \cap Solo[b] = {}
  /\ \A a, b \in Agent : a # b => \A g \in Groups[b] : Solo[a] \cap g = {}

VARIABLES txn,    \* txn[c]: state, sync_group_owner, gtid; taken: the gtid the kernel
                  \* took when it claimed; asked: a commit was asked for
          agent   \* agent[a]: the call it is in

vars == <<txn, agent>>

Idle == [pc |-> "idle", op |-> None, list |-> {}, todo |-> {}, target |-> None,
         failed |-> FALSE, ops |-> 0]

Txn == [state |-> "complete", owner |-> None, gtid |-> None, taken |-> None, asked |-> FALSE]

Init == txn = [c \in Cpu |-> Txn] /\ agent = [a \in Agent |-> Idle]

committed(c) == txn[c].state \notin {"ready", "claimed"}

sync_group_owned(c) == txn[c].owner # None

\* The CPU of the list whose turn it is.
Turn(a) == Min(agent[a].todo)

\* The agent is done with the CPU whose turn it is, and with the last one goes on to pc.
Advance(a, pc) ==
  LET rest == agent[a].todo \ {Turn(a)}
  IN  IF rest = {} THEN [agent[a] EXCEPT !.pc = pc, !.todo = agent[a].list]
      ELSE [agent[a] EXCEPT !.todo = rest]

Returned(a) == [Idle EXCEPT !.ops = agent[a].ops]

ReturnAfter(a) ==
  IF agent[a].todo = {Turn(a)} THEN Returned(a) ELSE Advance(a, "idle")

At(a, pc) == agent[a].pc = pc

-----------------------------------------------------------------------------
(* Calls *)

\* An agent begins a call.  One that only submits looks at its transactions from
\* time to time and opens them again when they are committed.
Begin(a) ==
  /\ At(a, "idle") /\ agent[a].ops < MaxOps
  /\ \E op \in Ops, t \in Target :
       \E l \in IF op \in {"sync", "syncabort"} THEN Groups[a] ELSE (SUBSET Solo[a]) \ {{}} :
         /\ AwaitCommit => \A c \in l \cap Solo[a] : committed(c)
         /\ agent' = [agent EXCEPT ![a] =
              [pc |-> IF op \in {"sync", "syncabort"} THEN "owner" ELSE "open", op |-> op,
               list |-> l, todo |-> l, target |-> t, failed |-> FALSE, ops |-> agent[a].ops + 1]]
  /\ UNCHANGED txn

-----------------------------------------------------------------------------
(* LocalRunRequest::Open *)

\* The agent reads the owner and spins while it is another one.
OpenOwner(a) ==
  /\ At(a, "owner")
  /\ txn[Turn(a)].owner \in {None, a}
  /\ agent' = [agent EXCEPT ![a].pc = IF txn[Turn(a)].owner = a THEN "open" ELSE "take"]
  /\ UNCHANGED txn

\* Seeded fault of OpenTake: a store where a compare-and-swap is needed.
OpenTakeStore(a) ==
  /\ At(a, "take")
  /\ txn' = [txn EXCEPT ![Turn(a)].owner = a]
  /\ agent' = [agent EXCEPT ![a].pc = "open"]

OpenTake(a) ==
  /\ At(a, "take")
  /\ IF txn[Turn(a)].owner = None
     THEN /\ txn' = [txn EXCEPT ![Turn(a)].owner = a]
          /\ agent' = [agent EXCEPT ![a].pc = "open"]
     ELSE /\ agent' = [agent EXCEPT ![a].pc = "owner"]
          /\ UNCHANGED txn

Owning(a) == agent[a].op \in {"sync", "syncabort"}

\* Open's stores to the transaction: the fields, and then GHOST_TXN_READY.
OpenStores(t, target) ==
  <<[t EXCEPT !.gtid = target], [t EXCEPT !.state = "ready", !.taken = None, !.asked = FALSE]>>

\* The checks, and the fields of the transaction.
OpenFields(a) ==
  /\ At(a, "open")
  /\ LET c == Turn(a)
     IN  IF committed(c) /\ (sync_group_owned(c) <=> Owning(a))
         THEN /\ txn' = [txn EXCEPT ![c] = OpenStores(@, agent[a].target)[1]]
              /\ agent' = [agent EXCEPT ![a].pc = "ready"]
         ELSE agent' = [agent EXCEPT ![a].pc = "dead"] /\ UNCHANGED txn

\* The store of GHOST_TXN_READY.
OpenReady(a) ==
  /\ At(a, "ready")
  /\ txn' = [txn EXCEPT ![Turn(a)] = OpenStores(@, agent[a].target)[2]]
  /\ agent' = [agent EXCEPT ![a] =
       [Advance(a, agent[a].op) EXCEPT
          !.pc = IF agent[a].todo # {Turn(a)} THEN IF Owning(a) THEN "owner" ELSE "open"
                 ELSE IF @ = "syncabort" THEN "abort" ELSE @]]

-----------------------------------------------------------------------------
(* SubmitRunRequests, CompleteRunRequest *)

Submit(a) ==
  /\ agent[a].pc \in {"commit", "submit"}
  /\ txn' = [c \in Cpu |-> IF c \in agent[a].list /\ txn[c].state = "ready"
                           THEN [txn[c] EXCEPT !.asked = TRUE] ELSE txn[c]]
  /\ agent' = [agent EXCEPT ![a] = IF @.pc = "submit" THEN Returned(a)
                                   ELSE [@ EXCEPT !.pc = "complete"]]

\* One turn of the loop; CHECK(failure_detected) comes at the end of a sync-commit's.
Complete(a) ==
  /\ At(a, "complete")
  /\ committed(Turn(a))
  /\ LET failed == agent[a].failed \/ txn[Turn(a)].state # "complete"
     IN  agent' = [agent EXCEPT ![a] =
           IF ~Owning(a) THEN ReturnAfter(a)
           ELSE [Advance(a, IF failed THEN "release" ELSE "dead") EXCEPT !.failed = failed]]
  /\ UNCHANGED txn

-----------------------------------------------------------------------------
(* Abort *)

AbortLoad(a) ==
  /\ At(a, "abort")
  /\ agent' = [agent EXCEPT ![a] = IF txn[Turn(a)].state = "ready" THEN [@ EXCEPT !.pc = "abortcas"]
                                   ELSE ReturnAfter(a)]
  /\ UNCHANGED txn

\* Seeded fault of AbortCas: a store.
AbortStore(a) ==
  /\ At(a, "abortcas")
  /\ txn' = [txn EXCEPT ![Turn(a)].state = "aborted", ![Turn(a)].owner = None]
  /\ agent' = [agent EXCEPT ![a] = [ReturnAfter(a) EXCEPT !.pc = IF @ = "abortcas" THEN "abort" ELSE @]]

\* The exchange, and the release of the ownership once it succeeded.
AbortCas(a) ==
  /\ At(a, "abortcas")
  /\ txn' = IF txn[Turn(a)].state = "ready"
            THEN [txn EXCEPT ![Turn(a)].state = "aborted", ![Turn(a)].owner = None]
            ELSE txn
  /\ agent' = [agent EXCEPT ![a] = [ReturnAfter(a) EXCEPT !.pc = IF @ = "abortcas" THEN "abort" ELSE @]]

-----------------------------------------------------------------------------
(* CommitSyncRequests *)

\* The system call.  The kernel claims the group and makes up its mind; it releases
\* the transactions of a group that succeeds.
SyncSubmit(a) ==
  /\ At(a, "sync")
  /\ txn' = [c \in Cpu |-> IF c \in agent[a].list
                           THEN [txn[c] EXCEPT !.state = "claimed", !.taken = txn[c].gtid] ELSE txn[c]]
  /\ \E verdict \in {"synced", "complete"} : agent' = [agent EXCEPT ![a].pc = verdict]

\* The kernel commits a transaction of a group that succeeds and releases it.
KernelSynced(a) ==
  /\ At(a, "synced")
  /\ txn' = [txn EXCEPT ![Turn(a)].state = "complete", ![Turn(a)].owner = None]
  /\ agent' = [agent EXCEPT ![a] = Advance(a, "returned")]

\* SyncCommit returned 1: the transactions are no longer this agent's.
SyncReturn(a) ==
  /\ At(a, "returned")
  /\ agent' = [agent EXCEPT ![a] = Returned(a)]
  /\ UNCHANGED txn

\* Seeded fault of Release: only those that failed by themselves are released.
ReleaseFailed(a) ==
  /\ At(a, "release")
  /\ IF ~committed(Turn(a)) \/ ~sync_group_owned(Turn(a))
     THEN agent' = [agent EXCEPT ![a].pc = "dead"] /\ UNCHANGED txn
     ELSE /\ txn' = IF txn[Turn(a)].state = "poisoned" THEN txn ELSE [txn EXCEPT ![Turn(a)].owner = None]
          /\ agent' = [agent EXCEPT ![a] = ReturnAfter(a)]

\* One turn of ReleaseSyncRequests.
Release(a) ==
  /\ At(a, "release")
  /\ IF ~committed(Turn(a)) \/ ~sync_group_owned(Turn(a))
     THEN agent' = [agent EXCEPT ![a].pc = "dead"] /\ UNCHANGED txn
     ELSE /\ txn' = [txn EXCEPT ![Turn(a)].owner = None]
          /\ agent' = [agent EXCEPT ![a] = ReturnAfter(a)]

-----------------------------------------------------------------------------
(* The kernel *)

\* A CPU claims its transaction, asked or not.
KernelClaim(c) ==
  /\ txn[c].state = "ready" /\ txn[c].owner = None
  /\ txn' = [txn EXCEPT ![c].state = "claimed", ![c].taken = txn[c].gtid, ![c].asked = FALSE]
  /\ UNCHANGED agent

\* It commits it.  The members of a group that fails are poisoned or fail by themselves.
KernelCommit(c) ==
  /\ txn[c].state = "claimed"
  /\ \A a \in Agent : At(a, "synced") => c \notin agent[a].todo
  /\ \E s \in IF txn[c].owner = None THEN {"complete", "failed"} ELSE {"failed", "poisoned"} :
       txn' = [txn EXCEPT ![c].state = s]
  /\ UNCHANGED agent

AgentStep(a) ==
  \/ OpenOwner(a) \/ OpenTake(a) \/ OpenFields(a) \/ OpenReady(a)
  \/ Submit(a) \/ Complete(a) \/ AbortLoad(a) \/ AbortCas(a)
  \/ SyncSubmit(a) \/ KernelSynced(a) \/ SyncReturn(a) \/ Release(a)

\* All calls have been made.
Done == (\A a \in Agent : agent[a].pc = "idle" /\ agent[a].ops = MaxOps) /\ UNCHANGED vars

Next ==
  \/ \E a \in Agent : Begin(a) \/ AgentStep(a)
  \/ \E c \in Cpu : KernelClaim(c) \/ KernelCommit(c)
  \/ Done

\* The kernel commits what it was asked for, and in bounded time what it claimed.
Fairness ==
  /\ \A a \in Agent : WF_vars(AgentStep(a))
  /\ \A c \in Cpu : WF_vars(txn[c].asked /\ KernelClaim(c)) /\ WF_vars(KernelCommit(c))

Spec == Init /\ [][Next]_vars /\ Fairness

-----------------------------------------------------------------------------
\* Agent a has opened c and not yet let go of it.
Holds(a, c) ==
  /\ Owning(a) /\ c \in agent[a].list
  /\ agent[a].pc \in {"owner", "take", "open", "ready"} => c \notin agent[a].todo
  /\ agent[a].pc \in {"abort", "abortcas", "release", "synced"} => c \in agent[a].todo
  /\ agent[a].pc \notin {"returned", "dead"}

\* Ownership is a lock: while an agent has a transaction open for a group, no other
\* agent's fields are in it, so that the kernel commits what this agent asked for.
OwnedIsMine ==
  \A a \in Agent, c \in Cpu :
    Holds(a, c) => txn[c].owner = a /\ txn[c].gtid = agent[a].target

\* The kernel takes a transaction with the fields its opener wrote last, and they do
\* not change under its hands ("We do not allow transaction clobbering").
NoClobbering ==
  \A c \in Cpu : txn[c].state = "claimed" => txn[c].taken = txn[c].gtid

\* A transaction that Abort reports aborted was not taken by the kernel: the exchange
\* decides between the two.
AbortIsExact ==
  \A c \in Cpu : txn[c].state = "aborted" => txn[c].taken = None

\* No CHECK of Open, CommitSyncRequests or ReleaseSyncRequests fails.
NoCheckFails == \A a \in Agent : agent[a].pc # "dead"

\* Every call returns: no agent spins for ever on a transaction that nobody commits
\* or on an ownership that nobody gives up.
CallsReturn == \A a \in Agent : agent[a].pc # "idle" ~> agent[a].pc = "idle"
=============================================================================
