----------------------------- MODULE MCRuntime -----------------------------
(***************************************************************************)
(* Instances of what lies between a policy and the kernel:                 *)
(*   - transactions, RunRequest: two agents whose groups of CPUs overlap   *)
(*     (part "overlap", the constants of the configuration), one agent     *)
(*     that commits alone and in groups ("solo"), and two agents with one  *)
(*     group, for liveness ("pairs");                                      *)
(*   - enclaves, Enclave: without ("makers") and with ("reapers") somebody *)
(*     who destroys all enclaves;                                          *)
(*   - discovery, Discovery: two tasks ("takeover"), and one task that     *)
(*     sends more messages, for liveness ("lone");                         *)
(*   - pick-next-task rings, PntRing: one slot that two CPUs contend for   *)
(*     ("slot"), two slots that are used again ("wrap"), and the smallest  *)
(*     one, for liveness ("ring");                                         *)
(*   - the RPC between an agent process and its clients, AgentProcess      *)
(*     ("rpc").                                                            *)
(* They have no state in common: a behaviour is one of the part that the   *)
(* initial state chooses; the others rest.                                 *)
(***************************************************************************)
EXTENDS RunRequest, Sequences, TLC

CONSTANTS Parts, a1, a2, p1, p2, g1, t1, t2,
          Clients, Owner, Main, Rpc, Requests

VARIABLES part, fs, proc, sw, kt, dflt, chan, obj, ag, abort,
          word, frame, pc, mutex, asked, req, res, fullAgent, child, sigchld, parent,
          prod_idx, cons_idx, slot, latch_error, push, cpu, caller, mine, ktask, msgs

NoSolo == [a \in Agent |-> {}]
Overlapping == (a1 :> {{1, 2}}) @@ (a2 :> {{2, 3}, {1, 3}})

Solo1 == INSTANCE RunRequest WITH MaxOps <- 3,
           Solo <- (a1 :> {1, 2}) @@ (a2 :> {}), Groups <- (a1 :> {{1, 2}}) @@ (a2 :> {})
Pairs == INSTANCE RunRequest WITH Target <- {t1}, Groups <- [a \in Agent |-> {{1, 2}}]

Makers == INSTANCE Enclave WITH Maker <- {p1, p2}, Guest <- {g1}, Wants <- (p1 :> {1}) @@ (p2 :> {2}),
            MaxEnclaves <- 4, MaxRetries <- 3, ReapBound <- 2, DestroyAll <- FALSE
Reapers == INSTANCE Enclave WITH Maker <- {p1, p2}, Guest <- {}, Wants <- (p1 :> {1}) @@ (p2 :> {2}),
             MaxEnclaves <- 3, MaxRetries <- 3, ReapBound <- 2, DestroyAll <- TRUE

Takeover == INSTANCE Discovery WITH Task <- {t1, t2}, Capacity <- 3, MaxBarrier <- 5, Reniced <- {},
              Junk <- {0}, Migrates <- FALSE, Busy <- FALSE, EarlyLeavers <- FALSE
Lone == INSTANCE Discovery WITH Task <- {t1}, Capacity <- 2, MaxBarrier <- 8, Reniced <- {t1},
          Junk <- {0}, Migrates <- FALSE, Busy <- FALSE, EarlyLeavers <- FALSE

Ring == INSTANCE PntRing WITH Task <- {t1, t2}, Cpu <- {p1}, TheAgent <- a1,
          NumSlots <- 1, NumRetry <- 2, MaxPush <- 2, agent <- caller
OneSlot == INSTANCE PntRing WITH Task <- {t1, t2}, Cpu <- Clients, TheAgent <- a1,
             NumSlots <- 1, NumRetry <- 2, MaxPush <- 2, agent <- caller
Wrap == INSTANCE PntRing WITH Task <- {t1, t2}, Cpu <- {p1}, TheAgent <- a1,
          NumSlots <- 2, NumRetry <- 1, MaxPush <- 3, agent <- caller

P == INSTANCE AgentProcess WITH
       Thread <- Clients \cup {Owner, Main, Rpc}, Client <- Clients, Request <- Requests,
       Note <- {"agent_ready", "kill_agent", "rpc_pending", "rpc_done"},
       NoThread <- None, NoAnswer <- None, CallersFinish <- TRUE, agent <- fullAgent

\* The clients are interchangeable, and so are the tasks.  Parts share model values: the
\* clients of the agent process are the CPUs of the rings, and the tasks its requests.
Symmetry == Permutations(Clients) \cup Permutations({t1, t2})

evars == <<fs, proc>>
pvars == <<word, frame, pc, mutex, asked, req, res, fullAgent, child, sigchld, parent>>
gvars == <<prod_idx, cons_idx, slot, latch_error, push, cpu, caller, mine, ktask, msgs>>
dvars == <<sw, kt, dflt, chan, obj, ag, abort>>

ASSUME RuntimeAssumption ==
  /\ Makers!EnclaveAssumption /\ Reapers!EnclaveAssumption
  /\ Takeover!DiscoveryAssumption /\ Lone!DiscoveryAssumption

RInit ==
  /\ part \in Parts
  /\ CASE part = "solo" -> Solo1!Init [] part = "pairs" -> Pairs!Init [] OTHER -> Init
  /\ IF part = "reapers" THEN Reapers!Init ELSE Makers!Init
  /\ IF part = "lone" THEN Lone!Init ELSE Takeover!Init
  /\ P!PInit /\ (part # "rpc" => frame[Owner].note = "agent_ready")
  /\ CASE part = "slot" -> OneSlot!Init [] part = "wrap" -> Wrap!Init [] OTHER -> Ring!Init

RNext ==
  \/ part = "overlap" /\ Next /\ UNCHANGED <<part, evars, dvars, pvars, gvars>>
  \/ part = "solo" /\ Solo1!Next /\ UNCHANGED <<part, evars, dvars, pvars, gvars>>
  \/ part = "pairs" /\ Pairs!Next /\ UNCHANGED <<part, evars, dvars, pvars, gvars>>
  \/ part = "makers" /\ Makers!Next /\ UNCHANGED <<part, vars, dvars, pvars, gvars>>
  \/ part = "reapers" /\ Reapers!Next /\ UNCHANGED <<part, vars, dvars, pvars, gvars>>
  \/ part = "takeover" /\ Takeover!Next /\ UNCHANGED <<part, vars, evars, pvars, gvars>>
  \/ part = "lone" /\ Lone!Next /\ UNCHANGED <<part, vars, evars, pvars, gvars>>
  \/ part = "rpc" /\ P!PNext /\ UNCHANGED <<part, vars, evars, dvars, gvars>>
  \/ part = "ring" /\ Ring!Next /\ UNCHANGED <<part, vars, evars, dvars, pvars>>
  \/ part = "slot" /\ OneSlot!Next /\ UNCHANGED <<part, vars, evars, dvars, pvars>>
  \/ part = "wrap" /\ Wrap!Next /\ UNCHANGED <<part, vars, evars, dvars, pvars>>

RSpec == RInit /\ [][RNext]_<<part, vars, evars, dvars, pvars, gvars>>

RLiveSpec ==
  /\ RSpec
  /\ \/ part = "pairs" /\ Pairs!Fairness
     \/ part = "reapers" /\ Reapers!Fairness
     \/ part = "lone" /\ Lone!Fairness
     \/ part = "ring" /\ Ring!Fairness

-----------------------------------------------------------------------------
\* "We do not allow transaction clobbering": the kernel takes what the opener wrote
\* last, also when the transaction is opened again and again; and a transaction that
\* Abort() reports aborted was not taken by the kernel.
TransactionsAreExact == part = "solo" => Solo1!NoClobbering /\ Solo1!AbortIsExact

\* The enclave a maker ends up in is the one it made, with the CPUs it asked for, and
\* no maker fails: CPUs and descriptors come back before its retries are spent.
MakerHasItsOwn == part = "makers" => Makers!MakerHasItsOwn /\ Makers!MakersSucceed

\* After the scan and the first messages the process knows exactly the tasks the kernel
\* has announced, in their state and with their live status word; no status word is lost
\* to the enclave, and no CHECK and no GHOST_ERROR ends the takeover of a quiet enclave.
TakenOverExactly ==
  part = "takeover" => Takeover!TakenOverExactly /\ Takeover!NoWordLost /\ Takeover!NoCheckFails

\* An Rpc() returns the answer to its own request; the handler runs only while there is a
\* FullAgent, and Notify()'s CHECK holds although the notifications are reset and used
\* again while the other side may still be inside Notify().
OwnAnswer == P!OwnAnswer /\ P!HandlerHasAgent /\ P!NoCheckFails

\* Who has the ball, the agent or BPF, is never in doubt; task->slot never serves another
\* task, who fills a slot has it alone, and a claimed slot that is not READY is ABORTED.
RingIsSound ==
  /\ part = "slot" => OneSlot!RingIsSound
  /\ part = "wrap" => Wrap!RingIsSound

\* Every call returns: of an agent on a transaction, of a maker of an enclave although
\* others destroy enclaves meanwhile, and of an agent that wants a ring slot back.
EveryCallReturns ==
  /\ part = "pairs" => Pairs!CallsReturn
  /\ part = "reapers" => Reapers!CreationEnds
  /\ part = "ring" => Ring!UnscheduleReturns

\* A task that entered and stays becomes known to the new process.
TasksBecomeKnown == part = "lone" => Lone!TasksBecomeKnown

\* A transaction that failed in the ring is reaped some time.
ErrorsAreReaped == part = "ring" => Ring!ErrorsAreReaped
=============================================================================
