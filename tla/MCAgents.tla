------------------------------ MODULE MCAgents ------------------------------
(***************************************************************************)
(* Instances of lib/agent: the start and the end of an agent process       *)
(* (AgentHandover), and the loop of one agent (AgentLoop) with and without *)
(* tasks that depart while they are queued.  They have no state in common: *)
(* a behaviour is one of the component that the initial state chooses; the *)
(* other one rests.                                                        *)
(***************************************************************************)
EXTENDS AgentHandover

CONSTANTS Task, NoTask

VARIABLES part, at, rq, cur, chan, stale, wakeup, idle, run, ktask, raised, caller

L == INSTANCE AgentLoop WITH wake <- wakeup, main <- caller, Departures <- FALSE
D == INSTANCE AgentLoop WITH wake <- wakeup, main <- caller, Departures <- TRUE
lvars == <<at, rq, cur, chan, stale, wakeup, idle, run, ktask, raised, caller>>

AInit == HInit /\ L!LInit /\ part \in {"handover", "loop", "departures"}

ANext ==
  \/ part = "handover" /\ HNext /\ UNCHANGED <<part, lvars>>
  \/ part = "loop" /\ L!LNext /\ UNCHANGED <<part, hvars>>
  \/ part = "departures" /\ D!LNext /\ UNCHANGED <<part, hvars>>

ASpec ==
  /\ AInit /\ [][ANext]_<<part, hvars, lvars>>
  /\ \/ part = "handover" /\ HFairness
     \/ part # "handover" /\ L!LFairness

-----------------------------------------------------------------------------
\* An agent that sleeps has read its messages, and leaves its CPU idle only if it has
\* no task for it or will be called back when the CPU is idle (the loop of AgentThread(),
\* and LocalYield() of an agent that is boosted or not).
NoWorkLeftAsleep == L!NoWorkLeftAsleep

\* What has begun completes: TerminateAgentTasks() returns, a new process gets the
\* enclave once the old one has ended or crashed, and the agent's loop sees Finished()
\* while tasks come and block; if queued tasks also depart, an agent that does not see
\* it is one that the departure of its last task left asleep.
TransitionsComplete ==
  /\ part = "handover" => TerminationCompletes /\ TakeoverCompletes
  /\ part = "loop" => L!TerminateReturns
  /\ part = "departures" => D!TerminateReturnsOrSleeps
=============================================================================
