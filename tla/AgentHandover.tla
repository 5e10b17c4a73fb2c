---------------------------- MODULE AgentHandover ----------------------------
(***************************************************************************)
(* The life of a FullAgent (lib/agent.h, lib/agent.cc, Enclave::Ready and  *)
(* the agent_online file of lib/enclave.cc): its main thread starts one    *)
(* agent thread per CPU, readies the enclave, goes online, and terminates  *)
(* the agents; a second process may take the enclave over in place.        *)
(*                                                                         *)
(* A notification is the event that Notification implements: a member of   *)
(* note[g][c].  The agent's scheduling loop is reduced to its test of      *)
(* Finished() and its sleep in LocalYield; AgentLoop has the run queue.    *)
(* The kernel is external: one agent per CPU (EBUSY), one writer of        *)
(* agent_online, and a poll on that file that reports every change.        *)
(***************************************************************************)
EXTENDS FiniteSets

CONSTANTS Cpu,      \* the CPUs of the enclave
          Overlap   \* the new process may start before the old one is online

ASSUME OverlapAssumption == Overlap \in BOOLEAN

Gen == {"old", "new"}

VARIABLES
  main,       \* main[g]: the main thread of process g
  thr,        \* thr[g][c]: the agent thread of CPU c
  note,       \* note[g][c]: the notifications of that agent that were raised
  stage,      \* stage[g][c]: how far TerminateBegin has come for that agent
  attached,   \* attached[g]: the CPUs whose agent is attached to the enclave
  discovered, \* discovered[g]: DiscoverTasks has run
  isOnline,   \* isOnline[g]: Enclave::is_online_
  online,     \* who holds agent_online open for writing
  edge,       \* edge[g][c]: agent_online changed since the thread's first poll
  slot,       \* slot[c]: whose agent the kernel has on CPU c
  wake        \* wake[g][c]: that agent was pinged

hvars == <<main, thr, note, stage, attached, discovered, isOnline, online, edge,
           slot, wake>>

Each(v) == [g \in Gen |-> [c \in Cpu |-> v]]
Looping == {"loop", "yield", "asleep"}
Threads == {"none", "poll", "read", "change", "enter", "attach", "signal",
            "wait_enclave", "exit_wait", "dying", "dead"} \cup Looping
Places == {"none", "spawned", "lock", "discover", "release", "advertise",
           "online", "offline", "terminate", "join", "done", "crashed",
           "check_failed"}

HTypeOK ==
  /\ main \in [Gen -> Places]
  /\ thr \in [Gen -> [Cpu -> Threads]]
  /\ note \in [Gen -> [Cpu -> SUBSET {"ready", "enclave_ready", "finished", "do_exit"}]]
  /\ stage \in [Gen -> [Cpu -> {"run", "finished", "pinged", "begun"}]]
  /\ attached \in [Gen -> SUBSET Cpu]
  /\ discovered \in [Gen -> BOOLEAN] /\ isOnline \in [Gen -> BOOLEAN]
  /\ online \in Gen \cup {"nobody"}
  /\ edge \in [Gen -> [Cpu -> BOOLEAN]] /\ wake \in [Gen -> [Cpu -> BOOLEAN]]
  /\ slot \in [Cpu -> Gen \cup {"nobody"}]

HInit ==
  /\ main = [g \in Gen |-> "none"]
  /\ thr = Each("none") /\ note = Each({}) /\ stage = Each("run")
  /\ attached = [g \in Gen |-> {}]
  /\ discovered = [g \in Gen |-> FALSE] /\ isOnline = [g \in Gen |-> FALSE]
  /\ online = "nobody"
  /\ edge = Each(FALSE) /\ wake = Each(FALSE)
  /\ slot = [c \in Cpu |-> "nobody"]

Goto(g, place) == main' = [main EXCEPT ![g] = place]
Move(g, c, place) == thr' = [thr EXCEPT ![g][c] = place]
Raise(g, c, n) == note' = [note EXCEPT ![g][c] = @ \cup {n}]
Raised(g, c, n) == n \in note[g][c]

\* The file agent_online changes hands: every poll on it reports a change.
OnlineBecomes(who) ==
  /\ online' = who
  /\ edge' = Each(TRUE)

-----------------------------------------------------------------------------
(* The main thread: StartAgentTasks and Enclave::Ready *)

\* MakeAgent and StartBegin for every CPU.
StartBegin(g) ==
  /\ main[g] = "none"
  /\ g = "new" /\ ~Overlap => main["old"] \notin {"none", "spawned", "lock",
                                "discover", "release", "advertise"}
  /\ Goto(g, "spawned")
  /\ thr' = [thr EXCEPT ![g] = [c \in Cpu |-> "poll"]]
  /\ UNCHANGED <<note, stage, attached, discovered, isOnline, online, edge, slot,
                 wake>>

StartComplete(g) ==
  /\ main[g] = "spawned"
  /\ \A c \in Cpu : Raised(g, c, "ready")
  /\ Goto(g, "lock")
  /\ UNCHANGED <<thr, note, stage, attached, discovered, isOnline, online, edge,
                 slot, wake>>

\* LockWhen(agents_.size() == enclave_cpus_.Size()).
ReadyLock(g) ==
  /\ main[g] = "lock"
  /\ attached[g] = Cpu
  /\ Goto(g, "discover")
  /\ UNCHANGED <<thr, note, stage, attached, discovered, isOnline, online, edge,
                 slot, wake>>

Discover(g) ==
  /\ main[g] = "discover"
  /\ discovered' = [discovered EXCEPT ![g] = TRUE]
  /\ Goto(g, "release")
  /\ UNCHANGED <<thr, note, stage, attached, isOnline, online, edge, slot, wake>>

\* Agent::EnclaveReady, one CPU after the other; then the lock is dropped.
ReleaseAgent(g, c) ==
  /\ main[g] = "release"
  /\ ~Raised(g, c, "enclave_ready")
  /\ Raise(g, c, "enclave_ready")
  /\ Goto(g, IF \A d \in Cpu \ {c} : Raised(g, d, "enclave_ready")
             THEN "advertise" ELSE "release")
  /\ UNCHANGED <<thr, stage, attached, discovered, isOnline, online, edge, slot,
                 wake>>

\* AdvertiseOnline: the kernel refuses a second writer, and the CHECK fails.
AdvertiseOnline(g) ==
  /\ main[g] = "advertise"
  /\ IF online = "nobody"
     THEN /\ OnlineBecomes(g)
          /\ isOnline' = [isOnline EXCEPT ![g] = TRUE]
          /\ Goto(g, "online")
     ELSE Goto(g, "check_failed") /\ UNCHANGED <<online, edge, isOnline>>
  /\ UNCHANGED <<thr, note, stage, attached, discovered, slot, wake>>

-----------------------------------------------------------------------------
(* The main thread: TerminateAgentTasks *)

PrepareToExit(g) ==
  /\ main[g] = "online"
  /\ isOnline' = [isOnline EXCEPT ![g] = FALSE]
  /\ Goto(g, "offline")
  /\ UNCHANGED <<thr, note, stage, attached, discovered, online, edge, slot, wake>>

CloseOnline(g) ==
  /\ main[g] = "offline"
  /\ OnlineBecomes("nobody")
  /\ Goto(g, "terminate")
  /\ UNCHANGED <<thr, note, stage, attached, discovered, isOnline, slot, wake>>

\* TerminateBegin of one agent: finished_, then Ping(), then do_exit_.
Terminating(g, c, before, after) ==
  /\ main[g] = "terminate"
  /\ stage[g][c] = before
  /\ stage' = [stage EXCEPT ![g][c] = after]
  /\ Goto(g, IF after = "begun" /\ \A d \in Cpu \ {c} : stage[g][d] = "begun"
             THEN "join" ELSE "terminate")

TerminateFinished(g, c) ==
  /\ Terminating(g, c, "run", "finished")
  /\ Raise(g, c, "finished")
  /\ UNCHANGED <<thr, attached, discovered, isOnline, online, edge, slot, wake>>

TerminatePing(g, c) ==
  /\ Terminating(g, c, "finished", "pinged")
  /\ wake' = [wake EXCEPT ![g][c] = TRUE]
  /\ UNCHANGED <<thr, note, attached, discovered, isOnline, online, edge, slot>>

TerminateExit(g, c) ==
  /\ Terminating(g, c, "pinged", "begun")
  /\ Raise(g, c, "do_exit")
  /\ UNCHANGED <<thr, attached, discovered, isOnline, online, edge, slot, wake>>

\* TerminateComplete of every agent: join, and wait for GHOST_SW_F_CANFREE; then
\* agents_.clear() detaches them all.
TerminateComplete(g) ==
  /\ main[g] = "join"
  /\ \A c \in Cpu : thr[g][c] = "dead"
  /\ attached' = [attached EXCEPT ![g] = {}]
  /\ Goto(g, "done")
  /\ UNCHANGED <<thr, note, stage, discovered, isOnline, online, edge, slot, wake>>

-----------------------------------------------------------------------------
(* The agent thread: WaitForAgentOnlineValue(0) *)

AtThr(g, c, place) == main[g] # "crashed" /\ thr[g][c] = place

\* Seeded fault of WaitPoll: the file is added to the poll after it was read, and
\* a change in between is lost.
WaitPollLevel(g, c) ==
  /\ thr[g][c] \in {"poll", "change"} /\ main[g] # "crashed"
  /\ edge' = [edge EXCEPT ![g][c] = FALSE]
  /\ Move(g, c, IF thr[g][c] = "poll" THEN "read" ELSE "change")
  /\ UNCHANGED <<main, note, stage, attached, discovered, isOnline, online, slot,
                 wake>>

\* The first epoll_wait returns at once.
WaitPoll(g, c) ==
  /\ AtThr(g, c, "poll")
  /\ edge' = [edge EXCEPT ![g][c] = FALSE]
  /\ Move(g, c, "read")
  /\ UNCHANGED <<main, note, stage, attached, discovered, isOnline, online, slot,
                 wake>>

\* Seeded fault of WaitRead: the file of a process that crashed is not waited for.
WaitSkippedIfCrashed(g, c) ==
  /\ AtThr(g, c, "read")
  /\ Move(g, c, IF online = "nobody" \/ main[online] = "crashed" THEN "enter" ELSE "change")
  /\ UNCHANGED <<main, note, stage, attached, discovered, isOnline, online, edge,
                 slot, wake>>

WaitRead(g, c) ==
  /\ AtThr(g, c, "read")
  /\ Move(g, c, IF online = "nobody" THEN "enter" ELSE "change")
  /\ UNCHANGED <<main, note, stage, attached, discovered, isOnline, online, edge,
                 slot, wake>>

WaitChange(g, c) ==
  /\ AtThr(g, c, "change")
  /\ edge[g][c]
  /\ Move(g, c, "enter")
  /\ UNCHANGED <<main, note, stage, attached, discovered, isOnline, online, edge,
                 slot, wake>>

-----------------------------------------------------------------------------
(* The agent thread: ThreadBody and AgentThread *)

\* SchedAgentEnterGhost, retried while it fails with EBUSY.
EnterGhost(g, c) ==
  /\ AtThr(g, c, "enter")
  /\ slot[c] = "nobody"
  /\ slot' = [slot EXCEPT ![c] = g]
  /\ Move(g, c, "attach")
  /\ UNCHANGED <<main, note, stage, attached, discovered, isOnline, online, edge,
                 wake>>

AttachAgent(g, c) ==
  /\ AtThr(g, c, "attach")
  /\ attached' = [attached EXCEPT ![g] = @ \cup {c}]
  /\ Move(g, c, "signal")
  /\ UNCHANGED <<main, note, stage, discovered, isOnline, online, edge, slot, wake>>

SignalReady(g, c) ==
  /\ AtThr(g, c, "signal")
  /\ Raise(g, c, "ready")
  /\ Move(g, c, "wait_enclave")
  /\ UNCHANGED <<main, stage, attached, discovered, isOnline, online, edge, slot,
                 wake>>

WaitForEnclaveReady(g, c) ==
  /\ AtThr(g, c, "wait_enclave")
  /\ Raised(g, c, "enclave_ready")
  /\ Move(g, c, "loop")
  /\ UNCHANGED <<main, note, stage, attached, discovered, isOnline, online, edge,
                 slot, wake>>

\* while (!Finished()) Schedule(...)
TestFinished(g, c) ==
  /\ AtThr(g, c, "loop")
  /\ Move(g, c, IF Raised(g, c, "finished") THEN "exit_wait" ELSE "yield")
  /\ UNCHANGED <<main, note, stage, attached, discovered, isOnline, online, edge,
                 slot, wake>>

\* Schedule() finds nothing to run and calls LocalYield: a pinged agent goes on,
\* another one sleeps until it is pinged.
Yield(g, c) ==
  /\ thr[g][c] \in {"yield", "asleep"} /\ main[g] # "crashed"
  /\ IF wake[g][c] THEN Move(g, c, "loop") ELSE Move(g, c, "asleep")
  /\ wake' = [wake EXCEPT ![g][c] = FALSE]
  /\ UNCHANGED <<main, note, stage, attached, discovered, isOnline, online, edge,
                 slot>>

\* WaitForExitNotification, and the return from the thread's function.
WaitForExit(g, c) ==
  /\ AtThr(g, c, "exit_wait")
  /\ Raised(g, c, "do_exit")
  /\ Move(g, c, "dying")
  /\ UNCHANGED <<main, note, stage, attached, discovered, isOnline, online, edge,
                 slot, wake>>

-----------------------------------------------------------------------------
(* The kernel: the task_dead callback of an agent, and the death of a process,*)
(* whose threads leave and whose file is closed in any order.              *)

KDead(g, c) ==
  /\ \/ thr[g][c] = "dying"
     \/ main[g] = "crashed" /\ thr[g][c] \notin {"none", "dead"}
  /\ Move(g, c, "dead")
  /\ slot' = [slot EXCEPT ![c] = IF @ = g THEN "nobody" ELSE @]
  /\ UNCHANGED <<main, note, stage, attached, discovered, isOnline, online, edge,
                 wake>>

KCrash(g) ==
  /\ main[g] \notin {"none", "done", "crashed", "check_failed"}
  /\ g = "old"
  /\ Goto(g, "crashed")
  /\ isOnline' = [isOnline EXCEPT ![g] = FALSE]
  /\ UNCHANGED <<thr, note, stage, attached, discovered, online, edge, slot, wake>>

KClose(g) ==
  /\ main[g] = "crashed" /\ online = g
  /\ OnlineBecomes("nobody")
  /\ UNCHANGED <<main, thr, note, stage, attached, discovered, isOnline, slot, wake>>

-----------------------------------------------------------------------------
StartStep(g) ==
  \/ StartComplete(g) \/ ReadyLock(g) \/ Discover(g) \/ AdvertiseOnline(g)
  \/ \E c \in Cpu : ReleaseAgent(g, c)

TerminateStep(g) ==
  \/ CloseOnline(g) \/ TerminateComplete(g)
  \/ \E c \in Cpu : TerminateFinished(g, c) \/ TerminatePing(g, c) \/ TerminateExit(g, c)

ThreadStep(g, c) ==
  \/ WaitPoll(g, c) \/ WaitRead(g, c) \/ WaitChange(g, c)
  \/ EnterGhost(g, c) \/ AttachAgent(g, c) \/ SignalReady(g, c)
  \/ WaitForEnclaveReady(g, c) \/ TestFinished(g, c) \/ Yield(g, c)
  \/ WaitForExit(g, c) \/ KDead(g, c)

HNext ==
  \E g \in Gen :
    \/ StartBegin(g) \/ StartStep(g)
    \/ PrepareToExit(g) \/ TerminateStep(g)
    \/ KCrash(g) \/ KClose(g)
    \/ \E c \in Cpu : ThreadStep(g, c)

HSpec == HInit /\ [][HNext]_hvars

\* Threads are scheduled and the kernel finishes what it has begun.  Nothing
\* obliges anyone to start a process, to stop it, or to let it crash.
HFairness ==
  \A g \in Gen :
    /\ WF_hvars(StartStep(g)) /\ WF_hvars(TerminateStep(g)) /\ WF_hvars(KClose(g))
    /\ \A c \in Cpu : WF_hvars(ThreadStep(g, c))

-----------------------------------------------------------------------------
(* Properties *)

Leaving == {"terminate", "join", "done", "crashed"}

\* "We know that the old agent is gone or in the act of dying, because we called
\* WaitForOldAgent": when an agent of the new process tries to enter.
OldIsDying ==
  \A c \in Cpu : thr["new"][c] = "enter" => main["old"] \in Leaving \cup {"none"}

\* A process goes online only when nobody else is: the CHECK in AdvertiseOnline
\* holds through an upgrade and a crash of the old process.
OnlineAlone == \A g \in Gen : main[g] # "check_failed"

\* "We can't schedule until Discovery is complete", and "agent threads may call
\* GetAgent on other cpus": an agent in its loop finds the tasks discovered and
\* every other agent attached, also while the process terminates.
LoopSeesEnclave ==
  \A g \in Gen, c \in Cpu :
    (thr[g][c] \in Looping /\ main[g] # "crashed") => discovered[g] /\ attached[g] = Cpu

\* "An external observer can see the enclave file agent_online == 0, then contact
\* the Agent, which must see IsOnline == false": is_online_ is true only while
\* the process holds the file.
ObserverSeesOffline == \A g \in Gen : isOnline[g] => online = g

\* A process that takes an enclave over, after a clean end or a crash, finds it as it
\* relies on at every step, and nobody is misled about who is online.
HandoverSafe == OldIsDying /\ OnlineAlone /\ LoopSeesEnclave /\ ObserverSeesOffline

\* TerminateAgentTasks returns: the agents wake up, see Finished() and exit.
TerminationCompletes ==
  \A g \in Gen : (main[g] = "offline") ~> (main[g] \in {"done", "crashed"})

\* A new process gets the enclave once the old one ends, cleanly or not.
TakeoverCompletes ==
  (main["new"] # "none" /\ main["old"] \in Leaving) ~>
    (main["new"] \in {"online", "offline"} \cup Leaving)
=============================================================================
