---------------------------- MODULE AgentProcess ----------------------------
(***************************************************************************)
(* AgentProcess (lib/agent.h): the parent that owns it, the forked child   *)
(* that runs the FullAgent, the notifications both share in memory, and    *)
(* the RPC channel.  Every notification call runs as in Notification, one  *)
(* load, exchange or futex call at a time.                                 *)
(*                                                                         *)
(* Threads: the Owner (constructor and destructor) and the Clients (Rpc)   *)
(* in the parent; Main and Rpc (the thread "ap_rpc") in the child.         *)
(* full_agent_ is set while agent = "up": assigning nullptr to a unique_ptr*)
(* clears the pointer before the FullAgent's destructor runs.  Therefore   *)
(* the -ENODEV branch of the handler, a set pointer to an offline agent,   *)
(* never runs: Ready() returns before the pointer is set.                  *)
(***************************************************************************)
EXTENDS Notification, FiniteSets

CONSTANTS Client, Owner, Main, Rpc,  \* the threads
          Request,                   \* what a client can ask
          NoThread, NoAnswer,
          CallersFinish              \* callers of Rpc return before ~AgentProcess

ASSUME ThreadAssumption ==
  /\ Thread = Client \cup {Owner, Main, Rpc}
  /\ Note = {"agent_ready", "kill_agent", "rpc_pending", "rpc_done"}
  /\ NoThread \notin Thread /\ NoAnswer \notin Request
  /\ CallersFinish \in BOOLEAN

VARIABLES pc,       \* pc[t]: where thread t is, outside of the notifications
          mutex,    \* who holds rpc_mutex_
          asked,    \* asked[c]: the request of the Rpc that client c is in, or NoAnswer
          req, res, \* rpc_req_ with rpc_args_, and rpc_res_, in shared memory
          agent,    \* full_agent_: "none", "up", "null"
          child,    \* the child process: "none", "alive", "exited", "dead"
          sigchld,  \* SIGCHLD in the parent: "default", "handled", "raised" by a death
          parent    \* the parent process: "alive", "exited", or "stuck" in its handler

local == <<pc, mutex, asked, req, res, agent, child, sigchld, parent>>
pvars == <<nvars, local>>

PInit ==
  /\ NInit
  /\ pc = [t \in Thread |-> IF t \in Client THEN "idle" ELSE "start"]
  /\ mutex = NoThread
  /\ asked = [c \in Client |-> NoAnswer]
  /\ req = NoAnswer /\ res = NoAnswer
  /\ agent = "none" /\ child = "none" /\ sigchld = "default" /\ parent = "alive"

InChild(t) == t \in {Main, Rpc}
Runs(t) == IF InChild(t) THEN child = "alive" ELSE parent = "alive"

\* Thread t is at a place of its own code, outside of any notification call.
AtPc(t, place) == Runs(t) /\ Out(t) /\ pc[t] = place
Jump(t, place) == pc' = [pc EXCEPT ![t] = place]

-----------------------------------------------------------------------------
(* Constructor and destructor in the parent *)

\* ForkedProcess(): fork first, then install the SIGCHLD handler, then enter the
\* child in the table, under mu_.
OwnerFork ==
  /\ AtPc(Owner, "start")
  /\ child' = "alive"
  /\ pc' = [pc EXCEPT ![Owner] = "signal", ![Main] = "construct"]
  /\ UNCHANGED <<nvars, mutex, asked, req, res, agent, sigchld, parent>>

OwnerSignal ==
  /\ AtPc(Owner, "signal")
  /\ sigchld' = "handled"
  /\ Jump(Owner, "lock")
  /\ UNCHANGED <<nvars, mutex, asked, req, res, agent, child, parent>>

OwnerLock ==
  /\ AtPc(Owner, "lock")
  /\ Jump(Owner, "insert")
  /\ UNCHANGED <<nvars, mutex, asked, req, res, agent, child, sigchld, parent>>

\* mu_ is released; the constructor of AgentProcess waits for agent_ready_.
OwnerInsert ==
  /\ AtPc(Owner, "insert")
  /\ CallWait(Owner, "agent_ready")
  /\ Jump(Owner, "wait_ready")
  /\ UNCHANGED <<word, mutex, asked, req, res, agent, child, sigchld, parent>>

OwnerUp ==
  /\ AtPc(Owner, "wait_ready")
  /\ Jump(Owner, "up")
  /\ UNCHANGED <<nvars, mutex, asked, req, res, agent, child, sigchld, parent>>

\* ~AgentProcess.  It takes no lock: that no Rpc is in progress is up to the
\* callers.
OwnerKill ==
  /\ AtPc(Owner, "up")
  /\ CallersFinish => \A c \in Client : pc[c] = "idle"
  /\ CallNotify(Owner, "kill_agent")
  /\ Jump(Owner, "kill")
  /\ UNCHANGED <<word, mutex, asked, req, res, agent, child, sigchld, parent>>

\* WaitForChildExit: a child that died abnormally takes the parent with it, whether
\* or not its SIGCHLD was seen.
OwnerReap ==
  /\ AtPc(Owner, "kill")
  /\ child \in {"exited", "dead"}
  /\ parent' = IF child = "dead" THEN "exited" ELSE parent
  /\ Jump(Owner, "done")
  /\ UNCHANGED <<nvars, mutex, asked, req, res, agent, child, sigchld>>

-----------------------------------------------------------------------------
(* Rpc, RpcWithResponse and PerformRpc in the parent *)

RpcLock(c) ==
  /\ AtPc(c, "idle") /\ AtPc(Owner, "up")
  /\ mutex = NoThread
  /\ mutex' = c
  /\ \E q \in Request : asked' = [asked EXCEPT ![c] = q]
  /\ Jump(c, "post")
  /\ UNCHANGED <<nvars, req, res, agent, child, sigchld, parent>>

RpcPost(c) ==
  /\ AtPc(c, "post")
  /\ req' = asked[c]
  /\ CallNotify(c, "rpc_pending")
  /\ Jump(c, "await")
  /\ UNCHANGED <<word, mutex, asked, res, agent, child, sigchld, parent>>

RpcAwait(c) ==
  /\ AtPc(c, "await")
  /\ CallWait(c, "rpc_done")
  /\ Jump(c, "reset")
  /\ UNCHANGED <<word, mutex, asked, req, res, agent, child, sigchld, parent>>

\* Seeded fault of RpcReset: no reset at all.
RpcKeeps(c) ==
  /\ AtPc(c, "reset")
  /\ Jump(c, "return")
  /\ UNCHANGED <<nvars, mutex, asked, req, res, agent, child, sigchld, parent>>

RpcReset(c) ==
  /\ AtPc(c, "reset")
  /\ word' = Set("rpc_done", "kNoWaiter")
  /\ Jump(c, "return")
  /\ UNCHANGED <<frame, mutex, asked, req, res, agent, child, sigchld, parent>>

\* The response is copied out and the mutex released.
RpcReturn(c) ==
  /\ AtPc(c, "return")
  /\ mutex' = NoThread
  /\ asked' = [asked EXCEPT ![c] = NoAnswer]
  /\ Jump(c, "idle")
  /\ UNCHANGED <<nvars, req, res, agent, child, sigchld, parent>>

-----------------------------------------------------------------------------
(* The child's main thread *)

\* The FullAgent's constructor starts the agents and calls Ready().
MainConstruct ==
  /\ AtPc(Main, "construct")
  /\ agent' = "up"
  /\ Jump(Main, "spawn")
  /\ UNCHANGED <<nvars, mutex, asked, req, res, child, sigchld, parent>>

\* Start the thread "ap_rpc" and notify agent_ready_.
MainSpawn ==
  /\ AtPc(Main, "spawn")
  /\ CallNotify(Main, "agent_ready")
  /\ pc' = [pc EXCEPT ![Main] = "notify_ready", ![Rpc] = "loop"]
  /\ UNCHANGED <<word, mutex, asked, req, res, agent, child, sigchld, parent>>

MainServe ==
  /\ AtPc(Main, "notify_ready")
  /\ CallWait(Main, "kill_agent")
  /\ Jump(Main, "serve")
  /\ UNCHANGED <<word, mutex, asked, req, res, agent, child, sigchld, parent>>

\* full_agent_ = nullptr: the pointer is cleared, then the FullAgent destroyed.
MainShutDown ==
  /\ AtPc(Main, "serve")
  /\ agent' = "null"
  /\ Jump(Main, "exit")
  /\ UNCHANGED <<nvars, mutex, asked, req, res, child, sigchld, parent>>

\* The handler of its SIGCHLD reaps it and does nothing more.
MainExit ==
  /\ AtPc(Main, "exit")
  /\ child' = "exited"
  /\ UNCHANGED <<nvars, pc, mutex, asked, req, res, agent, sigchld, parent>>

-----------------------------------------------------------------------------
(* The child's thread "ap_rpc" *)

\* The child ends abnormally.  SIGCHLD is lost while it has its default action.
Dies ==
  /\ child' = "dead"
  /\ sigchld' = IF sigchld = "handled" THEN "raised" ELSE sigchld

\* full_agent_ is dereferenced: a null pointer kills the process.
UsesAgent == IF agent = "up" THEN UNCHANGED <<child, sigchld>> ELSE Dies

HandlerWait ==
  /\ AtPc(Rpc, "loop")
  /\ CallWait(Rpc, "rpc_pending")
  /\ Jump(Rpc, "clear")
  /\ UNCHANGED <<word, mutex, asked, req, res, agent, child, sigchld, parent>>

HandlerReset ==
  /\ AtPc(Rpc, "clear")
  /\ word' = Set("rpc_pending", "kNoWaiter")
  /\ Jump(Rpc, "check")
  /\ UNCHANGED <<frame, mutex, asked, req, res, agent, child, sigchld, parent>>

\* full_agent_->enclave_.IsOnline().
HandlerCheck ==
  /\ AtPc(Rpc, "check")
  /\ UsesAgent
  /\ res' = IF agent = "up" THEN NoAnswer ELSE res
  /\ Jump(Rpc, "handle")
  /\ UNCHANGED <<nvars, mutex, asked, req, agent, parent>>

\* RpcHandler computes the response from the request.
HandlerRun ==
  /\ AtPc(Rpc, "handle")
  /\ UsesAgent
  /\ res' = IF agent = "up" THEN req ELSE res
  /\ Jump(Rpc, "answered")
  /\ UNCHANGED <<nvars, mutex, asked, req, agent, parent>>

\* Seeded fault of HandlerDone: no notification.
HandlerForgets ==
  /\ AtPc(Rpc, "answered")
  /\ Jump(Rpc, "loop")
  /\ UNCHANGED <<nvars, mutex, asked, req, res, agent, child, sigchld, parent>>

HandlerDone ==
  /\ AtPc(Rpc, "answered")
  /\ CallNotify(Rpc, "rpc_done")
  /\ Jump(Rpc, "loop")
  /\ UNCHANGED <<word, mutex, asked, req, res, agent, child, sigchld, parent>>

-----------------------------------------------------------------------------
(* Deaths: KillChild or a crash, and the SIGCHLD handler of ForkedProcess *)

ChildDies ==
  /\ child = "alive"
  /\ Dies
  /\ UNCHANGED <<nvars, pc, mutex, asked, req, res, agent, parent>>

\* HandleSigchild exits unless an exit handler takes over; none is added here.  It
\* takes mu_ to look for one.
ParentExits ==
  /\ parent = "alive" /\ sigchld = "raised"
  /\ pc[Owner] # "insert"
  /\ parent' = "exited"
  /\ UNCHANGED <<nvars, pc, mutex, asked, req, res, agent, child, sigchld>>

\* The handler interrupts the thread that holds mu_: it waits for itself.
ParentSticks ==
  /\ parent = "alive" /\ sigchld = "raised"
  /\ pc[Owner] = "insert"
  /\ parent' = "stuck"
  /\ UNCHANGED <<nvars, pc, mutex, asked, req, res, agent, child, sigchld>>

\* A death that no handler deals with: the child died before the parent called
\* signal(), or the handler is stuck.
Unnoticed == (child = "dead" /\ sigchld # "raised") \/ parent = "stuck"

-----------------------------------------------------------------------------
Call(t) == Runs(t) /\ CallStep(t) /\ UNCHANGED local

\* Where the system may stop: the AgentProcess is destroyed, the parent gone, or
\* waiting for a child whose death it does not know of.
Ended ==
  /\ pc[Owner] = "done" \/ parent = "exited" \/ Unnoticed
  /\ UNCHANGED pvars

OwnerStep ==
  OwnerFork \/ OwnerSignal \/ OwnerLock \/ OwnerInsert \/ OwnerUp \/ OwnerReap
MainStep == MainConstruct \/ MainSpawn \/ MainServe \/ MainShutDown \/ MainExit
HandlerStep ==
  HandlerWait \/ HandlerReset \/ HandlerCheck \/ HandlerRun \/ HandlerDone
ClientStep(c) == RpcPost(c) \/ RpcAwait(c) \/ RpcReset(c) \/ RpcReturn(c)

PNext ==
  \/ OwnerStep \/ OwnerKill
  \/ MainStep
  \/ HandlerStep
  \/ ChildDies \/ ParentExits \/ ParentSticks
  \/ \E c \in Client : RpcLock(c) \/ ClientStep(c)
  \/ \E t \in Thread : Call(t)
  \/ Ended

PSpec == PInit /\ [][PNext]_pvars

\* Threads are scheduled and SIGCHLD is delivered; nobody has to call Rpc or to
\* destroy the AgentProcess.
PFairness ==
  /\ WF_pvars(OwnerStep) /\ WF_pvars(MainStep) /\ WF_pvars(HandlerStep)
  /\ WF_pvars(ParentExits)
  /\ \A c \in Client : WF_pvars(ClientStep(c))
  /\ \A t \in Thread :
       /\ WF_pvars(Runs(t) /\ Progress(t) /\ UNCHANGED local)
       /\ SF_pvars(Runs(t) /\ Exchange(t) /\ UNCHANGED local)

PLiveSpec == PSpec /\ PFairness

-----------------------------------------------------------------------------
(* Properties *)

\* Notify's CHECK(!HasBeenNotified()) holds although rpc_pending_ and rpc_done_
\* are reset and used again while the other side may still be inside Notify.
NoCheckFails == \A t \in Thread : ~In(t, "check_failed")

\* When Rpc returns, the response in shared memory is the one to its own request,
\* not to an earlier one or to another client's.
OwnAnswer == \A c \in Client : pc[c] = "return" => res = asked[c]

\* The rpc thread dereferences full_agent_ only while it is set.  "An external
\* observer can [...] contact the Agent, which must see IsOnline == false".
HandlerHasAgent == (child = "alive" /\ pc[Rpc] \in {"check", "handle"}) => agent = "up"

\* Every call returns, unless the child died, and then the parent exits: Rpc(), and the
\* constructor's wait for agent_ready_, given that the child did not die in the two
\* windows of ForkedProcess(), before signal() and under mu_, where its death passes
\* unnoticed; and the destructor in any case: kill_agent_ is not lost, whenever the child
\* starts to wait for it, and WaitForChildExit finds an unnoticed death.
CallsReturn ==
  /\ \A c \in Client :
       (pc[c] = "post" /\ ~Unnoticed) ~> (pc[c] = "idle" \/ parent = "exited")
  /\ (pc[Owner] = "wait_ready" /\ ~Unnoticed) ~> (pc[Owner] = "up" \/ parent = "exited")
  /\ (pc[Owner] = "kill") ~> (pc[Owner] = "done" \/ parent = "exited")
=============================================================================
