------------------------ MODULE AgentHandoverProofs ------------------------
(***************************************************************************)
(* The handover of an enclave is safe, for every set of CPUs: a process    *)
(* that starts once the old one is online, and not before, takes over from *)
(* a process that ends, cleanly or by a crash, at any moment.              *)
(*                                                                         *)
(* The properties need to know what a thread of the new process has seen   *)
(* before it entered: that the old process is leaving and will never hold  *)
(* agent_online again (Gone), which stays true.  A change of agent_online  *)
(* that it sees while it waits is the old process letting go of it.        *)
(***************************************************************************)
EXTENDS AgentHandover, TLAPS

Starting == {"none", "spawned", "lock", "discover", "release", "advertise"}
Past == {"wait_enclave", "exit_wait", "dying", "dead"} \cup Looping

\* The old process leaves and does not hold agent_online, now and for ever.
Gone == main["old"] \in Leaving /\ online # "old"

\* Who is online.
OnlineInv ==
  /\ OnlineAlone
  /\ \A g \in Gen : online = g => main[g] \in {"online", "offline", "crashed"}
  /\ \A g \in Gen : main[g] \in {"online", "offline"} => online = g
  /\ \A g \in Gen : isOnline[g] => main[g] = "online"

\* Agents signal that they are ready after they entered, and StartComplete() waits for
\* all of them.
ReadyInv ==
  /\ \A g \in Gen, c \in Cpu : Raised(g, c, "ready") => thr[g][c] \in Past
  /\ \A g \in Gen, c \in Cpu : main[g] \notin {"none", "spawned", "crashed"} => Raised(g, c, "ready")
  /\ \A g \in Gen, c \in Cpu : thr[g][c] # "none" => main[g] # "none"

\* What the new process has seen of the old one.
NewInv ==
  /\ main["new"] # "crashed"
  /\ main["new"] # "none" => main["old"] \notin Starting
  /\ \A c \in Cpu : thr["new"][c] \in {"read", "change"} /\ edge["new"][c] => Gone
  /\ \A c \in Cpu : thr["new"][c] \notin {"none", "poll", "read", "change"} => Gone
  /\ main["new"] \notin {"none", "spawned", "lock", "discover", "release"} => Gone

\* An agent is released after the discovery, when all are attached, and agents are
\* detached when all are dead.
LoopInv ==
  /\ \A g \in Gen, c \in Cpu : thr[g][c] \in Looping => Raised(g, c, "enclave_ready")
  /\ \A g \in Gen, c \in Cpu : Raised(g, c, "enclave_ready") =>
       main[g] \notin {"none", "spawned", "lock", "discover"}
  /\ \A g \in Gen :
       main[g] \in {"release", "advertise", "online", "offline", "terminate", "join"}
         => discovered[g]
  /\ \A g \in Gen :
       main[g] \in {"discover", "release", "advertise", "online", "offline", "terminate", "join"}
         => attached[g] = Cpu
  /\ \A g \in Gen : main[g] = "done" => \A c \in Cpu : thr[g][c] = "dead"

IInv == HTypeOK /\ OnlineInv /\ ReadyInv /\ NewInv /\ LoopInv

-----------------------------------------------------------------------------
\* Nobody is there at the start.
LEMMA InitInv == HInit => IInv
<1> SUFFICES ASSUME HInit PROVE IInv
  OBVIOUS
<1>1. HTypeOK
  BY DEF HInit, HTypeOK, Each, Places, Threads, Gen
<1>2. OnlineInv /\ NewInv
  BY DEF HInit, OnlineInv, OnlineAlone, NewInv, Each, Gen
<1>3. ReadyInv /\ LoopInv
  BY DEF HInit, ReadyInv, LoopInv, Raised, Each, Gen, Looping
<1> QED BY <1>1, <1>2, <1>3 DEF IInv

\* Every step keeps the invariant, when the new process starts after the old one is online.
LEMMA StepInv == ~Overlap /\ IInv /\ [HNext]_hvars => IInv'
<1> SUFFICES ASSUME ~Overlap, IInv, [HNext]_hvars PROVE IInv'
  OBVIOUS
<1> USE DEF IInv
<1>1. ASSUME NEW g \in Gen, StartBegin(g) PROVE IInv'
  <2>1. HTypeOK'
    BY <1>1 DEF StartBegin, Goto, HTypeOK, Gen, Places, Threads, Looping
  <2>2. OnlineInv'
    BY <1>1
       DEF StartBegin, Goto, OnlineInv, OnlineAlone, NewInv, Gone, Leaving, Starting, HTypeOK,
           Gen
  <2>3. ReadyInv'
    BY <1>1 DEF StartBegin, Goto, ReadyInv, Raised, HTypeOK, Gen, Past, Looping
  <2>4. NewInv'
    BY <1>1
       DEF StartBegin, Goto, NewInv, Gone, Leaving, Starting, OnlineInv, OnlineAlone,
           ReadyInv, Raised, Past, Looping, HTypeOK, Gen, Places
  <2>5. LoopInv'
    BY <1>1 DEF StartBegin, Goto, LoopInv, Raised, Looping, OnlineInv, OnlineAlone, HTypeOK, Gen
  <2> QED BY <2>1, <2>2, <2>3, <2>4, <2>5
<1>2. ASSUME NEW g \in Gen, StartComplete(g) PROVE IInv'
  <2>1. HTypeOK'
    BY <1>2 DEF StartComplete, Goto, HTypeOK, Gen, Places, Threads, Looping
  <2>2. OnlineInv'
    BY <1>2
       DEF StartComplete, Goto, OnlineInv, OnlineAlone, NewInv, Gone, Leaving, Starting,
           HTypeOK, Gen
  <2>3. ReadyInv'
    BY <1>2 DEF StartComplete, Goto, ReadyInv, Raised, HTypeOK, Gen, Past, Looping
  <2>4. NewInv'
    BY <1>2
       DEF StartComplete, Goto, NewInv, Gone, Leaving, Starting, OnlineInv, OnlineAlone,
           ReadyInv, Raised, Past, Looping, HTypeOK, Gen, Places
  <2>5. LoopInv'
    BY <1>2
       DEF StartComplete, Goto, LoopInv, Raised, Looping, OnlineInv, OnlineAlone, HTypeOK, Gen
  <2> QED BY <2>1, <2>2, <2>3, <2>4, <2>5
<1>3. ASSUME NEW g \in Gen, ReadyLock(g) PROVE IInv'
  <2>1. HTypeOK'
    BY <1>3 DEF ReadyLock, Goto, HTypeOK, Gen, Places, Threads, Looping
  <2>2. OnlineInv'
    BY <1>3
       DEF ReadyLock, Goto, OnlineInv, OnlineAlone, NewInv, Gone, Leaving, Starting, HTypeOK,
           Gen
  <2>3. ReadyInv'
    BY <1>3 DEF ReadyLock, Goto, ReadyInv, Raised, HTypeOK, Gen, Past, Looping
  <2>4. NewInv'
    BY <1>3
       DEF ReadyLock, Goto, NewInv, Gone, Leaving, Starting, OnlineInv, OnlineAlone, ReadyInv,
           Raised, Past, Looping, HTypeOK, Gen, Places
  <2>5. LoopInv'
    BY <1>3 DEF ReadyLock, Goto, LoopInv, Raised, Looping, OnlineInv, OnlineAlone, HTypeOK, Gen
  <2> QED BY <2>1, <2>2, <2>3, <2>4, <2>5
<1>4. ASSUME NEW g \in Gen, Discover(g) PROVE IInv'
  <2>1. HTypeOK'
    BY <1>4 DEF Discover, Goto, HTypeOK, Gen, Places, Threads, Looping
  <2>2. OnlineInv'
    BY <1>4
       DEF Discover, Goto, OnlineInv, OnlineAlone, NewInv, Gone, Leaving, Starting, HTypeOK,
           Gen
  <2>3. ReadyInv'
    BY <1>4 DEF Discover, Goto, ReadyInv, Raised, HTypeOK, Gen, Past, Looping
  <2>4. NewInv'
    BY <1>4
       DEF Discover, Goto, NewInv, Gone, Leaving, Starting, OnlineInv, OnlineAlone, ReadyInv,
           Raised, Past, Looping, HTypeOK, Gen, Places
  <2>5. LoopInv'
    BY <1>4 DEF Discover, Goto, LoopInv, Raised, Looping, OnlineInv, OnlineAlone, HTypeOK, Gen
  <2> QED BY <2>1, <2>2, <2>3, <2>4, <2>5
<1>5. ASSUME NEW g \in Gen, AdvertiseOnline(g) PROVE IInv'
  <2>1. HTypeOK'
    <3>1. CASE online = "nobody"
      <4>1. edge' \in [Gen -> [Cpu -> BOOLEAN]] /\ online' \in Gen \cup {"nobody"}
        BY ZenonT(30), <1>5, <3>1 DEF AdvertiseOnline, OnlineBecomes, Each
      <4>2. main' \in [Gen -> Places] /\ isOnline' \in [Gen -> BOOLEAN]
        BY Zenon, <1>5, <3>1 DEF AdvertiseOnline, Goto, HTypeOK, Places
      <4> QED BY <4>1, <4>2, <1>5 DEF AdvertiseOnline, HTypeOK
    <3>2. CASE online # "nobody"
      BY <1>5, <3>2 DEF AdvertiseOnline, Goto, HTypeOK, Gen, Places
    <3> QED BY <3>1, <3>2
  <2>2. OnlineInv'
    BY <1>5
       DEF AdvertiseOnline, OnlineBecomes, Each, Goto, OnlineInv, OnlineAlone, NewInv, Gone,
           Leaving, Starting, HTypeOK, Gen
  <2>3. ReadyInv'
    BY <1>5
       DEF AdvertiseOnline, OnlineBecomes, Each, Goto, ReadyInv, Raised, HTypeOK, Gen, Past,
           Looping
  <2>4. NewInv'
    BY <1>5
       DEF AdvertiseOnline, OnlineBecomes, Each, Goto, NewInv, Gone, Leaving, Starting,
           OnlineInv, OnlineAlone, ReadyInv, Raised, Past, Looping, HTypeOK, Gen, Places
  <2>5. LoopInv'
    BY <1>5
       DEF AdvertiseOnline, OnlineBecomes, Each, Goto, LoopInv, Raised, Looping, OnlineInv,
           OnlineAlone, HTypeOK, Gen
  <2> QED BY <2>1, <2>2, <2>3, <2>4, <2>5
<1>6. ASSUME NEW g \in Gen, PrepareToExit(g) PROVE IInv'
  <2>1. HTypeOK'
    BY <1>6 DEF PrepareToExit, Goto, HTypeOK, Gen, Places, Threads, Looping
  <2>2. OnlineInv'
    BY <1>6
       DEF PrepareToExit, Goto, OnlineInv, OnlineAlone, NewInv, Gone, Leaving, Starting,
           HTypeOK, Gen
  <2>3. ReadyInv'
    BY <1>6 DEF PrepareToExit, Goto, ReadyInv, Raised, HTypeOK, Gen, Past, Looping
  <2>4. NewInv'
    BY <1>6
       DEF PrepareToExit, Goto, NewInv, Gone, Leaving, Starting, OnlineInv, OnlineAlone,
           ReadyInv, Raised, Past, Looping, HTypeOK, Gen, Places
  <2>5. LoopInv'
    BY <1>6
       DEF PrepareToExit, Goto, LoopInv, Raised, Looping, OnlineInv, OnlineAlone, HTypeOK, Gen
  <2> QED BY <2>1, <2>2, <2>3, <2>4, <2>5
<1>7. ASSUME NEW g \in Gen, CloseOnline(g) PROVE IInv'
  <2>1. HTypeOK'
    BY <1>7 DEF CloseOnline, OnlineBecomes, Each, Goto, HTypeOK, Gen, Places, Threads, Looping
  <2>2. OnlineInv'
    BY <1>7
       DEF CloseOnline, OnlineBecomes, Each, Goto, OnlineInv, OnlineAlone, NewInv, Gone,
           Leaving, Starting, HTypeOK, Gen
  <2>3. ReadyInv'
    BY <1>7
       DEF CloseOnline, OnlineBecomes, Each, Goto, ReadyInv, Raised, HTypeOK, Gen, Past,
           Looping
  <2>4. NewInv'
    BY <1>7
       DEF CloseOnline, OnlineBecomes, Each, Goto, NewInv, Gone, Leaving, Starting, OnlineInv,
           OnlineAlone, ReadyInv, Raised, Past, Looping, HTypeOK, Gen, Places
  <2>5. LoopInv'
    BY <1>7
       DEF CloseOnline, OnlineBecomes, Each, Goto, LoopInv, Raised, Looping, OnlineInv,
           OnlineAlone, HTypeOK, Gen
  <2> QED BY <2>1, <2>2, <2>3, <2>4, <2>5
<1>8. ASSUME NEW g \in Gen, TerminateComplete(g) PROVE IInv'
  <2>1. HTypeOK'
    BY <1>8 DEF TerminateComplete, Goto, HTypeOK, Gen, Places, Threads, Looping
  <2>2. OnlineInv'
    BY <1>8
       DEF TerminateComplete, Goto, OnlineInv, OnlineAlone, NewInv, Gone, Leaving, Starting,
           HTypeOK, Gen
  <2>3. ReadyInv'
    BY <1>8 DEF TerminateComplete, Goto, ReadyInv, Raised, HTypeOK, Gen, Past, Looping
  <2>4. NewInv'
    BY <1>8
       DEF TerminateComplete, Goto, NewInv, Gone, Leaving, Starting, OnlineInv, OnlineAlone,
           ReadyInv, Raised, Past, Looping, HTypeOK, Gen, Places
  <2>5. LoopInv'
    BY <1>8
       DEF TerminateComplete, Goto, LoopInv, Raised, Looping, OnlineInv, OnlineAlone, HTypeOK,
           Gen
  <2> QED BY <2>1, <2>2, <2>3, <2>4, <2>5
<1>9. ASSUME NEW g \in Gen, KCrash(g) PROVE IInv'
  <2>1. HTypeOK'
    BY <1>9 DEF KCrash, Goto, HTypeOK, Gen, Places, Threads, Looping
  <2>2. OnlineInv'
    BY <1>9
       DEF KCrash, Goto, OnlineInv, OnlineAlone, NewInv, Gone, Leaving, Starting, HTypeOK, Gen
  <2>3. ReadyInv'
    BY <1>9 DEF KCrash, Goto, ReadyInv, Raised, HTypeOK, Gen, Past, Looping
  <2>4. NewInv'
    BY <1>9
       DEF KCrash, Goto, NewInv, Gone, Leaving, Starting, OnlineInv, OnlineAlone, ReadyInv,
           Raised, Past, Looping, HTypeOK, Gen, Places
  <2>5. LoopInv'
    BY <1>9 DEF KCrash, Goto, LoopInv, Raised, Looping, OnlineInv, OnlineAlone, HTypeOK, Gen
  <2> QED BY <2>1, <2>2, <2>3, <2>4, <2>5
<1>10. ASSUME NEW g \in Gen, KClose(g) PROVE IInv'
  <2>1. HTypeOK'
    BY <1>10 DEF KClose, OnlineBecomes, Each, HTypeOK, Gen, Places, Threads, Looping
  <2>2. OnlineInv'
    BY <1>10
       DEF KClose, OnlineBecomes, Each, OnlineInv, OnlineAlone, NewInv, Gone, Leaving,
           Starting, HTypeOK, Gen
  <2>3. ReadyInv'
    BY <1>10 DEF KClose, OnlineBecomes, Each, ReadyInv, Raised, HTypeOK, Gen, Past, Looping
  <2>4. NewInv'
    BY <1>10
       DEF KClose, OnlineBecomes, Each, NewInv, Gone, Leaving, Starting, OnlineInv,
           OnlineAlone, ReadyInv, Raised, Past, Looping, HTypeOK, Gen, Places
  <2>5. LoopInv'
    BY <1>10
       DEF KClose, OnlineBecomes, Each, LoopInv, Raised, Looping, OnlineInv, OnlineAlone,
           HTypeOK, Gen
  <2> QED BY <2>1, <2>2, <2>3, <2>4, <2>5
<1>11. ASSUME NEW g \in Gen, NEW c \in Cpu, ReleaseAgent(g, c) PROVE IInv'
  <2>1. HTypeOK'
    BY <1>11 DEF ReleaseAgent, Raise, Goto, HTypeOK, Gen, Places, Threads, Looping
  <2>2. OnlineInv'
    BY <1>11
       DEF ReleaseAgent, Raise, Goto, OnlineInv, OnlineAlone, NewInv, Gone, Leaving, Starting,
           HTypeOK, Gen
  <2>3. ReadyInv'
    BY <1>11 DEF ReleaseAgent, Raise, Goto, ReadyInv, Raised, HTypeOK, Gen, Past, Looping
  <2>4. NewInv'
    BY <1>11
       DEF ReleaseAgent, Raise, Goto, NewInv, Gone, Leaving, Starting, OnlineInv, OnlineAlone,
           ReadyInv, Raised, Past, Looping, HTypeOK, Gen, Places
  <2>5. LoopInv'
    BY <1>11
       DEF ReleaseAgent, Raise, Goto, LoopInv, Raised, Looping, OnlineInv, OnlineAlone,
           HTypeOK, Gen
  <2> QED BY <2>1, <2>2, <2>3, <2>4, <2>5
<1>12. ASSUME NEW g \in Gen, NEW c \in Cpu, TerminateFinished(g, c) PROVE IInv'
  <2>1. HTypeOK'
    BY <1>12
       DEF TerminateFinished, Terminating, Raise, Goto, HTypeOK, Gen, Places, Threads, Looping
  <2>2. OnlineInv'
    BY <1>12
       DEF TerminateFinished, Terminating, Raise, Goto, OnlineInv, OnlineAlone, NewInv, Gone,
           Leaving, Starting, HTypeOK, Gen
  <2>3. ReadyInv'
    BY <1>12
       DEF TerminateFinished, Terminating, Raise, Goto, ReadyInv, Raised, HTypeOK, Gen, Past,
           Looping
  <2>4. NewInv'
    BY <1>12
       DEF TerminateFinished, Terminating, Raise, Goto, NewInv, Gone, Leaving, Starting,
           OnlineInv, OnlineAlone, ReadyInv, Raised, Past, Looping, HTypeOK, Gen, Places
  <2>5. LoopInv'
    BY <1>12
       DEF TerminateFinished, Terminating, Raise, Goto, LoopInv, Raised, Looping, OnlineInv,
           OnlineAlone, HTypeOK, Gen
  <2> QED BY <2>1, <2>2, <2>3, <2>4, <2>5
<1>13. ASSUME NEW g \in Gen, NEW c \in Cpu, TerminatePing(g, c) PROVE IInv'
  <2>1. HTypeOK'
    BY <1>13 DEF TerminatePing, Terminating, Goto, HTypeOK, Gen, Places, Threads, Looping
  <2>2. OnlineInv'
    BY <1>13
       DEF TerminatePing, Terminating, Goto, OnlineInv, OnlineAlone, NewInv, Gone, Leaving,
           Starting, HTypeOK, Gen
  <2>3. ReadyInv'
    BY <1>13 DEF TerminatePing, Terminating, Goto, ReadyInv, Raised, HTypeOK, Gen, Past, Looping
  <2>4. NewInv'
    BY <1>13
       DEF TerminatePing, Terminating, Goto, NewInv, Gone, Leaving, Starting, OnlineInv,
           OnlineAlone, ReadyInv, Raised, Past, Looping, HTypeOK, Gen, Places
  <2>5. LoopInv'
    BY <1>13
       DEF TerminatePing, Terminating, Goto, LoopInv, Raised, Looping, OnlineInv, OnlineAlone,
           HTypeOK, Gen
  <2> QED BY <2>1, <2>2, <2>3, <2>4, <2>5
<1>14. ASSUME NEW g \in Gen, NEW c \in Cpu, TerminateExit(g, c) PROVE IInv'
  <2>1. HTypeOK'
    BY <1>14 DEF TerminateExit, Terminating, Raise, Goto, HTypeOK, Gen, Places, Threads, Looping
  <2>2. OnlineInv'
    BY <1>14
       DEF TerminateExit, Terminating, Raise, Goto, OnlineInv, OnlineAlone, NewInv, Gone,
           Leaving, Starting, HTypeOK, Gen
  <2>3. ReadyInv'
    BY <1>14
       DEF TerminateExit, Terminating, Raise, Goto, ReadyInv, Raised, HTypeOK, Gen, Past,
           Looping
  <2>4. NewInv'
    BY <1>14
       DEF TerminateExit, Terminating, Raise, Goto, NewInv, Gone, Leaving, Starting,
           OnlineInv, OnlineAlone, ReadyInv, Raised, Past, Looping, HTypeOK, Gen, Places
  <2>5. LoopInv'
    BY SMTT(30), <1>14
       DEF TerminateExit, Terminating, Raise, Goto, LoopInv, Raised, Looping, OnlineInv,
           OnlineAlone, HTypeOK, Gen
  <2> QED BY <2>1, <2>2, <2>3, <2>4, <2>5
<1>15. ASSUME NEW g \in Gen, NEW c \in Cpu, WaitPoll(g, c) PROVE IInv'
  <2>1. HTypeOK'
    BY <1>15 DEF WaitPoll, AtThr, Move, HTypeOK, Gen, Places, Threads, Looping
  <2>2. OnlineInv'
    BY <1>15
       DEF WaitPoll, AtThr, Move, OnlineInv, OnlineAlone, NewInv, Gone, Leaving, Starting,
           HTypeOK, Gen
  <2>3. ReadyInv'
    BY <1>15 DEF WaitPoll, AtThr, Move, ReadyInv, Raised, HTypeOK, Gen, Past, Looping
  <2>4. NewInv'
    BY <1>15
       DEF WaitPoll, AtThr, Move, NewInv, Gone, Leaving, Starting, OnlineInv, OnlineAlone,
           ReadyInv, Raised, Past, Looping, HTypeOK, Gen, Places
  <2>5. LoopInv'
    BY <1>15
       DEF WaitPoll, AtThr, Move, LoopInv, Raised, Looping, OnlineInv, OnlineAlone, HTypeOK,
           Gen
  <2> QED BY <2>1, <2>2, <2>3, <2>4, <2>5
<1>16. ASSUME NEW g \in Gen, NEW c \in Cpu, WaitRead(g, c) PROVE IInv'
  <2>1. HTypeOK'
    BY <1>16 DEF WaitRead, AtThr, Move, HTypeOK, Gen, Places, Threads, Looping
  <2>2. OnlineInv'
    BY <1>16
       DEF WaitRead, AtThr, Move, OnlineInv, OnlineAlone, NewInv, Gone, Leaving, Starting,
           HTypeOK, Gen
  <2>3. ReadyInv'
    BY <1>16 DEF WaitRead, AtThr, Move, ReadyInv, Raised, HTypeOK, Gen, Past, Looping
  <2>4. NewInv'
    BY <1>16
       DEF WaitRead, AtThr, Move, NewInv, Gone, Leaving, Starting, OnlineInv, OnlineAlone,
           ReadyInv, Raised, Past, Looping, HTypeOK, Gen, Places
  <2>5. LoopInv'
    BY <1>16
       DEF WaitRead, AtThr, Move, LoopInv, Raised, Looping, OnlineInv, OnlineAlone, HTypeOK,
           Gen
  <2> QED BY <2>1, <2>2, <2>3, <2>4, <2>5
<1>17. ASSUME NEW g \in Gen, NEW c \in Cpu, WaitChange(g, c) PROVE IInv'
  <2>1. HTypeOK'
    BY <1>17 DEF WaitChange, AtThr, Move, HTypeOK, Gen, Places, Threads, Looping
  <2>2. OnlineInv'
    BY <1>17
       DEF WaitChange, AtThr, Move, OnlineInv, OnlineAlone, NewInv, Gone, Leaving, Starting,
           HTypeOK, Gen
  <2>3. ReadyInv'
    BY <1>17 DEF WaitChange, AtThr, Move, ReadyInv, Raised, HTypeOK, Gen, Past, Looping
  <2>4. NewInv'
    BY <1>17
       DEF WaitChange, AtThr, Move, NewInv, Gone, Leaving, Starting, OnlineInv, OnlineAlone,
           ReadyInv, Raised, Past, Looping, HTypeOK, Gen, Places
  <2>5. LoopInv'
    BY <1>17
       DEF WaitChange, AtThr, Move, LoopInv, Raised, Looping, OnlineInv, OnlineAlone, HTypeOK,
           Gen
  <2> QED BY <2>1, <2>2, <2>3, <2>4, <2>5
<1>18. ASSUME NEW g \in Gen, NEW c \in Cpu, EnterGhost(g, c) PROVE IInv'
  <2>1. HTypeOK'
    BY <1>18 DEF EnterGhost, AtThr, Move, HTypeOK, Gen, Places, Threads, Looping
  <2>2. OnlineInv'
    BY <1>18
       DEF EnterGhost, AtThr, Move, OnlineInv, OnlineAlone, NewInv, Gone, Leaving, Starting,
           HTypeOK, Gen
  <2>3. ReadyInv'
    BY <1>18 DEF EnterGhost, AtThr, Move, ReadyInv, Raised, HTypeOK, Gen, Past, Looping
  <2>4. NewInv'
    BY <1>18
       DEF EnterGhost, AtThr, Move, NewInv, Gone, Leaving, Starting, OnlineInv, OnlineAlone,
           ReadyInv, Raised, Past, Looping, HTypeOK, Gen, Places
  <2>5. LoopInv'
    BY SMTT(30), <1>18
       DEF EnterGhost, AtThr, Move, LoopInv, Raised, Looping, OnlineInv, OnlineAlone, HTypeOK,
           Gen
  <2> QED BY <2>1, <2>2, <2>3, <2>4, <2>5
<1>19. ASSUME NEW g \in Gen, NEW c \in Cpu, AttachAgent(g, c) PROVE IInv'
  <2>1. HTypeOK'
    BY Zenon, <1>19 DEF AttachAgent, AtThr, Move, HTypeOK, Gen, Places, Threads, Looping
  <2>2. OnlineInv'
    BY <1>19
       DEF AttachAgent, AtThr, Move, OnlineInv, OnlineAlone, NewInv, Gone, Leaving, Starting,
           HTypeOK, Gen
  <2>3. ReadyInv'
    BY <1>19 DEF AttachAgent, AtThr, Move, ReadyInv, Raised, HTypeOK, Gen, Past, Looping
  <2>4. NewInv'
    BY <1>19
       DEF AttachAgent, AtThr, Move, NewInv, Gone, Leaving, Starting, OnlineInv, OnlineAlone,
           ReadyInv, Raised, Past, Looping, HTypeOK, Gen, Places
  <2>5. LoopInv'
    BY <1>19
       DEF AttachAgent, AtThr, Move, LoopInv, Raised, Looping, OnlineInv, OnlineAlone,
           HTypeOK, Gen
  <2> QED BY <2>1, <2>2, <2>3, <2>4, <2>5
<1>20. ASSUME NEW g \in Gen, NEW c \in Cpu, SignalReady(g, c) PROVE IInv'
  <2>1. HTypeOK'
    BY <1>20 DEF SignalReady, AtThr, Move, Raise, HTypeOK, Gen, Places, Threads, Looping
  <2>2. OnlineInv'
    BY <1>20
       DEF SignalReady, AtThr, Move, Raise, OnlineInv, OnlineAlone, NewInv, Gone, Leaving,
           Starting, HTypeOK, Gen
  <2>3. ReadyInv'
    BY <1>20 DEF SignalReady, AtThr, Move, Raise, ReadyInv, Raised, HTypeOK, Gen, Past, Looping
  <2>4. NewInv'
    BY <1>20
       DEF SignalReady, AtThr, Move, Raise, NewInv, Gone, Leaving, Starting, OnlineInv,
           OnlineAlone, ReadyInv, Raised, Past, Looping, HTypeOK, Gen, Places
  <2>5. LoopInv'
    BY <1>20
       DEF SignalReady, AtThr, Move, Raise, LoopInv, Raised, Looping, OnlineInv, OnlineAlone,
           HTypeOK, Gen
  <2> QED BY <2>1, <2>2, <2>3, <2>4, <2>5
<1>21. ASSUME NEW g \in Gen, NEW c \in Cpu, WaitForEnclaveReady(g, c) PROVE IInv'
  <2>1. HTypeOK'
    BY <1>21 DEF WaitForEnclaveReady, AtThr, Move, HTypeOK, Gen, Places, Threads, Looping
  <2>2. OnlineInv'
    BY <1>21
       DEF WaitForEnclaveReady, AtThr, Move, OnlineInv, OnlineAlone, NewInv, Gone, Leaving,
           Starting, HTypeOK, Gen
  <2>3. ReadyInv'
    BY <1>21 DEF WaitForEnclaveReady, AtThr, Move, ReadyInv, Raised, HTypeOK, Gen, Past, Looping
  <2>4. NewInv'
    BY <1>21
       DEF WaitForEnclaveReady, AtThr, Move, NewInv, Gone, Leaving, Starting, OnlineInv,
           OnlineAlone, ReadyInv, Raised, Past, Looping, HTypeOK, Gen, Places
  <2>5. LoopInv'
    BY <1>21
       DEF WaitForEnclaveReady, AtThr, Move, LoopInv, Raised, Looping, OnlineInv, OnlineAlone,
           HTypeOK, Gen
  <2> QED BY <2>1, <2>2, <2>3, <2>4, <2>5
<1>22. ASSUME NEW g \in Gen, NEW c \in Cpu, TestFinished(g, c) PROVE IInv'
  <2>1. HTypeOK'
    BY <1>22 DEF TestFinished, AtThr, Move, Raised, HTypeOK, Gen, Places, Threads, Looping
  <2>2. OnlineInv'
    BY <1>22
       DEF TestFinished, AtThr, Move, Raised, OnlineInv, OnlineAlone, NewInv, Gone, Leaving,
           Starting, HTypeOK, Gen
  <2>3. ReadyInv'
    BY <1>22 DEF TestFinished, AtThr, Move, Raised, ReadyInv, Raised, HTypeOK, Gen, Past, Looping
  <2>4. NewInv'
    BY <1>22
       DEF TestFinished, AtThr, Move, Raised, NewInv, Gone, Leaving, Starting, OnlineInv,
           OnlineAlone, ReadyInv, Raised, Past, Looping, HTypeOK, Gen, Places
  <2>5. LoopInv'
    BY <1>22
       DEF TestFinished, AtThr, Move, Raised, LoopInv, Raised, Looping, OnlineInv,
           OnlineAlone, HTypeOK, Gen
  <2> QED BY <2>1, <2>2, <2>3, <2>4, <2>5
<1>23. ASSUME NEW g \in Gen, NEW c \in Cpu, Yield(g, c) PROVE IInv'
  <2>0. PICK p \in Looping : thr' = [thr EXCEPT ![g][c] = p]
    BY <1>23 DEF Yield, Move, Looping
  <2>1. HTypeOK'
    <3>2. thr' \in [Gen -> [Cpu -> Threads]]
      BY <2>0 DEF HTypeOK, Threads
    <3>3. wake' \in [Gen -> [Cpu -> BOOLEAN]]
      BY <1>23 DEF Yield, HTypeOK
    <3> QED BY <3>2, <3>3, <1>23 DEF Yield, HTypeOK
  <2>2. OnlineInv'
    BY <1>23
       DEF Yield, Move, OnlineInv, OnlineAlone, NewInv, Gone, Leaving, Starting, HTypeOK, Gen
  <2>3. ReadyInv'
    <3>1. thr[g][c] \in Looping /\ UNCHANGED <<main, note>>
      BY <1>23 DEF Yield, Looping
    <3>2. thr[g][c] # "none" /\ Looping \subseteq Past
      BY <3>1 DEF Looping, Past
    <3> QED BY <2>0, <3>1, <3>2 DEF ReadyInv, Raised, HTypeOK, Past
  <2>4. NewInv'
    BY SMTT(90), <1>23
       DEF Yield, Move, NewInv, Gone, Leaving, Starting, OnlineInv, OnlineAlone, ReadyInv,
           Raised, Past, Looping, HTypeOK, Gen, Places
  <2>5. LoopInv'
    BY SMTT(90), <1>23 DEF Yield, Move, LoopInv, Raised, Looping, OnlineInv, OnlineAlone, HTypeOK, Gen
  <2> QED BY <2>1, <2>2, <2>3, <2>4, <2>5
<1>24. ASSUME NEW g \in Gen, NEW c \in Cpu, WaitForExit(g, c) PROVE IInv'
  <2>1. HTypeOK'
    BY <1>24 DEF WaitForExit, AtThr, Move, HTypeOK, Gen, Places, Threads, Looping
  <2>2. OnlineInv'
    BY <1>24
       DEF WaitForExit, AtThr, Move, OnlineInv, OnlineAlone, NewInv, Gone, Leaving, Starting,
           HTypeOK, Gen
  <2>3. ReadyInv'
    BY <1>24 DEF WaitForExit, AtThr, Move, ReadyInv, Raised, HTypeOK, Gen, Past, Looping
  <2>4. NewInv'
    BY <1>24
       DEF WaitForExit, AtThr, Move, NewInv, Gone, Leaving, Starting, OnlineInv, OnlineAlone,
           ReadyInv, Raised, Past, Looping, HTypeOK, Gen, Places
  <2>5. LoopInv'
    BY SMTT(30), <1>24
       DEF WaitForExit, AtThr, Move, LoopInv, Raised, Looping, OnlineInv, OnlineAlone,
           HTypeOK, Gen
  <2> QED BY <2>1, <2>2, <2>3, <2>4, <2>5
<1>25. ASSUME NEW g \in Gen, NEW c \in Cpu, KDead(g, c) PROVE IInv'
  <2>1. HTypeOK'
    BY <1>25 DEF KDead, Move, HTypeOK, Gen, Places, Threads, Looping
  <2>2. OnlineInv'
    BY Zenon, <1>25
       DEF KDead, Move, OnlineInv, OnlineAlone, NewInv, Gone, Leaving, Starting, HTypeOK, Gen
  <2>3. ReadyInv'
    BY <1>25 DEF KDead, Move, ReadyInv, Raised, HTypeOK, Gen, Past, Looping
  <2>4. NewInv'
    BY Zenon, <1>25
       DEF KDead, Move, NewInv, Gone, Leaving, Starting, OnlineInv, OnlineAlone, ReadyInv,
           Raised, Past, Looping, HTypeOK, Gen, Places
  <2>5. LoopInv'
    BY SMTT(30), <1>25 DEF KDead, Move, LoopInv, Raised, Looping, OnlineInv, OnlineAlone, HTypeOK, Gen
  <2> QED BY <2>1, <2>2, <2>3, <2>4, <2>5
<1>26. CASE UNCHANGED hvars
  BY Zenon, <1>26 DEF hvars, HTypeOK, OnlineInv, OnlineAlone, ReadyInv, NewInv, Gone, LoopInv, Raised
<1> QED
  BY Zenon, <1>1, <1>2, <1>3, <1>4, <1>5, <1>6, <1>7, <1>8, <1>9,
     <1>10, <1>11, <1>12, <1>13, <1>14, <1>15, <1>16, <1>17,
     <1>18, <1>19, <1>20, <1>21, <1>22, <1>23, <1>24, <1>25, <1>26
  DEF HNext, StartStep, TerminateStep, ThreadStep

-----------------------------------------------------------------------------
\* The invariant says what the properties say.
LEMMA InvMeaning == IInv => HandoverSafe
<1> SUFFICES ASSUME IInv PROVE HandoverSafe
  OBVIOUS
<1>1. OldIsDying
  BY DEF IInv, NewInv, Gone, OldIsDying
<1>2. OnlineAlone /\ ObserverSeesOffline
  BY DEF IInv, OnlineInv, ObserverSeesOffline, HTypeOK
<1>3. LoopSeesEnclave
  BY DEF IInv, LoopInv, ReadyInv, OnlineInv, OnlineAlone, LoopSeesEnclave, HTypeOK, Places,
         Looping, Raised
<1> QED BY <1>1, <1>2, <1>3 DEF HandoverSafe

\* Whatever the number of CPUs and whenever the old process ends or crashes, a process
\* that starts after the old one went online enters only when the old one is leaving,
\* never meets another process online, runs its agents only in a discovered and complete
\* enclave, and calls itself online only while it holds the file.
THEOREM TakeoverIsSafe == ~Overlap /\ HSpec => []HandoverSafe
<1> SUFFICES ASSUME ~Overlap PROVE HSpec => []HandoverSafe
  OBVIOUS
<1>1. HInit => IInv
  BY InitInv
<1>2. IInv /\ [HNext]_hvars => IInv'
  BY StepInv
<1>3. IInv => HandoverSafe
  BY InvMeaning
<1> QED BY <1>1, <1>2, <1>3, PTL DEF HSpec
=============================================================================
