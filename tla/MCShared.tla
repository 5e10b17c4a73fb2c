------------------------------ MODULE MCShared ------------------------------
(***************************************************************************)
(* Instances of what processes share: the priority table (PrioTable), the  *)
(* shared-memory regions (Shmem), the file-descriptor server (FdServer)    *)
(* and the ring of messages (Channel).  The four have no state in common:  *)
(* a behaviour is one of the component that the initial state chooses; the *)
(* others rest.                                                            *)
(***************************************************************************)
EXTENDS PrioTable, TLC

CONSTANTS Creators, Attachers, Servers, Askers, Nil

VARIABLES part,
          unique, thread, region, open, client, aborted,
          nr_threads, srv, backlog, edge, cl,
          head, tail, overflow, msgs, kernel, reader

S == INSTANCE Shmem WITH Thread <- Creators, Client <- Attachers, MaxRegions <- 3, Radix <- 2,
                         Version <- 0
F == INSTANCE FdServer WITH Server <- Servers, Client <- Askers, kMaxNrThreads <- 1,
                            Together <- FALSE, None <- Nil
C == INSTANCE Channel WITH NElems <- 4, IndexMod <- 8, LenMod <- 8, SlotSize <- 2,
                           Length <- {1, 2, 3, 7}, agent <- reader

ASSUME ChannelAssumption == C!RingAssumption

svars == <<unique, thread, region, open, client, aborted>>
fvars == <<nr_threads, srv, backlog, edge, cl>>
cvars == <<head, tail, overflow, msgs, kernel, reader>>

SInit ==
  /\ Init /\ S!Init /\ F!Init /\ C!Init
  /\ part \in {"table", "shmem", "fd", "ring"}
  /\ part # "ring" => head = 0

SNext ==
  \/ part = "table" /\ Next /\ UNCHANGED <<part, svars, fvars, cvars>>
  \/ part = "shmem" /\ S!Next /\ UNCHANGED <<part, vars, fvars, cvars>>
  \/ part = "fd" /\ F!Next /\ UNCHANGED <<part, vars, svars, cvars>>
  \/ part = "ring" /\ C!Next /\ UNCHANGED <<part, vars, svars, fvars>>

SSpec ==
  /\ SInit /\ [][SNext]_<<part, vars, svars, fvars, cvars>>
  /\ \/ part = "table" /\ Fairness
     \/ part = "shmem" /\ S!Fairness
     \/ part = "fd" /\ F!Fairness
     \/ part = "ring" /\ C!Fairness

-----------------------------------------------------------------------------
\* What a client attached to is initialized memory, whatever its creator was doing when
\* the client found the file: WaitForReady() makes every later CHECK of ConnectShmem() hold,
\* for the client_version 0 that all users pass.
AttachedIsInitialized == S!AttachedIsInitialized

\* A server thread gives its descriptor away once, and threads are counted exactly and
\* never exceed kMaxNrThreads.
ServesOnce == F!ServesOnce /\ F!CountExact /\ F!ThreadLimit

\* Nobody waits for ever: Attach() of a file that has its size returns although it spins
\* until MarkReady(), unless the creating process ends, and a client of the
\* file-descriptor server gets its answer or an error.
ClientsReturn ==
  /\ part = "shmem" => S!AttachReturns
  /\ part = "fd" => F!ClientReturns

\* What is published is taken: every update of the priority table is seen by the agent,
\* and a message in the ring is consumed, or Peek() finds that one was lost.
PublishedIsTaken ==
  /\ part = "table" => UpdatesAreSeen
  /\ part = "ring" => C!MessagesAreTaken

\* The ring of messages is a queue that never yields a message after a lost one.
ImplementsQueue == C!ImplementsQueue
=============================================================================
