------------------------------- MODULE Shmem -------------------------------
(***************************************************************************)
(* Named shared memory, shared/shmem.cc.  Threads of one process create    *)
(* regions: a memfd of a certain name, its size, the internal header, the  *)
(* user's data, and then MarkReady.  Clients of other processes look the   *)
(* region up among the open files of the process, map it, wait for ready   *)
(* and check the header.  A destructor marks the region finished and       *)
(* closes the file; mappings of it live on.                                *)
(*                                                                         *)
(* A name is a sequence of digits: GetShmemBlob numbers its regions, and   *)
(* OpenGhostShmemFd compares prefixes.  Radix is 10 in the program; with   *)
(* 2, region 1 has a name that begins the one of region 2, as 1 and 10 in  *)
(* the program.                                                            *)
(***************************************************************************)
EXTENDS Integers, Sequences, SequencesExt, FiniteSets

CONSTANTS Thread,      \* threads that create regions
          Client,      \* clients that attach
          MaxRegions,  \* how many regions are created at most
          Radix,
          Version      \* the client_version both sides use, 0 in the program

VARIABLES unique,   \* the counter of GetShmemBlob
          thread,   \* thread[t]: what t is doing, for which number
          region,   \* region[n]: the memory of region number n
          open,     \* the numbers whose memfd is open in the process
          client,   \* client[c]: what c is doing, the number it wants and the one it got
          aborted   \* a CHECK of CreateShmem failed and ended the creating process

vars == <<unique, thread, region, open, client, aborted>>

Number == 0 .. MaxRegions - 1
Nobody == MaxRegions

Digits[n \in Nat] ==
  IF n < Radix THEN <<n>> ELSE Digits[n \div Radix] \o <<n % Radix>>

\* An all-zero memfd of no size.
Zero == [size |-> 0, header_version |-> 0, mapping_size |-> 0, client_version |-> 0,
         ready |-> FALSE, finished |-> FALSE, data |-> 0]

Init ==
  /\ unique = 0
  /\ thread = [t \in Thread |-> [pc |-> "idle", n |-> Nobody]]
  /\ region = [n \in Number |-> Zero]
  /\ open = {}
  /\ client = [c \in Client |-> [pc |-> "idle", want |-> Nobody, n |-> Nobody]]
  /\ aborted = FALSE

Goes(t, pc) == thread' = [thread EXCEPT ![t].pc = pc]
Set(t, field, v) == region' = [region EXCEPT ![thread[t].n][field] = v]

\* The open files that OpenGhostShmemFd(suffix of n) may return: a scan meets the
\* files in no particular order.
Found(n) == {k \in open : IsPrefix(Digits[n], Digits[k])}

-----------------------------------------------------------------------------
(* CreateShmem, called by GetShmemBlob *)

TakeNumber(t) ==
  /\ thread[t].pc = "idle" /\ unique < MaxRegions
  /\ unique' = unique + 1
  /\ thread' = [thread EXCEPT ![t] = [pc |-> "check", n |-> unique]]
  /\ UNCHANGED <<region, open, client, aborted>>

\* The files of a process that ends are closed.
CheckUnique(t) ==
  /\ thread[t].pc = "check"
  /\ IF Found(thread[t].n) # {}
     THEN /\ aborted' = TRUE
          /\ thread' = [u \in Thread |-> [pc |-> "dead", n |-> Nobody]]
          /\ open' = {}
     ELSE Goes(t, "create") /\ UNCHANGED <<open, aborted>>
  /\ UNCHANGED <<unique, region, client>>

MemfdCreate(t) ==
  /\ thread[t].pc = "create"
  /\ open' = open \cup {thread[t].n}
  /\ Goes(t, "truncate")
  /\ UNCHANGED <<unique, region, client, aborted>>

Ftruncate(t) ==
  /\ thread[t].pc = "truncate"
  /\ Set(t, "size", 1)
  /\ Goes(t, "header")
  /\ UNCHANGED <<unique, open, client, aborted>>

\* The fields of the header, in the order of the code; client_version is not one
\* of them.
WriteHeader(t) ==
  /\ thread[t].pc = "header"
  /\ IF region[thread[t].n].header_version = 0
     THEN Set(t, "header_version", 1) /\ UNCHANGED thread
     ELSE Set(t, "mapping_size", region[thread[t].n].size) /\ Goes(t, "data")
  /\ UNCHANGED <<unique, open, client, aborted>>

\* The creator fills the region, as the constructor of PrioTable does.
WriteData(t) ==
  /\ thread[t].pc = "data"
  /\ Set(t, "data", 1)
  /\ Goes(t, "mark")
  /\ UNCHANGED <<unique, open, client, aborted>>

MarkReady(t) ==
  /\ thread[t].pc = "mark"
  /\ Set(t, "ready", TRUE)
  /\ Goes(t, "live")
  /\ UNCHANGED <<unique, open, client, aborted>>

\* ~GhostShmem of the creator.
Finish(t) ==
  /\ thread[t].pc = "live"
  /\ Set(t, "finished", TRUE)
  /\ Goes(t, "close")
  /\ UNCHANGED <<unique, open, client, aborted>>

CloseFd(t) ==
  /\ thread[t].pc = "close"
  /\ open' = open \ {thread[t].n}
  /\ thread' = [thread EXCEPT ![t] = [pc |-> "idle", n |-> Nobody]]
  /\ UNCHANGED <<unique, region, client, aborted>>

-----------------------------------------------------------------------------
(* ConnectShmem *)

\* A client wants a region that some thread is creating or has created.
Attach(c) ==
  /\ client[c].pc = "idle"
  /\ \E n \in Number :
       /\ n < unique
       /\ \/ \E k \in Found(n) :
               client' = [client EXCEPT ![c] = [pc |-> "map", want |-> n, n |-> k]]
          \/ /\ Found(n) = {}
             /\ client' = [client EXCEPT ![c].pc = "failed"]
  /\ UNCHANGED <<unique, thread, region, open, aborted>>

\* fstat, mmap and mlock: a mapping of no bytes is refused.
Map(c) ==
  /\ client[c].pc = "map"
  /\ client' = [client EXCEPT ![c].pc = IF region[client[c].n].size = 0 THEN "unmapped" ELSE "wait"]
  /\ UNCHANGED <<unique, thread, region, open, aborted>>

\* Seeded fault of WaitForReady: the header is taken for a sign of a ready region.
WaitForHeader(c) ==
  /\ client[c].pc = "wait"
  /\ region[client[c].n].mapping_size # 0
  /\ client' = [client EXCEPT ![c].pc = "validate"]
  /\ UNCHANGED <<unique, thread, region, open, aborted>>

WaitForReady(c) ==
  /\ client[c].pc = "wait"
  /\ region[client[c].n].ready
  /\ client' = [client EXCEPT ![c].pc = "validate"]
  /\ UNCHANGED <<unique, thread, region, open, aborted>>

Validate(c) ==
  LET r == region[client[c].n]
      valid == r.header_version = 1 /\ r.client_version = Version /\ r.mapping_size = r.size
  IN  /\ client[c].pc = "validate"
      /\ client' = [client EXCEPT ![c].pc = IF valid THEN "attached" ELSE "refused"]
      /\ UNCHANGED <<unique, thread, region, open, aborted>>

\* The client is done with the region, or tries again after a failure.
Detach(c) ==
  /\ client[c].pc \in {"attached", "failed"}
  /\ region' = IF client[c].pc = "attached"
               THEN [region EXCEPT ![client[c].n].finished = TRUE] ELSE region
  /\ client' = [client EXCEPT ![c] = [pc |-> "idle", want |-> Nobody, n |-> Nobody]]
  /\ UNCHANGED <<unique, thread, open, aborted>>

-----------------------------------------------------------------------------
Create(t) ==
  \/ CheckUnique(t) \/ MemfdCreate(t) \/ Ftruncate(t)
  \/ WriteHeader(t) \/ WriteData(t) \/ MarkReady(t)

Connect(c) == Map(c) \/ WaitForReady(c) \/ Validate(c)

\* All regions are used up, or the process that creates them has ended.
Over ==
  /\ aborted \/ (unique = MaxRegions /\ \A t \in Thread : thread[t].pc = "idle")
  /\ UNCHANGED vars

Next ==
  \/ \E t \in Thread : TakeNumber(t) \/ Create(t) \/ Finish(t) \/ CloseFd(t)
  \/ \E c \in Client : Attach(c) \/ Connect(c) \/ Detach(c)
  \/ Over

\* A creation or a connection that has begun goes on.
Fairness ==
  /\ \A t \in Thread : WF_vars(Create(t))
  /\ \A c \in Client : WF_vars(Connect(c))

Spec == Init /\ [][Next]_vars /\ Fairness

-----------------------------------------------------------------------------
TypeOK ==
  /\ unique \in 0 .. MaxRegions
  /\ thread \in [Thread -> [pc : {"idle", "check", "create", "truncate", "header", "data",
                                  "mark", "live", "close", "dead"},
                            n : Number \cup {Nobody}]]
  /\ open \subseteq Number
  /\ client \in [Client -> [pc : {"idle", "map", "wait", "validate", "attached", "failed",
                                  "unmapped", "refused"},
                            want : Number \cup {Nobody}, n : Number \cup {Nobody}]]
  /\ aborted \in BOOLEAN

\* A connection that goes on after WaitForReady() finds the header and the data in place,
\* however far the creator got when the client found the file, and also if the name it
\* found only begins with the one it asked for: no CHECK after WaitForReady() fails, if
\* Version is 0.
AttachedIsInitialized ==
  \A c \in Client :
    /\ client[c].pc = "attached" => region[client[c].n].data = 1
    /\ client[c].pc # "refused"

\* Attach() returns: whoever found the file of a region, once it has its size, sees it
\* become ready, and whoever found it before fails to map it at worst; unless the
\* process that creates the region ends.
AttachReturns ==
  \A c \in Client :
    /\ (client[c].pc = "map" /\ region[client[c].n].size # 0)
         ~> (client[c].pc = "attached" \/ aborted)
    /\ client[c].pc = "map" ~> (client[c].pc \in {"attached", "unmapped"} \/ aborted)

-----------------------------------------------------------------------------
(* What is said of the regions and does not hold *)

\* "Suffixes must currently be unique for the hosting process", and those of
\* GetShmemBlob are: the CHECK of CreateShmem holds.
CreationSucceeds == ~aborted

\* "Connects to the region identified by name".
ConnectsToNamed ==
  \A c \in Client : client[c].pc = "attached" => client[c].n = client[c].want

\* "Clients must call MarkReady() before we'll allow connections against it to
\* proceed": a connection to a region that is still being created waits.
ConnectionSucceeds ==
  \A c \in Client : client[c].pc \notin {"unmapped", "refused"}
=============================================================================
