------------------------------ MODULE Enclave ------------------------------
(***************************************************************************)
(* Making, joining and destroying enclaves (LocalEnclave's constructor,    *)
(* destructor and their helpers, lib/enclave.cc).  Makers make an enclave  *)
(* for CPUs of their own, destroy it with the object and may make another; *)
(* guests attach to an enclave that exists.                                *)
(*                                                                         *)
(* ghostfs is external: a directory per live enclave, named by a number;   *)
(* the kernel takes the name away when an enclave is destroyed and gives   *)
(* its CPUs back later, within ReapBound sleeps of 50 ms.                  *)
(***************************************************************************)
EXTENDS Integers, FiniteSets

CONSTANTS Maker, Guest,
          Wants,        \* Wants[p]: config.cpus_
          MaxEnclaves,  \* bound on the enclaves ever made
          MaxRetries,   \* kMaxRetries
          ReapBound,    \* a destroyed enclave's CPUs are free after so many sleeps
          DestroyAll,   \* whether somebody calls DestroyAllEnclaves
          None

\* What is assumed of the constants.
EnclaveAssumption ==
  /\ ReapBound < MaxRetries
  /\ \A p, q \in Maker : p # q => Wants[p] \cap Wants[q] = {}

VARIABLES fs,    \* fs[e]: the e-th enclave ever made
          proc   \* proc[p]: process p

vars == <<fs, proc>>

Enclave == 1 .. MaxEnclaves

Process == Maker \cup Guest

Outside == [pc |-> "outside", id |-> 0, ctl |-> None, dir |-> None, made |-> None,
            retries |-> 0, destroys |-> FALSE, global |-> FALSE]

Init ==
  /\ fs = [e \in Enclave |-> [state |-> "unmade", id |-> 0, cpus |-> {}]]
  /\ proc = [p \in Process |-> Outside]

Named(i) == {e \in Enclave : fs[e].state = "live" /\ fs[e].id = i}

\* What opening a path of enclave i yields.
Open(i) == IF Named(i) = {} THEN None ELSE CHOOSE e \in Named(i) : TRUE

Live(e) == e # None /\ fs[e].state = "live"

Goto(p, pc) == proc' = [proc EXCEPT ![p].pc = pc]

\* The process goes on if the condition holds, and a CHECK ends it if not.
Check(p, cond, next) == proc' = [proc EXCEPT ![p] = IF cond THEN next ELSE [@ EXCEPT !.pc = "dead"]]

-----------------------------------------------------------------------------
(* CreateAndAttachToEnclave *)

Create(p) ==
  /\ p \in Maker /\ proc[p].pc = "outside"
  /\ Cardinality({e \in Enclave : fs[e].state = "unmade"}) >
       Cardinality({q \in Maker : proc[q].pc = "make"})
  /\ proc' = [proc EXCEPT ![p].pc = "make", ![p].id = 1, ![p].destroys = TRUE]
  /\ UNCHANGED fs

\* Seeded fault of MakeNextEnclave: an enclave that exists is taken for the new one.
MakeExisting(p) ==
  /\ proc[p].pc = "make"
  /\ IF Named(proc[p].id) # {}
     THEN /\ proc' = [proc EXCEPT ![p].pc = "ctl"]
          /\ UNCHANGED fs
     ELSE \E e \in Enclave :
            /\ fs[e].state = "unmade" /\ \A d \in Enclave : d < e => fs[d].state # "unmade"
            /\ fs' = [fs EXCEPT ![e] = [state |-> "live", id |-> proc[p].id, cpus |-> {}]]
            /\ proc' = [proc EXCEPT ![p].pc = "ctl", ![p].made = e]

\* One turn of MakeNextEnclave's loop: EEXIST sends it to the next number.
MakeNextEnclave(p) ==
  /\ proc[p].pc = "make"
  /\ IF Named(proc[p].id) # {}
     THEN /\ proc' = [proc EXCEPT ![p].id = @ + 1]
          /\ UNCHANGED fs
     ELSE \E e \in Enclave :
            /\ fs[e].state = "unmade" /\ \A d \in Enclave : d < e => fs[d].state # "unmade"
            /\ fs' = [fs EXCEPT ![e] = [state |-> "live", id |-> proc[p].id, cpus |-> {}]]
            /\ proc' = [proc EXCEPT ![p].pc = "ctl", ![p].made = e]

OpenCtl(p) ==
  /\ proc[p].pc = "ctl"
  /\ LET e == Open(proc[p].id) IN Check(p, e # None, [proc[p] EXCEPT !.pc = "dir", !.ctl = e])
  /\ UNCHANGED fs

\* GetEnclaveDirectory: the control file tells the number, the number the directory.
GetEnclaveDirectory(p) ==
  /\ proc[p].pc = "dir"
  /\ Check(p, Live(proc[p].ctl), [proc[p] EXCEPT !.pc = "init", !.dir = proc[p].ctl])
  /\ UNCHANGED fs

-----------------------------------------------------------------------------
(* AttachToExistingEnclave *)

\* A guest was given the directory of an enclave.
Attach(p) ==
  /\ p \in Guest /\ proc[p].pc = "outside"
  /\ \E e \in Enclave : Live(e) /\ fs[e].cpus # {} /\
       proc' = [proc EXCEPT ![p].pc = "openctl", ![p].dir = e, ![p].destroys = FALSE]
  /\ UNCHANGED fs

AttachCtl(p) ==
  /\ proc[p].pc = "openctl"
  /\ Check(p, Live(proc[p].dir), [proc[p] EXCEPT !.pc = "init", !.ctl = proc[p].dir])
  /\ UNCHANGED fs

-----------------------------------------------------------------------------

\* CommonInit: one enclave per process, and its files.
CommonInit(p) ==
  /\ proc[p].pc = "init"
  /\ Check(p, ~proc[p].global /\ Live(proc[p].dir),
           [proc[p] EXCEPT !.pc = IF p \in Maker THEN "mask" ELSE "cpulist", !.global = TRUE])
  /\ UNCHANGED fs

\* The enclaves that have CPUs this process asks for.
Blocking(p) == {e \in Enclave \ {proc[p].dir} : fs[e].cpus \cap Wants[p] # {}}

\* Destroyed ones give them back in time.
Busy(p) == Blocking(p) # {} /\ (proc[p].retries < ReapBound \/ \E e \in Blocking(p) : Live(e))

\* The write of cpumask fails with EBUSY: sleep and try again.
CpuMaskBusy(p) ==
  /\ proc[p].pc = "mask"
  /\ Live(proc[p].dir) /\ Busy(p)
  /\ Check(p, proc[p].retries + 1 < MaxRetries, [proc[p] EXCEPT !.retries = @ + 1])
  /\ UNCHANGED fs

CpuMask(p) ==
  /\ proc[p].pc = "mask"
  /\ Live(proc[p].dir) => Blocking(p) = {}
  /\ Check(p, Live(proc[p].dir), [proc[p] EXCEPT !.pc = "inside", !.retries = 0])
  /\ fs' = IF Live(proc[p].dir) THEN [fs EXCEPT ![proc[p].dir].cpus = Wants[p]] ELSE fs

\* A guest reads the CPUs that the enclave has.
CpuList(p) ==
  /\ proc[p].pc = "cpulist"
  /\ Check(p, Live(proc[p].dir), [proc[p] EXCEPT !.pc = "inside"])
  /\ UNCHANGED fs

Destroyed(e) == [fs EXCEPT ![e].state = IF @ = "live" THEN "dying" ELSE @]

\* ~LocalEnclave.
Destruct(p) ==
  /\ proc[p].pc = "inside"
  /\ fs' = IF proc[p].destroys THEN Destroyed(proc[p].ctl) ELSE fs
  /\ proc' = [proc EXCEPT ![p] = Outside]

\* DestroyAllEnclaves comes to an enclave.
DestroyEnclave(e) ==
  /\ DestroyAll /\ fs[e].state = "live"
  /\ fs' = Destroyed(e)
  /\ UNCHANGED proc

\* The kernel gives the CPUs of a destroyed enclave back.
KernelReap(e) ==
  /\ fs[e].state = "dying"
  /\ fs' = [fs EXCEPT ![e] = [state |-> "gone", id |-> 0, cpus |-> {}]]
  /\ UNCHANGED proc

MakerStep(p) ==
  \/ MakeNextEnclave(p) \/ OpenCtl(p) \/ GetEnclaveDirectory(p) \/ AttachCtl(p)
  \/ CommonInit(p) \/ CpuMaskBusy(p) \/ CpuMask(p) \/ CpuList(p)

Next ==
  \/ \E p \in Process : Create(p) \/ Attach(p) \/ MakerStep(p) \/ Destruct(p)
  \/ \E e \in Enclave : DestroyEnclave(e) \/ KernelReap(e)

Fairness ==
  /\ \A p \in Process : WF_vars(MakerStep(p))
  /\ \A e \in Enclave : WF_vars(KernelReap(e))

Spec == Init /\ [][Next]_vars /\ Fairness

-----------------------------------------------------------------------------
\* "We are creating a new enclave": the enclave a maker ends up in is the one it made,
\* and has the CPUs it asked for.
MakerHasItsOwn ==
  \A p \in Maker : proc[p].pc \in {"dir", "init", "mask", "inside"} =>
    /\ proc[p].ctl = proc[p].made
    /\ proc[p].pc = "inside" => fs[proc[p].dir].cpus = Wants[p]

\* No maker fails: the CPUs of its last enclave come back before the retries are
\* spent, and its global descriptors are free again.
MakersSucceed == \A p \in Maker : proc[p].pc # "dead"

\* Making an enclave ends.
CreationEnds ==
  \A p \in Maker : proc[p].pc = "make" ~> proc[p].pc \in {"inside", "dead"}
=============================================================================
