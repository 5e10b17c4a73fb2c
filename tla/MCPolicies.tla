----------------------------- MODULE MCPolicies -----------------------------
(***************************************************************************)
(* Smaller scheduler instances: the FIFO policy on two CPUs (the variables *)
(* of FifoScheduler), the O1 scheduler on one CPU with two priorities      *)
(* (One), and its time accounting (O1Slice) with a clock that only goes    *)
(* forward (Steady) or may be set back (Adjusted).  A behaviour is one of  *)
(* the instance that the initial state chooses; the others rest.           *)
(***************************************************************************)
EXTENDS FifoScheduler, TLC

CONSTANTS c1, c2

VARIABLES part, task1, cs1, ktask1, kcpu1, rr1, abort1,
          slice, current, preempt_curr, next, agent, msgs, tick

MCTwoCpus == <<c1, c2>>
MCSymmetry == Permutations(Task)

One == INSTANCE O1Scheduler WITH
  Cpu <- {c1}, CpuOrder <- <<c1>>, kBasePrio <- 119, kNumPrio <- 2, Nice <- {-1, 0},
  TimeSlice <- 1, Charges <- {0, 1}, SwitchTask <- {},
  task <- task1, cs <- cs1, ktask <- ktask1, kcpu <- kcpu1, rr <- rr1, abort <- abort1
vars1 == <<task1, cs1, ktask1, kcpu1, rr1, abort1>>

Steady == INSTANCE O1Slice WITH
  TimeSlice <- 2, TickPeriod <- 2, MaxRecommits <- 1, SetBack <- 0, task <- slice
Adjusted == INSTANCE O1Slice WITH
  TimeSlice <- 2, TickPeriod <- 1, MaxRecommits <- 0, SetBack <- 1, task <- slice
slicevars == <<slice, current, preempt_curr, next, agent, msgs, tick>>

MCInit ==
  /\ Init /\ One!Init /\ Steady!Init
  /\ part \in {"fifo", "one", "steady", "adjusted"}

MCNext ==
  \/ part = "fifo" /\ Next /\ UNCHANGED <<part, vars1, slicevars>>
  \/ part = "one" /\ One!Next /\ UNCHANGED <<part, vars, slicevars>>
  \/ part = "steady" /\ Steady!Next /\ UNCHANGED <<part, vars, vars1>>
  \/ part = "adjusted" /\ Adjusted!Next /\ UNCHANGED <<part, vars, vars1>>

MCSpec == MCInit /\ [][MCNext]_<<part, vars, vars1, slicevars>>

-----------------------------------------------------------------------------
\* Under both policies no CHECK fails, every task is where the agents and the kernel
\* take it to be, and an idle CPU with work is woken: for FIFO on two CPUs, whose
\* TaskOffCpu() wants current to be the task, and for O1 on one CPU with two priorities
\* and slices that may last.
PoliciesHold ==
  /\ part = "fifo" => TypeOK /\ NoCheckFails /\ TasksAreKept /\ IdleCpuIsWoken
  /\ part = "one" => One!TypeOK /\ One!NoCheckFails /\ One!TasksAreKept /\ One!IdleCpuIsWoken

\* What CpuTick() and UpdateRemainingTime() charge is sound: a task overruns its slice
\* by no more than the ticks and the recommits in it allow, and never loses time that
\* it did not run, even if the wall clock is set back.
ChargesAreSound ==
  /\ part = "steady" => Steady!OverrunBounded
  /\ part = "adjusted" => Adjusted!NeverOvercharged
=============================================================================
