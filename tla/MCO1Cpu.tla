------------------------------- MODULE MCO1Cpu -------------------------------
(***************************************************************************)
(* O1Cpu for TLC and its refinement of O1Policy, for three tasks that may  *)
(* be charged nothing; and the starvation freedom of two policies on one   *)
(* CPU: O1Cpu with two tasks whose slices take more than one charge, and   *)
(* Biff with two threads in Flux (FluxThread).  A behaviour is one of the  *)
(* instance that the initial state chooses; the others rest.               *)
(***************************************************************************)
EXTENDS O1Cpu

CONSTANTS Pair

VARIABLES part, a2, e2, current2, preempt2, next2, state2, prio2, boost2, left2,
          thread, msg, thr, sw_lookup, rq, nr_cpus_wanted, cpu

Two == INSTANCE O1Cpu WITH
  Task <- Pair, TimeSlice <- 2, Charges <- 1 .. 2,
  active <- a2, expired <- e2, current <- current2, preempt_curr <- preempt2, next <- next2,
  run_state <- state2, static_priority <- prio2, prio_boost <- boost2, remaining_time <- left2
vars2 == <<a2, e2, current2, preempt2, next2, state2, prio2, boost2, left2>>

Flux == INSTANCE FluxThread WITH
  Thread <- Pair, Cpu <- {1}, None <- NoTask, MaxLoops <- 2, ChainDeparts <- FALSE,
  EarlyReturn <- FALSE, task <- thread
fvars == <<thread, msg, thr, sw_lookup, rq, nr_cpus_wanted, cpu>>

MCNice == {-1, 0}
MCCharges == 0 .. TimeSlice

MCInit == Init /\ Two!Init /\ Flux!Init /\ part \in {"three", "two", "flux"}

MCNext ==
  \/ part = "three" /\ Next /\ UNCHANGED <<part, vars2, fvars>>
  \/ part = "two" /\ Two!Next /\ UNCHANGED <<part, vars, fvars>>
  \/ part = "flux" /\ Flux!Next /\ UNCHANGED <<part, vars, vars2>>

MCSpec ==
  /\ MCInit /\ [][MCNext]_<<part, vars, vars2, fvars>>
  /\ \/ part = "three"
     \/ part = "two" /\ Two!Fairness /\ Two!Quietens
     \/ part = "flux" /\ Flux!Fairness

\* No task starves on the CPU: in O1 (Enqueue() of an expired task, Dequeue()'s swap),
\* and in Biff, where a thread that waits runs some time or leaves.
NoTaskStarves ==
  /\ part = "two" => Two!NoStarvation
  /\ part = "flux" => Flux!WaitingThreadsRun
=============================================================================
