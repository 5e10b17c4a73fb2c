------------------------------ MODULE O1Policy -------------------------------
(***************************************************************************)
(* What a run queue of the O1 scheduler promises, without buckets and      *)
(* bitmaps: two disjoint sets of tasks, the ones of the running epoch      *)
(* (active) and the ones that wait for the next epoch (expired).  The task *)
(* picked to run has the best (lowest) priority of the running epoch, and  *)
(* the next epoch begins only when the running one has no task left.       *)
(***************************************************************************)
EXTENDS Integers

CONSTANTS Task, NoTask, Prio

VARIABLES
  running,   \* the tasks of the running epoch
  waiting,   \* the tasks of the next epoch
  prio,      \* the priority of every task
  picked     \* the task taken from the queue and not yet running

vars == <<running, waiting, prio, picked>>

Init ==
  /\ running = {} /\ waiting = {}
  /\ prio \in [Task -> Prio]
  /\ picked = NoTask

\* A task joins one of the epochs, with some priority.
Add(t) ==
  /\ t \notin running \cup waiting
  /\ \/ running' = running \cup {t} /\ UNCHANGED waiting
     \/ waiting' = waiting \cup {t} /\ UNCHANGED running
  /\ \E p \in Prio : prio' = [prio EXCEPT ![t] = p]
  /\ picked' \in {picked, NoTask}

\* A task leaves the queue without running.
Remove(t) ==
  /\ t \in running \cup waiting
  /\ running' = running \ {t} /\ waiting' = waiting \ {t}
  /\ UNCHANGED <<prio, picked>>

\* A queued task gets another priority, and a place in the running epoch.
Renice(t) ==
  /\ t \in running \cup waiting
  /\ running' = running \cup {t} /\ waiting' = waiting \ {t}
  /\ \E p \in Prio : prio' = [prio EXCEPT ![t] = p]
  /\ UNCHANGED picked

\* Another task gets another priority.
SetPrio(t) ==
  /\ t \notin running \cup waiting
  /\ \E p \in Prio : prio' = [prio EXCEPT ![t] = p]
  /\ UNCHANGED <<running, waiting, picked>>

Epoch == IF running = {} THEN waiting ELSE running

\* The best task of the epoch is picked; the epochs swap when one has ended.
Pick(t) ==
  /\ picked = NoTask
  /\ t \in Epoch
  /\ \A u \in Epoch : prio[t] <= prio[u]
  /\ picked' = t
  /\ running' = Epoch \ {t}
  /\ waiting' = IF running = {} THEN {} ELSE waiting
  /\ UNCHANGED prio

\* The picked task runs.
Run ==
  /\ picked # NoTask
  /\ picked' = NoTask
  /\ UNCHANGED <<running, waiting, prio>>

Next ==
  \/ \E t \in Task : Add(t) \/ Remove(t) \/ Renice(t) \/ SetPrio(t) \/ Pick(t)
  \/ Run

Spec == Init /\ [][Next]_vars
=============================================================================
