-------------------------------- MODULE Event --------------------------------
(***************************************************************************)
(* What a notification promises to its users: an event that is raised once *)
(* and that threads wait for.  A wait ends only after the event is raised, *)
(* and, because raising wakes every waiter, it does end.                   *)
(***************************************************************************)
CONSTANTS Thread, Note, NoNote

VARIABLES raised,   \* the events raised so far
          waiting   \* waiting[t]: the event thread t waits for, or NoNote

evars == <<raised, waiting>>

EInit ==
  /\ raised = {}
  /\ waiting = [t \in Thread |-> NoNote]

Raise(n) ==
  /\ n \notin raised
  /\ raised' = raised \cup {n}
  /\ UNCHANGED waiting

Await(t, n) ==
  /\ waiting[t] = NoNote
  /\ waiting' = [waiting EXCEPT ![t] = n]
  /\ UNCHANGED raised

Resume(t) ==
  /\ waiting[t] \in raised
  /\ waiting' = [waiting EXCEPT ![t] = NoNote]
  /\ UNCHANGED raised

ENext ==
  \/ \E n \in Note : Raise(n)
  \/ \E t \in Thread, n \in Note : Await(t, n)
  \/ \E t \in Thread : Resume(t)

\* The promise without and with its liveness.
ESafe == EInit /\ [][ENext]_evars
ESpec == ESafe /\ \A t \in Thread : WF_evars(Resume(t))
=============================================================================
