---------------------------- MODULE MessageQueue ----------------------------
(***************************************************************************)
(* What a channel promises the agent: the kernel's messages one by one and *)
(* in order, none of them twice, and none after one that was lost.         *)
(***************************************************************************)
EXTENDS Sequences

CONSTANT Message

VARIABLES queue,  \* the messages not yet consumed
          lost    \* whether a message found no room

qvars == <<queue, lost>>

QInit == queue = << >> /\ lost = FALSE

\* A message remembers whether one before it was lost.
Post == \E m \in Message : queue' = Append(queue, [m |-> m, late |-> lost]) /\ UNCHANGED lost

Lose == lost' = TRUE /\ UNCHANGED queue

Take == queue # << >> /\ ~Head(queue).late /\ queue' = Tail(queue) /\ UNCHANGED lost

QSpec == QInit /\ [][Post \/ Lose \/ Take]_qvars
=============================================================================
