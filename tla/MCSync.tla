------------------------------- MODULE MCSync -------------------------------
(***************************************************************************)
(* Instances of lib/base: notifications (NotifyOnce) and forked processes  *)
(* (ForkedProcess).  They have no state in common: a behaviour is one of   *)
(* the component that the initial state chooses; the other one rests.      *)
(***************************************************************************)
EXTENDS NotifyOnce, ForkedProcess

VARIABLE part

SInit == Init /\ FInit /\ part \in {"notification", "forked"}

SNext ==
  \/ part = "notification" /\ Next /\ UNCHANGED <<part, fvars>>
  \/ part = "forked" /\ FNext /\ UNCHANGED <<part, nvars>>

SSpec ==
  /\ SInit /\ [][SNext]_<<part, nvars, fvars>>
  /\ \/ part = "notification" /\ \A t \in Thread : CallFairness(t)
     \/ part = "forked" /\ FFairness
=============================================================================
