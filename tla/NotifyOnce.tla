------------------------------ MODULE NotifyOnce ------------------------------
(***************************************************************************)
(* Notifications used the way lib/base.h documents for a one-shot trigger: *)
(* any number of threads wait, again and again, and one thread notifies,   *)
(* once.  This is how Agent uses ready_, finished_, enclave_ready_ and     *)
(* do_exit_, and AgentProcess agent_ready_ and kill_agent_.                *)
(***************************************************************************)
EXTENDS Notification

CONSTANT NoNote

ASSUME NoNoteAssumption == NoNote \notin Note

Init == NInit

\* The caller's side of the contract: nobody has notified n or is about to.
Unclaimed(n) ==
  /\ ~HasBeenNotified(n)
  /\ \A t \in Thread : ~(frame[t].at \in NotifyAt /\ frame[t].note = n)

Notify(t, n) == Unclaimed(n) /\ CallNotify(t, n) /\ UNCHANGED word
Wait(t, n) == CallWait(t, n) /\ UNCHANGED word

Next ==
  \/ \E t \in Thread, n \in Note : Notify(t, n) \/ Wait(t, n)
  \/ \E t \in Thread : CallStep(t)

Spec == Init /\ [][Next]_nvars

-----------------------------------------------------------------------------
\* The CHECK of Notify (base.cc:57) never fails for callers that keep the
\* contract, though the word is loaded twice and other threads write it in
\* between.
NoCheckFails == \A t \in Thread : ~In(t, "check_failed")

\* No lost wake-up: a thread asleep in the futex of a notified notification
\* is about to be woken, because the notifier saw kWaiter (base.cc:64) and
\* still has its FUTEX_WAKE to do.
NoLostWakeup ==
  \A t \in Thread :
    In(t, "w_asleep") /\ HasBeenNotified(frame[t].note) =>
      \E s \in Thread : In(s, "n_wake") /\ frame[s].note = frame[t].note

\* The word tells the notifier about every sleeper: a thread that sleeps or
\* is in the futex call left kWaiter, or later kNotified, behind
\* (base.cc:74-84), never kNoWaiter.
SleeperIsAnnounced ==
  \A t \in Thread : frame[t].at \in {"w_futex", "w_asleep", "w_woken"} =>
    word[frame[t].note] # "kNoWaiter"

\* Notify has one caller per notification, the value it loaded is at most
\* one step of a waiter behind the word, and only a notified word is woken.
NotifierView ==
  /\ \A s, t \in Thread :
       /\ frame[s].at \in NotifyAt
       /\ frame[t].at \in NotifyAt
       /\ frame[s].note = frame[t].note
       => s = t
  /\ \A t \in Thread :
       /\ frame[t].at \in NotifyAt \ {"n_wake"} => ~HasBeenNotified(frame[t].note)
       /\ In(t, "n_wake") => HasBeenNotified(frame[t].note)

\* The inductive invariant: the facts above together, with the types.
OnceInv ==
  NTypeOK /\ NoCheckFails /\ NoLostWakeup /\ SleeperIsAnnounced /\ NotifierView

-----------------------------------------------------------------------------
\* The event behind the words and frames.
EventRaised == {n \in Note : HasBeenNotified(n)}
EventWaiting ==
  [t \in Thread |-> IF frame[t].at \in WaitAt THEN frame[t].note ELSE NoNote]

E == INSTANCE Event WITH raised <- EventRaised, waiting <- EventWaiting

\* WaitForNotification returns only once the notification was notified, and
\* then always returns: the word, the futex and the retries implement the
\* event of module Event (base.h:337-344).
ImplementsEvent == E!ESpec
=============================================================================
