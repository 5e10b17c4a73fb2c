---------------------------- MODULE Notification ----------------------------
(***************************************************************************)
(* ghost::Notification and the futex it sleeps on (lib/base.h, lib/base.cc).*)
(*                                                                         *)
(* A notification is one atomic word with the values kNoWaiter, kWaiter    *)
(* and kNotified.  A thread inside Notify or WaitForNotification has a     *)
(* frame: where it is in the call, on which notification, and the value it *)
(* loaded last.  Every load, compare-exchange and system call is a step of *)
(* its own, so calls of different threads interleave.                      *)
(*                                                                         *)
(* What the platform may do is in the model: compare_exchange_weak fails   *)
(* spuriously, a futex sleep ends without a wake-up (EINTR, or a return    *)
(* value of 0 that was not meant for the sleeper).                         *)
(***************************************************************************)
CONSTANTS Thread,   \* the threads that may call the notifications
          Note      \* the notifications

VARIABLES word,     \* word[n]: the atomic notified_ of notification n
          frame     \* frame[t]: the call thread t is in

nvars == <<word, frame>>

Word == {"kNoWaiter", "kWaiter", "kNotified"}

\* Where a thread can be: outside of a call, in Notify, in WaitForNotification,
\* or stopped by the CHECK of Notify.
NotifyAt == {"n_load", "n_check", "n_cas", "n_wake"}
WaitAt == {"w_load", "w_cas", "w_futex", "w_asleep", "w_woken"}
At == {"out", "check_failed"} \cup NotifyAt \cup WaitAt

NTypeOK ==
  /\ word \in [Note -> Word]
  /\ frame \in [Thread -> [at : At, note : Note, v : Word]]

NInit ==
  /\ word = [n \in Note |-> "kNoWaiter"]
  /\ frame \in [Thread -> [at : {"out"}, note : Note, v : {"kNoWaiter"}]]
  /\ \A s, t \in Thread : frame[s] = frame[t]

Out(t) == frame[t].at = "out"
In(t, where) == frame[t].at = where
HasBeenNotified(n) == word[n] = "kNotified"

\* frame with thread t moved to a place of the same call.
MovedTo(t, where) == [frame EXCEPT ![t].at = where]
Set(n, value) == [word EXCEPT ![n] = value]

-----------------------------------------------------------------------------
(* Notify *)

CallNotify(t, n) ==
  /\ Out(t)
  /\ frame' = [frame EXCEPT ![t] = [at |-> "n_load", note |-> n, v |-> @.v]]

NotifyLoad(t) ==
  /\ In(t, "n_load")
  /\ frame' = [frame EXCEPT ![t].at = "n_check", ![t].v = word[frame[t].note]]
  /\ UNCHANGED word

\* CHECK(!HasBeenNotified()) loads the word a second time.
NotifyCheck(t) ==
  /\ In(t, "n_check")
  /\ frame' = MovedTo(t, IF HasBeenNotified(frame[t].note)
                         THEN "check_failed" ELSE "n_cas")
  /\ UNCHANGED word

\* Seeded fault of NotifyExchange: a plain store that ignores what a waiter wrote
\* since the load.
NotifyStore(t) ==
  /\ In(t, "n_cas")
  /\ word' = Set(frame[t].note, "kNotified")
  /\ frame' = MovedTo(t, IF frame[t].v = "kWaiter" THEN "n_wake" ELSE "out")

\* The exchange succeeds: wake the sleepers only if the value seen was kWaiter.
NotifyExchange(t) ==
  /\ In(t, "n_cas")
  /\ word[frame[t].note] = frame[t].v
  /\ word' = Set(frame[t].note, "kNotified")
  /\ frame' = MovedTo(t, IF frame[t].v = "kWaiter" THEN "n_wake" ELSE "out")

\* The exchange fails: the word changed, or compare_exchange_weak just failed.
NotifyRetry(t) ==
  /\ In(t, "n_cas")
  /\ frame' = MovedTo(t, "n_load")
  /\ UNCHANGED word

\* FUTEX_WAKE of every thread that sleeps on the word.
NotifyWake(t) ==
  /\ In(t, "n_wake")
  /\ frame' = [s \in Thread |->
       IF s = t THEN [frame[s] EXCEPT !.at = "out"]
       ELSE IF In(s, "w_asleep") /\ frame[s].note = frame[t].note
            THEN [frame[s] EXCEPT !.at = "w_woken"]
            ELSE frame[s]]
  /\ UNCHANGED word

-----------------------------------------------------------------------------
(* WaitForNotification and Futex::Wait *)

CallWait(t, n) ==
  /\ Out(t)
  /\ frame' = [frame EXCEPT ![t] = [at |-> "w_load", note |-> n, v |-> @.v]]

WaitLoad(t) ==
  /\ In(t, "w_load")
  /\ LET seen == word[frame[t].note]
     IN  frame' = MovedTo(t, CASE seen = "kNotified" -> "out"
                               [] seen = "kNoWaiter" -> "w_cas"
                               [] seen = "kWaiter"   -> "w_futex")
  /\ UNCHANGED word

\* Announce a waiter; the loop loads the word again whatever the outcome.
WaitExchange(t) ==
  /\ In(t, "w_cas")
  /\ word[frame[t].note] = "kNoWaiter"
  /\ word' = Set(frame[t].note, "kWaiter")
  /\ frame' = MovedTo(t, "w_load")

WaitRetry(t) ==
  /\ In(t, "w_cas")
  /\ frame' = MovedTo(t, "w_load")
  /\ UNCHANGED word

\* FUTEX_WAIT compares and goes to sleep in one step; a mismatch is EAGAIN,
\* on which Futex::Wait, and with it WaitForNotification, returns.
WaitFutex(t) ==
  /\ In(t, "w_futex")
  /\ frame' = MovedTo(t, IF word[frame[t].note] = "kWaiter"
                         THEN "w_asleep" ELSE "out")
  /\ UNCHANGED word

\* The sleep ends though nobody called Wake: a return value of 0, or EINTR.
WaitSpurious(t) ==
  /\ In(t, "w_asleep")
  /\ frame' \in {MovedTo(t, "w_woken"), MovedTo(t, "w_futex")}
  /\ UNCHANGED word

\* Seeded fault of WaitWoken: trust every wake-up.
WaitTrusts(t) ==
  /\ In(t, "w_woken")
  /\ frame' = MovedTo(t, "out")
  /\ UNCHANGED word

\* After a return value of 0 the word is loaded: still kWaiter, sleep again.
WaitWoken(t) ==
  /\ In(t, "w_woken")
  /\ frame' = MovedTo(t, IF word[frame[t].note] = "kWaiter"
                         THEN "w_futex" ELSE "out")
  /\ UNCHANGED word

-----------------------------------------------------------------------------
\* The step of a thread inside a call.
NotifyStep(t) ==
  \/ NotifyLoad(t)
  \/ NotifyCheck(t)
  \/ NotifyExchange(t)
  \/ NotifyRetry(t)
  \/ NotifyWake(t)

WaitStep(t) ==
  \/ WaitLoad(t)
  \/ WaitExchange(t)
  \/ WaitRetry(t)
  \/ WaitFutex(t)
  \/ WaitSpurious(t)
  \/ WaitWoken(t)

CallStep(t) == NotifyStep(t) \/ WaitStep(t)

\* The steps a scheduled thread takes by itself, whatever the other threads and
\* the platform do, and the exchanges that succeed.
Progress(t) ==
  \/ NotifyLoad(t) \/ NotifyCheck(t) \/ NotifyWake(t) \/ NotifyRetry(t)
  \/ WaitLoad(t) \/ WaitFutex(t) \/ WaitWoken(t) \/ WaitRetry(t)

Exchange(t) == NotifyExchange(t) \/ WaitExchange(t)

\* A thread in a call is scheduled again and again, and a weak exchange that
\* is tried for ever does not fail for ever.
CallFairness(t) == WF_nvars(Progress(t)) /\ SF_nvars(Exchange(t))
=============================================================================
