----------------------------- MODULE BaseProofs -----------------------------
(***************************************************************************)
(* Proofs about the two parts of lib/base that wait for somebody else.     *)
(*                                                                         *)
(* Forked processes: what the parent does and says about a child that      *)
(* ended is true, for every set of children, whichever of WaitForChildExit *)
(* and the SIGCHLD handler reaps a child.  The argument is that a child is *)
(* reaped once, by one of the two: who reaped a child that ended           *)
(* abnormally is alone with it until its exit is handled or the parent     *)
(* exits, and nothing about it changes meanwhile.                          *)
(*                                                                         *)
(* Notifications never lose a wake-up and implement the event of module    *)
(* Event, for any set of threads and any set of notifications.             *)
(***************************************************************************)
EXTENDS NotifyOnce, ForkedProcess, TLAPS

-----------------------------------------------------------------------------
(* Forked processes. *)

Types ==
  /\ proc \in [Child -> {"none", "zombie", "reaped"} \cup Live]
  /\ status \in [Child -> Code \cup {NoCode}]
  /\ result \in [Child -> Code \cup {NoCode}]
  /\ main \in [at : MainAt, on : Child \cup {Some}]
  /\ sig \in [at : {"none", "lock", "handle"}, on : Child \cup {Some}]
  /\ parent \in {"alive", "killed", "exit"} \X (Code \cup {NoCode})
  /\ main.at # "idle" => main.on \in Child
  /\ sig.at # "none" => sig.on \in Child

\* Somebody reaped c, which ended abnormally, and has not handled it yet.
ToHandle(c) == proc[c] = "reaped" /\ Abnormal(c) /\ c \notin handled

\* A child that nobody reaped is as its end left it.
Untouched ==
  \A c \in Child :
    /\ proc[c] # "reaped" => c \notin handled /\ result[c] = NoCode
    /\ proc[c] = "zombie" => status[c] \in Code

\* Who reaped a child has it for itself.
ReaperAlone ==
  /\ sig.at # "none" => ToHandle(sig.on)
  /\ main.at \in {"wlock", "whandle"} => ToHandle(main.on)
  /\ main.at \in {"wlock", "whandle"} /\ sig.at # "none" => sig.on # main.on

\* The child whose status the parent exited with stays as it is.
ExitInv ==
  parent[1] = "exit" =>
    \E c \in Child : ToHandle(c) /\ parent[2] = status[c] /\ Unhandled(c)

IInv == Types /\ Untouched /\ ReaperAlone /\ ExitInv /\ WaitTellsTheTruth

-----------------------------------------------------------------------------
\* There is no child at the start.
LEMMA InitInv == FInit => IInv
  BY DEF FInit, IInv, Types, Untouched, ReaperAlone, ExitInv, WaitTellsTheTruth, MainAt, Live,
         Code, NoCode

\* Every step keeps the invariant.
LEMMA StepInv == IInv /\ [FNext]_fvars => IInv'
<1> SUFFICES ASSUME IInv, [FNext]_fvars PROVE IInv'
  OBVIOUS
<1> USE DEF IInv
<1>1. ASSUME InstallSignal PROVE IInv'
  <2>1. Types'
    BY <1>1 DEF InstallSignal, InMain, MainGoto, Types, Live, MainAt, Code, NoCode
  <2>2. Untouched'
    BY <1>1
       DEF InstallSignal, InMain, MainGoto, Untouched, Types, ReaperAlone, ToHandle, Abnormal,
           Live, Code, NoCode
  <2>3. ReaperAlone'
    BY <1>1
       DEF InstallSignal, InMain, MainGoto, ReaperAlone, ToHandle, Abnormal, Untouched, Types,
           Live, Code, MainAt
  <2>4. ExitInv'
    BY <1>1
       DEF InstallSignal, InMain, MainGoto, ExitInv, ToHandle, Abnormal, Unhandled,
           ReaperAlone, Untouched, Types, Live, Alive
  <2>5. WaitTellsTheTruth'
    BY <1>1
       DEF InstallSignal, InMain, MainGoto, WaitTellsTheTruth, ReaperAlone, ToHandle,
           Abnormal, Untouched, Types, Live, Code, NoCode
  <2> QED BY <2>1, <2>2, <2>3, <2>4, <2>5
<1>2. ASSUME MainLock PROVE IInv'
  <2>1. Types'
    BY <1>2 DEF MainLock, InMain, MainGoto, Types, Live, MainAt, Code, NoCode
  <2>2. Untouched'
    BY <1>2
       DEF MainLock, InMain, MainGoto, Untouched, Types, ReaperAlone, ToHandle, Abnormal,
           Live, Code, NoCode
  <2>3. ReaperAlone'
    BY <1>2
       DEF MainLock, InMain, MainGoto, ReaperAlone, ToHandle, Abnormal, Untouched, Types,
           Live, Code, MainAt
  <2>4. ExitInv'
    BY <1>2
       DEF MainLock, InMain, MainGoto, ExitInv, ToHandle, Abnormal, Unhandled, ReaperAlone,
           Untouched, Types, Live, Alive
  <2>5. WaitTellsTheTruth'
    BY <1>2
       DEF MainLock, InMain, MainGoto, WaitTellsTheTruth, ReaperAlone, ToHandle, Abnormal,
           Untouched, Types, Live, Code, NoCode
  <2> QED BY <2>1, <2>2, <2>3, <2>4, <2>5
<1>3. ASSUME Insert PROVE IInv'
  <2>1. Types'
    BY <1>3 DEF Insert, InMain, MainGoto, Types, Live, MainAt, Code, NoCode
  <2>2. Untouched'
    BY <1>3
       DEF Insert, InMain, MainGoto, Untouched, Types, ReaperAlone, ToHandle, Abnormal, Live,
           Code, NoCode
  <2>3. ReaperAlone'
    BY <1>3
       DEF Insert, InMain, MainGoto, ReaperAlone, ToHandle, Abnormal, Untouched, Types, Live,
           Code, MainAt
  <2>4. ExitInv'
    BY <1>3
       DEF Insert, InMain, MainGoto, ExitInv, ToHandle, Abnormal, Unhandled, ReaperAlone,
           Untouched, Types, Live, Alive
  <2>5. WaitTellsTheTruth'
    BY <1>3
       DEF Insert, InMain, MainGoto, WaitTellsTheTruth, ReaperAlone, ToHandle, Abnormal,
           Untouched, Types, Live, Code, NoCode
  <2> QED BY <2>1, <2>2, <2>3, <2>4, <2>5
<1>4. ASSUME Erase PROVE IInv'
  <2>1. Types'
    BY <1>4 DEF Erase, InMain, MainGoto, Types, Live, MainAt, Code, NoCode
  <2>2. Untouched'
    BY <1>4
       DEF Erase, InMain, MainGoto, Untouched, Types, ReaperAlone, ToHandle, Abnormal, Live,
           Code, NoCode
  <2>3. ReaperAlone'
    BY <1>4
       DEF Erase, InMain, MainGoto, ReaperAlone, ToHandle, Abnormal, Untouched, Types, Live,
           Code, MainAt
  <2>4. ExitInv'
    BY <1>4
       DEF Erase, InMain, MainGoto, ExitInv, ToHandle, Abnormal, Unhandled, ReaperAlone,
           Untouched, Types, Live, Alive
  <2>5. WaitTellsTheTruth'
    BY <1>4
       DEF Erase, InMain, MainGoto, WaitTellsTheTruth, ReaperAlone, ToHandle, Abnormal,
           Untouched, Types, Live, Code, NoCode
  <2> QED BY <2>1, <2>2, <2>3, <2>4, <2>5
<1>5. ASSUME Waitpid PROVE IInv'
  <2>1. Types'
    BY <1>5 DEF Waitpid, InMain, Returns, MainGoto, Types, Live, MainAt, Code, NoCode
  <2>2. Untouched'
    BY <1>5
       DEF Waitpid, InMain, Returns, MainGoto, Untouched, Types, ReaperAlone, ToHandle,
           Abnormal, Live, Code, NoCode
  <2>3. ReaperAlone'
    BY <1>5
       DEF Waitpid, InMain, Returns, MainGoto, ReaperAlone, ToHandle, Abnormal, Untouched,
           Types, Live, Code, MainAt
  <2>4. ExitInv'
    BY <1>5
       DEF Waitpid, InMain, Returns, MainGoto, ExitInv, ToHandle, Abnormal, Unhandled,
           ReaperAlone, Untouched, Types, Live, Alive
  <2>5. WaitTellsTheTruth'
    BY <1>5
       DEF Waitpid, InMain, Returns, MainGoto, WaitTellsTheTruth, ReaperAlone, ToHandle,
           Abnormal, Untouched, Types, Live, Code, NoCode
  <2> QED BY <2>1, <2>2, <2>3, <2>4, <2>5
<1>6. ASSUME WaitHandle PROVE IInv'
  <2>1. Types'
    BY <1>6
       DEF WaitHandle, InMain, ParentEnds, ExitCode, Unhandled, Returns, MainGoto, Alive,
           Types, Live, MainAt, Code, NoCode
  <2>2. Untouched'
    BY <1>6
       DEF WaitHandle, InMain, ParentEnds, ExitCode, Unhandled, Returns, MainGoto, Alive,
           Untouched, Types, ReaperAlone, ToHandle, Abnormal, Live, Code, NoCode
  <2>3. ReaperAlone'
    BY <1>6
       DEF WaitHandle, InMain, ParentEnds, ExitCode, Unhandled, Returns, MainGoto, Alive,
           ReaperAlone, ToHandle, Abnormal, Untouched, Types, Live, Code, MainAt
  <2>4. ExitInv'
    BY <1>6
       DEF WaitHandle, InMain, ParentEnds, ExitCode, Unhandled, Returns, MainGoto, Alive,
           ExitInv, ToHandle, Abnormal, ReaperAlone, Untouched, Types, Live
  <2>5. WaitTellsTheTruth'
    BY <1>6
       DEF WaitHandle, InMain, ParentEnds, ExitCode, Unhandled, Returns, MainGoto, Alive,
           WaitTellsTheTruth, ReaperAlone, ToHandle, Abnormal, Untouched, Types, Live, Code,
           NoCode
  <2> QED BY <2>1, <2>2, <2>3, <2>4, <2>5
<1>7. ASSUME DeliverSigchld PROVE IInv'
  <2>1. Types'
    BY <1>7 DEF DeliverSigchld, Types, Live, MainAt, Code, NoCode
  <2>2. Untouched'
    BY <1>7
       DEF DeliverSigchld, Untouched, Types, ReaperAlone, ToHandle, Abnormal, Live, Code,
           NoCode
  <2>3. ReaperAlone'
    BY <1>7
       DEF DeliverSigchld, ReaperAlone, ToHandle, Abnormal, Untouched, Types, Live, Code,
           MainAt
  <2>4. ExitInv'
    BY <1>7
       DEF DeliverSigchld, ExitInv, ToHandle, Abnormal, Unhandled, ReaperAlone, Untouched,
           Types, Live, Alive
  <2>5. WaitTellsTheTruth'
    BY <1>7
       DEF DeliverSigchld, WaitTellsTheTruth, ReaperAlone, ToHandle, Abnormal, Untouched,
           Types, Live, Code, NoCode
  <2> QED BY <2>1, <2>2, <2>3, <2>4, <2>5
<1>8. ASSUME SigLock PROVE IInv'
  <2>1. Types'
    BY <1>8 DEF SigLock, Types, Live, MainAt, Code, NoCode
  <2>2. Untouched'
    BY <1>8 DEF SigLock, Untouched, Types, ReaperAlone, ToHandle, Abnormal, Live, Code, NoCode
  <2>3. ReaperAlone'
    BY <1>8 DEF SigLock, ReaperAlone, ToHandle, Abnormal, Untouched, Types, Live, Code, MainAt
  <2>4. ExitInv'
    BY <1>8
       DEF SigLock, ExitInv, ToHandle, Abnormal, Unhandled, ReaperAlone, Untouched, Types,
           Live, Alive
  <2>5. WaitTellsTheTruth'
    BY <1>8
       DEF SigLock, WaitTellsTheTruth, ReaperAlone, ToHandle, Abnormal, Untouched, Types,
           Live, Code, NoCode
  <2> QED BY <2>1, <2>2, <2>3, <2>4, <2>5
<1>9. ASSUME SigHandle PROVE IInv'
  <2>1. Types'
    BY <1>9 DEF SigHandle, ParentEnds, ExitCode, Unhandled, Types, Live, MainAt, Code, NoCode
  <2>2. Untouched'
    BY <1>9
       DEF SigHandle, ParentEnds, ExitCode, Unhandled, Untouched, Types, ReaperAlone,
           ToHandle, Abnormal, Live, Code, NoCode
  <2>3. ReaperAlone'
    BY <1>9
       DEF SigHandle, ParentEnds, ExitCode, Unhandled, ReaperAlone, ToHandle, Abnormal,
           Untouched, Types, Live, Code, MainAt
  <2>4. ExitInv'
    BY <1>9
       DEF SigHandle, ParentEnds, ExitCode, Unhandled, ExitInv, ToHandle, Abnormal,
           ReaperAlone, Untouched, Types, Live, Alive
  <2>5. WaitTellsTheTruth'
    BY <1>9
       DEF SigHandle, ParentEnds, ExitCode, Unhandled, WaitTellsTheTruth, ReaperAlone,
           ToHandle, Abnormal, Untouched, Types, Live, Code, NoCode
  <2> QED BY <2>1, <2>2, <2>3, <2>4, <2>5
<1>10. ASSUME ParentKilled PROVE IInv'
  <2>1. Types'
    BY <1>10 DEF ParentKilled, ParentEnds, Alive, Types, Live, MainAt, Code, NoCode
  <2>2. Untouched'
    BY <1>10
       DEF ParentKilled, ParentEnds, Alive, Untouched, Types, ReaperAlone, ToHandle, Abnormal,
           Live, Code, NoCode
  <2>3. ReaperAlone'
    BY <1>10
       DEF ParentKilled, ParentEnds, Alive, ReaperAlone, ToHandle, Abnormal, Untouched, Types,
           Live, Code, MainAt
  <2>4. ExitInv'
    BY <1>10
       DEF ParentKilled, ParentEnds, Alive, ExitInv, ToHandle, Abnormal, Unhandled,
           ReaperAlone, Untouched, Types, Live
  <2>5. WaitTellsTheTruth'
    BY <1>10
       DEF ParentKilled, ParentEnds, Alive, WaitTellsTheTruth, ReaperAlone, ToHandle,
           Abnormal, Untouched, Types, Live, Code, NoCode
  <2> QED BY <2>1, <2>2, <2>3, <2>4, <2>5
<1>11. ASSUME NEW c \in Child, Fork(c) PROVE IInv'
  <2>1. Types'
    BY <1>11 DEF Fork, InMain, Types, Live, MainAt, Code, NoCode
  <2>2. Untouched'
    BY <1>11
       DEF Fork, InMain, Untouched, Types, ReaperAlone, ToHandle, Abnormal, Live, Code, NoCode
  <2>3. ReaperAlone'
    BY <1>11
       DEF Fork, InMain, ReaperAlone, ToHandle, Abnormal, Untouched, Types, Live, Code, MainAt
  <2>4. ExitInv'
    BY <1>11
       DEF Fork, InMain, ExitInv, ToHandle, Abnormal, Unhandled, ReaperAlone, Untouched,
           Types, Live, Alive
  <2>5. WaitTellsTheTruth'
    BY <1>11
       DEF Fork, InMain, WaitTellsTheTruth, ReaperAlone, ToHandle, Abnormal, Untouched, Types,
           Live, Code, NoCode
  <2> QED BY <2>1, <2>2, <2>3, <2>4, <2>5
<1>12. ASSUME NEW c \in Child, CallWaitForChildExit(c) PROVE IInv'
  <2>1. Types'
    BY <1>12 DEF CallWaitForChildExit, InMain, Types, Live, MainAt, Code, NoCode
  <2>2. Untouched'
    BY <1>12
       DEF CallWaitForChildExit, InMain, Untouched, Types, ReaperAlone, ToHandle, Abnormal,
           Live, Code, NoCode
  <2>3. ReaperAlone'
    BY <1>12
       DEF CallWaitForChildExit, InMain, ReaperAlone, ToHandle, Abnormal, Untouched, Types,
           Live, Code, MainAt
  <2>4. ExitInv'
    BY <1>12
       DEF CallWaitForChildExit, InMain, ExitInv, ToHandle, Abnormal, Unhandled, ReaperAlone,
           Untouched, Types, Live, Alive
  <2>5. WaitTellsTheTruth'
    BY <1>12
       DEF CallWaitForChildExit, InMain, WaitTellsTheTruth, ReaperAlone, ToHandle, Abnormal,
           Untouched, Types, Live, Code, NoCode
  <2> QED BY <2>1, <2>2, <2>3, <2>4, <2>5
<1>13. ASSUME NEW c \in Child, CallDestructor(c) PROVE IInv'
  <2>1. Types'
    BY <1>13 DEF CallDestructor, InMain, Types, Live, MainAt, Code, NoCode
  <2>2. Untouched'
    BY <1>13
       DEF CallDestructor, InMain, Untouched, Types, ReaperAlone, ToHandle, Abnormal, Live,
           Code, NoCode
  <2>3. ReaperAlone'
    BY <1>13
       DEF CallDestructor, InMain, ReaperAlone, ToHandle, Abnormal, Untouched, Types, Live,
           Code, MainAt
  <2>4. ExitInv'
    BY <1>13
       DEF CallDestructor, InMain, ExitInv, ToHandle, Abnormal, Unhandled, ReaperAlone,
           Untouched, Types, Live, Alive
  <2>5. WaitTellsTheTruth'
    BY <1>13
       DEF CallDestructor, InMain, WaitTellsTheTruth, ReaperAlone, ToHandle, Abnormal,
           Untouched, Types, Live, Code, NoCode
  <2> QED BY <2>1, <2>2, <2>3, <2>4, <2>5
<1>14. ASSUME NEW c \in Child, ChildPrctl(c) PROVE IInv'
  <2>1. Types'
    BY <1>14 DEF ChildPrctl, Types, Live, MainAt, Code, NoCode
  <2>2. Untouched'
    BY <1>14 DEF ChildPrctl, Untouched, Types, ReaperAlone, ToHandle, Abnormal, Live, Code, NoCode
  <2>3. ReaperAlone'
    BY <1>14 DEF ChildPrctl, ReaperAlone, ToHandle, Abnormal, Untouched, Types, Live, Code, MainAt
  <2>4. ExitInv'
    BY <1>14
       DEF ChildPrctl, ExitInv, ToHandle, Abnormal, Unhandled, ReaperAlone, Untouched, Types,
           Live, Alive
  <2>5. WaitTellsTheTruth'
    BY <1>14
       DEF ChildPrctl, WaitTellsTheTruth, ReaperAlone, ToHandle, Abnormal, Untouched, Types,
           Live, Code, NoCode
  <2> QED BY <2>1, <2>2, <2>3, <2>4, <2>5
<1>15. ASSUME NEW c \in Child, ChildCheck(c) PROVE IInv'
  <2>1. Types'
    BY <1>15 DEF ChildCheck, ChildEnds, Alive, Types, Live, MainAt, Code, NoCode
  <2>2. Untouched'
    BY <1>15
       DEF ChildCheck, ChildEnds, Alive, Untouched, Types, ReaperAlone, ToHandle, Abnormal,
           Live, Code, NoCode
  <2>3. ReaperAlone'
    BY <1>15
       DEF ChildCheck, ChildEnds, Alive, ReaperAlone, ToHandle, Abnormal, Untouched, Types,
           Live, Code, MainAt
  <2>4. ExitInv'
    BY <1>15
       DEF ChildCheck, ChildEnds, Alive, ExitInv, ToHandle, Abnormal, Unhandled, ReaperAlone,
           Untouched, Types, Live
  <2>5. WaitTellsTheTruth'
    BY <1>15
       DEF ChildCheck, ChildEnds, Alive, WaitTellsTheTruth, ReaperAlone, ToHandle, Abnormal,
           Untouched, Types, Live, Code, NoCode
  <2> QED BY <2>1, <2>2, <2>3, <2>4, <2>5
<1>16. ASSUME NEW c \in Child, ChildExit(c) PROVE IInv'
  <2>1. Types'
    BY <1>16 DEF ChildExit, ChildEnds, Alive, Types, Live, MainAt, Code, NoCode
  <2>2. Untouched'
    BY <1>16
       DEF ChildExit, ChildEnds, Alive, Untouched, Types, ReaperAlone, ToHandle, Abnormal,
           Live, Code, NoCode
  <2>3. ReaperAlone'
    BY <1>16
       DEF ChildExit, ChildEnds, Alive, ReaperAlone, ToHandle, Abnormal, Untouched, Types,
           Live, Code, MainAt
  <2>4. ExitInv'
    BY <1>16
       DEF ChildExit, ChildEnds, Alive, ExitInv, ToHandle, Abnormal, Unhandled, ReaperAlone,
           Untouched, Types, Live
  <2>5. WaitTellsTheTruth'
    BY <1>16
       DEF ChildExit, ChildEnds, Alive, WaitTellsTheTruth, ReaperAlone, ToHandle, Abnormal,
           Untouched, Types, Live, Code, NoCode
  <2> QED BY <2>1, <2>2, <2>3, <2>4, <2>5
<1>17. CASE UNCHANGED fvars
  BY <1>17
     DEF fvars, Types, Untouched, ReaperAlone, ToHandle, Abnormal, ExitInv, Unhandled,
         WaitTellsTheTruth
<1> QED
  BY <1>1, <1>2, <1>3, <1>4, <1>5, <1>6, <1>7, <1>8, <1>9,
     <1>10, <1>11, <1>12, <1>13, <1>14, <1>15, <1>16, <1>17
  DEF FNext, MainStep, SigStep, MainCall

-----------------------------------------------------------------------------
\* Whichever of them reaps a child: the parent exits only with the status of a child
\* that ended abnormally and that no handler took care of, and WaitForChildExit returns
\* only after the child ended, with the child's own code or with -1.
THEOREM EndsAreReportedTruly == FSpec => []EndsAreReported
<1>1. IInv => EndsAreReported
  BY DEF IInv, ExitInv, ToHandle, Unhandled, EndsAreReported, ExitIsJustified
<1> QED BY InitInv, StepInv, <1>1, PTL DEF FSpec

-----------------------------------------------------------------------------
(* Notifications. *)

USE DEF In, Out, HasBeenNotified, NotifyAt, WaitAt

\* In the initial states every thread is outside of a call.
LEMMA InitOnce == Init => OnceInv
  BY DEF Init, NInit, OnceInv, NTypeOK, NoCheckFails, NoLostWakeup,
         SleeperIsAnnounced, NotifierView, Word, At

\* A step changes the types of nothing.
LEMMA TypeStep == NTypeOK /\ [Next]_nvars => NTypeOK'
<1> SUFFICES ASSUME NTypeOK, [Next]_nvars PROVE NTypeOK'
  OBVIOUS
<1> USE DEF NTypeOK, Word, At, MovedTo, Set
<1>1. ASSUME NEW t \in Thread, NEW n \in Note, Notify(t, n) PROVE NTypeOK'
  BY <1>1 DEF Notify, CallNotify
<1>2. ASSUME NEW t \in Thread, NEW n \in Note, Wait(t, n) PROVE NTypeOK'
  BY <1>2 DEF Wait, CallWait
<1>3. ASSUME NEW t \in Thread, NotifyStep(t) PROVE NTypeOK'
  <2>1. CASE NotifyLoad(t)
    BY ZenonT(30), <2>1 DEF NotifyLoad
  <2>2. CASE NotifyCheck(t)
    BY <2>2 DEF NotifyCheck
  <2>3. CASE NotifyExchange(t)
    BY <2>3 DEF NotifyExchange
  <2>4. CASE NotifyRetry(t)
    BY <2>4 DEF NotifyRetry
  <2>5. CASE NotifyWake(t)
    BY <2>5 DEF NotifyWake
  <2> QED
    BY <1>3, <2>1, <2>2, <2>3, <2>4, <2>5 DEF NotifyStep
<1>4. ASSUME NEW t \in Thread, WaitStep(t) PROVE NTypeOK'
  <2>1. CASE WaitLoad(t)
    BY <2>1 DEF WaitLoad
  <2>2. CASE WaitExchange(t)
    BY <2>2 DEF WaitExchange
  <2>3. CASE WaitRetry(t)
    BY <2>3 DEF WaitRetry
  <2>4. CASE WaitFutex(t)
    BY <2>4 DEF WaitFutex
  <2>5. CASE WaitSpurious(t)
    BY <2>5 DEF WaitSpurious
  <2>6. CASE WaitWoken(t)
    BY <2>6 DEF WaitWoken
  <2> QED
    BY <1>4, <2>1, <2>2, <2>3, <2>4, <2>5, <2>6 DEF WaitStep
<1>5. CASE UNCHANGED nvars
  BY <1>5 DEF nvars
<1> QED
  BY <1>1, <1>2, <1>3, <1>4, <1>5 DEF Next, CallStep

\* The other facts of the invariant, action by action.
Facts == NoCheckFails /\ NoLostWakeup /\ SleeperIsAnnounced /\ NotifierView

\* Every step of a thread keeps them.
LEMMA FactsStep == OnceInv /\ [Next]_nvars => Facts'
<1> SUFFICES ASSUME OnceInv, [Next]_nvars PROVE Facts'
  OBVIOUS
<1> USE DEF OnceInv, NTypeOK, Facts, NoCheckFails, NoLostWakeup,
            SleeperIsAnnounced, NotifierView, Word, At, MovedTo, Set
<1>1. ASSUME NEW t \in Thread, NEW n \in Note, Notify(t, n) PROVE Facts'
  BY <1>1 DEF Notify, CallNotify, Unclaimed
<1>2. ASSUME NEW t \in Thread, NEW n \in Note, Wait(t, n) PROVE Facts'
  BY <1>2 DEF Wait, CallWait
<1>3. ASSUME NEW t \in Thread, NotifyStep(t) PROVE Facts'
  <2>1. CASE NotifyLoad(t)
    BY <2>1 DEF NotifyLoad
  <2>2. CASE NotifyCheck(t)
    BY <2>2 DEF NotifyCheck
  <2>3. CASE NotifyExchange(t)
    BY <2>3 DEF NotifyExchange
  <2>4. CASE NotifyRetry(t)
    BY <2>4 DEF NotifyRetry
  <2>5. CASE NotifyWake(t)
    BY <2>5 DEF NotifyWake
  <2> QED
    BY <1>3, <2>1, <2>2, <2>3, <2>4, <2>5 DEF NotifyStep
<1>4. ASSUME NEW t \in Thread, WaitStep(t) PROVE Facts'
  <2>1. CASE WaitLoad(t)
    BY <2>1 DEF WaitLoad
  <2>2. CASE WaitExchange(t)
    BY <2>2 DEF WaitExchange
  <2>3. CASE WaitRetry(t)
    BY <2>3 DEF WaitRetry
  <2>4. CASE WaitFutex(t)
    BY <2>4 DEF WaitFutex
  <2>5. CASE WaitSpurious(t)
    <3>1. CASE frame' = MovedTo(t, "w_woken")
      BY <2>5, <3>1 DEF WaitSpurious
    <3>2. CASE frame' = MovedTo(t, "w_futex")
      BY <2>5, <3>2 DEF WaitSpurious
    <3> QED BY Zenon, <2>5, <3>1, <3>2 DEF WaitSpurious
  <2>6. CASE WaitWoken(t)
    BY <2>6 DEF WaitWoken
  <2> QED
    BY Zenon, <1>4, <2>1, <2>2, <2>3, <2>4, <2>5, <2>6 DEF WaitStep
<1>5. CASE UNCHANGED nvars
  BY <1>5 DEF nvars
<1> QED
  BY <1>1, <1>2, <1>3, <1>4, <1>5 DEF Next, CallStep

\* The inductive invariant of one-shot notifications (lib/base.cc Notify and
\* WaitForNotification) holds in every reachable state.
THEOREM OnceInvariant == Spec => []OnceInv
<1>1. OnceInv /\ [Next]_nvars => OnceInv'
  BY TypeStep, FactsStep DEF Facts, OnceInv
<1> QED
  BY InitOnce, <1>1, PTL DEF Spec

\* No thread ever sleeps in the futex of a notified notification without a
\* FUTEX_WAKE still to come (base.cc:51-86).
THEOREM NeverLost == Spec => []NoLostWakeup
<1>1. OnceInv => NoLostWakeup
  BY DEF OnceInv
<1> QED
  BY OnceInvariant, <1>1, PTL

\* The CHECK(!HasBeenNotified()) of Notify (base.cc:57) never fails.
THEOREM ChecksHold == Spec => []NoCheckFails
<1>1. OnceInv => NoCheckFails
  BY DEF OnceInv
<1> QED
  BY OnceInvariant, <1>1, PTL

\* The event of module Event, step by step: a wait begins, the word turns
\* kNotified once, a wait ends while it is kNotified; all else stutters.
LEMMA EventStep == OnceInv /\ [Next]_nvars => [E!ENext]_E!evars
<1> SUFFICES ASSUME OnceInv, [Next]_nvars PROVE [E!ENext]_E!evars
  OBVIOUS
<1> USE NoNoteAssumption
<1> USE DEF OnceInv, NTypeOK, NoCheckFails, SleeperIsAnnounced, NotifierView,
            Word, At, MovedTo, Set, E!ENext, E!evars, E!Raise, E!Await,
            E!Resume, EventRaised, EventWaiting
<1>1. ASSUME NEW t \in Thread, NEW n \in Note, Notify(t, n)
      PROVE  UNCHANGED E!evars
  BY <1>1 DEF Notify, CallNotify
<1>2. ASSUME NEW t \in Thread, NEW n \in Note, Wait(t, n)
      PROVE  E!Await(t, n)
  BY Zenon, <1>2 DEF Wait, CallWait
<1>3. ASSUME NEW t \in Thread, NotifyStep(t) PROVE [E!ENext]_E!evars
  <2>1. CASE NotifyLoad(t)
    <3>1. /\ word' = word
          /\ \A s \in Thread : /\ frame'[s].note = frame[s].note
                               /\ frame'[s].at \in WaitAt <=> frame[s].at \in WaitAt
      BY <2>1 DEF NotifyLoad
    <3>2. UNCHANGED EventRaised /\ UNCHANGED EventWaiting
      BY <3>1
    <3> QED
      BY <3>2
  <2>2. CASE NotifyCheck(t)
    BY <2>2 DEF NotifyCheck
  <2>3. CASE NotifyExchange(t)
    <3>1. E!Raise(frame[t].note)
      BY <2>3 DEF NotifyExchange
    <3> QED
      BY <3>1
  <2>4. CASE NotifyRetry(t)
    BY <2>4 DEF NotifyRetry
  <2>5. CASE NotifyWake(t)
    BY <2>5 DEF NotifyWake
  <2> QED
    BY Zenon, <1>3, <2>1, <2>2, <2>3, <2>4, <2>5 DEF NotifyStep
<1>4. ASSUME NEW t \in Thread, WaitStep(t)
      PROVE  E!Resume(t) \/ UNCHANGED E!evars
  <2>1. CASE WaitLoad(t)
    BY ZenonT(30), <2>1 DEF WaitLoad
  <2>2. CASE WaitExchange(t)
    BY <2>2 DEF WaitExchange
  <2>3. CASE WaitRetry(t)
    BY <2>3 DEF WaitRetry
  <2>4. CASE WaitFutex(t)
    BY ZenonT(30), <2>4 DEF WaitFutex
  <2>5. CASE WaitSpurious(t)
    BY <2>5 DEF WaitSpurious
  <2>6. CASE WaitWoken(t)
    BY ZenonT(30), <2>6 DEF WaitWoken
  <2> QED
    BY Zenon, <1>4, <2>1, <2>2, <2>3, <2>4, <2>5, <2>6 DEF WaitStep
<1>5. CASE UNCHANGED nvars
  BY <1>5 DEF nvars
<1> HIDE DEF E!evars, E!Raise, E!Await, E!Resume, OnceInv
<1>6. ASSUME NEW t \in Thread, NEW n \in Note, Wait(t, n) PROVE E!ENext
  BY <1>2, <1>6
<1>7. ASSUME NEW t \in Thread, WaitStep(t) PROVE [E!ENext]_E!evars
  BY <1>4, <1>7
<1> HIDE DEF E!ENext
<1> QED
  BY <1>1, <1>3, <1>5, <1>6, <1>7 DEF Next, CallStep

\* WaitForNotification returns only after Notify (base.h:342-344): the words
\* and frames implement the safety part of the event.
THEOREM ImplementsEventSafely == Spec => E!ESafe
<1>1. Init => E!EInit
  BY DEF Init, NInit, E!EInit, EventRaised, EventWaiting
<1> QED
  BY <1>1, EventStep, OnceInvariant, PTL DEF Spec, E!ESafe
=============================================================================
