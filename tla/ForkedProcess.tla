---------------------------- MODULE ForkedProcess ----------------------------
(***************************************************************************)
(* ghost::ForkedProcess (lib/base.h, lib/base.cc): a parent, the children  *)
(* it forks, the table of children under the mutex mu_, and the SIGCHLD    *)
(* handler that interrupts the parent's thread.                            *)
(*                                                                         *)
(* The kernel's side is external: SIGCHLD is one pending bit, dropped while*)
(* no handler is installed; PR_SET_PDEATHSIG kills the children that have  *)
(* called prctl when the parent dies.  A status is an exit code, or -1 for *)
(* death by a signal, which is how HandleIfAbnormalExit folds them.        *)
(***************************************************************************)
EXTENDS Integers

CONSTANTS Child,    \* the ForkedProcess objects the parent constructs
          Handler   \* those of them whose exit handler handles the exit

\* What is assumed of the constants.
HandlerAssumption == Handler \subseteq Child

VARIABLES
  proc,       \* proc[c]: the child process
  status,     \* status[c]: how the process ended
  told,       \* the children whose death raised SIGCHLD with a handler installed
  installed,  \* signal(SIGCHLD, HandleSigchild) has run
  pending,    \* SIGCHLD is pending
  children,   \* GetAllChildren(): the table of registered objects
  mu,         \* who holds mu_: "free", "main" or "handler"
  main,       \* the parent's thread: where it is, and on which object
  sig,        \* the SIGCHLD handler on top of it
  handled,    \* the children whose abnormal exit a handler took care of
  result,     \* result[c]: what WaitForChildExit returned
  parent      \* the parent process: alive, killed, or the code of its exit()

fvars == <<proc, status, told, installed, pending, children, mu, main, sig,
           handled, result, parent>>

Code == {-1, 0, 1}
NoCode == 2      \* not a status: nothing happened yet
Some == CHOOSE c \in Child : TRUE
Live == {"forked", "armed", "running"}
MainAt == {"idle", "signal", "lock", "insert", "waitpid", "wlock", "whandle",
           "dlock", "erase"}

FTypeOK ==
  /\ proc \in [Child -> {"none", "zombie", "reaped"} \cup Live]
  /\ status \in [Child -> Code \cup {NoCode}]
  /\ told \subseteq Child /\ children \subseteq Child /\ handled \subseteq Child
  /\ installed \in BOOLEAN /\ pending \in BOOLEAN
  /\ mu \in {"free", "main", "handler"}
  /\ main \in [at : MainAt, on : Child]
  /\ sig \in [at : {"none", "lock", "handle"}, on : Child]
  /\ result \in [Child -> Code \cup {NoCode}]
  /\ parent \in {"alive", "killed", "exit"} \X (Code \cup {NoCode})

FInit ==
  /\ proc = [c \in Child |-> "none"]
  /\ status = [c \in Child |-> NoCode]
  /\ told = {} /\ children = {} /\ handled = {}
  /\ installed = FALSE /\ pending = FALSE
  /\ mu = "free"
  /\ main = [at |-> "idle", on |-> Some]
  /\ sig = [at |-> "none", on |-> Some]
  /\ result = [c \in Child |-> NoCode]
  /\ parent = <<"alive", NoCode>>

Alive == parent[1] = "alive"

\* The parent's thread runs when no signal handler is on top of it.
InMain(where) == Alive /\ sig.at = "none" /\ main.at = where
MainGoto(where) == main' = [main EXCEPT !.at = where]

\* The parent is gone: its children that asked for PDEATHSIG die with it, and
\* what is left of its children is reaped by init.
ParentEnds(how) ==
  /\ parent' = how
  /\ proc' = [c \in Child |-> IF proc[c] \in {"armed", "running", "zombie"}
                              THEN "reaped" ELSE proc[c]]

-----------------------------------------------------------------------------
(* The constructor in the parent *)

Fork(c) ==
  /\ InMain("idle")
  /\ proc[c] = "none"
  /\ proc' = [proc EXCEPT ![c] = "forked"]
  /\ main' = [at |-> "signal", on |-> c]
  /\ UNCHANGED <<status, told, installed, pending, children, mu, sig, handled,
                 result, parent>>

InstallSignal ==
  /\ InMain("signal")
  /\ installed' = TRUE
  /\ MainGoto("lock")
  /\ UNCHANGED <<proc, status, told, pending, children, mu, sig, handled, result,
                 parent>>

\* absl::MutexLock in the thread: the constructor, WaitForChildExit (by way of
\* HandleAbnormalExit) and the destructor take mu_.
MainLock ==
  /\ \/ InMain("lock") /\ MainGoto("insert")
     \/ InMain("wlock") /\ MainGoto("whandle")
     \/ InMain("dlock") /\ MainGoto("erase")
  /\ mu = "free"
  /\ mu' = "main"
  /\ UNCHANGED <<proc, status, told, installed, pending, children, sig, handled,
                 result, parent>>

Insert ==
  /\ InMain("insert")
  /\ children' = children \cup {main.on}
  /\ mu' = "free"
  /\ MainGoto("idle")
  /\ UNCHANGED <<proc, status, told, installed, pending, sig, handled, result,
                 parent>>

-----------------------------------------------------------------------------
(* The child: prctl, the getppid check, and its end *)

ChildPrctl(c) ==
  /\ proc[c] = "forked"
  /\ proc' = [proc EXCEPT ![c] = "armed"]
  /\ UNCHANGED <<status, told, installed, pending, children, mu, main, sig,
                 handled, result, parent>>

\* The process ends with a status.  SIGCHLD is raised if someone handles it;
\* with the default action it is dropped.
ChildEnds(c, code) ==
  /\ status' = [status EXCEPT ![c] = code]
  /\ proc' = [proc EXCEPT ![c] = IF Alive THEN "zombie" ELSE "reaped"]
  /\ pending' = (pending \/ (Alive /\ installed))
  /\ told' = IF Alive /\ installed THEN told \cup {c} ELSE told
  /\ UNCHANGED <<installed, children, mu, main, sig, handled, result, parent>>

\* Seeded fault of ChildCheck: no look at getppid after prctl.
ChildUnchecked(c) ==
  /\ proc[c] = "armed"
  /\ proc' = [proc EXCEPT ![c] = "running"]
  /\ UNCHANGED <<status, told, installed, pending, children, mu, main, sig,
                 handled, result, parent>>

ChildCheck(c) ==
  /\ proc[c] = "armed"
  /\ \/ /\ Alive
        /\ proc' = [proc EXCEPT ![c] = "running"]
        /\ UNCHANGED <<status, told, installed, pending, children, mu, main,
                       sig, handled, result, parent>>
     \/ ~Alive /\ ChildEnds(c, 1)

\* The child's program returns or fails, at any time; before that a CHECK or a
\* signal (KillChild among them) may end it.
ChildExit(c) ==
  \/ proc[c] = "running" /\ \E code \in Code : ChildEnds(c, code)
  \/ proc[c] \in {"forked", "armed"} /\ ChildEnds(c, -1)

-----------------------------------------------------------------------------
(* HandleSigchild, HandleIfAbnormalExit, HandleAbnormalExit *)

\* The code the parent exits with: the child's, or -1 after a signal.
ExitCode(c) == status[c]

\* Seeded fault of Unhandled: the return value of the handlers is ignored.
NobodyHandles(c) == TRUE

\* HandleAbnormalExit(c) returns false: not in the table, or no handler took it.
Unhandled(c) == ~(c \in children /\ c \in Handler)

\* One waitpid(-1, WNOHANG) per delivered signal, whatever number of children
\* ended; SIGCHLD stays blocked while the handler runs.
DeliverSigchld ==
  /\ Alive /\ pending /\ sig.at = "none"
  /\ pending' = FALSE
  /\ \/ /\ \A c \in Child : proc[c] # "zombie"
        /\ UNCHANGED <<proc, sig>>
     \/ \E c \in Child :
          /\ proc[c] = "zombie"
          /\ proc' = [proc EXCEPT ![c] = "reaped"]
          /\ sig' = [at |-> IF status[c] = 0 THEN "none" ELSE "lock", on |-> c]
  /\ UNCHANGED <<status, told, installed, children, mu, main, handled, result,
                 parent>>

SigLock ==
  /\ Alive /\ sig.at = "lock" /\ mu = "free"
  /\ mu' = "handler"
  /\ sig' = [sig EXCEPT !.at = "handle"]
  /\ UNCHANGED <<proc, status, told, installed, pending, children, main,
                 handled, result, parent>>

SigHandle ==
  /\ Alive /\ sig.at = "handle"
  /\ mu' = "free"
  /\ sig' = [sig EXCEPT !.at = "none"]
  /\ IF Unhandled(sig.on)
     THEN /\ ParentEnds(<<"exit", ExitCode(sig.on)>>)
          /\ UNCHANGED handled
     ELSE /\ handled' = handled \cup {sig.on}
          /\ UNCHANGED <<proc, parent>>
  /\ UNCHANGED <<status, told, installed, pending, children, main, result>>

-----------------------------------------------------------------------------
(* WaitForChildExit *)

CallWaitForChildExit(c) ==
  /\ InMain("idle")
  /\ c \in children /\ result[c] = NoCode
  /\ main' = [at |-> "waitpid", on |-> c]
  /\ UNCHANGED <<proc, status, told, installed, pending, children, mu, sig,
                 handled, result, parent>>

\* The call returns what waitpid or the exit status gave.
Returns(value) ==
  /\ result' = [result EXCEPT ![main.on] = value]
  /\ MainGoto("idle")

\* Seeded fault of Waitpid: try again when waitpid fails.
WaitpidRetries ==
  /\ InMain("waitpid")
  /\ proc[main.on] = "zombie"
  /\ proc' = [proc EXCEPT ![main.on] = "reaped"]
  /\ IF status[main.on] = 0 THEN Returns(0) ELSE MainGoto("wlock") /\ UNCHANGED result
  /\ UNCHANGED <<status, told, installed, pending, children, mu, sig, handled,
                 parent>>

\* waitpid(child_) reaps the child, or fails because the signal handler has.
Waitpid ==
  /\ InMain("waitpid")
  /\ \/ /\ proc[main.on] = "zombie"
        /\ proc' = [proc EXCEPT ![main.on] = "reaped"]
        /\ IF status[main.on] = 0
           THEN Returns(0)
           ELSE MainGoto("wlock") /\ UNCHANGED result
     \/ /\ proc[main.on] = "reaped"
        /\ Returns(-1)
        /\ UNCHANGED proc
  /\ UNCHANGED <<status, told, installed, pending, children, mu, sig, handled,
                 parent>>

WaitHandle ==
  /\ InMain("whandle")
  /\ mu' = "free"
  /\ IF Unhandled(main.on)
     THEN /\ ParentEnds(<<"exit", ExitCode(main.on)>>)
          /\ UNCHANGED <<handled, result, main>>
     ELSE /\ handled' = handled \cup {main.on}
          /\ Returns(status[main.on])
          /\ UNCHANGED <<proc, parent>>
  /\ UNCHANGED <<status, told, installed, pending, children, sig>>

-----------------------------------------------------------------------------
(* The destructor, and the death of the parent for a reason of its own *)

CallDestructor(c) ==
  /\ InMain("idle")
  /\ c \in children
  /\ main' = [at |-> "dlock", on |-> c]
  /\ UNCHANGED <<proc, status, told, installed, pending, children, mu, sig,
                 handled, result, parent>>

Erase ==
  /\ InMain("erase")
  /\ children' = children \ {main.on}
  /\ mu' = "free"
  /\ MainGoto("idle")
  /\ UNCHANGED <<proc, status, told, installed, pending, sig, handled, result,
                 parent>>

ParentKilled ==
  /\ Alive
  /\ ParentEnds(<<"killed", NoCode>>)
  /\ UNCHANGED <<status, told, installed, pending, children, mu, main, sig,
                 handled, result>>

-----------------------------------------------------------------------------
\* What runs by itself: the steps inside a call, and the handler.
MainStep == InstallSignal \/ MainLock \/ Insert \/ Waitpid \/ WaitHandle \/ Erase
SigStep == DeliverSigchld \/ SigLock \/ SigHandle

\* What the parent's program chooses to call.
MainCall(c) == Fork(c) \/ CallWaitForChildExit(c) \/ CallDestructor(c)

FNext ==
  \/ MainStep
  \/ SigStep
  \/ ParentKilled
  \/ \E c \in Child : MainCall(c) \/ ChildPrctl(c) \/ ChildCheck(c) \/ ChildExit(c)

FSpec == FInit /\ [][FNext]_fvars

\* Threads of a process are scheduled, a pending signal is delivered; nothing
\* obliges the parent to call anything or a child to end.
FFairness ==
  /\ WF_fvars(MainStep)
  /\ WF_fvars(SigStep)
  /\ \A c \in Child : WF_fvars(ChildPrctl(c)) /\ WF_fvars(ChildCheck(c))

-----------------------------------------------------------------------------
(* Properties *)

Abnormal(c) == status[c] \in Code \ {0}

\* The handler waits for a mutex that the thread it interrupted holds.
SelfDeadlock == Alive /\ sig.at = "lock" /\ mu = "main"

\* The parent calls exit(k) only with the status k of a child that ended
\* abnormally and whose exit was not handled (HandleIfAbnormalExit, from the
\* signal handler or from WaitForChildExit).
ExitIsJustified ==
  parent[1] = "exit" =>
    \E c \in Child \ handled : /\ Abnormal(c)
                               /\ parent[2] = status[c]
                               /\ ~(c \in Handler /\ c \in children)

\* Whoever reaps the child, the signal handler or WaitForChildExit itself, a
\* wait that returned did so after the child ended, and a code that is not -1
\* is the child's.
WaitTellsTheTruth ==
  \A c \in Child : result[c] # NoCode =>
    /\ proc[c] = "reaped"
    /\ result[c] # -1 => result[c] = status[c]

\* What the parent does and says about a child that ended is true.
EndsAreReported == ExitIsJustified /\ WaitTellsTheTruth

\* "If the parent dies, the child dies": also when it dies between the child's
\* fork and its prctl, which PDEATHSIG misses and the getppid check catches.
ChildrenDieWithParent ==
  \A c \in Child :
    (~Alive) ~> (proc[c] \in {"none", "reaped"})

\* WaitForChildExit returns once the child has ended, also when the signal
\* handler reaped it first, unless the parent is gone or stuck in the handler.
WaitEnds ==
  \A c \in Child :
    (main.at = "waitpid" /\ main.on = c /\ proc[c] \in {"zombie", "reaped"})
      ~> (main.at = "idle" \/ ~Alive \/ SelfDeadlock)

\* "If the child exits with a non-zero status or is terminated by a signal, the
\* parent exits with the same error": the constructor forks before it installs
\* the SIGCHLD handler.
ChildDeathIsNoticed ==
  \A c \in Child : (proc[c] = "zombie" /\ Abnormal(c)) ~> (~Alive \/ c \in handled)

\* The same for deaths that did raise SIGCHLD, in a parent whose handler is not
\* stuck: "the signal will allow the parent to handle it".
SignalledDeathIsNoticed ==
  \A c \in Child :
    (c \in told /\ Abnormal(c)) ~> (~Alive \/ c \in handled \/ SelfDeadlock)

\* "The parent might be in a busy loop or otherwise held up. If the child dies in
\* those scenarios, the signal will allow the parent to handle it": the handler
\* can take mu_ whatever the thread it interrupts is doing.
HandlerCanLock == ~SelfDeadlock

\* "A parent can wait on a child, which will catch the normal exit(0)".
WaitCatchesNormalExit ==
  \A c \in Child : (result[c] # NoCode /\ status[c] = 0) => result[c] = 0
=============================================================================
