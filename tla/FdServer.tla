----------------------------- MODULE FdServer -----------------------------
(***************************************************************************)
(* The file-descriptor server, shared/fd_server: an AsyncFdServer listens  *)
(* on a socket in a thread of its own and hands a descriptor to a client   *)
(* that knows the nonce.  It serves once and gives up after a timeout; the *)
(* number of threads is limited.                                           *)
(*                                                                         *)
(* Sockets, epoll and time are external: a server waits in epoll_wait      *)
(* until an edge is pending on the descriptor it registered, or until the  *)
(* timeout, which may come whenever no edge is pending.                    *)
(***************************************************************************)
EXTENDS Integers, Sequences, FiniteSets

CONSTANTS Server,        \* AsyncFdServer objects, InitAndServe called on each once
          Client,
          kMaxNrThreads,
          Together,      \* whether InitAndServe may run on two objects at a time
          None           \* no client or server

VARIABLES nr_threads,
          srv,      \* srv[s]: what the caller or the thread of s is doing
          backlog,  \* backlog[s]: connections not yet accepted
          edge,     \* edge[s]: an event is pending on the registered descriptor
          cl        \* cl[c]: what client c is doing

vars == <<nr_threads, srv, backlog, edge, cl>>

\* A client knows the nonce, or sends something else, or sends nothing.
Kind == {"good", "bad", "silent"}

Init ==
  /\ nr_threads = 0
  /\ srv = [s \in Server |-> [pc |-> "idle", conn |-> None, result |-> ""]]
  /\ backlog = [s \in Server |-> << >>]
  /\ edge = [s \in Server |-> FALSE]
  /\ cl = [c \in Client |-> [pc |-> "idle", kind |-> "", s |-> None]]

Goes(s, pc) == srv' = [srv EXCEPT ![s].pc = pc]

-----------------------------------------------------------------------------
(* InitAndServe *)

\* Init: the sockets are made; a client can connect from here on.
InitServer(s) ==
  /\ srv[s].pc = "idle"
  /\ Together \/ \A r \in Server : srv[r].pc \notin {"check", "count"}
  /\ Goes(s, "check")
  /\ UNCHANGED <<nr_threads, backlog, edge, cl>>

\* The sockets of s are closed: who waits for an answer sees the end.
Refused(s, c) ==
  IF cl[c].s = s /\ cl[c].pc \in {"connected", "waiting"}
  THEN [cl[c] EXCEPT !.pc = "refused"] ELSE cl[c]

Hangs(s) ==
  /\ cl' = [c \in Client |-> Refused(s, c)]
  /\ backlog' = [backlog EXCEPT ![s] = << >>]

CheckLimit(s) ==
  /\ srv[s].pc = "check"
  /\ IF nr_threads >= kMaxNrThreads
     THEN /\ srv' = [srv EXCEPT ![s].pc = "done", ![s].result = "exhausted"]
          /\ Hangs(s)
     ELSE Goes(s, "count") /\ UNCHANGED <<backlog, cl>>
  /\ UNCHANGED <<nr_threads, edge>>

\* nr_threads_++ and the thread.  It begins by registering the socket.
Spawn(s) ==
  /\ srv[s].pc = "count"
  /\ nr_threads' = nr_threads + 1
  /\ Goes(s, "accept")
  /\ edge' = [edge EXCEPT ![s] = backlog[s] # << >>]
  /\ UNCHANGED <<backlog, cl>>

-----------------------------------------------------------------------------
(* Serve, HandleConnection and WaitForFdCmd *)

\* Serve returns; the connection of client c, if there is one, is closed.
Return(s, c, result, answer) ==
  /\ srv' = [srv EXCEPT ![s] = [pc |-> "uncount", conn |-> None, result |-> result]]
  /\ cl' = [d \in Client |->
              IF d = c /\ cl[d].pc \in {"connected", "waiting"}
              THEN [cl[d] EXCEPT !.pc = answer] ELSE cl[d]]

\* accept4 takes a connection, whose socket is registered next, or would block.
Accept(s) ==
  /\ srv[s].pc = "accept"
  /\ IF backlog[s] = << >>
     THEN Goes(s, "epoll_accept") /\ UNCHANGED <<backlog, edge>>
     ELSE /\ srv' = [srv EXCEPT ![s].pc = "recv", ![s].conn = Head(backlog[s])]
          /\ backlog' = [backlog EXCEPT ![s] = Tail(@)]
          /\ edge' = [edge EXCEPT ![s] = cl[Head(backlog[s])].pc = "waiting"]
  /\ UNCHANGED <<nr_threads, cl>>

\* Seeded fault of EpollWait: the timeout of a connection is infinite.
EpollWaitForever(s) ==
  /\ srv[s].pc \in {"epoll_accept", "epoll_recv"}
  /\ \/ /\ edge[s]
        /\ edge' = [edge EXCEPT ![s] = FALSE]
        /\ Goes(s, IF srv[s].pc = "epoll_accept" THEN "accept" ELSE "recv")
        /\ UNCHANGED cl
     \/ /\ ~edge[s] /\ srv[s].pc = "epoll_accept"
        /\ Return(s, None, "deadline", "refused") /\ UNCHANGED edge
  /\ UNCHANGED <<nr_threads, backlog>>

\* epoll_wait reports the edge, or times out.
EpollWait(s) ==
  /\ srv[s].pc \in {"epoll_accept", "epoll_recv"}
  /\ \/ /\ edge[s]
        /\ edge' = [edge EXCEPT ![s] = FALSE]
        /\ Goes(s, IF srv[s].pc = "epoll_accept" THEN "accept" ELSE "recv")
        /\ UNCHANGED cl
     \/ /\ ~edge[s]
        /\ Return(s, srv[s].conn, "deadline", "refused") /\ UNCHANGED edge
  /\ UNCHANGED <<nr_threads, backlog>>

\* The next connection: the socket is registered again.
NextConnection(s) ==
  /\ srv' = [srv EXCEPT ![s] = [pc |-> "accept", conn |-> None, result |-> ""]]
  /\ edge' = [edge EXCEPT ![s] = backlog[s] # << >>]

\* recvmsg gets a query, or would block.
Recv(s) ==
  /\ srv[s].pc = "recv"
  /\ Goes(s, CASE cl[srv[s].conn].pc \in {"waiting", "closed"} -> "reply"
               [] cl[srv[s].conn].pc = "connected" -> "epoll_recv")
  /\ UNCHANGED <<nr_threads, backlog, edge, cl>>

\* The wrong nonce, or nothing at all from a client that has closed: it is told so,
\* and Serve goes on.
BadNonce(s) ==
  LET c == srv[s].conn
  IN  /\ srv[s].pc = "reply"
      /\ cl[c].kind # "good"
      /\ cl' = [cl EXCEPT ![c].pc = IF @ = "waiting" THEN "refused" ELSE @]
      /\ NextConnection(s)
      /\ UNCHANGED <<nr_threads, backlog>>

\* Seeded fault of GoodNonce: the server goes on, as with serve_forever.
GoodNonceGoesOn(s) ==
  LET c == srv[s].conn
  IN  /\ srv[s].pc = "reply"
      /\ cl[c].kind = "good"
      /\ cl' = [cl EXCEPT ![c].pc = "got"]
      /\ NextConnection(s)
      /\ UNCHANGED <<nr_threads, backlog>>

\* The descriptor is sent, or the client has closed its end; Serve returns.
GoodNonce(s) ==
  LET c == srv[s].conn
  IN  /\ srv[s].pc = "reply"
      /\ cl[c].kind = "good"
      /\ Return(s, c, IF cl[c].pc = "closed" THEN "error" ELSE "ok", "got")
      /\ UNCHANGED <<nr_threads, backlog, edge>>

Uncount(s) ==
  /\ srv[s].pc = "uncount"
  /\ nr_threads' = nr_threads - 1
  /\ Goes(s, "close")
  /\ UNCHANGED <<backlog, edge, cl>>

\* The FdServer is destroyed after that, and its sockets are closed.
CloseServer(s) ==
  /\ srv[s].pc = "close"
  /\ Goes(s, "done")
  /\ Hangs(s)
  /\ UNCHANGED <<nr_threads, edge>>

-----------------------------------------------------------------------------
(* GetSharedFd, and other users of the socket *)

Listening(s) == srv[s].pc \notin {"idle", "done"}

Connect(c) ==
  /\ cl[c].pc = "idle"
  /\ \E s \in Server, k \in Kind :
       /\ Listening(s)
       /\ cl' = [cl EXCEPT ![c] = [pc |-> "connected", kind |-> k, s |-> s]]
       /\ backlog' = [backlog EXCEPT ![s] = Append(@, c)]
       /\ edge' = IF srv[s].pc \in {"accept", "epoll_accept"}
                  THEN [edge EXCEPT ![s] = TRUE] ELSE edge
  /\ UNCHANGED <<nr_threads, srv>>

\* The client sends its query and waits in recvmsg; it may die, and another task
\* that sends nothing may close its end.
Wakes(c) ==
  LET s == cl[c].s
  IN  edge' = IF srv[s].conn = c THEN [edge EXCEPT ![s] = TRUE] ELSE edge

Send(c) ==
  /\ cl[c].pc = "connected" /\ cl[c].kind # "silent"
  /\ cl' = [cl EXCEPT ![c].pc = "waiting"]
  /\ Wakes(c)
  /\ UNCHANGED <<nr_threads, srv, backlog>>

Close(c) ==
  /\ \/ cl[c].pc = "connected" /\ cl[c].kind = "silent"
     \/ cl[c].pc = "waiting" /\ cl[c].kind = "good"
  /\ cl' = [cl EXCEPT ![c].pc = "closed"]
  /\ Wakes(c)
  /\ UNCHANGED <<nr_threads, srv, backlog>>

Thread(s) ==
  \/ CheckLimit(s) \/ Spawn(s)
  \/ Accept(s) \/ EpollWait(s) \/ Recv(s) \/ BadNonce(s) \/ GoodNonce(s) \/ Uncount(s)
  \/ CloseServer(s)

Over ==
  /\ \A s \in Server : srv[s].pc = "done"
  /\ UNCHANGED vars

Next ==
  \/ \E s \in Server : InitServer(s) \/ Thread(s)
  \/ \E c \in Client : Connect(c) \/ Send(c) \/ Close(c)
  \/ Over

\* Threads run, and GetSharedFd sends what it has to; nothing is asked of others.
Fairness == \A s \in Server : WF_vars(Thread(s))

Spec == Init /\ [][Next]_vars /\ Fairness

-----------------------------------------------------------------------------
\* nr_threads_ is the number of running threads, and a connection being handled
\* was made to its server.
CountExact ==
  /\ nr_threads = Cardinality({s \in Server : srv[s].pc \notin {"idle", "check", "count", "close", "done"}})
  /\ \A s \in Server : srv[s].conn # None => cl[srv[s].conn].s = s

\* "Will limit the number of outstanding threads": there are never more than
\* kMaxNrThreads.
ThreadLimit == nr_threads <= kMaxNrThreads

\* "Serves once and shuts down": one client at most gets the descriptor of a
\* server, and only for the nonce; and a server that returns without having served
\* has waited for a whole timeout or lost its client, whoever else connected.
ServesOnce ==
  \A s \in Server :
    LET got == {c \in Client : cl[c].s = s /\ cl[c].pc = "got"}
    IN  /\ \A c \in got : cl[c].kind = "good"
        /\ Cardinality(got) <= 1
        /\ srv[s].pc \in {"uncount", "close", "done"} =>
             srv[s].result \in (IF got = {} THEN {"deadline", "exhausted", "error"} ELSE {"ok"})

\* No client is left waiting: a query is answered, or the server goes away.
ClientReturns == \A c \in Client : cl[c].pc = "waiting" ~> cl[c].pc # "waiting"
=============================================================================
