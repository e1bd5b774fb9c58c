------------------------------- MODULE Server -------------------------------
(***************************************************************************)
(* net/server.c: the TCP server.  libp2p_net_server_start creates the      *)
(* listener thread, which accepts connections and hands each one to a      *)
(* thread pool; libp2p_net_server_stop sets a flag the listener and the    *)
(* handlers poll, and joins the listener.                                  *)
(*                                                                         *)
(* The pool is a JobService, which ThreadPool is shown to implement; its   *)
(* jobs are connections.  What a handler does with a message is one        *)
(* outcome, the sign of what libp2p_protocol_marshal returns.              *)
(***************************************************************************)
EXTENDS Integers, FiniteSets, Sequences, Functions

CONSTANTS
  Conn,        \* connections peers may open
  NoConn,      \* what an idle worker handles
  Worker,      \* threads of the pool; 25 in the code
  Limit,       \* connections accepted at most; 50 in the code
  MaxStarts    \* bound: calls of libp2p_net_server_start

ASSUME LimitAssumption == Limit \in Nat \ {0} /\ MaxStarts \in Nat
ASSUME ConnAssumption == IsFiniteSet(Conn) /\ NoConn \notin Conn

VARIABLES
  server_shutting_down,
  listener,    \* where libp2p_server_listen is; "none": no thread, "done": it returned
  stopper,     \* "joining" inside libp2p_net_server_stop, else "idle"
  starts,      \* calls of libp2p_net_server_start
  count,       \* the listener's counter of connections
  conn,        \* what became of each connection
  handler,     \* where each worker is in libp2p_net_connection
  fds,         \* connections whose descriptor is open on our side
  state, pending, running, finished, discarded   \* the pool

pool == <<state, pending, running, finished, discarded>>
vars == <<server_shutting_down, listener, stopper, starts, count, conn, handler, fds, pool>>

Pool == INSTANCE JobService WITH Job <- Conn, NoJob <- NoConn

Init ==
  /\ server_shutting_down = 0
  /\ listener = "none" /\ stopper = "idle" /\ starts = 0 /\ count = 0
  /\ conn = [c \in Conn |-> "away"]
  /\ handler = [w \in Worker |-> "idle"]
  /\ fds = {}
  /\ Pool!Init

libp2p_net_server_start ==
  /\ listener = "none" /\ stopper = "idle" /\ starts < MaxStarts
  /\ starts' = starts + 1
  /\ listener' = "created"
  /\ UNCHANGED <<server_shutting_down, stopper, count, conn, handler, fds, pool>>

(***************************************************************************)
(* libp2p_server_listen                                                    *)
(***************************************************************************)
\* The first statement of the thread: it forgets a stop that came before.
ListenBegin ==
  /\ listener = "created"
  /\ server_shutting_down' = 0
  /\ count' = 0
  /\ listener' = "begun"
  /\ UNCHANGED <<stopper, starts, conn, handler, fds, pool>>

\* thpool_init, then socket_listen.  When that fails the thread returns and leaves the
\* pool behind: its idle threads stay, and no later call knows of them.
Listen ==
  /\ listener = "begun"
  /\ \/ listener' = "select" /\ Pool!Open
     \/ listener' = "done" /\ UNCHANGED pool
  /\ UNCHANGED <<server_shutting_down, stopper, starts, count, conn, handler, fds>>

\* A peer connects: the kernel queues it until the listener accepts.
Connect(c) ==
  /\ listener \in {"select", "accept"} /\ conn[c] = "away"
  /\ conn' = [conn EXCEPT ![c] = "waiting"]
  /\ UNCHANGED <<server_shutting_down, listener, stopper, starts, count, handler, fds, pool>>

\* socket_read_select4 returned, and the flag is polled; a timeout just loops.
SelectReturns ==
  /\ listener = "select"
  /\ IF server_shutting_down = 1
       THEN /\ listener' = "destroy"
            /\ Pool!Close
       ELSE /\ \E c \in Conn : conn[c] = "waiting"
            /\ listener' = "accept"
            /\ UNCHANGED pool
  /\ UNCHANGED <<server_shutting_down, stopper, starts, count, conn, handler, fds>>

\* Mutant: the limit is tested before accept, so the connection keeps waiting.
Refuse_NotAccepted(c) == count >= Limit /\ UNCHANGED <<count, conn, fds, pool>>

\* The limit is reached: the descriptor is closed at once.
Refuse(c) ==
  /\ count >= Limit
  /\ conn' = [conn EXCEPT ![c] = "refused"]
  /\ UNCHANGED <<count, fds, pool>>

\* Mutant: one connection too many.
Serve_OffByOne(c) ==
  /\ count <= Limit
  /\ count' = count + 1
  /\ conn' = [conn EXCEPT ![c] = "served"]
  /\ fds' \in {fds, fds \cup {c}}
  /\ Pool!Submit(c)

\* The connection becomes a job of the pool.  If the peer gave up in the meantime
\* accept returns -1, which nobody checks: the job runs on that descriptor.
Serve(c) ==
  /\ count < Limit
  /\ count' = count + 1
  /\ conn' = [conn EXCEPT ![c] = "served"]
  /\ fds' \in {fds, fds \cup {c}}
  /\ Pool!Submit(c)

\* No memory for the parameters: the slot and the descriptor are used up.
Lose(c) ==
  /\ count < Limit
  /\ count' = count + 1
  /\ conn' = [conn EXCEPT ![c] = "lost"]
  /\ fds' = fds \cup {c}
  /\ UNCHANGED pool

Accept(c) ==
  /\ listener = "accept" /\ conn[c] = "waiting"
  /\ Refuse(c) \/ Serve(c) \/ Lose(c)
  /\ listener' = "select"
  /\ UNCHANGED <<server_shutting_down, stopper, starts, handler>>

\* Mutant: the thread returns without thpool_destroy.
ListenReturns_PoolLeft ==
  /\ listener = "destroy"
  /\ listener' = "done"
  /\ conn' = [c \in Conn |-> IF conn[c] = "waiting" THEN "reset" ELSE conn[c]]
  /\ UNCHANGED <<server_shutting_down, stopper, starts, count, handler, fds, pool>>

\* thpool_destroy returns; the listening socket is closed, and what the kernel had
\* queued on it is gone.
ListenReturns ==
  /\ listener = "destroy"
  /\ Pool!Discard
  /\ listener' = "done"
  /\ conn' = [c \in Conn |-> IF conn[c] = "waiting" THEN "reset" ELSE conn[c]]
  /\ UNCHANGED <<server_shutting_down, stopper, starts, count, handler, fds>>

(***************************************************************************)
(* libp2p_net_connection, on a worker of the pool                          *)
(***************************************************************************)
Begin(w) ==
  /\ Pool!Begin(w)
  /\ handler' = [handler EXCEPT ![w] = "read"]
  /\ UNCHANGED <<server_shutting_down, listener, stopper, starts, count, conn, fds>>

\* The function returns.  The descriptor is not closed, and connection_param->count
\* is a copy: neither fds nor count changes.
End(w) ==
  /\ Pool!Finish(w)
  /\ handler' = [handler EXCEPT ![w] = "idle"]
  /\ UNCHANGED <<server_shutting_down, listener, stopper, starts, count, conn, fds>>

\* No stream for lack of memory, nothing to read within DEFAULT_NETWORK_TIMEOUT, or
\* the peer closed.
ReadFails(w) ==
  /\ handler[w] = "read"
  /\ End(w)

ReadMessage(w) ==
  /\ handler[w] = "read" /\ running[w] \in fds
  /\ handler' = [handler EXCEPT ![w] = "marshal"]
  /\ UNCHANGED <<server_shutting_down, listener, stopper, starts, count, conn, fds, pool>>

\* Mutant: the handler does not poll the flag.
Marshal_NoPoll(w, retVal) ==
  /\ handler[w] = "marshal"
  /\ \/ retVal < 0 /\ End(w)
     \/ /\ ~(retVal < 0)
        /\ handler' = [handler EXCEPT ![w] = "read"]
        /\ UNCHANGED <<server_shutting_down, listener, stopper, starts, count, conn, fds,
                       pool>>

\* libp2p_protocol_marshal returned; the loop ends on an error or when the server stops.
Marshal(w, retVal) ==
  /\ handler[w] = "marshal"
  /\ \/ (retVal < 0 \/ server_shutting_down = 1) /\ End(w)
     \/ /\ ~(retVal < 0 \/ server_shutting_down = 1)
        /\ handler' = [handler EXCEPT ![w] = "read"]
        /\ UNCHANGED <<server_shutting_down, listener, stopper, starts, count, conn, fds,
                       pool>>
\* server_shutting_down = 1, and into pthread_join ...
libp2p_net_server_stop ==
  /\ listener # "none" /\ stopper = "idle"
  /\ server_shutting_down' = 1
  /\ stopper' = "joining"
  /\ UNCHANGED <<listener, starts, count, conn, handler, fds, pool>>

\* ... which returns when the listener thread has.
StopReturns ==
  /\ stopper = "joining" /\ listener = "done"
  /\ stopper' = "idle"
  /\ listener' = "none"
  /\ UNCHANGED <<server_shutting_down, starts, count, conn, handler, fds, pool>>

libp2p_server_listen ==
  \/ ListenBegin \/ Listen \/ SelectReturns \/ ListenReturns
  \/ \E c \in Conn : Accept(c)

libp2p_net_connection(w) ==
  \/ ReadFails(w) \/ ReadMessage(w)
  \/ \E retVal \in {-1, 0, 1} : Marshal(w, retVal)

Next ==
  \/ libp2p_net_server_start \/ libp2p_net_server_stop \/ StopReturns
  \/ libp2p_server_listen
  \/ \E c \in Conn : Connect(c)
  \/ \E w \in Worker : Begin(w) \/ libp2p_net_connection(w)

Spec == Init /\ [][Next]_vars

\* The threads are scheduled, a read ends by its timeout at the latest, and the pool
\* starts a job while a worker is free (AcceptedJobsFinish of ThreadPool).
Fairness ==
  /\ WF_vars(libp2p_server_listen)
  /\ WF_vars(StopReturns)
  /\ \A w \in Worker : WF_vars(Begin(w)) /\ WF_vars(libp2p_net_connection(w))

FairSpec == Spec /\ Fairness
-----------------------------------------------------------------------------
Serving == {running[w] : w \in Worker} \ {NoConn}

TypeOK ==
  /\ server_shutting_down \in 0..1
  /\ listener \in {"none", "created", "begun", "select", "accept", "destroy", "done"}
  /\ stopper \in {"idle", "joining"}
  /\ starts \in 0..MaxStarts /\ count \in 0..Limit
  /\ conn \in [Conn -> {"away", "waiting", "served", "refused", "lost", "reset"}]
  /\ handler \in [Worker -> {"idle", "read", "marshal"}]
  /\ fds \in SUBSET Conn
  /\ state \in {"closed", "open", "closing"}
  /\ pending \in Seq(Conn) /\ running \in [Worker -> Conn \cup {NoConn}]
  /\ finished \in SUBSET Conn /\ discarded \in SUBSET Conn

\* When libp2p_net_server_stop has returned no handler runs and none is queued, so
\* the caller may free the protocol handlers it gave to libp2p_net_server_start; every
\* connection served so far ended or was thrown away.
QuietAfterStop ==
  listener = "none" =>
    /\ Serving = {} /\ pending = <<>>
    /\ \A c \in Conn : conn[c] = "served" => c \in finished \cup discarded

\* A peer that connects is accepted, refused or reset: the listener does not sit on
\* it, whatever the handlers are doing.
ConnectionIsAnswered ==
  \A c \in Conn : conn[c] = "waiting" ~> conn[c] # "waiting"

\* libp2p_net_server_stop returns, even if peers keep sending, once the listener has
\* passed its first statement.
StopEventuallyReturns ==
  (stopper = "joining" /\ server_shutting_down = 1 /\ listener # "created")
    ~> stopper = "idle"

\* "limit reached.": a connection is refused only while Limit connections are being
\* served, wait for a worker or were lost for want of memory.
RefusedOnlyWhenBusy ==
  [][\A c \in Conn : conn[c] = "waiting" /\ conn'[c] = "refused"
       => Cardinality(Serving \cup Range(pending) \cup {d \in Conn : conn[d] = "lost"})
            >= Limit]_vars
=============================================================================
