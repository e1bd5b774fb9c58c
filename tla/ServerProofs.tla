---------------------------- MODULE ServerProofs ----------------------------
(***************************************************************************)
(* Proofs about Server, for any number of connections, workers and starts. *)
(* The inductive invariant IInv says in which state of the listener thread *)
(* the pool exists, which worker is inside a handler, and that the pool    *)
(* knows exactly the connections that were served.                         *)
(***************************************************************************)
EXTENDS Server, TLAPS

\* A worker is inside libp2p_net_connection exactly while it has a connection.
HandlerHasConn ==
  \A w \in Worker : handler[w] = "idle" <=> running[w] = NoConn

\* The pool is up from thpool_init to thpool_destroy of the listener thread, and holds
\* nothing before and after.
PoolFollowsListener ==
  /\ listener \in {"select", "accept"} => state = "open"
  /\ listener = "destroy" => state = "closing"
  /\ listener \in {"none", "created", "begun", "done"} => state = "closed"
  /\ state = "closed" => pending = <<>> /\ \A w \in Worker : running[w] = NoConn

\* The pool has been given the connections that were served, and no other: the freshness
\* that its Submit asks for never holds the listener up.
PoolKnowsServed ==
  \A c \in Conn : c \in Pool!Known <=> conn[c] = "served"

IInv == TypeOK /\ HandlerHasConn /\ PoolFollowsListener /\ PoolKnowsServed
-----------------------------------------------------------------------------
\* What thpool_add_work does to the pending connections.
LEMMA AppendRange ==
  ASSUME NEW S, NEW s \in Seq(S), NEW e \in S
  PROVE  Append(s, e) \in Seq(S) /\ Pool!Range(Append(s, e)) = Pool!Range(s) \cup {e}
<1> DEFINE a == Append(s, e)
<1>1. a \in Seq(S) /\ Len(a) = Len(s) + 1 /\ a[Len(s) + 1] = e
      /\ \A i \in 1..Len(s) : a[i] = s[i]
  OBVIOUS
<1>2. \A i \in 1..Len(a) : i \in 1..Len(s) \/ i = Len(s) + 1
  BY <1>1
<1>3. 1..Len(s) \subseteq 1..Len(a) /\ Len(s) + 1 \in 1..Len(a)
  BY <1>1
<1>4. DOMAIN a = 1..Len(a) /\ DOMAIN s = 1..Len(s)
  BY <1>1
<1> HIDE DEF a
<1>5. Pool!Range(a) \subseteq Pool!Range(s) \cup {e}
  BY <1>1, <1>2, <1>4 DEF Pool!Range
<1>6. Pool!Range(s) \cup {e} \subseteq Pool!Range(a)
  BY <1>1, <1>3, <1>4 DEF Pool!Range
<1> QED
  BY <1>1, <1>5, <1>6 DEF a

\* What a worker that takes the oldest connection leaves pending.
LEMMA TailRange ==
  ASSUME NEW S, NEW s \in Seq(S), s # <<>>
  PROVE  /\ Head(s) \in S /\ Tail(s) \in Seq(S)
         /\ Pool!Range(s) = {Head(s)} \cup Pool!Range(Tail(s))
<1> DEFINE t == Tail(s)
<1>1. t \in Seq(S) /\ Len(t) = Len(s) - 1 /\ Head(s) = s[1] /\ 1 \in 1..Len(s)
      /\ Head(s) \in S
  OBVIOUS
<1>2. \A i \in 1..Len(t) : t[i] = s[i + 1] /\ i + 1 \in 1..Len(s)
  BY <1>1
<1>3. \A i \in 1..Len(s) : i = 1 \/ (i - 1 \in 1..Len(t) /\ t[i - 1] = s[i])
  BY <1>1
<1>4. DOMAIN t = 1..Len(t) /\ DOMAIN s = 1..Len(s)
  BY <1>1
<1> HIDE DEF t
<1>5. Pool!Range(s) \subseteq {Head(s)} \cup Pool!Range(t)
  BY <1>1, <1>3, <1>4 DEF Pool!Range
<1>6. {Head(s)} \cup Pool!Range(t) \subseteq Pool!Range(s)
  BY <1>1, <1>2, <1>4 DEF Pool!Range
<1> QED
  BY <1>1, <1>5, <1>6 DEF t

\* Nothing is pending in an empty queue.
LEMMA EmptyRange == Pool!Range(<<>>) = {}
BY DEF Pool!Range
-----------------------------------------------------------------------------
\* Before the first libp2p_net_server_start there is no pool and no connection.
LEMMA InitIInv == Init => IInv
BY EmptyRange, ConnAssumption, LimitAssumption
   DEF Init, IInv, TypeOK, HandlerHasConn, PoolFollowsListener, PoolKnowsServed, Pool!Init,
       Pool!Known

\* The steps that leave the pool alone: starting, stopping, a connecting peer, and a
\* listener or handler that is between two calls of the pool.
LEMMA OutsidePool ==
  ASSUME IInv, UNCHANGED pool,
         \/ libp2p_net_server_start \/ libp2p_net_server_stop \/ StopReturns
         \/ ListenBegin \/ Listen \/ SelectReturns
         \/ \E c \in Conn : Connect(c)
         \/ \E w \in Worker : ReadMessage(w)
         \/ \E w \in Worker, retVal \in {-1, 0, 1} : Marshal(w, retVal)
  PROVE  IInv'
<1>1. state' = state /\ pending' = pending /\ running' = running /\ finished' = finished
      /\ discarded' = discarded /\ Pool!Known' = Pool!Known
  BY DEF pool, Pool!Known
<1>2. CASE libp2p_net_server_start
  BY <1>1, <1>2, LimitAssumption DEF IInv, TypeOK, HandlerHasConn, PoolFollowsListener,
     PoolKnowsServed, libp2p_net_server_start
<1>3. CASE libp2p_net_server_stop
  BY <1>1, <1>3 DEF IInv, TypeOK, HandlerHasConn, PoolFollowsListener,
     PoolKnowsServed, libp2p_net_server_stop
<1>4. CASE StopReturns
  BY <1>1, <1>4 DEF IInv, TypeOK, HandlerHasConn, PoolFollowsListener,
     PoolKnowsServed, StopReturns
<1>5. CASE ListenBegin
  BY <1>1, <1>5, LimitAssumption DEF IInv, TypeOK, HandlerHasConn, PoolFollowsListener,
     PoolKnowsServed, ListenBegin
<1>6. CASE Listen
  <2>1. listener' = "done" /\ listener = "begun"
    BY <1>1, <1>6 DEF Listen, Pool!Open
  <2> QED
    BY <1>1, <1>6, <2>1 DEF IInv, TypeOK, HandlerHasConn, PoolFollowsListener,
       PoolKnowsServed, Listen
<1>7. CASE SelectReturns
  <2>1. listener' = "accept" /\ listener = "select"
    BY <1>1, <1>7 DEF SelectReturns, Pool!Close
  <2> QED
    BY <1>1, <1>7, <2>1 DEF IInv, TypeOK, HandlerHasConn, PoolFollowsListener,
       PoolKnowsServed, SelectReturns
<1>8. ASSUME NEW c \in Conn, Connect(c) PROVE IInv'
  BY <1>1, <1>8 DEF IInv, TypeOK, HandlerHasConn, PoolFollowsListener,
     PoolKnowsServed, Connect
<1>9. ASSUME NEW w \in Worker, ReadMessage(w) PROVE IInv'
  BY <1>1, <1>9 DEF IInv, TypeOK, HandlerHasConn, PoolFollowsListener,
     PoolKnowsServed, ReadMessage
<1>10. ASSUME NEW w \in Worker, NEW retVal \in {-1, 0, 1}, Marshal(w, retVal) PROVE IInv'
  <2>1. ~End(w)
    BY <1>1, <1>10 DEF End, Pool!Finish, IInv, TypeOK
  <2> QED
    BY <1>1, <1>10, <2>1 DEF IInv, TypeOK, HandlerHasConn, PoolFollowsListener,
       PoolKnowsServed, Marshal
<1> QED
  BY <1>2, <1>3, <1>4, <1>5, <1>6, <1>7, <1>8, <1>9, <1>10

\* thpool_init and the start of thpool_destroy: only the state of the pool changes.
LEMMA PoolOpensCloses ==
  ASSUME IInv, \/ Listen /\ Pool!Open
               \/ SelectReturns /\ Pool!Close
  PROVE  IInv'
<1>1. pending' = pending /\ running' = running /\ finished' = finished
      /\ discarded' = discarded /\ Pool!Known' = Pool!Known
  BY DEF Pool!Open, Pool!Close, Pool!Known
<1>2. CASE Listen /\ Pool!Open
  <2>1. listener' = "select" /\ state' = "open"
    BY <1>2 DEF Listen, Pool!Open, pool
  <2> QED
    BY <1>1, <1>2, <2>1 DEF IInv, TypeOK, HandlerHasConn, PoolFollowsListener,
       PoolKnowsServed, Listen
<1>3. CASE SelectReturns /\ Pool!Close
  <2>1. listener' = "destroy" /\ state' = "closing"
    BY <1>3 DEF SelectReturns, Pool!Close, pool
  <2> QED
    BY <1>1, <1>3, <2>1 DEF IInv, TypeOK, HandlerHasConn, PoolFollowsListener,
       PoolKnowsServed, SelectReturns
<1> QED
  BY <1>2, <1>3

\* accept: the connection is refused, lost or served, and only in the last case does
\* the pool come to know it.
LEMMA AcceptIInv ==
  ASSUME IInv, NEW c \in Conn, Accept(c)
  PROVE  IInv'
<1>1. listener = "accept" /\ listener' = "select" /\ conn[c] = "waiting"
      /\ server_shutting_down' = server_shutting_down /\ stopper' = stopper
      /\ starts' = starts /\ handler' = handler
  BY DEF Accept
<1>2. CASE Refuse(c)
  <2>1. pending' = pending /\ running' = running /\ finished' = finished
        /\ discarded' = discarded /\ state' = state /\ Pool!Known' = Pool!Known
    BY <1>2 DEF Refuse, pool, Pool!Known
  <2> QED
    BY <1>1, <1>2, <2>1 DEF IInv, TypeOK, HandlerHasConn, PoolFollowsListener,
       PoolKnowsServed, Refuse
<1>3. CASE Lose(c)
  <2>1. pending' = pending /\ running' = running /\ finished' = finished
        /\ discarded' = discarded /\ state' = state /\ Pool!Known' = Pool!Known
    BY <1>3 DEF Lose, pool, Pool!Known
  <2> QED
    BY <1>1, <1>3, <2>1, LimitAssumption DEF IInv, TypeOK, HandlerHasConn,
       PoolFollowsListener, PoolKnowsServed, Lose
<1>4. CASE Serve(c)
  <2>1. /\ state = "open" /\ state' = "open" /\ running' = running /\ finished' = finished
        /\ discarded' = discarded /\ pending' = Append(pending, c)
    BY <1>4 DEF Serve, Pool!Submit
  <2>2. pending' \in Seq(Conn) /\ Pool!Range(pending') = Pool!Range(pending) \cup {c}
    BY <2>1, AppendRange DEF IInv, TypeOK
  <2>3. Pool!Known' = Pool!Known \cup {c}
    BY <2>1, <2>2 DEF Pool!Known
  <2>4. conn' = [conn EXCEPT ![c] = "served"] /\ count' = count + 1 /\ count < Limit
        /\ fds' \in {fds, fds \cup {c}}
    BY <1>4 DEF Serve
  <2>5. TypeOK'
    BY <1>1, <2>1, <2>2, <2>4, LimitAssumption DEF IInv, TypeOK
  <2>6. PoolKnowsServed'
    BY <2>3, <2>4 DEF IInv, TypeOK, PoolKnowsServed
  <2> QED
    BY <1>1, <2>1, <2>5, <2>6 DEF IInv, HandlerHasConn, PoolFollowsListener
<1> QED
  BY <1>2, <1>3, <1>4 DEF Accept

\* A worker takes a connection: it was pending and now runs.
LEMMA BeginIInv ==
  ASSUME IInv, NEW w \in Worker, Begin(w)
  PROVE  IInv'
<1>1. /\ pending # <<>> /\ running[w] = NoConn
      /\ running' = [running EXCEPT ![w] = Head(pending)] /\ pending' = Tail(pending)
      /\ state' = state /\ finished' = finished /\ discarded' = discarded
      /\ handler' = [handler EXCEPT ![w] = "read"]
      /\ UNCHANGED <<server_shutting_down, listener, stopper, starts, count, conn, fds>>
  BY DEF Begin, Pool!Begin
<1>2. /\ Head(pending) \in Conn /\ Tail(pending) \in Seq(Conn)
      /\ Pool!Range(pending) = {Head(pending)} \cup Pool!Range(Tail(pending))
  BY <1>1, TailRange DEF IInv, TypeOK
<1>3. running'[w] = Head(pending) /\ \A u \in Worker : u # w => running'[u] = running[u]
  BY <1>1 DEF IInv, TypeOK
<1>4. \A c \in Conn : c \in Pool!Known' <=> c \in Pool!Known
  <2>1. \A c \in Conn : c # NoConn
    BY ConnAssumption
  <2>2. \A c \in Conn : (\E u \in Worker : running'[u] = c)
                          <=> (c = Head(pending) \/ \E u \in Worker : running[u] = c)
    BY <1>1, <1>3, <2>1
  <2> QED
    BY <1>1, <1>2, <2>2 DEF Pool!Known
<1>5. state # "closed"
  BY <1>1 DEF IInv, PoolFollowsListener
<1>6. TypeOK'
  BY <1>1, <1>2 DEF IInv, TypeOK
<1>7. HandlerHasConn'
  BY <1>1, <1>2, <1>3, ConnAssumption DEF IInv, TypeOK, HandlerHasConn
<1>8. PoolKnowsServed'
  BY <1>1, <1>4 DEF IInv, PoolKnowsServed
<1> QED
  BY <1>1, <1>5, <1>6, <1>7, <1>8 DEF IInv, PoolFollowsListener

\* libp2p_net_connection returns: its connection is finished.
LEMMA EndIInv ==
  ASSUME IInv, NEW w \in Worker, End(w)
  PROVE  IInv'
<1>1. /\ running[w] # NoConn /\ running' = [running EXCEPT ![w] = NoConn]
      /\ finished' = finished \cup {running[w]}
      /\ state' = state /\ pending' = pending /\ discarded' = discarded
      /\ handler' = [handler EXCEPT ![w] = "idle"]
      /\ UNCHANGED <<server_shutting_down, listener, stopper, starts, count, conn, fds>>
  BY DEF End, Pool!Finish
<1>2. running'[w] = NoConn /\ \A u \in Worker : u # w => running'[u] = running[u]
  BY <1>1 DEF IInv, TypeOK
<1>3. running[w] \in Conn
  BY <1>1 DEF IInv, TypeOK
<1>4. \A c \in Conn : c \in Pool!Known' <=> c \in Pool!Known
  <2>1. \A c \in Conn : c # NoConn
    BY ConnAssumption
  <2>2. \A c \in Conn : (c = running[w] \/ \E u \in Worker : running'[u] = c)
                          <=> (\E u \in Worker : running[u] = c)
    BY <1>1, <1>2, <2>1
  <2> QED
    BY <1>1, <2>2 DEF Pool!Known
<1>5. state # "closed"
  BY <1>1 DEF IInv, PoolFollowsListener
<1>6. TypeOK'
  BY <1>1, <1>3 DEF IInv, TypeOK
<1>7. HandlerHasConn'
  BY <1>1, <1>2 DEF IInv, TypeOK, HandlerHasConn
<1>8. PoolKnowsServed'
  BY <1>1, <1>4 DEF IInv, PoolKnowsServed
<1> QED
  BY <1>1, <1>5, <1>6, <1>7, <1>8 DEF IInv, PoolFollowsListener

\* thpool_destroy has returned: what was pending is thrown away.
LEMMA ListenReturnsIInv ==
  ASSUME IInv, ListenReturns
  PROVE  IInv'
<1>1. /\ listener = "destroy" /\ listener' = "done" /\ state' = "closed"
      /\ \A w \in Worker : running[w] = NoConn
      /\ discarded' = discarded \cup Pool!Range(pending) /\ pending' = <<>>
      /\ running' = running /\ finished' = finished
      /\ conn' = [c \in Conn |-> IF conn[c] = "waiting" THEN "reset" ELSE conn[c]]
      /\ UNCHANGED <<server_shutting_down, stopper, starts, count, handler, fds>>
  BY DEF ListenReturns, Pool!Discard, Pool!AllQuiet
<1>2. Pool!Known' = Pool!Known
  BY <1>1, EmptyRange DEF Pool!Known
<1>3. Pool!Range(pending) \subseteq Conn
  BY DEF IInv, TypeOK, Pool!Range
<1>4. TypeOK'
  BY <1>1, <1>3 DEF IInv, TypeOK
<1>5. PoolKnowsServed'
  BY <1>1, <1>2 DEF IInv, TypeOK, PoolKnowsServed
<1> QED
  BY <1>1, <1>4, <1>5 DEF IInv, HandlerHasConn, PoolFollowsListener

\* Every step of the server keeps the invariant.
LEMMA NextIInv == IInv /\ [Next]_vars => IInv'
<1> SUFFICES ASSUME IInv, [Next]_vars PROVE IInv'
  OBVIOUS
<1>1. CASE libp2p_net_server_start
  BY <1>1, OutsidePool DEF libp2p_net_server_start
<1>2. CASE libp2p_net_server_stop
  BY <1>2, OutsidePool DEF libp2p_net_server_stop
<1>3. CASE StopReturns
  BY <1>3, OutsidePool DEF StopReturns
<1>4. CASE ListenBegin
  BY <1>4, OutsidePool DEF ListenBegin
<1>5. CASE Listen
  <2>1. Pool!Open \/ UNCHANGED pool
    BY <1>5 DEF Listen
  <2> QED
    BY <1>5, <2>1, OutsidePool, PoolOpensCloses
<1>6. CASE SelectReturns
  <2>1. Pool!Close \/ UNCHANGED pool
    BY <1>6 DEF SelectReturns
  <2> QED
    BY <1>6, <2>1, OutsidePool, PoolOpensCloses
<1>7. CASE ListenReturns
  BY <1>7, ListenReturnsIInv
<1>8. ASSUME NEW c \in Conn, Accept(c) \/ Connect(c) PROVE IInv'
  <2>1. CASE Connect(c)
    BY <2>1, OutsidePool DEF Connect
  <2> QED
    BY <1>8, <2>1, AcceptIInv
<1>9. ASSUME NEW w \in Worker, Begin(w) \/ libp2p_net_connection(w) PROVE IInv'
  <2>1. CASE ReadFails(w)
    BY <2>1, EndIInv DEF ReadFails
  <2>2. CASE ReadMessage(w)
    BY <2>2, OutsidePool DEF ReadMessage
  <2>3. ASSUME NEW retVal \in {-1, 0, 1}, Marshal(w, retVal) PROVE IInv'
    <3>1. End(w) \/ UNCHANGED pool
      BY <2>3 DEF Marshal
    <3> QED
      BY <2>3, <3>1, OutsidePool, EndIInv
  <2> QED
    BY <1>9, <2>1, <2>2, <2>3, BeginIInv DEF libp2p_net_connection
<1>10. CASE UNCHANGED vars
  <2>1. Pool!Known' = Pool!Known
    BY <1>10 DEF vars, pool, Pool!Known
  <2> QED
    BY <1>10, <2>1 DEF vars, pool, IInv, TypeOK, HandlerHasConn, PoolFollowsListener,
       PoolKnowsServed
<1> QED
  BY <1>1, <1>2, <1>3, <1>4, <1>5, <1>6, <1>7, <1>8, <1>9, <1>10
     DEF Next, libp2p_server_listen
-----------------------------------------------------------------------------
\* The inductive invariant holds throughout, for any set of peers and any Limit.
THEOREM InvariantHolds == Spec => []IInv
BY InitIInv, NextIInv, PTL DEF Spec

\* Every variable of the server keeps its type; count never passes Limit.
THEOREM TypeCorrect == Spec => []TypeOK
<1>1. IInv => TypeOK
  BY DEF IInv
<1> QED
  BY <1>1, InvariantHolds, PTL

\* libp2p_net_server_stop leaves no handler running and none queued behind, however
\* many connections were accepted and whatever the handlers were doing when it was
\* called: the caller may free what it gave to libp2p_net_server_start.
THEOREM StopIsClean == Spec => []QuietAfterStop
<1>1. IInv => QuietAfterStop
  <2> SUFFICES ASSUME IInv, listener = "none" PROVE
        /\ Serving = {} /\ pending = <<>>
        /\ \A c \in Conn : conn[c] = "served" => c \in finished \cup discarded
    BY DEF QuietAfterStop
  <2>1. pending = <<>> /\ \A w \in Worker : running[w] = NoConn
    BY DEF IInv, PoolFollowsListener
  <2>2. \A c \in Conn : c \in Pool!Known => c \in finished \cup discarded
    BY <2>1, EmptyRange, ConnAssumption DEF Pool!Known
  <2> QED
    BY <2>1, <2>2 DEF Serving, IInv, PoolKnowsServed
<1> QED
  BY <1>1, InvariantHolds, PTL
=============================================================================
