-------------------------------- MODULE Dial --------------------------------
(***************************************************************************)
(* Dialling a peer: libp2p_peer_connect, libp2p_conn_dialer_join_swarm,    *)
(* the streams it stacks on the connection, the peerstore's entry and the  *)
(* swarm's pool of one thread, for one remote peer.                        *)
(*                                                                         *)
(* The peer is known by two Libp2pPeer objects, the caller's and the one   *)
(* in the peerstore, which may share a session.  A session's               *)
(* default_stream is a pointer that the upgrade of a stream moves, by way  *)
(* of the session its connection is linked to (ConnectionContext's         *)
(* session_context), and that every step of a dial reads again.  Dials of  *)
(* one object may overlap: nothing locks it.  The remote answers each step *)
(* or does not.                                                            *)
(***************************************************************************)
EXTENDS Integers, Sequences, FiniteSets, SequencesExt

CONSTANTS
  Thread,       \* callers of libp2p_peer_connect
  MaxSessions,  \* bound: sessions made
  MaxConns      \* bound: connections made

ASSUME DialAssumption == MaxSessions \in Nat \ {0} /\ MaxConns \in Nat \ {0}

Object == {"mine", "stored"}
Session == 1..MaxSessions
Conn == 1..MaxConns
None == 0
Layer == {"raw", "ms", "noise", "ms_noise", "yamux"}

VARIABLES
  peer,       \* the Libp2pPeers: there or not, sessionContext, connection_type
  streams,    \* the sessions: default_stream and insecure_stream
  sessions,   \* how many have been made
  freed,      \* the ones that libp2p_session_context_free was called on
  linked,     \* the session of a connection's context
  conns,      \* how many have been made
  acked,      \* the negotiated streams: <<connection, layer>>
  pc,         \* where each caller is
  queue,      \* the swarm's pool: the sessions whose listener waits for the thread
  listening,  \* and the one whose listener has it
  handed      \* history: how often a session was handed to the swarm

swarm == <<queue, listening, handed>>
network == <<linked, conns, acked>>
vars == <<peer, streams, sessions, freed, network, pc, swarm>>

NoPeer == [there |-> FALSE, session |-> None, connected |-> FALSE]
Idle == [at |-> "idle", object |-> "mine", conn |-> None]
NoStreams == [conn |-> None, layer |-> "raw", insecure |-> None]

Init ==
  /\ peer = [o \in Object |-> [NoPeer EXCEPT !.there = o = "mine"]]
  /\ streams = [s \in Session |-> NoStreams]
  /\ sessions = 0 /\ freed = {}
  /\ linked = [c \in Conn |-> None] /\ conns = 0 /\ acked = {}
  /\ pc = [t \in Thread |-> Idle]
  /\ queue = <<>> /\ listening = None /\ handed = [s \in Session |-> 0]

(***************************************************************************)
(* The streams                                                             *)
(***************************************************************************)
SessionOf(t) == peer[pc[t].object].session
Default(t) == streams[SessionOf(t)]
Acked(d) == <<d.conn, d.layer>> \in acked
GoesTo(t, at) == pc' = [pc EXCEPT ![t].at = at]

\* handle_upgrade: a stream on connection c becomes the default of the session c is linked to.
Upgrade(c, layer) ==
  streams' = IF linked[c] = None THEN streams
             ELSE [streams EXCEPT ![linked[c]].conn = c, ![linked[c]].layer = layer]

\* libp2p_net_multistream_ready: the default stream is a multistream, and it is negotiated.
MultistreamReady(d) == d.layer \in {"ms", "ms_noise"} /\ Acked(d)

(***************************************************************************)
(* libp2p_conn_dialer_join_swarm                                           *)
(***************************************************************************)
\* Mutant: the connection is linked to the session the peer already has.
Link_Always(session, made) == IF session = None THEN made ELSE session

\* Only the connection that comes with the session is linked to it.
Link(session, made) == IF session = None THEN made ELSE None

\* A connection is made.  The peer keeps a session it has, with the new connection as its
\* default stream, whatever it was used for.  Dials of the two objects do not overlap.
Connect(t, o) ==
  LET s == peer[o].session
      c == conns + 1
      here == IF s = None THEN sessions + 1 ELSE s
  IN /\ pc[t] = Idle /\ peer[o].there
     /\ \A u \in Thread : pc[u] # Idle => pc[u].object = o
     /\ conns < MaxConns /\ here <= MaxSessions
     /\ conns' = c
     /\ sessions' = IF s = None THEN sessions + 1 ELSE sessions
     /\ peer' = [peer EXCEPT ![o].session = here]
     /\ linked' = [linked EXCEPT ![c] = Link(s, here)]
     /\ streams' = [streams EXCEPT ![here] = [conn |-> c, layer |-> "raw", insecure |-> c]]
     /\ pc' = [pc EXCEPT ![t] = [at |-> "multistream", object |-> o, conn |-> c]]
     /\ UNCHANGED <<freed, acked, swarm>>

\* libp2p_net_multistream_stream_new on the connection: it is the default from now on.
Multistream(t) ==
  /\ pc[t].at = "multistream"
  /\ Upgrade(pc[t].conn, "ms")
  /\ GoesTo(t, "ack")
  /\ UNCHANGED <<peer, sessions, freed, network, swarm>>

MultistreamAck(t) ==
  /\ pc[t].at = "ack"
  /\ acked' = acked \cup {<<pc[t].conn, "ms">>}
  /\ GoesTo(t, "ready")
  /\ UNCHANGED <<peer, streams, sessions, freed, linked, conns, swarm>>

Ready(t) ==
  /\ pc[t].at = "ready" /\ MultistreamReady(Default(t))
  /\ GoesTo(t, "noise")
  /\ UNCHANGED <<peer, streams, sessions, freed, network, swarm>>

\* Noise is proposed on the default stream and its handshake is run on the insecure one: it can
\* succeed when they are of one connection, on which there is none yet.
CanSecure(d) == d.layer = "ms" /\ Acked(d) /\ d.conn = d.insecure

\* Mutant: when the handshake fails the dial goes on with the streams it has.
Noise_Optional(t) ==
  /\ pc[t].at = "noise"
  /\ acked' = IF CanSecure(Default(t)) THEN acked \cup {<<Default(t).conn, "noise">>} ELSE acked
  /\ streams' = [streams EXCEPT ![SessionOf(t)].layer = "noise"]
  /\ pc' = [pc EXCEPT ![t].at = "multistream_noise"]
  /\ UNCHANGED <<peer, sessions, freed, linked, conns, swarm>>

Noise(t) ==
  /\ pc[t].at = "noise" /\ CanSecure(Default(t))
  /\ acked' = acked \cup {<<Default(t).conn, "noise">>}
  /\ streams' = [streams EXCEPT ![SessionOf(t)].layer = "noise"]
  /\ pc' = [pc EXCEPT ![t].at = "multistream_noise", ![t].conn = Default(t).conn]
  /\ UNCHANGED <<peer, sessions, freed, linked, conns, swarm>>

\* A multistream over noise.  When its ack does not come the dial goes on to wait for it.
MultistreamNoise(t) ==
  /\ pc[t].at = "multistream_noise"
  /\ Upgrade(pc[t].conn, "ms_noise")
  /\ \E answered \in BOOLEAN :
       acked' = IF answered THEN acked \cup {<<pc[t].conn, "ms_noise">>} ELSE acked
  /\ GoesTo(t, "ready_noise")
  /\ UNCHANGED <<peer, sessions, freed, linked, conns, swarm>>

ReadyNoise(t) ==
  /\ pc[t].at = "ready_noise" /\ MultistreamReady(Default(t))
  /\ GoesTo(t, "yamux")
  /\ UNCHANGED <<peer, streams, sessions, freed, network, swarm>>

\* libp2p_yamux_stream_new on what is the default stream now; it need not be a multistream any
\* more.  The remote's answer establishes it.
Yamux(t) ==
  LET d == Default(t)
  IN /\ pc[t].at = "yamux"
     /\ Upgrade(d.conn, "yamux")
     /\ \E answered \in BOOLEAN :
          acked' = IF answered /\ d.layer = "ms_noise" /\ Acked(d)
                   THEN acked \cup {<<d.conn, "yamux">>} ELSE acked
     /\ GoesTo(t, "ready_yamux")
     /\ UNCHANGED <<peer, sessions, freed, linked, conns, swarm>>

\* libp2p_yamux_stream_ready.
ReadyYamux(t) ==
  /\ pc[t].at = "ready_yamux" /\ Default(t).layer = "yamux" /\ Acked(Default(t))
  /\ GoesTo(t, "identify")
  /\ UNCHANGED <<peer, streams, sessions, freed, network, swarm>>

\* The identify exchange is over, or the default stream is no yamux any more, which is logged.
Identify(t) ==
  /\ pc[t].at = "identify"
  /\ GoesTo(t, "add")
  /\ UNCHANGED <<peer, streams, sessions, freed, network, swarm>>

\* Mutant: the session the peerstore has is freed, be it the new one.
Superseded_Any(old, new) == old # None

Superseded(old, new) == old # None /\ old # new

\* Mutant: an entry that is there gets the connection type only.
Store_TypeOnly(p, q) ==
  IF q.there THEN [q EXCEPT !.connected = TRUE] ELSE p

\* An entry that is there gets the session and the connection type; otherwise the peer is copied,
\* session included.
Store(p, q) ==
  IF q.there THEN [q EXCEPT !.session = p.session, !.connected = TRUE] ELSE p

\* libp2p_swarm_add_peer, then the peer and the peerstore's entry are connected.
Add(t) ==
  LET o == pc[t].object
      p == [peer[o] EXCEPT !.connected = TRUE]
      q == IF o = "stored" THEN p ELSE peer["stored"]
  IN /\ pc[t].at = "add"
     /\ queue' = Append(queue, SessionOf(t))
     /\ handed' = [handed EXCEPT ![SessionOf(t)] = @ + 1]
     /\ freed' = IF Superseded(q.session, p.session) THEN freed \cup {q.session} ELSE freed
     /\ peer' = [[peer EXCEPT ![o] = p] EXCEPT !["stored"] = Store(p, q)]
     /\ pc' = [pc EXCEPT ![t] = Idle]
     /\ UNCHANGED <<streams, sessions, network, listening>>

\* Any step but the last may fail: the remote does not answer, a wait is over, a write fails.
\* The dial returns 0 and leaves the peer its session as it is.
GiveUp(t) ==
  /\ pc[t].at \notin {"idle", "add"}
  /\ pc' = [pc EXCEPT ![t] = Idle]
  /\ UNCHANGED <<peer, streams, sessions, freed, network, swarm>>

(***************************************************************************)
(* The caller and the swarm                                                *)
(***************************************************************************)
\* The caller makes another Libp2pPeer for the same id.
NewPeer ==
  /\ \A t \in Thread : pc[t] = Idle
  /\ peer["mine"].session # None
  /\ peer' = [peer EXCEPT !["mine"] = [NoPeer EXCEPT !.there = TRUE]]
  /\ UNCHANGED <<streams, sessions, freed, network, pc, swarm>>

\* The caller puts its peer into the peerstore, which copies it, session included.
libp2p_peerstore_add_peer ==
  /\ ~peer["stored"].there
  /\ peer' = [peer EXCEPT !["stored"] = peer["mine"]]
  /\ UNCHANGED <<streams, sessions, freed, network, pc, swarm>>

\* An incoming connection has a session of its own, and a multistream on it.
libp2p_swarm_add_connection ==
  /\ sessions < MaxSessions /\ conns < MaxConns
  /\ sessions' = sessions + 1 /\ conns' = conns + 1
  /\ linked' = [linked EXCEPT ![conns + 1] = sessions + 1]
  /\ streams' = [streams EXCEPT ![sessions + 1] = [conn |-> conns + 1, layer |-> "ms",
                                                   insecure |-> conns + 1]]
  /\ queue' = Append(queue, sessions + 1)
  /\ handed' = [handed EXCEPT ![sessions + 1] = @ + 1]
  /\ UNCHANGED <<peer, freed, acked, pc, listening>>

\* The pool's one thread takes the next listener when the last one has returned.
Listen ==
  /\ listening = None /\ queue # <<>>
  /\ listening' = Head(queue) /\ queue' = Tail(queue)
  /\ UNCHANGED <<peer, streams, sessions, freed, network, pc, handed>>

\* libp2p_swarm_listen returns on an error.
ListenEnds ==
  /\ listening # None
  /\ listening' = None
  /\ UNCHANGED <<peer, streams, sessions, freed, network, pc, queue, handed>>

Next ==
  \/ \E t \in Thread :
       \/ \E o \in Object : Connect(t, o)
       \/ Multistream(t) \/ MultistreamAck(t) \/ Ready(t) \/ Noise(t) \/ MultistreamNoise(t)
       \/ ReadyNoise(t) \/ Yamux(t) \/ ReadyYamux(t) \/ Identify(t) \/ Add(t) \/ GiveUp(t)
  \/ NewPeer \/ libp2p_peerstore_add_peer \/ libp2p_swarm_add_connection
  \/ Listen \/ ListenEnds

Spec == Init /\ [][Next]_vars

(***************************************************************************)
(* Properties                                                              *)
(***************************************************************************)
\* Every variable has its type, and a peer that is said to be connected has a session.
TypeOK ==
  /\ peer \in [Object -> [there : BOOLEAN, session : Session \cup {None}, connected : BOOLEAN]]
  /\ \A o \in Object : peer[o].connected => peer[o].session # None
  /\ streams \in [Session -> [conn : Conn \cup {None}, layer : Layer, insecure : Conn \cup {None}]]
  /\ sessions \in 0..MaxSessions /\ conns \in 0..MaxConns /\ freed \subseteq Session
  /\ linked \in [Conn -> Session \cup {None}] /\ acked \subseteq Conn \X Layer
  /\ \A t \in Thread : pc[t].object \in Object /\ pc[t].conn \in Conn \cup {None}
  /\ queue \in Seq(Session) /\ listening \in Session \cup {None} /\ handed \in [Session -> Nat]

\* No session ever has two listeners, which would read its stream side by side: it is handed to the
\* swarm once, however often and by how many callers the peer is dialled.
ListenedOnce == \A s \in Session : handed[s] <= 1

\* A dial that succeeds has secured a connection of its own: no caller takes what another one has
\* negotiated on the shared session, or a handshake that failed, for its own.
SuccessIsSecure ==
  \A t \in Thread : pc[t].at = "add" =>
    <<pc[t].conn, "noise">> \in acked /\ linked[pc[t].conn] = SessionOf(t)

\* No Libp2pPeer is left with a session that was freed, when the peerstore's entry changes to the
\* session of a later dial, and no dial is under way on one.
NoDanglingPeer == \A o \in Object : peer[o].session \notin freed
=============================================================================
