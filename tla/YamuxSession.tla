---------------------------- MODULE YamuxSession ----------------------------
(***************************************************************************)
(* yamux/session.c, yamux/stream.c and yamux/yamux.c: one endpoint of a    *)
(* yamux session, from libp2p_yamux_stream_new to libp2p_yamux_close.      *)
(*                                                                         *)
(* The peer is any implementation that keeps to the protocol: it opens     *)
(* streams of its own parity with WINDOW_UPDATE+SYN, acknowledges ours     *)
(* once, and sends nothing on a stream after its FIN or RST.  A frame is   *)
(* handled by one call of yamux_decode, and the calls that share a session *)
(* are taken one at a time, as the dialer makes them before it hands the   *)
(* peer to the swarm.                                                      *)
(*                                                                         *)
(* A stream has its state twice: yamux_stream.state in the session's table *)
(* ("state"), which yamux_decode consults, and YamuxChannelContext.state   *)
(* ("cstate"), which the writing side does.  Window sizes are left out:    *)
(* libp2p_yamux_write never consults one.  So are yamux_stream_free, which *)
(* only the destruction of the whole session calls, and hence the reuse of *)
(* a dead stream's slot.                                                   *)
(***************************************************************************)
EXTENDS Naturals, Sequences, FiniteSets

CONSTANTS
  MaxId,       \* bound: the greatest stream id
  Backlog,     \* yamux_config.accept_backlog; 256 in the code
  MaxFrames,   \* bound: frames from the peer
  MaxCalls     \* bound: local calls that send a frame

ASSUME BoundsAssumption ==
  MaxId \in Nat /\ Backlog \in Nat \ {0} /\ MaxFrames \in Nat /\ MaxCalls \in Nat

Id == 1..MaxId

VARIABLES
  weDialled,    \* we are the client of the session, the peer the server
  ctx_state,    \* YamuxContext.state
  below,        \* the stream yamux rides on: "open" or "closed"
  closed,       \* yamux_session.closed
  nextid,       \* yamux_session.nextid
  streams,      \* yamux_session.streams, of length cap_streams; all are alive
  sent,         \* history: what we sent on each stream, as it reads on the wire
  sessionSent,  \* history: what we sent outside of a stream
  mainWrites,   \* history: writes on the session's own stream
  calls,        \* local calls so far
  peer,         \* the peer's side of each stream
  peerData,     \* history: data frames the peer sent on each stream
  frames        \* frames of the peer so far

session == <<weDialled, ctx_state, below, closed>>
local == <<session, nextid, streams, sent, sessionSent, mainWrites, calls>>
remote == <<peer, peerData, frames>>
vars == <<local, remote>>

\* The am_server of both callers of libp2p_yamux_stream_new: the dialer, and
\* yamux_handle_message when the peer asked for yamux.
am_server == 0

State == {"inited", "syn_sent", "syn_recv", "est", "closing", "closed"}

Stream(id) ==
  [id |-> id, state |-> "inited", cstate |-> "inited", buffer |-> <<>>, consumed |-> <<>>]

\* yamux_get_session_stream: the first entry with that id, whatever its state.
Entry(s, id) == {i \in 1..Len(s) : s[i].id = id}
FirstOf(S) == CHOOSE i \in S : \A j \in S : i <= j

SetState(s, id, st) ==
  IF Entry(s, id) = {} THEN s ELSE [s EXCEPT ![FirstOf(Entry(s, id))].state = st]

\* A data frame of the peer carries the stream and its number on it.
Payload(id, n) == <<id, n>>

Frame(type, flag) == [type |-> type, flag |-> flag]

Init ==
  /\ weDialled \in BOOLEAN
  /\ ctx_state = IF weDialled THEN "inited" ELSE "est"
  /\ below = "open" /\ closed = 0
  /\ nextid = 1 + am_server
  /\ streams = <<>>
  /\ sent = [id \in Id |-> <<>>]
  /\ sessionSent = <<>>
  /\ mainWrites = 0 /\ calls = 0
  /\ peer = [id \in Id |-> "none"]
  /\ peerData = [id \in Id |-> 0]
  /\ frames = 0

Call == below = "open" /\ calls < MaxCalls /\ calls' = calls + 1

(***************************************************************************)
(* Opening and writing                                                     *)
(***************************************************************************)
\* Mutant: the table's capacity is tested one entry too late.
yamux_channel_new_Late ==
  /\ Call /\ ctx_state = "est" /\ nextid \in Id
  /\ nextid' = nextid + 2
  /\ streams' = IF Len(streams) > Backlog THEN streams ELSE Append(streams, Stream(nextid))
  /\ UNCHANGED <<session, sent, sessionSent, mainWrites, remote>>

\* yamux_channel_new(ctx, 0): the id is used up even when there is no room.
yamux_channel_new ==
  /\ Call /\ ctx_state = "est" /\ nextid \in Id
  /\ nextid' = nextid + 2
  /\ streams' = IF Len(streams) = Backlog THEN streams ELSE Append(streams, Stream(nextid))
  /\ UNCHANGED <<session, sent, sessionSent, mainWrites, remote>>

\* Mutant: the SYN is repeated until the peer has acknowledged.
get_flags_Repeat(cstate) ==
  CASE cstate \in {"inited", "syn_sent"} -> [flag |-> "syn", next |-> "syn_sent"]
    [] cstate = "syn_recv" -> [flag |-> "ack", next |-> "est"]
    [] OTHER -> [flag |-> "nil", next |-> cstate]

\* The flag the next frame of a channel carries, and the channel's state after it.
get_flags(cstate) ==
  CASE cstate = "inited" -> [flag |-> "syn", next |-> "syn_sent"]
    [] cstate = "syn_recv" -> [flag |-> "ack", next |-> "est"]
    [] OTHER -> [flag |-> "nil", next |-> cstate]

\* Mutant: the table is told of the channel's state by every frame.
Advance_Always(s, i) ==
  LET g == get_flags(s[i].cstate)
  IN  SetState([s EXCEPT ![i].cstate = g.next], s[i].id, g.next)

\* get_flags stores the new state in the channel and in the session's table.
Advance(s, i) ==
  LET g == get_flags(s[i].cstate)
      t == [s EXCEPT ![i].cstate = g.next]
  IN  IF g.flag = "nil" THEN s ELSE SetState(t, s[i].id, g.next)

\* A channel that was not opened yet is opened by a window update.
WriteFrames(cstate) ==
  LET g == get_flags(cstate)
  IN  IF cstate = "inited"
        THEN <<Frame("window", g.flag), Frame("data", get_flags(g.next).flag)>>
        ELSE <<Frame("data", g.flag)>>

\* libp2p_yamux_write on a channel: nothing asks whether it was closed or reset.
libp2p_yamux_write(i) ==
  /\ Call
  /\ sent' = [sent EXCEPT ![streams[i].id] = @ \o WriteFrames(streams[i].cstate)]
  /\ streams' = Advance(streams, i)
  /\ UNCHANGED <<session, nextid, sessionSent, mainWrites, remote>>

\* Until yamux is agreed upon, a write goes to the stream below as it is.
WriteBeforeReady ==
  /\ Call /\ ctx_state # "est"
  /\ sessionSent' = Append(sessionSent, Frame("raw", "nil"))
  /\ UNCHANGED <<session, nextid, streams, sent, mainWrites, remote>>

libp2p_yamux_get_next_id ==
  IF nextid % 2 = am_server THEN nextid + 1 ELSE nextid

\* libp2p_yamux_write on the session itself: data on a stream id nobody opened.
WriteMain ==
  /\ Call /\ ctx_state = "est" /\ libp2p_yamux_get_next_id \in Id
  /\ nextid' = libp2p_yamux_get_next_id + 1
  /\ sent' = [sent EXCEPT ![libp2p_yamux_get_next_id] = Append(@, Frame("data", "nil"))]
  /\ mainWrites' = mainWrites + 1
  /\ UNCHANGED <<session, streams, sessionSent, remote>>

(***************************************************************************)
(* The explicit operations on a channel                                    *)
(***************************************************************************)
yamux_stream_init(i) ==
  /\ Call /\ streams[i].cstate = "inited"
  /\ sent' = [sent EXCEPT ![streams[i].id] = Append(@, Frame("window", "syn"))]
  /\ streams' = Advance(streams, i)
  /\ UNCHANGED <<session, nextid, sessionSent, mainWrites, remote>>

yamux_stream_close(i) ==
  /\ Call /\ streams[i].cstate = "est"
  /\ sent' = [sent EXCEPT ![streams[i].id] = Append(@, Frame("window", "fin"))]
  /\ streams' = [streams EXCEPT ![i].cstate = "closing"]
  /\ UNCHANGED <<session, nextid, sessionSent, mainWrites, remote>>

\* Only the channel learns of it: the session's table still has the stream open.
yamux_stream_reset(i) ==
  /\ Call
  /\ sent' = [sent EXCEPT ![streams[i].id] = Append(@, Frame("window", "rst"))]
  /\ streams' = [streams EXCEPT ![i].cstate = "closed"]
  /\ UNCHANGED <<session, nextid, sessionSent, mainWrites, remote>>

yamux_stream_window_update(i) ==
  /\ Call /\ streams[i].cstate \notin {"closing", "closed"}
  /\ sent' = [sent EXCEPT ![streams[i].id] =
                            Append(@, Frame("window", get_flags(streams[i].cstate).flag))]
  /\ streams' = Advance(streams, i)
  /\ UNCHANGED <<session, nextid, sessionSent, mainWrites, remote>>

\* libp2p_yamux_channel_read: everything the buffer holds.
libp2p_yamux_channel_read(i) ==
  /\ below = "open" /\ streams[i].buffer # <<>>
  /\ streams' = [streams EXCEPT ![i].consumed = @ \o streams[i].buffer, ![i].buffer = <<>>]
  /\ UNCHANGED <<session, nextid, sent, sessionSent, mainWrites, calls, remote>>

\* libp2p_yamux_close: a GO_AWAY, then the stream below is closed.  The vector of
\* channels it walks first only holds what was upgraded on the session itself.
libp2p_yamux_close ==
  /\ Call
  /\ sessionSent' = Append(sessionSent, Frame("go_away", "fin"))
  /\ below' = "closed"
  /\ UNCHANGED <<weDialled, ctx_state, closed, nextid, streams, sent, mainWrites, remote>>

(***************************************************************************)
(* yamux_decode: a frame f = [id, type, flag, data] of the peer            *)
(***************************************************************************)
\* Frames without a stream.  The pong is sent in host byte order.
SessionFrame(f) ==
  /\ f.id = 0
  /\ \/ /\ f.type = "ping"
        /\ sessionSent' = IF closed = 1 THEN sessionSent
                                        ELSE Append(sessionSent, Frame("ping", "unencoded"))
        /\ UNCHANGED closed
     \/ /\ f.type = "go_away"
        /\ closed' = 1
        /\ UNCHANGED sessionSent
  /\ UNCHANGED <<weDialled, ctx_state, below, nextid, streams, sent, mainWrites, calls>>

\* The entries yamux_decode looks at, in order.
Live(id) == {i \in Entry(streams, id) : streams[i].state # "closed"}

\* yamux_stream_process: the data goes into the channel's buffer.
yamux_stream_process(s, i, data) == [s EXCEPT ![i].buffer = @ \o data]

\* Mutant: a FIN or a RST ends the handling of its frame.
KnownStream_DropLast(f, i) ==
  LET next == CASE f.flag \in {"rst", "fin"} -> "closed"
                [] f.flag = "ack" -> "est"
                [] OTHER -> streams[i].state
      s == [streams EXCEPT ![i].state = next]
      refused == f.flag = "syn" \/ (f.flag = "ack" /\ streams[i].state # "syn_sent")
  IN  streams' = CASE refused -> streams
                   [] f.flag \in {"rst", "fin"} -> s
                   [] OTHER -> yamux_stream_process(s, i, f.data)

\* A frame of a stream in the table.  The FIN is not answered: the channel that
\* libp2p_yamux_get_parent_channel_context looks for is never found.
KnownStream(f, i) ==
  LET next == CASE f.flag \in {"rst", "fin"} -> "closed"
                [] f.flag = "ack" -> "est"
                [] OTHER -> streams[i].state
      refused == f.flag = "syn" \/ (f.flag = "ack" /\ streams[i].state # "syn_sent")
  IN  streams' = IF refused THEN streams
                 ELSE yamux_stream_process([streams EXCEPT ![i].state = next], i, f.data)

\* Mutant: as the server.
NewStreamId_Server(id) == id % 2 = 1

\* "if we didn't initiate it": the ids a peer may open.
NewStreamId(id) == id % 2 = am_server

\* A new stream: it is entered in the table, acknowledged with a window update, and
\* the negotiation of multistream begins with our protocol id.
NewStream(f) ==
  LET s == Append(streams, [Stream(f.id) EXCEPT !.cstate = "est"])
  IN  IF f.flag = "syn" /\ NewStreamId(f.id) /\ Len(streams) < Backlog
        THEN /\ streams' = SetState(s, f.id, "est")
             /\ sent' = [sent EXCEPT ![f.id] =
                                @ \o <<Frame("window", "ack"), Frame("data", "nil")>>]
        ELSE UNCHANGED <<streams, sent>>

yamux_decode(f) ==
  /\ below = "open" /\ ctx_state = "est"
  /\ \/ SessionFrame(f)
     \/ /\ f.id # 0 /\ Live(f.id) # {}
        /\ KnownStream(f, FirstOf(Live(f.id)))
        /\ UNCHANGED <<session, nextid, sent, sessionSent, mainWrites, calls>>
     \/ /\ f.id # 0 /\ Live(f.id) = {}
        /\ NewStream(f)
        /\ UNCHANGED <<session, nextid, sessionSent, mainWrites, calls>>

(***************************************************************************)
(* The peer                                                                *)
(***************************************************************************)
\* libp2p_yamux_read, before yamux is agreed upon: the peer's protocol id.
ProtocolReply ==
  /\ below = "open" /\ ctx_state = "inited"
  /\ ctx_state' = "est"
  /\ UNCHANGED <<weDialled, below, closed, nextid, streams, sent, sessionSent, mainWrites,
                 calls, remote>>

PeerId == {id \in Id : id % 2 = IF weDialled THEN 0 ELSE 1}
SynSeen(id) == Frame("window", "syn") \in {sent[id][k] : k \in 1..Len(sent[id])}

Receive(id, type, flag, data) ==
  /\ frames < MaxFrames
  /\ frames' = frames + 1
  /\ yamux_decode([id |-> id, type |-> type, flag |-> flag, data |-> data])

\* The peer opens its next stream.
PeerOpens(id) ==
  /\ id \in PeerId /\ peer[id] = "none"
  /\ \A j \in PeerId : j < id => peer[j] # "none"
  /\ Receive(id, "window", "syn", <<>>)
  /\ peer' = [peer EXCEPT ![id] = "open"]
  /\ UNCHANGED peerData

\* The peer acknowledges a stream of ours.
PeerAccepts(id) ==
  /\ peer[id] = "none" /\ SynSeen(id)
  /\ Receive(id, "window", "ack", <<>>)
  /\ peer' = [peer EXCEPT ![id] = "open"]
  /\ UNCHANGED peerData

\* The same, with the first data.
PeerAcceptsWithData(id) ==
  /\ peer[id] = "none" /\ SynSeen(id)
  /\ Receive(id, "data", "ack", <<Payload(id, 1)>>)
  /\ peer' = [peer EXCEPT ![id] = "open"]
  /\ peerData' = [peerData EXCEPT ![id] = 1]

PeerSends(id, flag) ==
  /\ peer[id] = "open"
  /\ Receive(id, "data", flag, <<Payload(id, peerData[id] + 1)>>)
  /\ peer' = [peer EXCEPT ![id] = IF flag = "fin" THEN "finished" ELSE "open"]
  /\ peerData' = [peerData EXCEPT ![id] = @ + 1]

\* A window update, with or without a FIN; without one it may still follow the FIN.
PeerUpdates(id, flag) ==
  /\ peer[id] = "open" \/ (peer[id] = "finished" /\ flag = "nil")
  /\ Receive(id, "window", flag, <<>>)
  /\ peer' = [peer EXCEPT ![id] = IF flag = "fin" THEN "finished" ELSE @]
  /\ UNCHANGED peerData

PeerResets(id) ==
  /\ peer[id] \in {"open", "finished"} \/ (peer[id] = "none" /\ SynSeen(id))
  /\ Receive(id, "window", "rst", <<>>)
  /\ peer' = [peer EXCEPT ![id] = "reset"]
  /\ UNCHANGED peerData

PeerPings == Receive(0, "ping", "syn", <<>>) /\ UNCHANGED <<peer, peerData>>
PeerGoesAway == Receive(0, "go_away", "nil", <<>>) /\ UNCHANGED <<peer, peerData>>

Next ==
  \/ yamux_channel_new \/ WriteBeforeReady \/ WriteMain \/ libp2p_yamux_close
  \/ \E i \in 1..Len(streams) :
       \/ libp2p_yamux_write(i) \/ libp2p_yamux_channel_read(i)
       \/ yamux_stream_init(i) \/ yamux_stream_window_update(i)
       \/ yamux_stream_close(i) \/ yamux_stream_reset(i)
  \/ ProtocolReply \/ PeerPings \/ PeerGoesAway
  \/ \E id \in Id :
       \/ PeerOpens(id) \/ PeerAccepts(id) \/ PeerAcceptsWithData(id) \/ PeerResets(id)
       \/ \E flag \in {"nil", "fin"} : PeerSends(id, flag) \/ PeerUpdates(id, flag)

Spec == Init /\ [][Next]_vars

(***************************************************************************)
(* Properties                                                              *)
(***************************************************************************)
FrameType ==
  [type : {"window", "data", "ping", "go_away", "raw"},
   flag : {"nil", "syn", "ack", "fin", "rst", "unencoded"}]
Data == Id \X (1..MaxFrames)

\* The variables have the values their C types allow, and the table of streams never
\* outgrows the accept_backlog entries yamux_session_new allocated for it.
TypeOK ==
  /\ weDialled \in BOOLEAN
  /\ ctx_state \in {"inited", "est"} /\ below \in {"open", "closed"} /\ closed \in 0..1
  /\ nextid \in 1..(MaxId + 2)
  /\ streams \in Seq([id : Id, state : State, cstate : State,
                      buffer : Seq(Data), consumed : Seq(Data)])
  /\ Len(streams) <= Backlog
  /\ sent \in [Id -> Seq(FrameType)]
  /\ sessionSent \in Seq(FrameType)
  /\ mainWrites \in 0..MaxCalls /\ calls \in 0..MaxCalls
  /\ peer \in [Id -> {"none", "open", "finished", "reset"}]
  /\ peerData \in [Id -> 0..MaxFrames]
  /\ frames \in 0..MaxFrames

\* The session's ids are assigned as the protocol has it: we are the client, and
\* nothing was written on the session's own stream.
Regular == weDialled /\ mainWrites = 0

\* What a reader of a channel has got and will get from its buffer is what the peer
\* sent on that stream, all of it, in order and once: yamux_decode hands no data to
\* another stream, and the data of the frame that carries the ACK or the FIN counts.
DeliveredInOrder ==
  Regular => \A i \in 1..Len(streams) :
    LET id == streams[i].id
    IN  streams[i].consumed \o streams[i].buffer
          = [n \in 1..peerData[id] |-> Payload(id, n)]

Opens(id) == IF id \in PeerId THEN Frame("window", "ack") ELSE Frame("window", "syn")

\* The first frame we send on a stream is a window update that carries the SYN of a
\* stream of ours, the ACK of one of the peer's ("Sending DATA+SYN violates the
\* protocol"), or a reset; and no later frame carries either, whichever of
\* yamux_stream_init, yamux_stream_window_update and libp2p_yamux_write came first.
OpensOnce ==
  Regular => \A id \in Id : \A k \in 1..Len(sent[id]) :
    IF k = 1 THEN sent[id][k] \in {Opens(id), Frame("window", "rst")}
             ELSE sent[id][k].flag \notin {"syn", "ack"}

\* A stream the peer opened is in the table, once, unless accept_backlog streams were
\* opened before it.
PeerStreamsExist ==
  \A id \in PeerId : peer[id] # "none" =>
    Cardinality(Entry(streams, id)) = 1 \/ Len(streams) = Backlog

\* The dialer of a session accepts every stream its peer opens.
DialerAccepts == Regular => PeerStreamsExist

Rank(st) ==
  CASE st = "inited" -> 0
    [] st \in {"syn_sent", "syn_recv"} -> 1
    [] st = "est" -> 2
    [] st = "closing" -> 3
    [] st = "closed" -> 4

\* A stream's state in the session's table never goes back: what get_flags stores
\* there for the writing side does not reopen a stream the peer has closed.
StatesAdvance ==
  [][Regular' => \A i \in 1..Len(streams) :
       /\ streams'[i].id = streams[i].id
       /\ Rank(streams[i].state) <= Rank(streams'[i].state)]_vars
=============================================================================
