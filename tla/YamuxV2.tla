------------------------------ MODULE YamuxV2 -------------------------------
(***************************************************************************)
(* v2/src/conn/yamux.c: the blocking multiplexer of the v2 stack.  Two     *)
(* endpoints, each used by one thread, over a pair of FIFO byte streams.   *)
(* There is no reader of its own: whoever waits (for an ACK, a SYN, data   *)
(* or a ping) reads whatever frame comes next, and what is done with it    *)
(* depends on what it waits for.                                           *)
(*                                                                         *)
(* A wire carries frames.  The bytes of a stream are numbered, one         *)
(* direction of it at a time.  A call that throws away bytes that are not  *)
(* the payload of the frame it just read has lost the frame boundaries:    *)
(* sync becomes FALSE, and later reads of that endpoint fail.              *)
(***************************************************************************)
EXTENDS Integers, Sequences, SequencesExt, FiniteSetsExt

CONSTANTS
  Window,      \* YAMUX_INITIAL_WINDOW_SIZE
  Threshold,   \* YAMUX_WINDOW_UPDATE_THRESHOLD
  MaxOpens,    \* bound: streams an endpoint opens
  MaxBytes,    \* bound: bytes an endpoint writes, its streams together
  MaxPings,    \* bound: pings an endpoint sends
  Writers,     \* bound: the endpoints that write
  Quitters     \* bound: the endpoints that end the session

ASSUME V2Assumption ==
  /\ Window \in Nat \ {0} /\ Threshold \in 1..Window
  /\ MaxOpens \in Nat /\ MaxBytes \in Nat /\ MaxPings \in Nat
  /\ Writers \subseteq {0, 1} /\ Quitters \subseteq {0, 1}

End == {0, 1}                  \* is_server
Other(e) == 1 - e
Mine(e) == {e + 2 * k - 1 : k \in 1..MaxOpens}     \* ids: odd ones by the client
Id == Mine(0) \cup Mine(1)

VARIABLES
  wire,       \* frames on their way to each end
  sync,       \* whether an end still reads on frame boundaries
  closed,     \* session->closed
  shut,       \* whether an end has closed the underlying stream
  opens, pings,
  pending,    \* session->pending_inbound: ids and their data, the latest first
  ctx,        \* the open streams of each end: send and receive window, closed, buffer
  call,       \* the call each end is in
  accepted,   \* history: how often each end accepted each id
  written, got, dropped   \* history: bytes written; delivered; thrown away by the receiver

stream == <<pending, ctx, accepted>>
bytes == <<written, got, dropped>>
session == <<closed, shut, opens, pings>>
vars == <<wire, sync, session, call, stream, bytes>>

(***************************************************************************)
(* Frames                                                                  *)
(***************************************************************************)
Frame(type, flag, id, len) == [type |-> type, flag |-> flag, id |-> id, len |-> len, data |-> <<>>]
Data(id, d) == [type |-> "data", flag |-> "none", id |-> id, len |-> Len(d), data |-> d]

\* e has read its first frame and sent some: nothing arrives once the other end is shut.
Exchange(e, sent) ==
  wire' = [wire EXCEPT ![e] = Tail(@), ![Other(e)] = IF shut[Other(e)] THEN @ ELSE @ \o sent]

Send(e, sent) ==
  wire' = [wire EXCEPT ![Other(e)] = IF shut[Other(e)] THEN @ ELSE @ \o sent]

Idle == [op |-> "idle", id |-> 0, value |-> 0]
Returns(e) == call' = [call EXCEPT ![e] = Idle]
Calls(e, op, id, value) == call' = [call EXCEPT ![e] = [op |-> op, id |-> id, value |-> value]]

NoStream == [open |-> FALSE, send |-> 0, recv |-> 0, closed |-> FALSE, buffer |-> <<>>]
NewStream(buffer) ==
  [open |-> TRUE, send |-> Window, recv |-> Window, closed |-> FALSE, buffer |-> buffer]

PendingIds(e) == {pending[e][i].id : i \in DOMAIN pending[e]}

Init ==
  /\ wire = [e \in End |-> <<>>] /\ sync = [e \in End |-> TRUE]
  /\ closed = [e \in End |-> FALSE] /\ shut = [e \in End |-> FALSE]
  /\ opens = [e \in End |-> 0] /\ pings = [e \in End |-> 0]
  /\ pending = [e \in End |-> <<>>]
  /\ ctx = [e \in End |-> [i \in Id |-> NoStream]]
  /\ call = [e \in End |-> Idle]
  /\ accepted = [e \in End |-> [i \in Id |-> 0]]
  /\ written = [e \in End |-> [i \in Id |-> 0]]
  /\ got = [e \in End |-> [i \in Id |-> <<>>]]
  /\ dropped = [e \in End |-> [i \in Id |-> {}]]

(***************************************************************************)
(* Frames that are treated alike whatever is waited for                    *)
(***************************************************************************)
\* A ping is answered, an answer nobody waits for is skipped.
yamux_handle_control_frame(e, f) ==
  /\ f.type = "ping"
  /\ Exchange(e, IF f.flag = "ack" THEN <<>> ELSE <<Frame("ping", "ack", 0, f.len)>>)

\* A go away ends the session, and the call with it.
GoAwayReceived(e, f) ==
  /\ f.type = "go_away"
  /\ Exchange(e, <<>>)
  /\ closed' = [closed EXCEPT ![e] = TRUE] /\ shut' = [shut EXCEPT ![e] = TRUE]
  /\ Returns(e)
  /\ ctx' = IF call[e].op = "open" THEN [ctx EXCEPT ![e][call[e].id] = NoStream] ELSE ctx
  /\ UNCHANGED <<sync, opens, pings, pending, accepted, bytes>>

\* yamux_discard_payload: of a DATA frame its bytes, of any other frame the bytes after it.
Discard(e, f) ==
  /\ sync' = [sync EXCEPT ![e] = f.type = "data" \/ f.len = 0]
  /\ dropped' = [dropped EXCEPT ![e] =
                   [i \in Id |-> IF i = f.id THEN @[i] \cup ToSet(f.data) ELSE @[i]]]

\* Mutant: the data that was there is overwritten.
Keep_Overwrites(e, f) ==
  pending' = [pending EXCEPT ![e] =
                [i \in DOMAIN @ |-> IF @[i].id = f.id THEN [@[i] EXCEPT !.data = f.data]
                                    ELSE @[i]]]

\* A waiting stream, with the data of a frame that is for it.
Extended(p, f) == IF p.id = f.id THEN [p EXCEPT !.data = @ \o f.data] ELSE p

\* Data for a stream that was not accepted yet is kept with its entry.
Keep(e, f) ==
  pending' = [pending EXCEPT ![e] = [i \in DOMAIN pending[e] |-> Extended(pending[e][i], f)]]

\* What call op of e finds first on its wire.
Next1(e, op, f) == call[e].op = op /\ sync[e] /\ wire[e] # <<>> /\ f = Head(wire[e])

(***************************************************************************)
(* libp2p_yamux_stream_open                                                *)
(***************************************************************************)
Open(e) ==
  /\ call[e] = Idle /\ ~closed[e] /\ opens[e] < MaxOpens
  /\ LET id == e + 2 * opens[e] + 1
     IN /\ ctx' = [ctx EXCEPT ![e][id] = NewStream(<<>>)]
        /\ Send(e, <<Frame("window", "syn", id, 0)>>)
        /\ Calls(e, "open", id, 0)
  /\ opens' = [opens EXCEPT ![e] = @ + 1]
  /\ UNCHANGED <<sync, closed, shut, pings, pending, accepted, bytes>>

OpenWindow(e, f) ==
  /\ f.type = "window" /\ f.id = call[e].id
  /\ Exchange(e, <<>>)
  /\ ctx' = [ctx EXCEPT ![e][f.id].send = @ + f.len]
  /\ IF f.flag = "ack" THEN Returns(e) ELSE UNCHANGED call
  /\ UNCHANGED <<sync, session, pending, accepted, bytes>>

\* Another stream's SYN is answered at once, and the stream waits to be accepted.
OpenSyn(e, f) ==
  /\ f.flag = "syn"
  /\ IF f.id \in PendingIds(e) THEN Exchange(e, <<>>) /\ UNCHANGED pending
     ELSE /\ Exchange(e, <<Frame("window", "ack", f.id, 0)>>)
          /\ pending' = [pending EXCEPT ![e] = <<[id |-> f.id, data |-> <<>>]>> \o @]
  /\ UNCHANGED <<sync, session, call, ctx, accepted, bytes>>

\* Its data is kept, without a word to the sender.
OpenData(e, f) ==
  /\ f.type = "data" /\ f.flag # "syn" /\ f.id \in PendingIds(e)
  /\ Exchange(e, <<>>)
  /\ Keep(e, f)
  /\ UNCHANGED <<sync, session, call, ctx, accepted, bytes>>

OpenOther(e, f) ==
  /\ f.type \in {"window", "data"} /\ f.flag # "syn"
  /\ ~(f.type = "window" /\ f.id = call[e].id) /\ ~(f.type = "data" /\ f.id \in PendingIds(e))
  /\ Exchange(e, <<>>)
  /\ Discard(e, f)
  /\ UNCHANGED <<session, call, stream, written, got>>

\* Mutant: the frame is taken for one with a payload, as if the loop went on without its continue.
Control_Discards(e, f) ==
  /\ yamux_handle_control_frame(e, f)
  /\ Discard(e, f)
  /\ UNCHANGED <<session, call, stream, written, got>>

Control(e, f) ==
  /\ yamux_handle_control_frame(e, f)
  /\ UNCHANGED <<sync, session, call, stream, bytes>>

OpenStep(e) ==
  \E f \in ToSet(wire[e]) :
    /\ Next1(e, "open", f)
    /\ \/ GoAwayReceived(e, f) \/ Control(e, f)
       \/ OpenWindow(e, f) \/ OpenSyn(e, f) \/ OpenData(e, f) \/ OpenOther(e, f)

(***************************************************************************)
(* libp2p_yamux_stream_accept                                              *)
(***************************************************************************)
Accepted(e, id, buffer) ==
  /\ ctx' = [ctx EXCEPT ![e][id] = NewStream(buffer)]
  /\ accepted' = [accepted EXCEPT ![e][id] = @ + 1]

\* Mutant: the entry stays in the list.
AcceptPending_Stays(e) ==
  /\ call[e] = Idle /\ ~closed[e] /\ pending[e] # <<>>
  /\ Accepted(e, Head(pending[e]).id, Head(pending[e]).data)
  /\ Send(e, <<Frame("window", "ack", Head(pending[e]).id, 0)>>)
  /\ UNCHANGED <<sync, session, call, pending, bytes>>

\* A stream that waits is returned, the latest first; it is acknowledged once more.
AcceptPending(e) ==
  /\ call[e] = Idle /\ ~closed[e] /\ pending[e] # <<>>
  /\ Accepted(e, Head(pending[e]).id, Head(pending[e]).data)
  /\ pending' = [pending EXCEPT ![e] = Tail(@)]
  /\ Send(e, <<Frame("window", "ack", Head(pending[e]).id, 0)>>)
  /\ UNCHANGED <<sync, session, call, bytes>>

Accept(e) ==
  /\ call[e] = Idle /\ ~closed[e] /\ pending[e] = <<>>
  /\ Calls(e, "accept", 0, 0)
  /\ UNCHANGED <<wire, sync, session, stream, bytes>>

\* Mutant: the ACK grants the initial window, which the sender has already.
AcceptSyn_Grants(e, f) ==
  /\ f.type \in {"window", "data"} /\ f.flag = "syn"
  /\ Exchange(e, <<Frame("window", "ack", f.id, Window)>>)
  /\ Accepted(e, f.id, f.data)
  /\ Returns(e)
  /\ UNCHANGED <<sync, session, pending, bytes>>

AcceptSyn(e, f) ==
  /\ f.type \in {"window", "data"} /\ f.flag = "syn"
  /\ Exchange(e, <<Frame("window", "ack", f.id, 0)>>)
  /\ Accepted(e, f.id, f.data)
  /\ Returns(e)
  /\ UNCHANGED <<sync, session, pending, bytes>>

\* yamux_wait_for_syn throws everything else away.
AcceptOther(e, f) ==
  /\ f.type \in {"window", "data"} /\ f.flag # "syn"
  /\ Exchange(e, <<>>)
  /\ Discard(e, f)
  /\ UNCHANGED <<session, call, stream, written, got>>

AcceptStep(e) ==
  \E f \in ToSet(wire[e]) :
    /\ Next1(e, "accept", f)
    /\ GoAwayReceived(e, f) \/ Control(e, f) \/ AcceptSyn(e, f) \/ AcceptOther(e, f)

(***************************************************************************)
(* yamux_stream_write and yamux_stream_read                                *)
(***************************************************************************)
Usable(e, id) == call[e] = Idle /\ ctx[e][id].open /\ ~ctx[e][id].closed /\ ~closed[e]
Least(a, b) == IF a < b THEN a ELSE b
\* The sum of w over the streams.
Total(w) == Cardinality({b \in Id \X (1..MaxBytes) : b[2] <= w[b[1]]})

\* No more than the window allows; with no window at all the write fails.
Write(e, id, n) ==
  LET count == Least(n, ctx[e][id].send)
      first == written[e][id]
  IN /\ e \in Writers /\ Usable(e, id) /\ count > 0 /\ Total(written[e]) + count <= MaxBytes
     /\ Send(e, <<Data(id, [i \in 1..count |-> first + i])>>)
     /\ ctx' = [ctx EXCEPT ![e][id].send = @ - count]
     /\ written' = [written EXCEPT ![e][id] = @ + count]
     /\ UNCHANGED <<sync, session, call, pending, accepted, got, dropped>>

\* What is buffered is served first, n bytes at most; otherwise frames are read.
Read(e, id, n) ==
  /\ Usable(e, id)
  /\ LET b == ctx[e][id].buffer
         k == Least(n, Len(b))
     IN IF b = <<>> THEN Calls(e, "read", id, n) /\ UNCHANGED <<ctx, got>>
        ELSE /\ got' = [got EXCEPT ![e][id] = @ \o SubSeq(b, 1, k)]
             /\ ctx' = [ctx EXCEPT ![e][id].buffer = SubSeq(b, k + 1, Len(b))]
             /\ UNCHANGED call
  /\ UNCHANGED <<wire, sync, session, pending, accepted, written, dropped>>

\* Its own window grows; whatever a window frame says of another stream, a SYN too, is ignored.
ReadWindow(e, f) ==
  /\ f.type = "window"
  /\ Exchange(e, <<>>)
  /\ ctx' = IF f.id = call[e].id THEN [ctx EXCEPT ![e][f.id].send = @ + f.len] ELSE ctx
  /\ UNCHANGED <<sync, session, call, pending, accepted, bytes>>

\* Data for a stream that waits to be accepted is credited at once, and kept.
ReadPending(e, f) ==
  /\ f.type = "data" /\ f.id # call[e].id /\ f.id \in PendingIds(e) /\ f.len > 0
  /\ Exchange(e, <<Frame("window", "none", f.id, f.len)>>)
  /\ Keep(e, f)
  /\ UNCHANGED <<sync, session, call, ctx, accepted, bytes>>

\* Any other stream's frame is lost, its FIN too.
ReadOther(e, f) ==
  /\ f.type = "data" /\ f.id # call[e].id /\ ~(f.id \in PendingIds(e) /\ f.len > 0)
  /\ Exchange(e, <<>>)
  /\ Discard(e, f)
  /\ UNCHANGED <<session, call, stream, written, got>>

ReadFin(e, f) ==
  /\ f.type = "data" /\ f.id = call[e].id /\ f.flag = "fin"
  /\ Exchange(e, <<>>)
  /\ ctx' = [ctx EXCEPT ![e][f.id].closed = TRUE]
  /\ Returns(e)
  /\ UNCHANGED <<sync, session, pending, accepted, bytes>>

\* The receive window after len bytes, and what is given back once that is worth a frame.
Left(recv, len) == IF recv >= len THEN recv - len ELSE 0
\* Mutant: one byte more is given back than was taken.
Increment_Eager(recv, len) == Window - Left(recv, len) + 1

Increment(recv, len) ==
  IF Window - Left(recv, len) >= Threshold THEN Window - Left(recv, len) ELSE 0

ReadData(e, f) ==
  LET c == ctx[e][f.id]
      inc == Increment(c.recv, f.len)
      k == Least(call[e].value, f.len)
  IN /\ f.type = "data" /\ f.id = call[e].id /\ f.flag # "fin"
     /\ Exchange(e, IF inc > 0 THEN <<Frame("window", "none", f.id, inc)>> ELSE <<>>)
     /\ ctx' = [ctx EXCEPT ![e][f.id].recv = Left(c.recv, f.len) + inc,
                           ![e][f.id].buffer = SubSeq(f.data, k + 1, f.len)]
     /\ got' = [got EXCEPT ![e][f.id] = @ \o SubSeq(f.data, 1, k)]
     /\ Returns(e)
     /\ UNCHANGED <<sync, session, pending, accepted, written, dropped>>

ReadStep(e) ==
  \E f \in ToSet(wire[e]) :
    /\ Next1(e, "read", f)
    /\ \/ GoAwayReceived(e, f) \/ Control(e, f) \/ ReadWindow(e, f) \/ ReadPending(e, f)
       \/ ReadOther(e, f) \/ ReadFin(e, f) \/ ReadData(e, f)

(***************************************************************************)
(* yamux_stream_close and the session                                      *)
(***************************************************************************)
CloseStream(e, id) ==
  /\ call[e] = Idle /\ ctx[e][id].open
  /\ Send(e, IF ctx[e][id].closed \/ closed[e] THEN <<>> ELSE <<Frame("data", "fin", id, 0)>>)
  /\ ctx' = [ctx EXCEPT ![e][id] = NoStream]
  /\ UNCHANGED <<sync, session, call, pending, accepted, bytes>>

libp2p_yamux_session_ping(e) ==
  /\ call[e] = Idle /\ ~closed[e] /\ pings[e] < MaxPings
  /\ pings' = [pings EXCEPT ![e] = @ + 1]
  /\ Send(e, <<Frame("ping", "none", 0, pings[e] + 1)>>)
  /\ Calls(e, "ping", 0, pings[e] + 1)
  /\ UNCHANGED <<sync, closed, shut, opens, stream, bytes>>

IsPong(e, f) == f.type = "ping" /\ f.flag = "ack" /\ f.len = call[e].value

Pong(e, f) ==
  /\ IsPong(e, f)
  /\ Exchange(e, <<>>)
  /\ Returns(e)
  /\ UNCHANGED <<sync, session, stream, bytes>>

\* Of every other frame, a ping just answered too, length bytes are thrown away.
PingOther(e, f) ==
  /\ ~IsPong(e, f)
  /\ f.type = "ping" \/ Exchange(e, <<>>)
  /\ f.type # "ping" \/ yamux_handle_control_frame(e, f)
  /\ f.type # "go_away"
  /\ Discard(e, f)
  /\ UNCHANGED <<session, call, stream, written, got>>

PingStep(e) ==
  \E f \in ToSet(wire[e]) :
    /\ Next1(e, "ping", f)
    /\ GoAwayReceived(e, f) \/ Pong(e, f) \/ PingOther(e, f)

libp2p_yamux_session_goaway(e) ==
  /\ e \in Quitters /\ call[e] = Idle /\ ~closed[e]
  /\ Send(e, <<Frame("go_away", "none", 0, 0)>>)
  /\ closed' = [closed EXCEPT ![e] = TRUE] /\ shut' = [shut EXCEPT ![e] = TRUE]
  /\ UNCHANGED <<sync, opens, pings, call, stream, bytes>>

\* The caller has closed the session's streams: they point to it.
libp2p_yamux_session_free(e) ==
  /\ e \in Quitters /\ call[e] = Idle /\ ~shut[e] /\ \A id \in Id : ~ctx[e][id].open
  /\ closed' = [closed EXCEPT ![e] = TRUE] /\ shut' = [shut EXCEPT ![e] = TRUE]
  /\ pending' = [pending EXCEPT ![e] = <<>>]
  /\ UNCHANGED <<wire, sync, opens, pings, call, ctx, accepted, bytes>>

\* The call of e fails: an open takes its stream back.
Fails(e) ==
  /\ Returns(e)
  /\ ctx' = IF call[e].op = "open" THEN [ctx EXCEPT ![e][call[e].id] = NoStream] ELSE ctx

\* Nothing more will come, or what comes are no frames any more.
ReadFails(e) ==
  /\ call[e] # Idle
  /\ ~sync[e] \/ (wire[e] = <<>> /\ shut[Other(e)])
  /\ Fails(e)
  /\ UNCHANGED <<wire, sync, session, pending, accepted, bytes>>

\* The other end is gone and the answer to a frame cannot be written.
AnswerFails(e) ==
  /\ shut[Other(e)] /\ sync[e] /\ wire[e] # <<>>
  /\ LET f == Head(wire[e])
     IN \/ call[e] # Idle /\ f.type = "ping" /\ f.flag # "ack"
        \/ call[e].op = "accept" /\ f.flag = "syn"
  /\ Exchange(e, <<>>)
  /\ Fails(e)
  /\ UNCHANGED <<sync, session, pending, accepted, bytes>>

\* Nor the first frame of a call: the id, the ping or the waiting stream is used up.
FirstWriteFails(e) ==
  /\ call[e] = Idle /\ ~closed[e] /\ shut[Other(e)]
  /\ \/ /\ opens[e] < MaxOpens
        /\ opens' = [opens EXCEPT ![e] = @ + 1]
        /\ UNCHANGED <<pings, pending>>
     \/ /\ pings[e] < MaxPings
        /\ pings' = [pings EXCEPT ![e] = @ + 1]
        /\ UNCHANGED <<opens, pending>>
     \/ /\ pending[e] # <<>>
        /\ pending' = [pending EXCEPT ![e] = Tail(@)]
        /\ UNCHANGED <<opens, pings>>
  /\ UNCHANGED <<wire, sync, closed, shut, call, ctx, accepted, bytes>>

Next ==
  \E e \in End :
    \/ Open(e) \/ OpenStep(e) \/ AcceptPending(e) \/ Accept(e) \/ AcceptStep(e)
    \/ \E id \in Id : Read(e, id, 1) \/ \E n \in 1..MaxBytes : Write(e, id, n)
    \/ ReadStep(e)
    \/ \E id \in Id : CloseStream(e, id)
    \/ libp2p_yamux_session_ping(e) \/ PingStep(e)
    \/ libp2p_yamux_session_goaway(e) \/ libp2p_yamux_session_free(e)
    \/ ReadFails(e) \/ AnswerFails(e) \/ FirstWriteFails(e)

Spec == Init /\ [][Next]_vars

(***************************************************************************)
(* Properties                                                              *)
(***************************************************************************)
FrameType ==
  [type : {"window", "data", "ping", "go_away"}, flag : {"none", "syn", "ack", "fin"},
   id : Id \cup {0}, len : Nat, data : Seq(1..MaxBytes)]

\* Every variable has its type; no window grows past its initial size, which is what lets the
\* subtraction of an unsigned window at the threshold stay in range.
TypeOK ==
  /\ wire \in [End -> Seq(FrameType)]
  /\ sync \in [End -> BOOLEAN] /\ closed \in [End -> BOOLEAN] /\ shut \in [End -> BOOLEAN]
  /\ opens \in [End -> 0..MaxOpens] /\ pings \in [End -> 0..MaxPings]
  /\ pending \in [End -> Seq([id : Id, data : Seq(1..MaxBytes)])]
  /\ ctx \in [End -> [Id -> [open : BOOLEAN, send : 0..Window, recv : 0..Window,
                             closed : BOOLEAN, buffer : Seq(1..MaxBytes)]]]
  /\ call \in [End -> [op : {"idle", "open", "accept", "read", "ping"}, id : Id \cup {0}, value : Nat]]
  /\ accepted \in [End -> [Id -> Nat]] /\ written \in [End -> [Id -> 0..MaxBytes]]
  /\ got \in [End -> [Id -> Seq(1..MaxBytes)]] /\ dropped \in [End -> [Id -> SUBSET (1..MaxBytes)]]

\* One pair for each unit of len of the frames in w that are of a type and for a stream.
Units(w, type, id) ==
  UNION {{i} \X (1..w[i].len) : i \in {k \in DOMAIN w : w[k].type = type /\ w[k].id = id}}

\* The sum of len over the frames of e's wire that are of a type and for a stream.
InFlight(e, type, id) == Cardinality(Units(wire[e], type, id))

\* A sender is never allowed more than its receiver has room for: what e may still send on a
\* stream, what is on its way and what it is about to be allowed fit the window of the other end,
\* which is the initial one as long as the other end has not accepted the stream.
CreditBounded ==
  \A e \in End, id \in Id :
    ctx[e][id].open /\ sync[e] /\ sync[Other(e)] =>
      ctx[e][id].send + InFlight(Other(e), "data", id) + InFlight(e, "window", id)
        <= IF ctx[Other(e)][id].open THEN ctx[Other(e)][id].recv ELSE Window

Increasing(s) == \A i, j \in DOMAIN s : i < j => s[i] < s[j]
Before(s, t) == \A x \in ToSet(s), y \in ToSet(t) : x < y

\* What e keeps of a stream: data with its pending entry, or in the buffer of the open stream.
Kept(e, id) ==
  IF id \in PendingIds(e)
  THEN pending[e][CHOOSE i \in DOMAIN pending[e] : pending[e][i].id = id].data
  ELSE ctx[e][id].buffer

\* What a frame brings of a stream.
Payload(f, id) == IF f.id = id THEN f.data ELSE <<>>

\* The bytes that are held, and then those of the frames of a wire, one after the other.
InOrder(held, w, id) ==
  /\ Increasing(held)
  /\ \A i \in DOMAIN w :
       /\ Increasing(Payload(w[i], id)) /\ Before(held, Payload(w[i], id))
       /\ \A j \in DOMAIN w : i < j => Before(Payload(w[i], id), Payload(w[j], id))

AllOf(held, w, id) == ToSet(held) \cup UNION {ToSet(Payload(w[i], id)) : i \in DOMAIN w}

\* The bytes of a stream are delivered in the order they were written and none twice, over the
\* queue of unaccepted streams too; of an open stream nothing is missing but the bytes that a
\* call for something else threw away.
BytesAccounted ==
  \A e \in End, id \in Id :
    LET held == got[e][id] \o Kept(e, id)
        all == AllOf(held, wire[e], id)
    IN sync[e] =>
       /\ InOrder(held, wire[e], id)
       /\ all \cap dropped[e][id] = {}
       /\ ctx[e][id].open /\ ~shut[e] => all \cup dropped[e][id] = 1..written[Other(e)][id]

\* An open that has returned a stream was answered for it: the other end has accepted it or keeps
\* it to be accepted, unless one of the two has ended the session since; and no stream is accepted twice.
OpenIsAnswered ==
  \A e \in End, id \in Id :
    /\ accepted[e][id] <= 1 /\ (accepted[e][id] = 1 => id \notin PendingIds(e))
    /\ id \in Mine(e) /\ ctx[e][id].open /\ call[e].op # "open" =>
         accepted[Other(e)][id] = 1 \/ id \in PendingIds(Other(e)) \/ \E d \in End : shut[d]

\* Reading and discarding keeps to the frame boundaries in all but two cases: both ends ping, or
\* an end that has sent data waits for something else when its credit comes back.
FramingLost ==
  \A e \in End : ~sync[e] =>
    \/ pings[e] > 0 /\ pings[Other(e)] > 0
    \/ \E id \in Id : written[e][id] > 0
=============================================================================
