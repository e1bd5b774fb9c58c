---------------------------- MODULE YamuxChannel ----------------------------
(***************************************************************************)
(* One stream the peer opened on a yamux session, from the frames on the   *)
(* connection to the protocol handler: yamux_stream_process (yamux/        *)
(* stream.c) puts the data into the channel's buffer (utils/               *)
(* threadsafe_buffer.c) and starts yamux_read_method, a detached thread    *)
(* that reads messages off the buffer through libp2p_net_multistream_read  *)
(* until a read fails.                                                     *)
(*                                                                         *)
(* The frames are read by the pump: the dialer until libp2p_swarm_add_peer *)
(* sets listener_attached, the swarm's listener from then on.  Before that *)
(* the reading thread reads frames too, in libp2p_yamux_channel_read_raw.  *)
(*                                                                         *)
(* The peer's bytes are numbered.  A message is one byte of length, the    *)
(* varint, and Size bytes, and the peer cuts the bytes into frames as it   *)
(* likes.  A wait of libp2p_yamux_channel_read_raw may time out whenever   *)
(* the buffer is short.                                                    *)
(***************************************************************************)
EXTENDS Naturals, Sequences, FiniteSets

CONSTANTS
  Thread,     \* identities for yamux_read_method threads
  Pump,       \* the thread that reads the session
  Messages,   \* bound: messages the peer sends
  Size        \* bytes of a message after its length

ASSUME ThreadAssumption == IsFiniteSet(Thread) /\ Pump \notin Thread
ASSUME SizeAssumption == Messages \in Nat /\ Size \in Nat \ {0}

Total == Messages * (Size + 1)
IsLength(b) == b % (Size + 1) = 1
Msg(m) == [k \in 1..Size |-> (m - 1) * (Size + 1) + 1 + k]

VARIABLES
  listener_attached,  \* YamuxContext.listener_attached
  sent,               \* bytes the peer has sent
  net,                \* frames on the connection
  hold,               \* the frame a thread has read and not yet put into the buffer
  told,               \* the pump has put data into the buffer and not yet told the reader
  buffer,             \* YamuxChannelContext.buffer
  read_running,       \* YamuxChannelContext.read_running
  pc,                 \* where each thread is in yamux_read_method
  want,               \* bytes its libp2p_yamux_channel_read_raw waits for
  got,                \* the message it has read
  taken,              \* history: bytes taken out of the buffer
  handled,            \* history: messages given to libp2p_protocol_marshal
  torn,               \* history: a wait timed out inside a message
  missed,             \* history: data arrived while the reader was already leaving
  createFailed,       \* history: a pthread_create failed
  readerPumped        \* history: the reading thread has read a frame

wire == <<sent, net>>
reader == <<pc, want, got>>
history == <<taken, handled, torn, missed, createFailed, readerPumped>>
vars == <<listener_attached, wire, hold, told, buffer, read_running, reader, history>>

Init ==
  /\ listener_attached \in {0, 1}
  /\ sent = 0 /\ net = <<>>
  /\ hold = [t \in Thread \cup {Pump} |-> <<>>]
  /\ told = TRUE
  /\ buffer = <<>> /\ read_running = 0
  /\ pc = [t \in Thread |-> "none"]
  /\ want = [t \in Thread |-> 0]
  /\ got = [t \in Thread |-> <<>>]
  /\ taken = <<>> /\ handled = <<>>
  /\ torn = FALSE /\ missed = FALSE /\ createFailed = FALSE /\ readerPumped = FALSE

(***************************************************************************)
(* The frames                                                              *)
(***************************************************************************)
PeerSends(n) ==
  /\ sent + n <= Total
  /\ net' = Append(net, [k \in 1..n |-> sent + k])
  /\ sent' = sent + n
  /\ UNCHANGED <<listener_attached, hold, told, buffer, read_running, reader, history>>

\* libp2p_swarm_add_peer: the listener becomes the pump.
libp2p_swarm_add_peer ==
  /\ listener_attached = 0 /\ hold[Pump] = <<>> /\ told
  /\ listener_attached' = 1
  /\ UNCHANGED <<wire, hold, told, buffer, read_running, reader, history>>

\* libp2p_yamux_read takes a frame off the connection.
ReadFrame(t) ==
  /\ net # <<>>
  /\ hold' = [hold EXCEPT ![t] = Head(net)]
  /\ net' = Tail(net)
  /\ UNCHANGED <<listener_attached, sent, told, buffer, read_running, reader>>

PumpReads ==
  /\ hold[Pump] = <<>> /\ told
  /\ ReadFrame(Pump)
  /\ UNCHANGED history

\* threadsafe_buffer_write
PumpStores ==
  /\ hold[Pump] # <<>>
  /\ buffer' = buffer \o hold[Pump]
  /\ hold' = [hold EXCEPT ![Pump] = <<>>]
  /\ told' = FALSE
  /\ UNCHANGED <<listener_attached, wire, read_running, reader, history>>

\* A new yamux_read_method.
StartReader ==
  \E t \in Thread :
    /\ pc[t] = "none"
    /\ pc' = [pc EXCEPT ![t] = "length"]
    /\ want' = [want EXCEPT ![t] = 1]

\* Mutant: a thread for every frame.
Notify_Always == read_running' = 1 /\ StartReader /\ UNCHANGED <<missed, createFailed>>

\* Mutant: the threads are counted.
Notify_Count ==
  read_running' = read_running + 1 /\ StartReader /\ UNCHANGED <<missed, createFailed>>

\* Mutant: the flag is tested the wrong way round.
Notify_Inverted ==
  /\ read_running = 1 => StartReader
  /\ read_running = 0 => UNCHANGED <<pc, want>>
  /\ UNCHANGED <<read_running, missed, createFailed>>

\* The test and the assignment are one step: no other thread sets read_running, and a
\* reader that runs keeps it set.  When pthread_create fails it is cleared again.
Notify ==
  \/ /\ read_running = 1
     /\ missed' = (missed \/ \E t \in Thread : pc[t] = "exit")
     /\ UNCHANGED <<read_running, pc, want, createFailed>>
  \/ /\ read_running = 0
     /\ read_running' = 1
     /\ StartReader
     /\ UNCHANGED <<missed, createFailed>>
  \/ /\ read_running = 0
     /\ createFailed' = TRUE
     /\ UNCHANGED <<read_running, pc, want, missed>>

libp2p_yamux_notify_child_stream_has_data ==
  /\ ~told
  /\ told' = TRUE
  /\ Notify
  /\ UNCHANGED <<listener_attached, wire, hold, buffer, got, taken, handled, torn, readerPumped>>

(***************************************************************************)
(* yamux_read_method                                                       *)
(***************************************************************************)
Waiting(t) == pc[t] \in {"length", "body"} /\ hold[t] = <<>>
Take == [length |-> "takeLength", body |-> "takeBody"]

\* The loop of libp2p_yamux_channel_read_raw ends: the bytes are there, or time is up.
WaitEnds(t) ==
  /\ Waiting(t) /\ Len(buffer) >= want[t]
  /\ pc' = [pc EXCEPT ![t] = Take[@]]
  /\ UNCHANGED <<listener_attached, wire, hold, told, buffer, read_running, want, got, history>>

WaitTimesOut(t) ==
  /\ Waiting(t) /\ Len(buffer) < want[t]
  /\ pc' = [pc EXCEPT ![t] = Take[@]]
  /\ UNCHANGED <<listener_attached, wire, hold, told, buffer, read_running, want, got, history>>

\* "If no swarm listener is driving this yamux session yet, pump frames ourselves."
\* The frame may be one the pump is about to read.  The notification it ends in finds
\* read_running set.
ReaderReads(t) ==
  /\ Waiting(t) /\ Len(buffer) < want[t] /\ listener_attached = 0
  /\ ReadFrame(t)
  /\ readerPumped' = TRUE
  /\ UNCHANGED <<taken, handled, torn, missed, createFailed>>

ReaderStores(t) ==
  /\ pc[t] # "none" /\ hold[t] # <<>>
  /\ buffer' = buffer \o hold[t]
  /\ hold' = [hold EXCEPT ![t] = <<>>]
  /\ UNCHANGED <<listener_attached, wire, told, read_running, reader, history>>

\* Mutant: the last byte read stays in the buffer.
threadsafe_buffer_rest_Short(n) == SubSeq(buffer, n, Len(buffer))

\* threadsafe_buffer_read: what it returns, and what it leaves.
threadsafe_buffer_read(n) == SubSeq(buffer, 1, IF n < Len(buffer) THEN n ELSE Len(buffer))
threadsafe_buffer_rest(n) == SubSeq(buffer, n + 1, Len(buffer))

\* The varint.  Without a byte the length is 0, and the read fails.  Out of step with
\* the peer, any byte is taken for a length.
TakeLength(t) ==
  LET b == threadsafe_buffer_read(1)
  IN  /\ pc[t] = "takeLength"
      /\ buffer' = threadsafe_buffer_rest(1)
      /\ taken' = taken \o b
      /\ \E n \in 0..Size :
           /\ b = <<>> => n = 0
           /\ (b # <<>> /\ IsLength(b[1])) => n = Size
           /\ want' = [want EXCEPT ![t] = n]
           /\ pc' = [pc EXCEPT ![t] = IF n = 0 THEN "exit" ELSE "body"]
      /\ UNCHANGED <<listener_attached, wire, hold, told, read_running, got,
                     handled, torn, missed, createFailed, readerPumped>>

\* The body: the read fails unless it is complete, and what it took is lost.
TakeBody(t) ==
  LET b == threadsafe_buffer_read(want[t])
  IN  /\ pc[t] = "takeBody"
      /\ buffer' = threadsafe_buffer_rest(want[t])
      /\ taken' = taken \o b
      /\ got' = [got EXCEPT ![t] = b]
      /\ torn' = (torn \/ Len(b) < want[t])
      /\ pc' = [pc EXCEPT ![t] = IF Len(b) < want[t] THEN "exit" ELSE "marshal"]
      /\ UNCHANGED <<listener_attached, wire, hold, told, read_running, want,
                     handled, missed, createFailed, readerPumped>>

\* libp2p_protocol_marshal, and round the loop.
Marshal(t) ==
  /\ pc[t] = "marshal"
  /\ handled' = Append(handled, got[t])
  /\ got' = [got EXCEPT ![t] = <<>>]
  /\ want' = [want EXCEPT ![t] = 1]
  /\ pc' = [pc EXCEPT ![t] = "length"]
  /\ UNCHANGED <<listener_attached, wire, hold, told, buffer, read_running,
                 taken, torn, missed, createFailed, readerPumped>>

\* Mutant: read_running stays set.
Exit_Flag(t) ==
  /\ pc[t] = "exit"
  /\ pc' = [pc EXCEPT ![t] = "none"]
  /\ want' = [want EXCEPT ![t] = 0]
  /\ got' = [got EXCEPT ![t] = <<>>]
  /\ UNCHANGED <<listener_attached, wire, hold, told, buffer, read_running, history>>

\* The loop was left: read_running is cleared and the thread ends.
Exit(t) ==
  /\ pc[t] = "exit"
  /\ read_running' = 0
  /\ pc' = [pc EXCEPT ![t] = "none"]
  /\ want' = [want EXCEPT ![t] = 0]
  /\ got' = [got EXCEPT ![t] = <<>>]
  /\ UNCHANGED <<listener_attached, wire, hold, told, buffer, history>>

yamux_read_method(t) ==
  \/ WaitEnds(t) \/ WaitTimesOut(t) \/ ReaderReads(t) \/ ReaderStores(t)
  \/ TakeLength(t) \/ TakeBody(t) \/ Marshal(t) \/ Exit(t)

yamux_pump == PumpReads \/ PumpStores \/ libp2p_yamux_notify_child_stream_has_data

Next ==
  \/ \E n \in 1..Total : PeerSends(n)
  \/ libp2p_swarm_add_peer
  \/ yamux_pump
  \/ \E t \in Thread : yamux_read_method(t)

Spec == Init /\ [][Next]_vars

\* Threads are scheduled.  A dialer attaches the listener in the end: every wait it
\* makes on the way is limited.  The peer may stop at any time.
Fairness ==
  /\ WF_vars(libp2p_swarm_add_peer)
  /\ WF_vars(yamux_pump)
  /\ \A t \in Thread : WF_vars(yamux_read_method(t))
FairSpec == Spec /\ Fairness

(***************************************************************************)
(* Properties                                                              *)
(***************************************************************************)
Byte == 1..Total

\* The variables have the values their C types allow.
TypeOK ==
  /\ listener_attached \in {0, 1} /\ read_running \in {0, 1}
  /\ sent \in 0..Total
  /\ net \in Seq(Seq(Byte)) /\ hold \in [Thread \cup {Pump} -> Seq(Byte)]
  /\ told \in BOOLEAN
  /\ buffer \in Seq(Byte)
  /\ pc \in [Thread -> {"none", "length", "takeLength", "body", "takeBody", "marshal", "exit"}]
  /\ want \in [Thread -> 0..(Size + 1)] /\ got \in [Thread -> Seq(Byte)]
  /\ taken \in Seq(Byte) /\ handled \in Seq(Seq(Byte))
  /\ torn \in BOOLEAN /\ missed \in BOOLEAN
  /\ createFailed \in BOOLEAN /\ readerPumped \in BOOLEAN

\* No two threads read a channel: read_running, tested and set without a lock, is set
\* exactly while one yamux_read_method is in its loop.
OneReader ==
  Cardinality({t \in Thread : pc[t] # "none"}) = read_running

\* As long as only the pump reads the connection, what was taken out of the buffer,
\* what is in it and what the pump holds is what the peer sent, in order, once.
BytesInOrder ==
  ~readerPumped =>
    \E n \in 0..sent : taken \o buffer \o hold[Pump] = [k \in 1..n |-> k]

\* Handlers are given whole messages, in order, none of them left out: however the
\* peer cut them into frames, and whatever number of threads read them one after
\* another, until a wait times out inside a message.
MessagesInOrder ==
  (~readerPumped /\ ~torn) => handled = [m \in 1..Len(handled) |-> Msg(m)]

AllHandled == handled = [m \in 1..Messages |-> Msg(m)]

\* Every message of a peer that has sent them all is handled, unless a wait timed out
\* inside one, pthread_create failed, or data came while no reader could be told:
\* between a reader's last look at the buffer and read_running = 0.
HandledUnlessMissed ==
  sent = Total ~> (AllHandled \/ torn \/ createFailed \/ readerPumped \/ missed)

\* "Keep reading from the child stream until it closes or times out", and "Alert the
\* child protocol that these bytes came in": every message of a peer that has sent them
\* all is handled, unless a wait timed out inside one or pthread_create failed.
HandledEventually ==
  sent = Total ~> (AllHandled \/ torn \/ createFailed \/ readerPumped)
=============================================================================
