------------------------- MODULE YamuxChannelProofs -------------------------
(***************************************************************************)
(* Proofs about YamuxChannel, for any number of threads and messages and   *)
(* any size of a message.  The bytes are followed from the frames on the   *)
(* connection through the pump and the buffer to the one reader, and the   *)
(* reader's place in its loop says how far into a message it is.           *)
(***************************************************************************)
EXTENDS YamuxChannel, FiniteSetTheorems, TLAPS

\* The bytes of s are the ones after the first a, in order.
Follows(s, a) == \A k \in 1..Len(s) : s[k] = a + k

\* The frames fs carry the bytes after the first a up to b, in order.
Frames(fs, a, b) ==
  \E start \in [1..(Len(fs) + 1) -> Nat] :
    /\ start[1] = a /\ start[Len(fs) + 1] = b
    /\ \A i \in 1..(Len(fs) + 1) : start[i] <= b
    /\ \A i \in 1..Len(fs) : /\ start[i + 1] = start[i] + Len(fs[i])
                             /\ Follows(fs[i], start[i])

\* One thread at most is inside yamux_read_method, and read_running says so.
ReaderFlag ==
  /\ read_running = 0 => \A t \in Thread : pc[t] = "none"
  /\ read_running = 1 => \E t \in Thread : pc[t] # "none"
  /\ \A t, u \in Thread : pc[t] # "none" /\ pc[u] # "none" => t = u

\* Where the bytes are while only the pump reads the connection.
ByteOrder ==
  ~readerPumped =>
    /\ \A t \in Thread : hold[t] = <<>>
    /\ Follows(taken, 0)
    /\ Follows(buffer, Len(taken))
    /\ Follows(hold[Pump], Len(taken) + Len(buffer))
    /\ Frames(net, Len(taken) + Len(buffer) + Len(hold[Pump]), sent)

\* Where message m + 1 begins: after m messages.
After(m) == m * (Size + 1)

\* How many bytes are taken when the reader is at each place, and what it has read then.
MessageOrder ==
  ~readerPumped /\ ~torn =>
    /\ \A m \in 1..Len(handled) : handled[m] = Msg(m)
    /\ (\A t \in Thread : pc[t] = "none") => Len(taken) = After(Len(handled))
    /\ \A t \in Thread :
         /\ pc[t] \in {"length", "takeLength", "exit"} => Len(taken) = After(Len(handled))
         /\ pc[t] \in {"body", "takeBody"} =>
              want[t] = Size /\ Len(taken) = After(Len(handled)) + 1
         /\ pc[t] = "marshal" =>
              got[t] = Msg(Len(handled) + 1) /\ Len(taken) = After(Len(handled) + 1)

IInv == TypeOK /\ ReaderFlag /\ ByteOrder /\ MessageOrder
-----------------------------------------------------------------------------
\* Appending bytes that follow: threadsafe_buffer_write.
LEMMA FollowsConcat ==
  ASSUME NEW S \in SUBSET Nat, NEW s \in Seq(S), NEW f \in Seq(S), NEW a \in Nat,
         Follows(s, a), Follows(f, a + Len(s))
  PROVE  s \o f \in Seq(S) /\ Len(s \o f) = Len(s) + Len(f) /\ Follows(s \o f, a)
<1> DEFINE c == s \o f
<1>1. /\ c \in Seq(S) /\ Len(c) = Len(s) + Len(f) /\ Len(s) \in Nat /\ Len(f) \in Nat
      /\ \A k \in 1..Len(c) : c[k] = IF k <= Len(s) THEN s[k] ELSE f[k - Len(s)]
  OBVIOUS
<1> HIDE DEF c
<1>2. ASSUME NEW k \in 1..Len(c) PROVE c[k] = a + k
  <2>1. CASE k <= Len(s)
    BY <1>1, <2>1 DEF Follows
  <2>2. CASE ~(k <= Len(s))
    <3>1. k - Len(s) \in 1..Len(f)
      BY <1>1, <2>2
    <3>2. f[k - Len(s)] = a + Len(s) + (k - Len(s))
      BY <3>1 DEF Follows
    <3> QED
      BY <1>1, <2>2, <3>2
  <2> QED
    BY <2>1, <2>2
<1>3. Follows(c, a)
  BY <1>2 DEF Follows
<1> QED
  BY <1>1, <1>3 DEF c

\* What threadsafe_buffer_read takes and what it leaves, of any sequence.
FirstOf(s, n) == SubSeq(s, 1, IF n < Len(s) THEN n ELSE Len(s))
RestOf(s, n) == SubSeq(s, n + 1, Len(s))

\* The two parts make up the whole, and bytes in order stay in order.
LEMMA SplitFacts ==
  ASSUME NEW S \in SUBSET Nat, NEW s \in Seq(S), NEW n \in Nat, NEW a \in Nat
  PROVE  /\ FirstOf(s, n) \in Seq(S) /\ RestOf(s, n) \in Seq(S)
         /\ Len(FirstOf(s, n)) = IF n < Len(s) THEN n ELSE Len(s)
         /\ Len(FirstOf(s, n)) + Len(RestOf(s, n)) = Len(s)
         /\ Follows(s, a) =>
              Follows(FirstOf(s, n), a) /\ Follows(RestOf(s, n), a + Len(FirstOf(s, n)))
<1> DEFINE m == IF n < Len(s) THEN n ELSE Len(s)
           f == SubSeq(s, 1, m)
           r == SubSeq(s, n + 1, Len(s))
<1>1. Len(s) \in Nat /\ m \in 0..Len(s) /\ m <= n
  OBVIOUS
<1>2. f \in Seq(S) /\ Len(f) = m /\ \A k \in 1..m : f[k] = s[k]
  <2> HIDE DEF m
  <2> QED
    BY <1>1
<1>3. r \in Seq(S) /\ Len(r) = Len(s) - m /\ \A k \in 1..(Len(s) - m) : r[k] = s[n + k]
  <2>1. CASE n < Len(s)
    <3>1. r \in Seq(S) /\ Len(r) = Len(s) - n
      BY <2>1
    <3>2. \A k \in 1..Len(r) : r[k] = s[(n + 1) + k - 1]
      BY <2>1
    <3>3. \A k \in Nat : (n + 1) + k - 1 = n + k
      OBVIOUS
    <3> QED
      BY <2>1, <3>1, <3>2, <3>3
  <2>2. CASE ~(n < Len(s))
    <3>1. r = <<>>
      BY <2>2
    <3> QED
      BY <1>1, <2>2, <3>1
  <2> QED
    BY <2>1, <2>2
<1>4. Len(s) - m > 0 => n = m
  OBVIOUS
<1> HIDE DEF m, f, r
<1>5. ASSUME Follows(s, a) PROVE Follows(f, a) /\ Follows(r, a + m)
  <2>1. Follows(f, a)
    BY <1>1, <1>2, <1>5 DEF Follows
  <2>2. ASSUME NEW k \in 1..Len(r) PROVE r[k] = a + m + k
    <3>1. k \in 1..(Len(s) - m) /\ n = m /\ n + k \in 1..Len(s)
      BY <1>1, <1>3, <1>4
    <3> QED
      BY <1>1, <1>3, <1>5, <3>1 DEF Follows
  <2> QED
    BY <2>1, <2>2 DEF Follows
<1>6. FirstOf(s, n) = f /\ RestOf(s, n) = r /\ m = IF n < Len(s) THEN n ELSE Len(s)
  BY DEF FirstOf, RestOf, f, r, m
<1>7. Len(f) + Len(r) = Len(s)
  BY <1>1, <1>2, <1>3
<1> QED
  BY <1>2, <1>3, <1>5, <1>6, <1>7

\* The peer sends a frame with the next n bytes.
LEMMA FramesAppend ==
  ASSUME NEW fs \in Seq(Seq(Nat)), NEW a \in Nat, NEW b \in Nat, NEW n \in Nat,
         Frames(fs, a, b)
  PROVE  Frames(Append(fs, [k \in 1..n |-> b + k]), a, b + n)
<1> DEFINE f == [k \in 1..n |-> b + k]
           g == Append(fs, f)
           L == Len(fs)
<1>1. L \in Nat /\ f \in Seq(Nat) /\ Len(f) = n /\ Follows(f, b)
  BY DEF Follows
<1>2. Len(g) = L + 1 /\ g[L + 1] = f /\ \A i \in 1..L : g[i] = fs[i]
  <2> HIDE DEF f
  <2> QED
    BY <1>1
<1>3. PICK start \in [1..(L + 1) -> Nat] :
        /\ start[1] = a /\ start[L + 1] = b
        /\ \A i \in 1..(L + 1) : start[i] <= b
        /\ \A i \in 1..L : start[i + 1] = start[i] + Len(fs[i]) /\ Follows(fs[i], start[i])
  BY DEF Frames
<1> HIDE DEF f, g, L
<1> DEFINE next == [i \in 1..(L + 2) |-> IF i = L + 2 THEN b + n ELSE start[i]]
<1>4. next \in [1..(Len(g) + 1) -> Nat]
  <2>1. \A i \in 1..(L + 2) : i = L + 2 \/ i \in 1..(L + 1)
    BY <1>1
  <2>2. Len(g) + 1 = L + 2
    BY <1>1, <1>2
  <2> QED
    BY <1>3, <2>1, <2>2
<1>5. next[1] = a /\ next[Len(g) + 1] = b + n
  BY <1>1, <1>2, <1>3
<1>6. \A i \in 1..(Len(g) + 1) : next[i] <= b + n
  <2>1. \A i \in 1..(L + 1) : start[i] \in Nat /\ start[i] <= b
    BY <1>3
  <2> QED
    BY <1>1, <1>2, <2>1
<1>7. ASSUME NEW i \in 1..Len(g)
      PROVE  next[i + 1] = next[i] + Len(g[i]) /\ Follows(g[i], next[i])
  <2>1. CASE i = L + 1
    BY <1>1, <1>2, <1>3, <2>1
  <2>2. CASE i # L + 1
    <3>1. i \in 1..L /\ i + 1 \in 1..(L + 1) /\ i + 1 # L + 2 /\ i # L + 2
          /\ i \in 1..(L + 2) /\ i + 1 \in 1..(L + 2)
      BY <1>1, <1>2, <2>2
    <3>2. next[i] = start[i] /\ next[i + 1] = start[i + 1] /\ g[i] = fs[i]
      BY <1>2, <3>1
    <3> QED
      BY <1>3, <3>1, <3>2
  <2> QED
    BY <2>1, <2>2
<1> HIDE DEF next
<1>8. Frames(g, a, b + n)
  BY <1>4, <1>5, <1>6, <1>7 DEF Frames
<1> QED
  BY <1>8 DEF g, f

\* libp2p_yamux_read takes the first frame off the connection.
LEMMA FramesTail ==
  ASSUME NEW fs \in Seq(Seq(Nat)), fs # <<>>, NEW a \in Nat, NEW b \in Nat,
         Frames(fs, a, b)
  PROVE  /\ Follows(Head(fs), a) /\ Len(Head(fs)) \in Nat
         /\ Frames(Tail(fs), a + Len(Head(fs)), b)
<1> DEFINE g == Tail(fs)
           L == Len(fs)
<1>1. L \in Nat /\ L >= 1 /\ Head(fs) = fs[1] /\ fs[1] \in Seq(Nat) /\ Len(fs[1]) \in Nat
      /\ Len(g) = L - 1 /\ \A i \in 1..(L - 1) : g[i] = fs[i + 1]
  OBVIOUS
<1>2. PICK start \in [1..(L + 1) -> Nat] :
        /\ start[1] = a /\ start[L + 1] = b
        /\ \A i \in 1..(L + 1) : start[i] <= b
        /\ \A i \in 1..L : start[i + 1] = start[i] + Len(fs[i]) /\ Follows(fs[i], start[i])
  BY DEF Frames
<1> HIDE DEF g, L
<1> DEFINE next == [i \in 1..L |-> start[i + 1]]
<1>3. \A i \in 1..L : i + 1 \in 1..(L + 1)
  BY <1>1
<1>4. next \in [1..(Len(g) + 1) -> Nat] /\ Len(g) + 1 = L
  BY <1>1, <1>2, <1>3
<1>5. next[1] = a + Len(fs[1]) /\ next[L] = b
  BY <1>1, <1>2
<1>6. \A i \in 1..L : next[i] <= b
  BY <1>2, <1>3
<1>7. ASSUME NEW i \in 1..Len(g)
      PROVE  next[i + 1] = next[i] + Len(g[i]) /\ Follows(g[i], next[i])
  <2>1. i \in 1..(L - 1) /\ i \in 1..L /\ i + 1 \in 1..L
    BY <1>1
  <2>2. next[i] = start[i + 1] /\ next[i + 1] = start[(i + 1) + 1] /\ g[i] = fs[i + 1]
    BY <1>1, <2>1
  <2> QED
    BY <1>2, <2>1, <2>2
<1> HIDE DEF next
<1>8. Frames(g, a + Len(fs[1]), b)
  BY <1>4, <1>5, <1>6, <1>7 DEF Frames
<1>9. Follows(fs[1], a)
  BY <1>1, <1>2
<1> QED
  BY <1>1, <1>8, <1>9 DEF g

\* The bytes on the connection are ones the peer has sent.
LEMMA FramesBound ==
  ASSUME NEW fs \in Seq(Seq(Nat)), NEW a \in Nat, NEW b \in Nat, Frames(fs, a, b)
  PROVE  a <= b
BY DEF Frames
-----------------------------------------------------------------------------
\* One message is Size + 1 bytes, and the first byte of each is its length.
LEMMA MessageFacts ==
  ASSUME NEW m \in Nat
  PROVE  /\ After(m) \in Nat /\ After(m + 1) = After(m) + Size + 1
         /\ IsLength(After(m) + 1)
         /\ Msg(m + 1) = [k \in 1..Size |-> After(m) + 1 + k]
<1>1. After(m) \in Nat
  BY SizeAssumption DEF After
<1>2. After(m + 1) = After(m) + Size + 1
  BY SizeAssumption DEF After
<1>3. (After(m) + 1) % (Size + 1) = 1
  BY SizeAssumption DEF After
<1>4. (m + 1) - 1 = m
  OBVIOUS
<1> QED
  BY <1>1, <1>2, <1>3, <1>4 DEF IsLength, Msg, After
-----------------------------------------------------------------------------
\* The bytes of all messages are numbers.
LEMMA ByteFacts == Total \in Nat /\ Byte \in SUBSET Nat
BY SizeAssumption DEF Total, Byte

\* A sequence of bytes is a sequence of numbers.
LEMMA SeqWider ==
  ASSUME NEW S, NEW T, S \subseteq T, NEW s \in Seq(S)
  PROVE  s \in Seq(T)
<1>1. \A i \in 1..Len(s) : s[i] \in T
  OBVIOUS
<1> QED
  BY <1>1

\* What the invariant needs to know of the sequences, and no more.
LEMMA SeqTypes ==
  ASSUME TypeOK
  PROVE  /\ net \in Seq(Seq(Nat)) /\ taken \in Seq(Byte) /\ buffer \in Seq(Byte)
         /\ hold[Pump] \in Seq(Byte)
         /\ Len(taken) \in Nat /\ Len(buffer) \in Nat /\ Len(hold[Pump]) \in Nat
         /\ Len(handled) \in Nat /\ sent \in Nat
<1>1. /\ net \in Seq(Seq(Byte)) /\ taken \in Seq(Byte) /\ buffer \in Seq(Byte)
      /\ hold[Pump] \in Seq(Byte) /\ handled \in Seq(Seq(Byte)) /\ sent \in 0..Total
  BY DEF TypeOK
<1>2. Seq(Byte) \subseteq Seq(Nat)
  BY ByteFacts, SeqWider
<1>3. net \in Seq(Seq(Nat))
  BY <1>1, <1>2, SeqWider
<1> QED
  BY <1>1, <1>3, ByteFacts

\* Nothing has been sent.
LEMMA InitIInv == Init => IInv
<1> SUFFICES ASSUME Init PROVE IInv
  OBVIOUS
<1>1. TypeOK
  <2>1. told \in BOOLEAN /\ torn \in BOOLEAN /\ missed \in BOOLEAN /\ createFailed \in BOOLEAN
        /\ readerPumped \in BOOLEAN
    BY DEF Init
  <2>2. /\ want \in [Thread -> 0..(Size + 1)] /\ got \in [Thread -> Seq(Byte)]
        /\ hold \in [Thread \cup {Pump} -> Seq(Byte)] /\ sent \in 0..Total
        /\ pc \in [Thread -> {"none", "length", "takeLength", "body", "takeBody", "marshal",
                             "exit"}]
    BY ByteFacts, SizeAssumption DEF Init
  <2>3. listener_attached \in {0, 1} /\ read_running \in {0, 1} /\ net \in Seq(Seq(Byte))
        /\ buffer \in Seq(Byte) /\ taken \in Seq(Byte) /\ handled \in Seq(Seq(Byte))
    BY DEF Init
  <2> QED
    BY <2>1, <2>2, <2>3 DEF TypeOK
<1>2. ReaderFlag
  BY DEF Init, ReaderFlag
<1>3. ByteOrder
  <2> DEFINE start == [i \in 1..1 |-> 0]
  <2>1. Frames(<<>>, 0, 0)
    <3>1. start \in [1..(Len(<<>>) + 1) -> Nat] /\ start[1] = 0 /\ start[Len(<<>>) + 1] = 0
          /\ \A i \in 1..(Len(<<>>) + 1) : start[i] <= 0
      OBVIOUS
    <3> HIDE DEF start
    <3> QED
      BY <3>1 DEF Frames
  <2>2. \A a \in Nat : Follows(<<>>, a)
    BY DEF Follows
  <2>3. Len(<<>>) = 0 /\ 0 + 0 = 0 /\ 0 + 0 + 0 = 0
    OBVIOUS
  <2>4. taken = <<>> /\ buffer = <<>> /\ hold[Pump] = <<>> /\ net = <<>> /\ sent = 0
        /\ \A t \in Thread : hold[t] = <<>>
    BY DEF Init
  <2> QED
    BY <2>1, <2>2, <2>3, <2>4 DEF ByteOrder
<1>4. MessageOrder
  <2>1. After(0) = 0
    BY SizeAssumption DEF After
  <2> QED
    BY <2>1 DEF Init, MessageOrder
<1> QED
  BY <1>1, <1>2, <1>3, <1>4 DEF IInv

\* The peer sends: the frame goes behind the ones on the connection.
LEMMA PeerSendsIInv ==
  ASSUME IInv, NEW n \in 1..Total, PeerSends(n)
  PROVE  IInv'
<1> DEFINE f == [k \in 1..n |-> sent + k]
<1>1. /\ sent + n <= Total /\ net' = Append(net, f) /\ sent' = sent + n
      /\ UNCHANGED <<listener_attached, hold, told, buffer, read_running, pc, want, got, taken,
                     handled, torn, missed, createFailed, readerPumped>>
  BY DEF PeerSends, reader, history
<1>2. TypeOK'
  <2>1. n \in Nat /\ sent \in Nat /\ sent' \in 0..Total
    BY <1>1, ByteFacts DEF IInv, TypeOK
  <2>2. f \in Seq(Byte)
    BY <1>1, <2>1, ByteFacts DEF Byte
  <2>3. net' \in Seq(Seq(Byte))
    <3> HIDE DEF f
    <3> QED
      BY <1>1, <2>2 DEF IInv, TypeOK
  <2> QED
    BY <1>1, <2>1, <2>3 DEF IInv, TypeOK
<1>3. ByteOrder'
  <2>1. n \in Nat
    BY ByteFacts
  <2>2. \A a \in Nat : Frames(net, a, sent) => Frames(net', a, sent')
    BY <1>1, <2>1, SeqTypes, FramesAppend DEF IInv
  <2> QED
    <3>1. ASSUME ~readerPumped
          PROVE  Frames(net', Len(taken) + Len(buffer) + Len(hold[Pump]), sent')
      <4>1. \A x, y, z \in Nat : x + y + z \in Nat
        OBVIOUS
      <4>2. Len(taken) + Len(buffer) + Len(hold[Pump]) \in Nat
        BY <4>1, SeqTypes DEF IInv
      <4> QED
        BY <2>2, <3>1, <4>2 DEF IInv, ByteOrder
    <3> QED
      BY <1>1, <3>1 DEF IInv, ByteOrder
<1> QED
  BY <1>1, <1>2, <1>3 DEF IInv, ReaderFlag, MessageOrder

\* libp2p_swarm_add_peer, and a step that changes nothing.
LEMMA AddPeerIInv ==
  ASSUME IInv, libp2p_swarm_add_peer \/ UNCHANGED vars
  PROVE  IInv'
<1>1. UNCHANGED <<sent, net, hold, told, buffer, read_running, pc, want, got, taken, handled,
                  torn, missed, createFailed, readerPumped>>
      /\ listener_attached' \in {0, 1}
  BY DEF libp2p_swarm_add_peer, vars, wire, reader, history, IInv, TypeOK
<1> QED
  BY <1>1 DEF IInv, TypeOK, ReaderFlag, ByteOrder, MessageOrder

\* The pump takes the next frame.
LEMMA PumpReadsIInv ==
  ASSUME IInv, PumpReads
  PROVE  IInv'
<1>1. /\ hold[Pump] = <<>> /\ net # <<>> /\ hold' = [hold EXCEPT ![Pump] = Head(net)]
      /\ net' = Tail(net)
      /\ UNCHANGED <<listener_attached, sent, told, buffer, read_running, pc, want, got, taken,
                     handled, torn, missed, createFailed, readerPumped>>
  BY DEF PumpReads, ReadFrame, reader, history
<1>2. Head(net) \in Seq(Byte) /\ Tail(net) \in Seq(Seq(Byte))
  BY <1>1 DEF IInv, TypeOK
<1>3. TypeOK'
  BY <1>1, <1>2 DEF IInv, TypeOK
<1>4. hold'[Pump] = Head(net) /\ \A t \in Thread : hold'[t] = hold[t]
  BY <1>1, ThreadAssumption DEF IInv, TypeOK
<1>5. ByteOrder'
  <2> SUFFICES ASSUME ~readerPumped
               PROVE  /\ Follows(hold'[Pump], Len(taken) + Len(buffer))
                      /\ Frames(net', Len(taken) + Len(buffer) + Len(hold'[Pump]), sent)
    BY <1>1, <1>4 DEF IInv, ByteOrder
  <2>1. Len(hold[Pump]) = 0
    BY <1>1
  <2>2. Frames(net, Len(taken) + Len(buffer), sent) /\ Len(taken) + Len(buffer) \in Nat
    BY <2>1, SeqTypes DEF IInv, ByteOrder
  <2> QED
    BY <1>1, <1>4, <2>2, SeqTypes, FramesTail DEF IInv
<1> QED
  BY <1>1, <1>3, <1>5 DEF IInv, ReaderFlag, MessageOrder

\* threadsafe_buffer_write of the frame the pump holds.
LEMMA PumpStoresIInv ==
  ASSUME IInv, PumpStores
  PROVE  IInv'
<1>1. /\ buffer' = buffer \o hold[Pump] /\ hold' = [hold EXCEPT ![Pump] = <<>>]
      /\ told' = FALSE
      /\ UNCHANGED <<listener_attached, sent, net, read_running, pc, want, got, taken,
                     handled, torn, missed, createFailed, readerPumped>>
  BY DEF PumpStores, wire, reader, history
<1>2. buffer' \in Seq(Byte) /\ Len(buffer') = Len(buffer) + Len(hold[Pump])
  BY <1>1, SeqTypes DEF IInv
<1>3. TypeOK'
  <2>1. told' \in BOOLEAN
    BY <1>1
  <2>2. hold' \in [Thread \cup {Pump} -> Seq(Byte)]
    BY <1>1 DEF IInv, TypeOK
  <2> QED
    BY <1>1, <1>2, <2>1, <2>2 DEF IInv, TypeOK
<1>4. hold'[Pump] = <<>> /\ \A t \in Thread : hold'[t] = hold[t]
  BY <1>1, ThreadAssumption DEF IInv, TypeOK
<1>5. ByteOrder'
  <2> SUFFICES ASSUME ~readerPumped
               PROVE  /\ Follows(buffer', Len(taken))
                      /\ Follows(hold'[Pump], Len(taken) + Len(buffer'))
                      /\ Frames(net, Len(taken) + Len(buffer') + Len(hold'[Pump]), sent)
    BY <1>1, <1>4 DEF IInv, ByteOrder
  <2>1. Follows(buffer', Len(taken))
    BY <1>1, ByteFacts, SeqTypes, FollowsConcat DEF IInv, ByteOrder
  <2>2. Follows(hold'[Pump], Len(taken) + Len(buffer'))
    BY <1>4 DEF Follows
  <2>3. Len(taken) + Len(buffer') + Len(hold'[Pump])
          = Len(taken) + Len(buffer) + Len(hold[Pump])
    <3>1. Len(hold'[Pump]) = 0
      BY <1>4
    <3>2. Len(taken) \in Nat /\ Len(buffer) \in Nat /\ Len(hold[Pump]) \in Nat
      BY SeqTypes DEF IInv
    <3>3. \A a, b, c \in Nat : a + (b + c) + 0 = a + b + c
      OBVIOUS
    <3>4. Len(taken) + (Len(buffer) + Len(hold[Pump])) + 0
            = Len(taken) + Len(buffer) + Len(hold[Pump])
      BY <3>2, <3>3
    <3> QED
      BY <1>2, <3>1, <3>4
  <2> QED
    BY <2>1, <2>2, <2>3 DEF IInv, ByteOrder
<1> QED
  BY <1>1, <1>3, <1>5 DEF IInv, ReaderFlag, MessageOrder

\* libp2p_yamux_notify_child_stream_has_data: a thread is started when none runs, and then
\* whole messages have been taken.
LEMMA NotifyIInv ==
  ASSUME IInv, libp2p_yamux_notify_child_stream_has_data
  PROVE  IInv'
<1>1. /\ told' = TRUE /\ Notify
      /\ UNCHANGED <<listener_attached, sent, net, hold, buffer, got, taken, handled, torn,
                     readerPumped>>
  BY DEF libp2p_yamux_notify_child_stream_has_data, wire
<1>2. ByteOrder'
  BY <1>1 DEF IInv, ByteOrder
<1>3. missed' \in BOOLEAN /\ createFailed' \in BOOLEAN /\ told' \in BOOLEAN
  BY <1>1 DEF Notify, IInv, TypeOK
<1>4. CASE UNCHANGED <<read_running, pc, want>>
  <2>1. TypeOK'
    BY <1>1, <1>3, <1>4 DEF IInv, TypeOK
  <2> QED
    BY <1>1, <1>2, <1>4, <2>1 DEF IInv, ReaderFlag, MessageOrder
<1>5. CASE read_running = 0 /\ read_running' = 1 /\ StartReader
  <2>1. PICK t \in Thread : /\ pc[t] = "none" /\ pc' = [pc EXCEPT ![t] = "length"]
                            /\ want' = [want EXCEPT ![t] = 1]
    BY <1>5 DEF StartReader
  <2>2. \A u \in Thread : pc[u] = "none"
    BY <1>5 DEF IInv, ReaderFlag
  <2>3. pc'[t] = "length" /\ \A u \in Thread : u # t => pc'[u] = "none"
    BY <2>1, <2>2 DEF IInv, TypeOK
  <2>4. TypeOK'
    <3>1. want' \in [Thread -> 0..(Size + 1)]
      BY <2>1, SizeAssumption DEF IInv, TypeOK
    <3>2. pc' \in [Thread -> {"none", "length", "takeLength", "body", "takeBody", "marshal",
                             "exit"}]
      BY <2>1 DEF IInv, TypeOK
    <3> QED
      BY <1>1, <1>3, <1>5, <3>1, <3>2 DEF IInv, TypeOK
  <2>5. ReaderFlag'
    BY <1>5, <2>3 DEF ReaderFlag
  <2>6. MessageOrder'
    BY <1>1, <2>2, <2>3 DEF IInv, MessageOrder
  <2> QED
    BY <1>2, <2>4, <2>5, <2>6 DEF IInv
<1> QED
  BY <1>1, <1>4, <1>5 DEF Notify

\* The wait of libp2p_yamux_channel_read_raw is over.
LEMMA WaitIInv ==
  ASSUME IInv, NEW t \in Thread, WaitEnds(t) \/ WaitTimesOut(t)
  PROVE  IInv'
<1>1. /\ pc[t] \in {"length", "body"} /\ pc' = [pc EXCEPT ![t] = Take[pc[t]]]
      /\ UNCHANGED <<listener_attached, sent, net, hold, told, buffer, read_running, want, got,
                     taken, handled, torn, missed, createFailed, readerPumped>>
  BY DEF WaitEnds, WaitTimesOut, Waiting, wire, history
<1>2. Take[pc[t]] = IF pc[t] = "length" THEN "takeLength" ELSE "takeBody"
  BY <1>1 DEF Take
<1>3. /\ pc'[t] = (IF pc[t] = "length" THEN "takeLength" ELSE "takeBody")
      /\ \A u \in Thread : u # t => pc'[u] = pc[u]
      /\ pc' \in [Thread -> {"none", "length", "takeLength", "body", "takeBody", "marshal",
                             "exit"}]
  BY <1>1, <1>2 DEF IInv, TypeOK
<1>4. TypeOK'
  BY <1>1, <1>3 DEF IInv, TypeOK
<1>5. ReaderFlag'
  BY <1>1, <1>3 DEF IInv, ReaderFlag
<1>6. ByteOrder'
  BY <1>1 DEF IInv, ByteOrder
<1>7. MessageOrder'
  BY <1>1, <1>3 DEF IInv, MessageOrder
<1> QED
  BY <1>4, <1>5, <1>6, <1>7 DEF IInv

\* The reader reads a frame itself: from then on nothing is said about the order.
LEMMA ReaderReadsIInv ==
  ASSUME IInv, NEW t \in Thread, ReaderReads(t)
  PROVE  IInv'
<1>1. /\ net # <<>> /\ hold' = [hold EXCEPT ![t] = Head(net)] /\ net' = Tail(net)
      /\ readerPumped' = TRUE
      /\ UNCHANGED <<listener_attached, sent, told, buffer, read_running, pc, want, got, taken,
                     handled, torn, missed, createFailed>>
  BY DEF ReaderReads, ReadFrame, reader
<1>2. Head(net) \in Seq(Byte) /\ Tail(net) \in Seq(Seq(Byte))
  BY <1>1 DEF IInv, TypeOK
<1>3. TypeOK'
  <2>1. readerPumped' \in BOOLEAN
    BY <1>1
  <2> QED
    BY <1>1, <1>2, <2>1 DEF IInv, TypeOK
<1> QED
  BY <1>1, <1>3 DEF IInv, ReaderFlag, ByteOrder, MessageOrder

\* It puts the frame into the buffer.
LEMMA ReaderStoresIInv ==
  ASSUME IInv, NEW t \in Thread, ReaderStores(t)
  PROVE  IInv'
<1>1. /\ hold[t] # <<>> /\ buffer' = buffer \o hold[t] /\ hold' = [hold EXCEPT ![t] = <<>>]
      /\ UNCHANGED <<listener_attached, sent, net, told, read_running, pc, want, got, taken,
                     handled, torn, missed, createFailed, readerPumped>>
  BY DEF ReaderStores, wire, reader, history
<1>2. readerPumped
  BY <1>1 DEF IInv, ByteOrder
<1>3. TypeOK'
  <2>1. hold[t] \in Seq(Byte) /\ buffer \in Seq(Byte)
    BY DEF IInv, TypeOK
  <2>2. buffer' \in Seq(Byte)
    BY <1>1, <2>1
  <2>3. hold' \in [Thread \cup {Pump} -> Seq(Byte)]
    BY <1>1 DEF IInv, TypeOK
  <2> QED
    BY <1>1, <2>2, <2>3 DEF IInv, TypeOK
<1>4. ReaderFlag'
  BY <1>1 DEF IInv, ReaderFlag
<1> QED
  BY <1>1, <1>2, <1>3, <1>4 DEF IInv, ByteOrder, MessageOrder

\* Bytes that move from the front of one sequence to the end of another stay in order.
LEMMA TakeBytes ==
  ASSUME NEW S \in SUBSET Nat, NEW tk \in Seq(S), NEW bf \in Seq(S), NEW n \in Nat
  PROVE  /\ FirstOf(bf, n) \in Seq(S) /\ RestOf(bf, n) \in Seq(S)
         /\ tk \o FirstOf(bf, n) \in Seq(S)
         /\ Len(FirstOf(bf, n)) = IF n < Len(bf) THEN n ELSE Len(bf)
         /\ Len(tk \o FirstOf(bf, n)) = Len(tk) + Len(FirstOf(bf, n))
         /\ Len(tk \o FirstOf(bf, n)) + Len(RestOf(bf, n)) = Len(tk) + Len(bf)
         /\ Follows(tk, 0) /\ Follows(bf, Len(tk)) =>
              /\ Follows(tk \o FirstOf(bf, n), 0)
              /\ Follows(FirstOf(bf, n), Len(tk))
              /\ Follows(RestOf(bf, n), Len(tk \o FirstOf(bf, n)))
<1> DEFINE f == FirstOf(bf, n)
           r == RestOf(bf, n)
<1>1. Len(tk) \in Nat
  OBVIOUS
<1>2. /\ f \in Seq(S) /\ r \in Seq(S) /\ Len(f) = (IF n < Len(bf) THEN n ELSE Len(bf))
      /\ Len(f) + Len(r) = Len(bf)
      /\ Follows(bf, Len(tk)) => Follows(f, Len(tk)) /\ Follows(r, Len(tk) + Len(f))
  BY <1>1, SplitFacts
<1> HIDE DEF f, r
<1>3. tk \o f \in Seq(S) /\ Len(tk \o f) = Len(tk) + Len(f) /\ Len(f) \in Nat /\ Len(r) \in Nat
  <2>1. f \in Seq(S) /\ r \in Seq(S)
    BY <1>2
  <2> QED
    BY <2>1
<1>4. Len(tk \o f) + Len(r) = Len(tk) + Len(bf)
  <2>1. \A x, y, z \in Nat : (x + y) + z = x + (y + z)
    OBVIOUS
  <2>2. (Len(tk) + Len(f)) + Len(r) = Len(tk) + (Len(f) + Len(r))
    BY <1>1, <1>3, <2>1
  <2> QED
    BY <1>2, <1>3, <2>2
<1>5. ASSUME Follows(tk, 0), Follows(bf, Len(tk)) PROVE Follows(tk \o f, 0)
  <2>1. 0 + Len(tk) = Len(tk)
    BY <1>1
  <2> QED
    BY <1>2, <1>5, <2>1, FollowsConcat
<1> QED
  BY <1>2, <1>3, <1>4, <1>5 DEF f, r

\* threadsafe_buffer_read by the reader.
LEMMA TakeIInv ==
  ASSUME IInv, NEW n \in Nat, buffer' = RestOf(buffer, n),
         taken' = taken \o FirstOf(buffer, n), UNCHANGED <<hold, net, sent, readerPumped>>
  PROVE  /\ buffer' \in Seq(Byte) /\ taken' \in Seq(Byte)
         /\ FirstOf(buffer, n) \in Seq(Byte)
         /\ Len(FirstOf(buffer, n)) = IF n < Len(buffer) THEN n ELSE Len(buffer)
         /\ Len(taken') = Len(taken) + Len(FirstOf(buffer, n))
         /\ ~readerPumped => Follows(FirstOf(buffer, n), Len(taken))
         /\ ByteOrder'
<1>1. Byte \in SUBSET Nat /\ taken \in Seq(Byte) /\ buffer \in Seq(Byte)
  BY ByteFacts, SeqTypes DEF IInv
<1>2. /\ buffer' \in Seq(Byte) /\ taken' \in Seq(Byte) /\ FirstOf(buffer, n) \in Seq(Byte)
      /\ Len(FirstOf(buffer, n)) = (IF n < Len(buffer) THEN n ELSE Len(buffer))
      /\ Len(taken') = Len(taken) + Len(FirstOf(buffer, n))
      /\ Len(taken') + Len(buffer') = Len(taken) + Len(buffer)
      /\ Follows(taken, 0) /\ Follows(buffer, Len(taken)) =>
           /\ Follows(taken', 0) /\ Follows(buffer', Len(taken'))
           /\ Follows(FirstOf(buffer, n), Len(taken))
  BY <1>1, TakeBytes
<1>3. ByteOrder' /\ (~readerPumped => Follows(FirstOf(buffer, n), Len(taken)))
  BY <1>2 DEF IInv, ByteOrder
<1> QED
  BY <1>2, <1>3

\* The length of a message is read where one begins, or there is nothing to read.
LEMMA TakeLengthIInv ==
  ASSUME IInv, NEW t \in Thread, TakeLength(t)
  PROVE  IInv'
<1> DEFINE b == FirstOf(buffer, 1)
<1>1. /\ pc[t] = "takeLength" /\ buffer' = RestOf(buffer, 1) /\ taken' = taken \o b
      /\ UNCHANGED <<listener_attached, sent, net, hold, told, read_running, got, handled, torn,
                     missed, createFailed, readerPumped>>
  BY DEF TakeLength, threadsafe_buffer_read, threadsafe_buffer_rest, FirstOf, RestOf, wire
<1>2. PICK n \in 0..Size : /\ b = <<>> => n = 0
                           /\ (b # <<>> /\ IsLength(b[1])) => n = Size
                           /\ want' = [want EXCEPT ![t] = n]
                           /\ pc' = [pc EXCEPT ![t] = IF n = 0 THEN "exit" ELSE "body"]
  BY DEF TakeLength, threadsafe_buffer_read, FirstOf
<1>3. /\ buffer' \in Seq(Byte) /\ taken' \in Seq(Byte) /\ b \in Seq(Byte)
      /\ Len(b) = (IF 1 < Len(buffer) THEN 1 ELSE Len(buffer))
      /\ Len(taken') = Len(taken) + Len(b)
      /\ ~readerPumped => Follows(b, Len(taken))
      /\ ByteOrder'
  BY <1>1, TakeIInv
<1> HIDE DEF b
<1>4. /\ pc'[t] = (IF n = 0 THEN "exit" ELSE "body") /\ want'[t] = n
      /\ \A u \in Thread : u # t => pc'[u] = pc[u] /\ want'[u] = want[u]
      /\ pc' \in [Thread -> {"none", "length", "takeLength", "body", "takeBody", "marshal",
                             "exit"}]
  BY <1>2 DEF IInv, TypeOK
<1>5. TypeOK'
  <2>1. want' \in [Thread -> 0..(Size + 1)]
    <3>1. n \in 0..(Size + 1)
      BY SizeAssumption
    <3> QED
      BY <1>2, <3>1 DEF IInv, TypeOK
  <2> QED
    BY <1>1, <1>3, <1>4, <2>1 DEF IInv, TypeOK
<1>6. ReaderFlag'
  BY <1>1, <1>4 DEF IInv, ReaderFlag
<1>7. \A u \in Thread : u # t => pc'[u] = "none"
  BY <1>1, <1>4 DEF IInv, ReaderFlag
<1>8. MessageOrder'
  <2> SUFFICES ASSUME ~readerPumped, ~torn
               PROVE  /\ pc'[t] = "exit" => Len(taken') = After(Len(handled))
                      /\ pc'[t] = "body" =>
                           want'[t] = Size /\ Len(taken') = After(Len(handled)) + 1
    BY <1>1, <1>4, <1>7 DEF IInv, MessageOrder
  <2>1. Len(taken) = After(Len(handled)) /\ Len(handled) \in Nat /\ Len(taken) \in Nat
    BY <1>1, SeqTypes DEF IInv, MessageOrder
  <2>2. CASE b = <<>>
    <3>1. pc'[t] = "exit" /\ Len(b) = 0
      BY <1>2, <1>4, <2>2
    <3>2. \A x \in Nat : x + 0 = x
      OBVIOUS
    <3> QED
      BY <1>3, <2>1, <3>1, <3>2
  <2>3. CASE b # <<>>
    <3>1. Len(b) # 0 /\ Len(buffer) \in Nat
      BY <1>3, <2>3, SeqTypes DEF IInv
    <3>2. \A x \in Nat : (IF 1 < x THEN 1 ELSE x) \in {0, 1}
      OBVIOUS
    <3>3. Len(b) = 1
      BY <1>3, <3>1, <3>2
    <3>4. b[1] = Len(taken) + 1
      <4>1. 1 \in 1..1
        OBVIOUS
      <4>2. \A k \in 1..1 : b[k] = Len(taken) + k
        BY <1>3, <3>3 DEF Follows
      <4> QED
        BY <4>1, <4>2
    <3>5. IsLength(b[1])
      BY <2>1, <3>4, MessageFacts
    <3>6. n = Size /\ n # 0
      BY <1>2, <2>3, <3>5, SizeAssumption
    <3> QED
      BY <1>3, <1>4, <2>1, <3>3, <3>6
  <2> QED
    BY <2>2, <2>3
<1> QED
  BY <1>3, <1>5, <1>6, <1>8 DEF IInv

\* A complete body is the next message; an incomplete one tears it.
LEMMA TakeBodyIInv ==
  ASSUME IInv, NEW t \in Thread, TakeBody(t)
  PROVE  IInv'
<1> DEFINE b == FirstOf(buffer, want[t])
<1>1. /\ pc[t] = "takeBody" /\ buffer' = RestOf(buffer, want[t]) /\ taken' = taken \o b
      /\ got' = [got EXCEPT ![t] = b] /\ torn' = (torn \/ Len(b) < want[t])
      /\ pc' = [pc EXCEPT ![t] = IF Len(b) < want[t] THEN "exit" ELSE "marshal"]
      /\ UNCHANGED <<listener_attached, sent, net, hold, told, read_running, want, handled,
                     missed, createFailed, readerPumped>>
  BY DEF TakeBody, threadsafe_buffer_read, threadsafe_buffer_rest, FirstOf, RestOf, wire
<1>2. want[t] \in Nat
  BY SizeAssumption DEF IInv, TypeOK
<1>3. /\ buffer' \in Seq(Byte) /\ taken' \in Seq(Byte) /\ b \in Seq(Byte)
      /\ Len(b) = (IF want[t] < Len(buffer) THEN want[t] ELSE Len(buffer))
      /\ Len(taken') = Len(taken) + Len(b)
      /\ ~readerPumped => Follows(b, Len(taken))
      /\ ByteOrder'
  BY <1>1, <1>2, TakeIInv
<1> HIDE DEF b
<1>4. /\ pc'[t] = (IF Len(b) < want[t] THEN "exit" ELSE "marshal") /\ got'[t] = b
      /\ \A u \in Thread : u # t => pc'[u] = pc[u]
      /\ pc' \in [Thread -> {"none", "length", "takeLength", "body", "takeBody", "marshal",
                             "exit"}]
      /\ got' \in [Thread -> Seq(Byte)]
  BY <1>1, <1>3 DEF IInv, TypeOK
<1>5. TypeOK'
  <2>1. torn' \in BOOLEAN
    BY <1>1
  <2> QED
    BY <1>1, <1>3, <1>4, <2>1 DEF IInv, TypeOK
<1>6. ReaderFlag'
  BY <1>1, <1>4 DEF IInv, ReaderFlag
<1>7. \A u \in Thread : u # t => pc'[u] = "none"
  BY <1>1, <1>4 DEF IInv, ReaderFlag
<1>8. MessageOrder'
  <2>1. ASSUME ~readerPumped, ~torn'
        PROVE  /\ pc'[t] = "marshal" /\ got'[t] = Msg(Len(handled) + 1)
               /\ Len(taken') = After(Len(handled) + 1)
    <3>1. ~torn /\ ~(Len(b) < want[t])
      BY <1>1, <2>1
    <3>2. want[t] = Size /\ Len(taken) = After(Len(handled)) + 1
      BY <1>1, <2>1, <3>1 DEF IInv, MessageOrder
    <3>3. Len(buffer) \in Nat /\ Len(handled) \in Nat /\ Len(taken) \in Nat
      BY SeqTypes DEF IInv
    <3>4. \A x, y \in Nat : ~((IF x < y THEN x ELSE y) < x) => (IF x < y THEN x ELSE y) = x
      OBVIOUS
    <3>5. Len(b) = Size
      BY <1>2, <1>3, <3>1, <3>2, <3>3, <3>4
    <3>6. \A k \in 1..Size : b[k] = After(Len(handled)) + 1 + k
      BY <1>3, <2>1, <3>2, <3>5 DEF Follows
    <3>7. b = [k \in 1..Size |-> b[k]]
      BY <1>3, <3>5
    <3>8. b = [k \in 1..Size |-> After(Len(handled)) + 1 + k]
      BY <3>6, <3>7
    <3>9. Msg(Len(handled) + 1) = b
      BY <3>3, <3>8, MessageFacts
    <3>10. \A x \in Nat : After(x + 1) = After(x) + Size + 1 /\ After(x) \in Nat
      BY MessageFacts
    <3>11. \A x, y \in Nat : x + 1 + y = x + y + 1
      OBVIOUS
    <3>12. Len(taken') = After(Len(handled) + 1)
      <4>1. After(Len(handled)) + 1 + Size = After(Len(handled)) + Size + 1
        BY <3>3, <3>10, <3>11, SizeAssumption
      <4> QED
        BY <1>3, <3>2, <3>3, <3>5, <3>10, <4>1
    <3> QED
      BY <1>4, <3>1, <3>9, <3>12
  <2>2. torn => torn'
    BY <1>1
  <2> QED
    BY <1>1, <1>7, <2>1, <2>2 DEF IInv, MessageOrder
<1> QED
  BY <1>3, <1>5, <1>6, <1>8 DEF IInv

\* The message that was read is handled: it is the next one.
LEMMA MarshalIInv ==
  ASSUME IInv, NEW t \in Thread, Marshal(t)
  PROVE  IInv'
<1>1. /\ pc[t] = "marshal" /\ handled' = Append(handled, got[t])
      /\ got' = [got EXCEPT ![t] = <<>>] /\ want' = [want EXCEPT ![t] = 1]
      /\ pc' = [pc EXCEPT ![t] = "length"]
      /\ UNCHANGED <<listener_attached, sent, net, hold, told, buffer, read_running, taken, torn,
                     missed, createFailed, readerPumped>>
  BY DEF Marshal, wire
<1>2. /\ pc'[t] = "length" /\ \A u \in Thread : u # t => pc'[u] = pc[u]
      /\ pc' \in [Thread -> {"none", "length", "takeLength", "body", "takeBody", "marshal",
                             "exit"}]
  BY <1>1 DEF IInv, TypeOK
<1>3. TypeOK'
  <2>1. want' \in [Thread -> 0..(Size + 1)]
    BY <1>1, SizeAssumption DEF IInv, TypeOK
  <2>2. got' \in [Thread -> Seq(Byte)]
    BY <1>1 DEF IInv, TypeOK
  <2>3. handled' \in Seq(Seq(Byte))
    BY <1>1 DEF IInv, TypeOK
  <2> QED
    BY <1>1, <1>2, <2>1, <2>2, <2>3 DEF IInv, TypeOK
<1>4. ReaderFlag'
  BY <1>1, <1>2 DEF IInv, ReaderFlag
<1>5. ByteOrder'
  BY <1>1 DEF IInv, ByteOrder
<1>6. \A u \in Thread : u # t => pc'[u] = "none"
  BY <1>1, <1>2 DEF IInv, ReaderFlag
<1>7. /\ Len(handled') = Len(handled) + 1 /\ handled'[Len(handled) + 1] = got[t]
      /\ \A m \in 1..Len(handled) : handled'[m] = handled[m]
      /\ \A m \in 1..Len(handled') : m \in 1..Len(handled) \/ m = Len(handled) + 1
  <2>1. handled \in Seq(Seq(Byte)) /\ got[t] \in Seq(Byte)
    BY DEF IInv, TypeOK
  <2>2. \A h \in Seq(Seq(Byte)), g \in Seq(Byte) :
          /\ Len(Append(h, g)) = Len(h) + 1 /\ Append(h, g)[Len(h) + 1] = g
          /\ \A m \in 1..Len(h) : Append(h, g)[m] = h[m]
          /\ \A m \in 1..(Len(h) + 1) : m \in 1..Len(h) \/ m = Len(h) + 1
    OBVIOUS
  <2> QED
    BY <1>1, <2>1, <2>2
<1>8. MessageOrder'
  <2>1. ASSUME ~readerPumped, ~torn
        PROVE  /\ Len(taken) = After(Len(handled'))
               /\ \A m \in 1..Len(handled') : handled'[m] = Msg(m)
    BY <1>1, <1>7, <2>1 DEF IInv, MessageOrder
  <2> QED
    BY <1>1, <1>2, <1>6, <2>1 DEF MessageOrder
<1> QED
  BY <1>3, <1>4, <1>5, <1>8 DEF IInv

\* The reader leaves, at the end of a message unless one was torn.
LEMMA ExitIInv ==
  ASSUME IInv, NEW t \in Thread, Exit(t)
  PROVE  IInv'
<1>1. /\ pc[t] = "exit" /\ read_running' = 0 /\ pc' = [pc EXCEPT ![t] = "none"]
      /\ want' = [want EXCEPT ![t] = 0] /\ got' = [got EXCEPT ![t] = <<>>]
      /\ UNCHANGED <<listener_attached, sent, net, hold, told, buffer, taken, handled, torn,
                     missed, createFailed, readerPumped>>
  BY DEF Exit, wire, history
<1>2. /\ \A u \in Thread : pc'[u] = "none"
      /\ pc' \in [Thread -> {"none", "length", "takeLength", "body", "takeBody", "marshal",
                             "exit"}]
  BY <1>1 DEF IInv, TypeOK, ReaderFlag
<1>3. TypeOK'
  <2>1. want' \in [Thread -> 0..(Size + 1)]
    BY <1>1, SizeAssumption DEF IInv, TypeOK
  <2>2. got' \in [Thread -> Seq(Byte)]
    BY <1>1 DEF IInv, TypeOK
  <2> QED
    BY <1>1, <1>2, <2>1, <2>2 DEF IInv, TypeOK
<1>4. ReaderFlag'
  BY <1>1, <1>2 DEF ReaderFlag
<1>5. ByteOrder'
  BY <1>1 DEF IInv, ByteOrder
<1>6. MessageOrder'
  BY <1>1, <1>2 DEF IInv, MessageOrder
<1> QED
  BY <1>3, <1>4, <1>5, <1>6 DEF IInv

\* Every step keeps the invariant.
LEMMA NextIInv == IInv /\ [Next]_vars => IInv'
BY PeerSendsIInv, AddPeerIInv, PumpReadsIInv, PumpStoresIInv, NotifyIInv, WaitIInv,
   ReaderReadsIInv, ReaderStoresIInv, TakeLengthIInv, TakeBodyIInv, MarshalIInv, ExitIInv
   DEF Next, yamux_pump, yamux_read_method
-----------------------------------------------------------------------------
\* The inductive invariant holds throughout.
THEOREM InvariantHolds == Spec => []IInv
BY InitIInv, NextIInv, PTL DEF Spec

\* Every variable of the channel keeps its type.
THEOREM TypeCorrect == Spec => []TypeOK
<1>1. IInv => TypeOK
  BY DEF IInv
<1> QED
  BY <1>1, InvariantHolds, PTL

\* read_running, tested and set without a lock, is set exactly while one
\* yamux_read_method is in its loop, and there is never a second one.
THEOREM AtMostOneReader == Spec => []OneReader
<1>1. IInv => OneReader
  <2> SUFFICES ASSUME IInv PROVE OneReader
    OBVIOUS
  <2> DEFINE R == {t \in Thread : pc[t] # "none"}
  <2>1. CASE read_running = 0
    <3>1. R = {}
      BY <2>1 DEF IInv, ReaderFlag
    <3> QED
      BY <2>1, <3>1, FS_EmptySet DEF OneReader
  <2>2. CASE read_running = 1
    <3>1. PICK t \in Thread : pc[t] # "none"
      BY <2>2 DEF IInv, ReaderFlag
    <3>2. R = {t}
      BY <3>1 DEF IInv, ReaderFlag
    <3> QED
      BY <2>2, <3>2, FS_Singleton DEF OneReader
  <2> QED
    BY <2>1, <2>2 DEF IInv, TypeOK
<1> QED
  BY <1>1, InvariantHolds, PTL

\* Bytes go through the pump and threadsafe_buffer once and in order, however the peer cuts
\* them into frames, as long as the reader does not read the connection itself.
THEOREM BytesKeepOrder == Spec => []BytesInOrder
<1>1. IInv => BytesInOrder
  <2> SUFFICES ASSUME IInv, ~readerPumped
               PROVE  \E n \in 0..sent : taken \o buffer \o hold[Pump] = [k \in 1..n |-> k]
    BY DEF BytesInOrder
  <2>1. /\ Byte \in SUBSET Nat /\ taken \in Seq(Byte) /\ buffer \in Seq(Byte)
        /\ hold[Pump] \in Seq(Byte) /\ net \in Seq(Seq(Nat)) /\ sent \in Nat
    BY ByteFacts, SeqTypes DEF IInv
  <2>2. /\ Follows(taken, 0) /\ Follows(buffer, Len(taken))
        /\ Follows(hold[Pump], Len(taken) + Len(buffer))
        /\ Frames(net, Len(taken) + Len(buffer) + Len(hold[Pump]), sent)
    BY DEF IInv, ByteOrder
  <2>3. \A s, f \in Seq(Byte) : Follows(s, 0) /\ Follows(f, Len(s)) =>
          s \o f \in Seq(Byte) /\ Len(s \o f) = Len(s) + Len(f) /\ Follows(s \o f, 0)
    <3>1. \A s \in Seq(Byte) : 0 + Len(s) = Len(s)
      OBVIOUS
    <3> QED
      BY <2>1, <3>1, FollowsConcat
  <2>4. /\ taken \o buffer \in Seq(Byte) /\ Len(taken \o buffer) = Len(taken) + Len(buffer)
        /\ Follows(taken \o buffer, 0)
    BY <2>1, <2>2, <2>3
  <2> DEFINE all == (taken \o buffer) \o hold[Pump]
  <2>5. /\ all \in Seq(Byte) /\ Len(all) = Len(taken) + Len(buffer) + Len(hold[Pump])
        /\ Follows(all, 0)
    BY <2>1, <2>2, <2>3, <2>4
  <2> HIDE DEF all
  <2>6. Len(all) <= sent /\ Len(all) \in Nat
    <3>1. \A s \in Seq(Byte) : Len(s) \in Nat
      OBVIOUS
    <3>2. Len(all) \in Nat
      BY <2>5, <3>1
    <3> QED
      BY <2>1, <2>2, <2>5, <3>2, FramesBound
  <2>7. all = [k \in 1..Len(all) |-> k]
    <3>1. \A s \in Seq(Byte) : Follows(s, 0) => s = [k \in 1..Len(s) |-> k]
      <4>1. ASSUME NEW s \in Seq(Byte), Follows(s, 0) PROVE s = [k \in 1..Len(s) |-> k]
        <5>1. s = [k \in 1..Len(s) |-> s[k]]
          OBVIOUS
        <5>2. \A k \in 1..Len(s) : s[k] = k
          BY <4>1 DEF Follows
        <5> QED
          BY <5>1, <5>2
      <4> QED
        BY <4>1
    <3> QED
      BY <2>5, <3>1
  <2>8. Len(all) \in 0..sent
    BY <2>1, <2>6
  <2> QED
    BY <2>7, <2>8 DEF all
<1> QED
  BY <1>1, InvariantHolds, PTL

\* libp2p_protocol_marshal is given whole messages, in order and none left out, by however
\* many yamux_read_method threads after one another, until a wait times out inside one.
THEOREM MessagesKeepOrder == Spec => []MessagesInOrder
<1>1. IInv => MessagesInOrder
  <2> SUFFICES ASSUME IInv, ~readerPumped, ~torn
               PROVE  handled = [m \in 1..Len(handled) |-> Msg(m)]
    BY DEF MessagesInOrder
  <2>1. \A m \in 1..Len(handled) : handled[m] = Msg(m)
    BY DEF IInv, MessageOrder
  <2>2. handled = [m \in 1..Len(handled) |-> handled[m]]
    BY DEF IInv, TypeOK
  <2> QED
    BY <2>1, <2>2
<1> QED
  BY <1>1, InvariantHolds, PTL
=============================================================================
