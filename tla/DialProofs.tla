----------------------------- MODULE DialProofs -----------------------------
(***************************************************************************)
(* Proofs about Dial, for any number of callers, sessions and connections. *)
(* What keeps a session from being handed to the swarm twice is that a     *)
(* plain multistream becomes its default stream once: on the connection    *)
(* that was made with it.  Noise takes that stream away, so one dial at    *)
(* most gets beyond it.                                                    *)
(***************************************************************************)
EXTENDS Dial, TLAPS

\* A dial that is past noise, and one whose connection will be upgraded to a multistream.
Secured == {"multistream_noise", "ready_noise", "yamux", "ready_yamux", "identify", "add"}
At == Secured \cup {"idle", "multistream", "ack", "ready", "noise"}
WillUpgrade(t) == pc[t].at = "multistream" /\ linked[pc[t].conn] # None

Typed ==
  /\ TypeOK
  /\ pc \in [Thread -> [at : At, object : Object, conn : Conn \cup {None}]]

\* Only what was made is referred to.
MadeBefore ==
  /\ \A o \in Object : peer[o].session <= sessions
  /\ \A s \in freed : s <= sessions
  /\ \A s \in Session : IF s <= sessions THEN streams[s].conn \in Conn
                        ELSE handed[s] = 0 /\ streams[s].layer = "raw"
  /\ \A s \in Session : streams[s].conn <= conns
  /\ \A c \in Conn : linked[c] <= sessions /\ (linked[c] # None => c <= conns)
  /\ \A t \in Thread : pc[t].conn <= conns

\* Who is dialling dials one object, which is there and has a session.
OneObject ==
  /\ \A o \in Object : ~peer[o].there => peer[o].session = None
  /\ \A t \in Thread : IF pc[t].at = "idle" THEN pc[t] = Idle
                       ELSE pc[t].conn # None /\ peer[pc[t].object].there /\ SessionOf(t) # None
  /\ \A t, u \in Thread : pc[t].at # "idle" /\ pc[u].at # "idle" => pc[t].object = pc[u].object

\* A connection is the only one linked to its session, and the only one whose streams
\* above the raw one become the session's default.
LinkedStreams ==
  /\ \A c, d \in Conn : linked[c] = linked[d] /\ linked[c] # None => c = d
  /\ \A s \in Session : s <= sessions => linked[streams[s].conn] \in {None, s}
  /\ \A s \in Session : streams[s].layer # "raw" => linked[streams[s].conn] = s
  /\ \A t \in Thread : pc[t].at # "idle" => linked[pc[t].conn] \in {None, SessionOf(t)}
  /\ \A t, u \in Thread :
       pc[t].at = "multistream" /\ pc[u].at = "multistream" /\ pc[t].conn = pc[u].conn => t = u

\* What a dial past noise may rely on.
SecureDial ==
  \A t \in Thread : pc[t].at \in Secured =>
    <<pc[t].conn, "noise">> \in acked /\ linked[pc[t].conn] = SessionOf(t)

\* A dial past noise, one that will make the multistream, the multistream as the default
\* stream, a session with the swarm: a session that a peer has is in one of these states.
OneUpgrade ==
  /\ \A t, u \in Thread : pc[t].at \in Secured /\ pc[u].at \in Secured => t = u
  /\ \A t \in Thread : pc[t].at \in Secured =>
       /\ handed[SessionOf(t)] = 0 /\ streams[SessionOf(t)].layer # "ms"
       /\ \A u \in Thread : ~WillUpgrade(u)
  /\ \A t \in Thread : WillUpgrade(t) =>
       handed[SessionOf(t)] = 0 /\ streams[SessionOf(t)].layer # "ms"
  /\ \A o \in Object : peer[o].session # None /\ streams[peer[o].session].layer = "ms" =>
       handed[peer[o].session] = 0

IInv ==
  /\ Typed
  /\ MadeBefore
  /\ OneObject
  /\ LinkedStreams
  /\ SecureDial
  /\ OneUpgrade
  /\ ListenedOnce
  /\ NoDanglingPeer
-----------------------------------------------------------------------------
\* Nothing is dialled, made or handed over at the start.
LEMMA InitIInv == Init => IInv
<1> SUFFICES ASSUME Init PROVE IInv
  OBVIOUS
<1>1. /\ peer \in [Object -> [there : BOOLEAN, session : {None}, connected : {FALSE}]]
      /\ streams = [s \in Session |-> NoStreams] /\ sessions = 0 /\ conns = 0 /\ freed = {}
      /\ linked = [c \in Conn |-> None] /\ pc = [t \in Thread |-> Idle]
      /\ handed = [s \in Session |-> 0] /\ queue = <<>> /\ listening = None /\ acked = {}
  <2>1. \A o \in Object : [NoPeer EXCEPT !.there = (o = "mine")]
                            \in [there : BOOLEAN, session : {None}, connected : {FALSE}]
    BY DEF NoPeer
  <2> QED
    BY <2>1 DEF Init
<1>2. Typed
  <2>1. \A o \in Object : peer[o] \in [there : BOOLEAN, session : {None}, connected : {FALSE}]
    BY <1>1
  <2>2. \A o \in Object : ~peer[o].connected
    BY <2>1
  <2>3. peer \in [Object -> [there : BOOLEAN, session : Session \cup {None},
                            connected : BOOLEAN]]
    BY <1>1
  <2>4. /\ streams \in [Session -> [conn : Conn \cup {None}, layer : Layer,
                                    insecure : Conn \cup {None}]]
        /\ pc \in [Thread -> [at : At, object : Object, conn : Conn \cup {None}]]
    BY <1>1 DEF At, Idle, NoStreams, Object, Layer
  <2>5. sessions \in 0..MaxSessions /\ conns \in 0..MaxConns /\ handed \in [Session -> Nat]
    BY <1>1, DialAssumption
  <2> QED
    BY <1>1, <2>2, <2>3, <2>4, <2>5 DEF Typed, TypeOK
<1>3. MadeBefore /\ OneObject /\ LinkedStreams /\ SecureDial /\ OneUpgrade
  BY <1>1, DialAssumption DEF MadeBefore, OneObject, LinkedStreams, SecureDial, OneUpgrade,
     SessionOf, WillUpgrade, Secured, Idle, NoStreams, Object, Conn, Session, None
<1>4. ListenedOnce /\ NoDanglingPeer
  BY <1>1 DEF ListenedOnce, NoDanglingPeer
<1> QED
  BY <1>2, <1>3, <1>4 DEF IInv

\* A dial takes a step that negotiates at most, and does not get past noise by it:
\* MultistreamAck, Ready, ReadyNoise, ReadyYamux and Identify.
LEMMA MoveIInv ==
  ASSUME IInv, NEW t \in Thread, NEW at \in At \ {"idle", "multistream"}, GoesTo(t, at),
         UNCHANGED <<peer, streams, sessions, freed, linked, conns, swarm>>,
         acked \subseteq acked', acked' \subseteq Conn \X Layer,
         pc[t].at # "idle", at \in Secured => pc[t].at \in Secured
  PROVE  IInv'
<1>1. /\ pc'[t] = [pc[t] EXCEPT !.at = at] /\ \A u \in Thread : u # t => pc'[u] = pc[u]
      /\ pc'[t].at = at /\ pc'[t].conn = pc[t].conn /\ pc'[t].object = pc[t].object
      /\ pc' \in [Thread -> [at : At, object : Object, conn : Conn \cup {None}]]
  BY DEF IInv, Typed, GoesTo
<1>2. peer' = peer /\ streams' = streams /\ sessions' = sessions /\ freed' = freed
      /\ linked' = linked /\ conns' = conns /\ queue' = queue /\ listening' = listening
      /\ handed' = handed
  BY DEF swarm
<1>3. \A u \in Thread : SessionOf(u)' = SessionOf(u) /\ (WillUpgrade(u)' => WillUpgrade(u))
                        /\ pc'[u].conn = pc[u].conn /\ pc'[u].object = pc[u].object
  BY <1>1, <1>2 DEF SessionOf, WillUpgrade
<1>4. Typed'
  BY <1>1, <1>2 DEF IInv, Typed, TypeOK
<1>5. MadeBefore'
  BY <1>2, <1>3 DEF IInv, MadeBefore
<1>6. OneObject'
  BY <1>1, <1>2, <1>3 DEF IInv, OneObject
<1>7. LinkedStreams'
  BY <1>1, <1>2, <1>3 DEF IInv, LinkedStreams
<1>8. SecureDial'
  BY <1>1, <1>2, <1>3 DEF IInv, SecureDial
<1>9. OneUpgrade'
  BY <1>1, <1>2, <1>3 DEF IInv, OneUpgrade
<1> QED
  BY <1>2, <1>4, <1>5, <1>6, <1>7, <1>8, <1>9 DEF IInv, ListenedOnce, NoDanglingPeer

\* The steps that only move on.
LEMMA MovesIInv ==
  ASSUME IInv, NEW t \in Thread,
         \/ MultistreamAck(t) \/ Ready(t) \/ ReadyNoise(t) \/ ReadyYamux(t) \/ Identify(t)
  PROVE  IInv'
<1>1. CASE MultistreamAck(t)
  <2>1. pc[t].conn \in Conn
    BY <1>1 DEF IInv, Typed, OneObject, MultistreamAck
  <2>2. acked \subseteq acked' /\ acked' \subseteq Conn \X Layer
    BY <1>1, <2>1 DEF MultistreamAck, IInv, Typed, TypeOK, Layer
  <2>3. pc[t].at # "idle" /\ "ready" \in At \ {"idle", "multistream"} /\ "ready" \notin Secured
    BY <1>1 DEF MultistreamAck, At, Secured
  <2> QED
    BY <1>1, <2>2, <2>3, MoveIInv DEF MultistreamAck
<1>2. CASE Ready(t)
  <2>1. pc[t].at # "idle" /\ "noise" \in At \ {"idle", "multistream"} /\ "noise" \notin Secured
    BY <1>2 DEF Ready, At, Secured
  <2>2. acked' = acked /\ linked' = linked /\ conns' = conns
    BY <1>2 DEF Ready, network
  <2>3. acked' \subseteq Conn \X Layer
    BY <2>2 DEF IInv, Typed, TypeOK
  <2> QED
    BY <1>2, <2>1, <2>2, <2>3, MoveIInv DEF Ready
<1>3. CASE ReadyNoise(t)
  <2>1. pc[t].at # "idle" /\ "yamux" \in At \ {"idle", "multistream"} /\ pc[t].at \in Secured
    BY <1>3 DEF ReadyNoise, At, Secured
  <2>2. acked' = acked /\ linked' = linked /\ conns' = conns
    BY <1>3 DEF ReadyNoise, network
  <2>3. acked' \subseteq Conn \X Layer
    BY <2>2 DEF IInv, Typed, TypeOK
  <2> QED
    BY <1>3, <2>1, <2>2, <2>3, MoveIInv DEF ReadyNoise
<1>4. CASE ReadyYamux(t)
  <2>1. pc[t].at # "idle" /\ "identify" \in At \ {"idle", "multistream"} /\ pc[t].at \in Secured
    BY <1>4 DEF ReadyYamux, At, Secured
  <2>2. acked' = acked /\ linked' = linked /\ conns' = conns
    BY <1>4 DEF ReadyYamux, network
  <2>3. acked' \subseteq Conn \X Layer
    BY <2>2 DEF IInv, Typed, TypeOK
  <2> QED
    BY <1>4, <2>1, <2>2, <2>3, MoveIInv DEF ReadyYamux
<1>5. CASE Identify(t)
  <2>1. pc[t].at # "idle" /\ "add" \in At \ {"idle", "multistream"} /\ pc[t].at \in Secured
    BY <1>5 DEF Identify, At, Secured
  <2>2. acked' = acked /\ linked' = linked /\ conns' = conns
    BY <1>5 DEF Identify, network
  <2>3. acked' \subseteq Conn \X Layer
    BY <2>2 DEF IInv, Typed, TypeOK
  <2> QED
    BY <1>5, <2>1, <2>2, <2>3, MoveIInv DEF Identify
<1> QED
  BY <1>1, <1>2, <1>3, <1>4, <1>5

\* A dial that fails leaves its session as it is.
LEMMA GiveUpIInv ==
  ASSUME IInv, NEW t \in Thread, GiveUp(t)
  PROVE  IInv'
<1>1. /\ pc'[t] = Idle /\ \A u \in Thread : u # t => pc'[u] = pc[u]
      /\ pc' \in [Thread -> [at : At, object : Object, conn : Conn \cup {None}]]
  BY DEF IInv, Typed, GiveUp, Idle, At, Object
<1>2. peer' = peer /\ streams' = streams /\ sessions' = sessions /\ freed' = freed
      /\ linked' = linked /\ conns' = conns /\ queue' = queue /\ listening' = listening
      /\ handed' = handed /\ acked' = acked
  BY DEF GiveUp, swarm, network
<1>3. \A u \in Thread : pc'[u].at # "idle" => pc'[u] = pc[u] /\ SessionOf(u)' = SessionOf(u)
                                              /\ (WillUpgrade(u)' => WillUpgrade(u))
  BY <1>1, <1>2 DEF SessionOf, WillUpgrade, Idle
<1>4. Typed'
  BY <1>1, <1>2 DEF IInv, Typed, TypeOK
<1>5. MadeBefore'
  <2>1. \A u \in Thread : pc'[u].conn <= conns
    <3>1. 0 <= conns
      BY DEF IInv, Typed, TypeOK
    <3> QED
      BY <1>1, <3>1 DEF IInv, MadeBefore, Idle, None
  <2> QED
    BY <1>2, <2>1 DEF IInv, MadeBefore
<1>6. OneObject'
  BY <1>1, <1>2, <1>3 DEF IInv, OneObject, Idle
<1>7. LinkedStreams'
  BY <1>1, <1>2, <1>3 DEF IInv, LinkedStreams
<1>8. SecureDial'
  BY <1>1, <1>2, <1>3 DEF IInv, SecureDial, Secured
<1>9. OneUpgrade'
  <2>1. \A u \in Thread : WillUpgrade(u)' => WillUpgrade(u) /\ SessionOf(u)' = SessionOf(u)
    BY <1>3 DEF WillUpgrade
  <2>2. \A u \in Thread : pc'[u].at \in Secured =>
          pc[u].at \in Secured /\ SessionOf(u)' = SessionOf(u)
    BY <1>1, <1>3 DEF Secured
  <2> QED
    BY <1>2, <2>1, <2>2 DEF IInv, OneUpgrade
<1> QED
  BY <1>2, <1>4, <1>5, <1>6, <1>7, <1>8, <1>9 DEF IInv, ListenedOnce, NoDanglingPeer

\* An upgrade touches the session of its dial, if any, and leaves the raw stream under it.
LEMMA UpgradeFacts ==
  ASSUME IInv, NEW t \in Thread, NEW c \in Conn, NEW layer \in Layer,
         linked[c] \in {None, SessionOf(t)}, SessionOf(t) # None, Upgrade(c, layer)
  PROVE  /\ streams' \in [Session -> [conn : Conn \cup {None}, layer : Layer,
                                      insecure : Conn \cup {None}]]
         /\ \A s \in Session : s # SessionOf(t) => streams'[s] = streams[s]
         /\ SessionOf(t) \in Session
         /\ IF linked[c] = None THEN streams' = streams
            ELSE /\ streams'[SessionOf(t)].conn = c /\ streams'[SessionOf(t)].layer = layer
                 /\ linked[c] = SessionOf(t)
<1>1. pc[t].object \in Object
  BY DEF IInv, Typed
<1>2. SessionOf(t) \in Session
  BY <1>1 DEF IInv, Typed, TypeOK, SessionOf
<1>3. CASE linked[c] = None
  BY <1>2, <1>3 DEF Upgrade, IInv, Typed, TypeOK
<1>4. CASE linked[c] = SessionOf(t) /\ linked[c] # None
  <2>1. streams' = [streams EXCEPT ![linked[c]].conn = c, ![linked[c]].layer = layer]
    BY <1>4 DEF Upgrade
  <2> QED
    BY <1>2, <1>4, <2>1 DEF IInv, Typed, TypeOK
<1> QED
  BY <1>3, <1>4

\* The multistream on the connection that came with the session becomes its default
\* stream; nobody is past noise then.
LEMMA MultistreamIInv ==
  ASSUME IInv, NEW t \in Thread, Multistream(t)
  PROVE  IInv'
<1> DEFINE s0 == SessionOf(t)
<1>1. /\ pc[t].at = "multistream" /\ pc'[t].at = "ack" /\ pc'[t].conn = pc[t].conn
      /\ pc'[t].object = pc[t].object /\ \A u \in Thread : u # t => pc'[u] = pc[u]
      /\ pc' \in [Thread -> [at : At, object : Object, conn : Conn \cup {None}]]
  BY DEF IInv, Typed, Multistream, GoesTo, At, Secured
<1>2. peer' = peer /\ sessions' = sessions /\ freed' = freed /\ linked' = linked
      /\ conns' = conns /\ queue' = queue /\ listening' = listening /\ handed' = handed
      /\ acked' = acked
  BY DEF Multistream, swarm, network
<1>3. \A u \in Thread : SessionOf(u)' = SessionOf(u) /\ pc'[u].conn = pc[u].conn
                        /\ pc'[u].object = pc[u].object
                        /\ (WillUpgrade(u)' <=> WillUpgrade(u) /\ u # t)
  BY <1>1, <1>2 DEF SessionOf, WillUpgrade
<1>4. pc[t].conn \in Conn /\ s0 # None /\ linked[pc[t].conn] \in {None, s0}
  BY <1>1 DEF IInv, Typed, OneObject, LinkedStreams
<1>5. /\ streams' \in [Session -> [conn : Conn \cup {None}, layer : Layer,
                                   insecure : Conn \cup {None}]]
      /\ \A s \in Session : s # s0 => streams'[s] = streams[s]
      /\ s0 \in Session
      /\ IF linked[pc[t].conn] = None THEN streams' = streams
         ELSE streams'[s0].conn = pc[t].conn /\ streams'[s0].layer = "ms"
              /\ linked[pc[t].conn] = s0
  <2>1. "ms" \in Layer
    BY DEF Layer
  <2> QED
    BY <1>4, <2>1, UpgradeFacts DEF Multistream
<1>6. Typed'
  BY <1>1, <1>2, <1>5 DEF IInv, Typed, TypeOK
<1>7. MadeBefore'
  <2>1. s0 <= sessions
    BY <1>1 DEF IInv, MadeBefore, Typed, SessionOf
  <2> QED
    BY <1>2, <1>3, <1>4, <1>5, <2>1 DEF IInv, MadeBefore
<1>8. OneObject'
  BY <1>1, <1>2, <1>3 DEF IInv, OneObject
<1>9. LinkedStreams'
  BY <1>1, <1>2, <1>3, <1>5 DEF IInv, LinkedStreams
<1>10. SecureDial'
  BY <1>1, <1>2, <1>3 DEF IInv, SecureDial, Secured
<1>11. OneUpgrade'
  <2>1. CASE linked[pc[t].conn] = None
    <3>1. streams' = streams
      BY <1>5, <2>1
    <3>2. \A u \in Thread : pc'[u].at \in Secured => pc[u].at \in Secured
      BY <1>1 DEF Secured
    <3> QED
      BY <1>2, <1>3, <3>1, <3>2 DEF IInv, OneUpgrade
  <2>2. CASE linked[pc[t].conn] # None
    <3>1. WillUpgrade(t) /\ handed[s0] = 0
      BY <1>1, <2>2 DEF WillUpgrade, IInv, OneUpgrade
    <3>2. \A u \in Thread : pc'[u].at \notin Secured
      BY <1>1, <3>1 DEF IInv, OneUpgrade, Secured
    <3>3. \A u \in Thread : ~WillUpgrade(u)'
      <4>1. \A u \in Thread : WillUpgrade(u) => linked[pc[u].conn] = SessionOf(u)
        BY DEF IInv, LinkedStreams, WillUpgrade
      <4>2. \A u \in Thread : WillUpgrade(u) => SessionOf(u) = s0
        BY <1>1 DEF IInv, OneObject, WillUpgrade, SessionOf
      <4>3. \A u \in Thread : WillUpgrade(u) => pc[u].conn \in Conn
        BY DEF IInv, OneObject, Typed, WillUpgrade
      <4>4. \A u \in Thread : WillUpgrade(u) => pc[u].conn = pc[t].conn
        BY <1>4, <1>5, <2>2, <4>1, <4>2, <4>3 DEF IInv, LinkedStreams
      <4>5. \A u \in Thread : WillUpgrade(u) => u = t
        BY <1>1, <4>4 DEF IInv, LinkedStreams, WillUpgrade
      <4> QED
        BY <1>3, <4>5
    <3>4. \A o \in Object : peer[o].session # None /\ streams'[peer[o].session].layer = "ms"
                              => handed[peer[o].session] = 0
      <4>1. \A o \in Object : peer[o].session # None => peer[o].session \in Session
        BY DEF IInv, Typed, TypeOK
      <4> QED
        BY <1>5, <3>1, <4>1 DEF IInv, OneUpgrade
    <3> QED
      BY <1>2, <3>2, <3>3, <3>4 DEF OneUpgrade
  <2> QED
    BY <2>1, <2>2
<1> QED
  BY <1>2, <1>6, <1>7, <1>8, <1>9, <1>10, <1>11 DEF IInv, ListenedOnce, NoDanglingPeer

\* An upgrade by the dial that is past noise: the multistream over noise, and yamux.
LEMMA SecuredUpgradeIInv ==
  ASSUME IInv, NEW t \in Thread, NEW c \in Conn, NEW layer \in Layer \ {"raw", "ms"},
         NEW at \in Secured, pc[t].at \in Secured, linked[c] \in {None, SessionOf(t)},
         Upgrade(c, layer), GoesTo(t, at), acked \subseteq acked',
         acked' \subseteq Conn \X Layer,
         UNCHANGED <<peer, sessions, freed, linked, conns, swarm>>
  PROVE  IInv'
<1> DEFINE s0 == SessionOf(t)
<1>0. pc[t].at # "idle" /\ pc[t].at # "multistream" /\ at # "idle" /\ at # "multistream"
      /\ at \in At
  BY DEF Secured, At
<1>1. /\ pc'[t].at = at /\ pc'[t].conn = pc[t].conn
      /\ pc'[t].object = pc[t].object /\ \A u \in Thread : u # t => pc'[u] = pc[u]
      /\ pc' \in [Thread -> [at : At, object : Object, conn : Conn \cup {None}]]
  BY <1>0 DEF IInv, Typed, GoesTo
<1>2. peer' = peer /\ sessions' = sessions /\ freed' = freed /\ linked' = linked
      /\ conns' = conns /\ queue' = queue /\ listening' = listening /\ handed' = handed
  BY DEF swarm
<1>3. \A u \in Thread : SessionOf(u)' = SessionOf(u) /\ pc'[u].conn = pc[u].conn
                        /\ pc'[u].object = pc[u].object
                        /\ (WillUpgrade(u)' <=> WillUpgrade(u))
                        /\ (pc'[u].at \in Secured <=> pc[u].at \in Secured)
                        /\ (pc'[u].at = "idle" <=> pc[u].at = "idle")
  BY <1>0, <1>1, <1>2 DEF SessionOf, WillUpgrade
<1>4. s0 # None
  BY <1>0 DEF IInv, OneObject
<1>5. /\ streams' \in [Session -> [conn : Conn \cup {None}, layer : Layer,
                                   insecure : Conn \cup {None}]]
      /\ \A s \in Session : s # s0 => streams'[s] = streams[s]
      /\ s0 \in Session
      /\ IF linked[c] = None THEN streams' = streams
         ELSE streams'[s0].conn = c /\ streams'[s0].layer = layer
              /\ linked[c] = s0
  BY <1>4, UpgradeFacts
<1>6. Typed'
  BY <1>1, <1>2, <1>5 DEF IInv, Typed, TypeOK
<1>7. MadeBefore'
  <2>1. s0 <= sessions
    BY <1>0 DEF IInv, MadeBefore, Typed, SessionOf
  <2> QED
    BY <1>2, <1>3, <1>4, <1>5, <2>1 DEF IInv, MadeBefore
<1>8. OneObject'
  BY <1>0, <1>1, <1>2, <1>3 DEF IInv, OneObject
<1>9. LinkedStreams'
  BY <1>0, <1>1, <1>2, <1>3, <1>5 DEF IInv, LinkedStreams
<1>10. SecureDial'
  BY <1>1, <1>2, <1>3 DEF IInv, SecureDial
<1>11. OneUpgrade'
  <2>1. streams'[s0].layer # "ms"
    BY <1>5 DEF IInv, OneUpgrade
  <2>2. \A s \in Session : streams'[s].layer = "ms" => streams[s].layer = "ms"
    BY <1>5, <2>1
  <2>3. \A o \in Object : peer[o].session # None => peer[o].session \in Session
    BY DEF IInv, Typed, TypeOK
  <2>4. \A u \in Thread : pc[u].at # "idle" => SessionOf(u) \in Session
    BY <2>3 DEF IInv, OneObject, Typed, SessionOf
  <2>5. \A u \in Thread : pc[u].at \in Secured \/ WillUpgrade(u) => pc[u].at # "idle"
    BY DEF Secured, WillUpgrade
  <2> QED
    BY <1>2, <1>3, <2>2, <2>3, <2>4, <2>5 DEF IInv, OneUpgrade
<1> QED
  BY <1>2, <1>6, <1>7, <1>8, <1>9, <1>10, <1>11 DEF IInv, ListenedOnce, NoDanglingPeer

\* The session of a dial was made, and its default stream is on a connection.
LEMMA DialFacts ==
  ASSUME IInv, NEW t \in Thread, pc[t].at # "idle"
  PROVE  /\ pc[t].object \in Object /\ pc[t].conn \in Conn
         /\ SessionOf(t) \in Session /\ SessionOf(t) <= sessions
         /\ Default(t).conn \in Conn /\ Default(t).layer \in Layer
         /\ linked[Default(t).conn] \in {None, SessionOf(t)}
         /\ Default(t).layer # "raw" => linked[Default(t).conn] = SessionOf(t)
<1>1. pc[t].object \in Object /\ pc[t].conn \in Conn
  BY DEF IInv, Typed, OneObject
<1>2. SessionOf(t) \in Session /\ SessionOf(t) <= sessions
  BY <1>1 DEF IInv, Typed, TypeOK, OneObject, SessionOf, MadeBefore
<1>3. Default(t).conn \in Conn /\ Default(t).layer \in Layer
  BY <1>2 DEF IInv, Typed, TypeOK, MadeBefore, Default
<1> QED
  BY <1>1, <1>2, <1>3 DEF IInv, LinkedStreams, Default

\* The multistream over noise keeps the invariant.
LEMMA MultistreamNoiseIInv ==
  ASSUME IInv, NEW t \in Thread, MultistreamNoise(t)
  PROVE  IInv'
<1>1. pc[t].at = "multistream_noise" /\ pc[t].at \in Secured /\ "ready_noise" \in Secured
  BY DEF MultistreamNoise, Secured
<1>2. pc[t].conn \in Conn /\ linked[pc[t].conn] \in {None, SessionOf(t)}
  BY <1>1, DialFacts DEF IInv, LinkedStreams
<1>3. "ms_noise" \in Layer \ {"raw", "ms"}
  BY DEF Layer
<1>4. acked \subseteq acked' /\ acked' \subseteq Conn \X Layer
  <2>1. PICK answered \in BOOLEAN :
          acked' = IF answered THEN acked \cup {<<pc[t].conn, "ms_noise">>} ELSE acked
    BY DEF MultistreamNoise
  <2>2. acked \subseteq Conn \X Layer
    BY DEF IInv, Typed, TypeOK
  <2> QED
    BY <1>2, <1>3, <2>1, <2>2
<1> QED
  BY <1>1, <1>2, <1>3, <1>4, SecuredUpgradeIInv DEF MultistreamNoise

\* The upgrade to yamux keeps the invariant.
LEMMA YamuxIInv ==
  ASSUME IInv, NEW t \in Thread, Yamux(t)
  PROVE  IInv'
<1>1. pc[t].at = "yamux" /\ pc[t].at \in Secured /\ "ready_yamux" \in Secured
  BY DEF Yamux, Secured
<1>2. Default(t).conn \in Conn /\ linked[Default(t).conn] \in {None, SessionOf(t)}
  BY <1>1, DialFacts
<1>3. "yamux" \in Layer \ {"raw", "ms"}
  BY DEF Layer
<1>4. acked \subseteq acked' /\ acked' \subseteq Conn \X Layer
  <2>1. acked' = acked \/ acked' = acked \cup {<<Default(t).conn, "yamux">>}
    BY DEF Yamux
  <2>2. acked \subseteq Conn \X Layer
    BY DEF IInv, Typed, TypeOK
  <2> QED
    BY <1>2, <1>3, <2>1, <2>2
<1> QED
  BY <1>1, <1>2, <1>3, <1>4, SecuredUpgradeIInv DEF Yamux

\* The handshake takes the plain multistream away from the session: no other dial is past
\* it, no other will be, and the session is not with the swarm.
LEMMA NoiseIInv ==
  ASSUME IInv, NEW t \in Thread, Noise(t)
  PROVE  IInv'
<1> DEFINE s0 == SessionOf(t)
           d == Default(t)
<1>1. /\ pc[t].at = "noise" /\ d.layer = "ms" /\ acked' = acked \cup {<<d.conn, "noise">>}
      /\ streams' = [streams EXCEPT ![s0].layer = "noise"]
      /\ peer' = peer /\ sessions' = sessions /\ freed' = freed /\ linked' = linked
      /\ conns' = conns /\ queue' = queue /\ listening' = listening /\ handed' = handed
  BY DEF Noise, CanSecure, swarm
<1>2. /\ pc[t].object \in Object /\ s0 \in Session /\ s0 <= sessions /\ d.conn \in Conn
      /\ linked[d.conn] = s0 /\ s0 # None
  <2>1. s0 # None
    BY <1>1 DEF IInv, OneObject
  <2> QED
    BY <1>1, <2>1, DialFacts
<1>3. /\ pc'[t].at = "multistream_noise" /\ pc'[t].conn = d.conn
      /\ pc'[t].object = pc[t].object /\ \A u \in Thread : u # t => pc'[u] = pc[u]
      /\ pc' \in [Thread -> [at : At, object : Object, conn : Conn \cup {None}]]
  <2>1. "multistream_noise" \in At
    BY DEF At, Secured
  <2>2. pc' = [pc EXCEPT ![t].at = "multistream_noise", ![t].conn = d.conn]
    BY DEF Noise
  <2> HIDE DEF d
  <2> QED
    BY <1>2, <2>1, <2>2 DEF IInv, Typed
<1>4. /\ streams'[s0].layer = "noise" /\ streams'[s0].conn = d.conn
      /\ \A s \in Session : s # s0 => streams'[s] = streams[s]
      /\ streams' \in [Session -> [conn : Conn \cup {None}, layer : Layer,
                                   insecure : Conn \cup {None}]]
  <2>1. streams[s0].conn = d.conn /\ "noise" \in Layer
    BY DEF Default, Layer
  <2>2. streams \in [Session -> [conn : Conn \cup {None}, layer : Layer,
                                 insecure : Conn \cup {None}]]
    BY DEF IInv, Typed, TypeOK
  <2>3. s0 \in Session /\ streams' = [streams EXCEPT ![s0].layer = "noise"]
    BY <1>1, <1>2
  <2> HIDE DEF d, s0
  <2>4. streams'[s0] = [streams[s0] EXCEPT !.layer = "noise"]
        /\ \A s \in Session : s # s0 => streams'[s] = streams[s]
    BY <2>2, <2>3
  <2>5. streams'[s0].layer = "noise" /\ streams'[s0].conn = streams[s0].conn
    BY <2>2, <2>3, <2>4
  <2>6. streams' \in [Session -> [conn : Conn \cup {None}, layer : Layer,
                                  insecure : Conn \cup {None}]]
    BY <2>1, <2>2, <2>3
  <2> QED
    BY <2>1, <2>4, <2>5, <2>6
<1>5. \A u \in Thread : SessionOf(u)' = SessionOf(u) /\ (WillUpgrade(u)' <=> WillUpgrade(u))
                        /\ pc'[u].object = pc[u].object
                        /\ (pc'[u].at = "idle" <=> pc[u].at = "idle")
  BY <1>1, <1>3 DEF SessionOf, WillUpgrade
<1>6. Typed'
  <2>1. acked' \subseteq Conn \X Layer
    BY <1>1, <1>2 DEF IInv, Typed, TypeOK, Layer
  <2> QED
    BY <1>1, <1>3, <1>4, <2>1 DEF IInv, Typed, TypeOK
<1>7. MadeBefore'
  <2>1. d.conn <= conns
    BY <1>2 DEF IInv, MadeBefore
  <2>2. \A u \in Thread : pc'[u].conn <= conns
    BY <1>3, <2>1 DEF IInv, MadeBefore
  <2>3. \A s \in Session : IF s <= sessions THEN streams'[s].conn \in Conn
                           ELSE handed[s] = 0 /\ streams'[s].layer = "raw"
    BY <1>2, <1>4 DEF IInv, MadeBefore
  <2> QED
    BY <1>1, <2>2, <2>3 DEF IInv, MadeBefore
<1>8. OneObject'
  <2>1. pc'[t].conn # None
    BY <1>2, <1>3, DialAssumption DEF Conn, None
  <2> QED
    BY <1>1, <1>3, <1>5, <2>1 DEF IInv, OneObject
<1>9. LinkedStreams'
  <2>1. \A s \in Session : s <= sessions => linked[streams'[s].conn] \in {None, s}
    BY <1>2, <1>4 DEF IInv, LinkedStreams
  <2>2. \A s \in Session : streams'[s].layer # "raw" => linked[streams'[s].conn] = s
    BY <1>2, <1>4 DEF IInv, LinkedStreams
  <2>3. \A u \in Thread : pc'[u].at # "idle" => linked[pc'[u].conn] \in {None, SessionOf(u)}
    BY <1>2, <1>3 DEF IInv, LinkedStreams
  <2>4. \A u, v \in Thread : pc'[u].at = "multistream" /\ pc'[v].at = "multistream"
                               /\ pc'[u].conn = pc'[v].conn => u = v
    BY <1>3 DEF IInv, LinkedStreams
  <2> QED
    BY <1>1, <1>5, <2>1, <2>2, <2>3, <2>4 DEF IInv, LinkedStreams
<1>10. SecureDial'
  BY <1>1, <1>2, <1>3, <1>5 DEF IInv, SecureDial
<1>11. OneUpgrade'
  <2>1. streams[s0].layer = "ms"
    BY <1>1 DEF Default
  <2>2. \A u \in Thread : pc[u].at # "idle" => SessionOf(u) = s0
    BY <1>1 DEF IInv, OneObject, SessionOf
  <2>3. \A u \in Thread : pc[u].at \in Secured \/ WillUpgrade(u) => pc[u].at # "idle"
    BY DEF Secured, WillUpgrade
  <2>4. \A u \in Thread : pc[u].at \notin Secured /\ ~WillUpgrade(u)
    BY <2>1, <2>2, <2>3 DEF IInv, OneUpgrade
  <2>5. handed[s0] = 0
    BY <1>2, <2>1 DEF IInv, OneUpgrade, SessionOf
  <2>6. \A u \in Thread : pc'[u].at \in Secured => u = t
    BY <1>3, <2>4
  <2>7. \A o \in Object : peer[o].session # None => peer[o].session \in Session
    BY DEF IInv, Typed, TypeOK
  <2> QED
    BY <1>1, <1>4, <1>5, <2>4, <2>5, <2>6, <2>7 DEF IInv, OneUpgrade
<1> QED
  BY <1>1, <1>6, <1>7, <1>8, <1>9, <1>10, <1>11 DEF IInv, ListenedOnce, NoDanglingPeer

PeerType == [there : BOOLEAN, session : Session \cup {None}, connected : BOOLEAN]

\* The peerstore's entry takes the session of the peer that was dialled.
LEMMA StoreFacts ==
  ASSUME NEW p \in PeerType, NEW q \in PeerType, p.there
  PROVE  /\ Store(p, q) \in PeerType /\ Store(p, q).session = p.session /\ Store(p, q).there
<1>1. CASE q.there
  <2>1. Store(p, q) = [q EXCEPT !.session = p.session, !.connected = TRUE]
    BY <1>1 DEF Store
  <2>2. p.session \in Session \cup {None}
    BY DEF PeerType
  <2>3. [q EXCEPT !.session = p.session, !.connected = TRUE] \in PeerType
    BY <2>2 DEF PeerType
  <2>4. [q EXCEPT !.session = p.session, !.connected = TRUE].session = p.session
    BY DEF PeerType
  <2>5. [q EXCEPT !.session = p.session, !.connected = TRUE].there = q.there
    BY DEF PeerType
  <2> QED
    BY <1>1, <2>1, <2>3, <2>4, <2>5
<1>2. CASE ~q.there
  BY <1>2 DEF Store
<1> QED
  BY <1>1, <1>2

\* What libp2p_swarm_add_peer and the peerstore do to the two peers and the sessions.
LEMMA AddFacts ==
  ASSUME IInv, NEW t \in Thread, Add(t)
  PROVE  /\ peer' \in [Object -> PeerType]
         /\ \A x \in Object : \/ peer'[x] = peer[x]
                              \/ peer'[x].there /\ peer'[x].session = SessionOf(t)
         /\ peer'["stored"].session = SessionOf(t)
         /\ peer'["mine"].session = peer["mine"].session
         /\ peer'[pc[t].object].session = SessionOf(t)
         /\ freed' = freed \/ /\ freed' = freed \cup {peer["stored"].session}
                              /\ peer["stored"].session # None
                              /\ pc[t].object = "mine"
                              /\ peer["stored"].session # SessionOf(t)
<1> DEFINE o == pc[t].object
           p == [peer[o] EXCEPT !.connected = TRUE]
           q == IF o = "stored" THEN p ELSE peer["stored"]
<1>1. o \in Object /\ pc[t].at # "idle" /\ "stored" \in Object /\ "mine" \in Object
      /\ peer \in [Object -> PeerType] /\ peer[o].there
  BY DEF Add, IInv, Typed, TypeOK, PeerType, Object, OneObject
<1>2. p \in PeerType /\ p.session = peer[o].session /\ p.there
  <2>1. peer[o] \in PeerType
    BY <1>1
  <2>2. p \in PeerType /\ p.session = peer[o].session
    BY <2>1 DEF PeerType
  <2>3. p.there = peer[o].there
    BY <2>1 DEF PeerType
  <2> QED
    BY <1>1, <2>2, <2>3
<1>3. q \in PeerType
  BY <1>1, <1>2
<1>4. /\ freed' = IF Superseded(q.session, p.session) THEN freed \cup {q.session} ELSE freed
      /\ peer' = [[peer EXCEPT ![o] = p] EXCEPT !["stored"] = Store(p, q)]
  BY DEF Add
<1>5. p.session = SessionOf(t)
  BY <1>2 DEF SessionOf
<1>6. Store(p, q) \in PeerType /\ Store(p, q).session = p.session /\ Store(p, q).there
  BY <1>2, <1>3, StoreFacts
<1>7. o # "stored" => q = peer["stored"]
  OBVIOUS
<1>8. o = "stored" => q = p
  OBVIOUS
<1> HIDE DEF p, q
<1>9. /\ peer'["stored"] = Store(p, q)
      /\ \A x \in Object : x # "stored" => peer'[x] = IF x = o THEN p ELSE peer[x]
      /\ peer' \in [Object -> PeerType]
  BY <1>1, <1>2, <1>4, <1>6
<1>10. \A x \in Object : x = "stored" \/ x = "mine"
  BY DEF Object
<1>11. peer'["mine"].session = peer["mine"].session
  BY <1>1, <1>2, <1>9
<1>12. CASE o = "stored"
  <2>1. freed' = freed
    BY <1>4, <1>8, <1>12 DEF Superseded
  <2>2. peer'["mine"] = peer["mine"]
    BY <1>1, <1>9, <1>12
  <2> QED
    BY <1>2, <1>5, <1>6, <1>9, <1>10, <1>11, <1>12, <2>1, <2>2
<1>13. CASE o # "stored"
  <2>1. o = "mine" /\ q = peer["stored"]
    BY <1>1, <1>7, <1>10, <1>13
  <2>2. peer'["mine"] = p
    BY <1>1, <1>9, <2>1
  <2>3. freed' = freed \/ (freed' = freed \cup {q.session} /\ q.session # None
                           /\ q.session # p.session)
    BY <1>4 DEF Superseded
  <2> QED
    BY <1>2, <1>5, <1>6, <1>9, <1>10, <1>11, <2>1, <2>2, <2>3
<1> QED
  BY <1>12, <1>13

\* libp2p_swarm_add_peer: the session had not been handed over, and the peers' sessions
\* are none that was freed.
LEMMA AddIInv ==
  ASSUME IInv, NEW t \in Thread, Add(t)
  PROVE  IInv'
<1> DEFINE s0 == SessionOf(t)
<1>1. /\ pc[t].at = "add" /\ queue' = Append(queue, s0)
      /\ handed' = [handed EXCEPT ![s0] = @ + 1] /\ pc' = [pc EXCEPT ![t] = Idle]
      /\ streams' = streams /\ sessions' = sessions /\ linked' = linked /\ conns' = conns
      /\ acked' = acked /\ listening' = listening
  BY DEF Add, network
<1>2. pc[t].at \in Secured /\ pc[t].at # "idle"
  BY <1>1 DEF Secured
<1>3. pc[t].object \in Object /\ s0 \in Session /\ s0 <= sessions /\ s0 # None
  BY <1>2, DialFacts DEF IInv, OneObject
<1>4. handed[s0] = 0 /\ streams[s0].layer # "ms" /\ \A u \in Thread : ~WillUpgrade(u)
      /\ (pc[u].at \in Secured => u = t)
  BY <1>2 DEF IInv, OneUpgrade
<1>5. /\ handed'[s0] = 1 /\ \A s \in Session : s # s0 => handed'[s] = handed[s]
      /\ handed' \in [Session -> Nat]
  BY <1>1, <1>3, <1>4 DEF IInv, Typed, TypeOK
<1>6. /\ pc'[t] = Idle /\ \A u \in Thread : u # t => pc'[u] = pc[u]
      /\ pc' \in [Thread -> [at : At, object : Object, conn : Conn \cup {None}]]
  BY <1>1 DEF IInv, Typed, Idle, At, Object
<1>7. \A u \in Thread : pc'[u].at # "idle" => u # t /\ pc'[u] = pc[u]
                          /\ pc[u].object = pc[t].object
  BY <1>2, <1>6 DEF IInv, OneObject, Idle
<1>8. \A u \in Thread : pc'[u].at # "idle" => SessionOf(u)' = s0 /\ SessionOf(u) = s0
  BY <1>7, AddFacts DEF SessionOf
<1>9. Typed'
  <2>1. \A x \in Object : peer'[x].connected => peer'[x].session # None
    BY <1>3, AddFacts DEF IInv, Typed, TypeOK
  <2>2. queue' \in Seq(Session)
    BY <1>1, <1>3 DEF IInv, Typed, TypeOK
  <2>3. freed' \subseteq Session
    BY AddFacts DEF IInv, Typed, TypeOK, Object
  <2>4. \A u \in Thread : pc'[u].object \in Object /\ pc'[u].conn \in Conn \cup {None}
    BY <1>6
  <2> QED
    BY <1>1, <1>5, <1>6, <2>1, <2>2, <2>3, <2>4, AddFacts DEF IInv, Typed, TypeOK, PeerType
<1>10. MadeBefore'
  <2>1. \A x \in Object : peer'[x].session <= sessions
    BY <1>3, AddFacts DEF IInv, MadeBefore
  <2>2. \A s \in freed' : s <= sessions
    BY AddFacts DEF IInv, MadeBefore, Object
  <2>3. \A u \in Thread : pc'[u].conn <= conns
    <3>1. 0 <= conns
      BY DEF IInv, Typed, TypeOK
    <3> QED
      BY <1>6, <3>1 DEF IInv, MadeBefore, Idle, None
  <2>4. \A s \in Session : IF s <= sessions THEN streams'[s].conn \in Conn
                           ELSE handed'[s] = 0 /\ streams'[s].layer = "raw"
    BY <1>1, <1>3, <1>5 DEF IInv, MadeBefore
  <2> QED
    BY <1>1, <2>1, <2>2, <2>3, <2>4 DEF IInv, MadeBefore
<1>11. OneObject'
  <2>1. \A x \in Object : ~peer'[x].there => peer'[x].session = None
    BY AddFacts DEF IInv, OneObject
  <2>2. \A u \in Thread : pc'[u].at # "idle" => peer'[pc'[u].object].there
    BY <1>3, <1>7, AddFacts DEF IInv, OneObject
  <2> QED
    BY <1>3, <1>6, <1>7, <1>8, <2>1, <2>2 DEF IInv, OneObject
<1>12. LinkedStreams'
  BY <1>1, <1>7, <1>8 DEF IInv, LinkedStreams
<1>13. SecureDial'
  <2>1. \A u \in Thread : pc'[u].at \in Secured => pc'[u].at # "idle"
    BY DEF Secured
  <2> QED
    BY <1>1, <1>7, <1>8, <2>1 DEF IInv, SecureDial
<1>14. OneUpgrade'
  <2>1. \A u \in Thread : pc'[u].at \notin Secured
    BY <1>4, <1>6 DEF Idle, Secured
  <2>2. \A u \in Thread : ~WillUpgrade(u)'
    BY <1>1, <1>4, <1>7 DEF WillUpgrade
  <2>3. \A x \in Object : peer[x].session # None => peer[x].session \in Session
    BY DEF IInv, Typed, TypeOK
  <2>4. \A x \in Object : peer'[x].session # None /\ streams[peer'[x].session].layer = "ms"
                            => handed'[peer'[x].session] = 0
    BY <1>4, <1>5, <2>3, AddFacts DEF IInv, OneUpgrade
  <2> QED
    BY <1>1, <2>1, <2>2, <2>4 DEF OneUpgrade
<1>15. ListenedOnce'
  BY <1>5 DEF IInv, ListenedOnce
<1>16. NoDanglingPeer'
  <2>1. \A x \in Object : peer'[x].session \notin freed
    BY <1>3, AddFacts DEF IInv, NoDanglingPeer, SessionOf
  <2>2. CASE freed' = freed
    BY <2>1, <2>2 DEF NoDanglingPeer
  <2>3. CASE freed' # freed
    <3>1. /\ freed' = freed \cup {peer["stored"].session} /\ pc[t].object = "mine"
          /\ peer["stored"].session # s0
      BY <2>3, AddFacts
    <3>2. peer'["stored"].session = s0 /\ peer'["mine"].session = s0
      BY <3>1, AddFacts
    <3> QED
      BY <2>1, <3>1, <3>2 DEF NoDanglingPeer, Object
  <2> QED
    BY <2>2, <2>3
<1> QED
  BY <1>9, <1>10, <1>11, <1>12, <1>13, <1>14, <1>15, <1>16 DEF IInv

\* A new connection: with a new session it is linked to it, and nobody else is dialling; on
\* a session that is there it hides the streams the session had.
LEMMA ConnectIInv ==
  ASSUME IInv, NEW t \in Thread, NEW o \in Object, Connect(t, o)
  PROVE  IInv'
<1> DEFINE s == peer[o].session
           c == conns + 1
           here == IF s = None THEN sessions + 1 ELSE s
<1>1. /\ pc[t] = Idle /\ peer[o].there /\ (\A u \in Thread : pc[u] # Idle => pc[u].object = o)
      /\ conns < MaxConns /\ here <= MaxSessions /\ conns' = c
      /\ sessions' = IF s = None THEN sessions + 1 ELSE sessions
      /\ peer' = [peer EXCEPT ![o].session = here]
      /\ linked' = [linked EXCEPT ![c] = Link(s, here)]
      /\ streams' = [streams EXCEPT ![here] = [conn |-> c, layer |-> "raw", insecure |-> c]]
      /\ pc' = [pc EXCEPT ![t] = [at |-> "multistream", object |-> o, conn |-> c]]
      /\ freed' = freed /\ acked' = acked /\ queue' = queue /\ listening' = listening
      /\ handed' = handed
  BY DEF Connect, swarm
<1>2. /\ sessions \in 0..MaxSessions /\ conns \in 0..MaxConns /\ s \in Session \cup {None}
      /\ s <= sessions
  BY DEF IInv, Typed, TypeOK, MadeBefore
<1>3. /\ c \in Conn /\ here \in Session /\ here <= sessions' /\ sessions' \in 0..MaxSessions
      /\ sessions <= sessions' /\ conns' \in 0..MaxConns /\ conns < c /\ here # None /\ c # None
  BY <1>1, <1>2, DialAssumption DEF Conn, Session, None
<1>4. s = None => here = sessions + 1 /\ here > sessions
  BY <1>2
<1>5. s # None => here = s /\ sessions' = sessions
  BY <1>1
<1>6. linked[c] = None
  BY <1>2, <1>3 DEF IInv, MadeBefore
<1> HIDE DEF c, here
<1>7. /\ peer' \in [Object -> PeerType] /\ peer'[o].session = here
      /\ peer'[o].there = peer[o].there /\ \A x \in Object : x # o => peer'[x] = peer[x]
  <2>1. peer \in [Object -> PeerType]
    BY DEF IInv, Typed, TypeOK, PeerType
  <2>2. peer'[o] = [peer[o] EXCEPT !.session = here]
        /\ \A x \in Object : x # o => peer'[x] = peer[x]
    BY <1>1, <2>1
  <2>3. peer'[o] \in PeerType /\ peer'[o].session = here /\ peer'[o].there = peer[o].there
    BY <1>3, <2>1, <2>2 DEF PeerType
  <2> QED
    BY <1>1, <2>1, <2>2, <2>3
<1>8. /\ linked' \in [Conn -> Session \cup {None}] /\ linked'[c] = Link(s, here)
      /\ \A d \in Conn : d # c => linked'[d] = linked[d]
  BY <1>1, <1>3 DEF IInv, Typed, TypeOK, Link
<1>9. /\ streams' \in [Session -> [conn : Conn \cup {None}, layer : Layer,
                                   insecure : Conn \cup {None}]]
      /\ streams'[here].conn = c /\ streams'[here].layer = "raw"
      /\ \A x \in Session : x # here => streams'[x] = streams[x]
  BY <1>1, <1>3 DEF IInv, Typed, TypeOK, Layer
<1>10. /\ pc'[t].at = "multistream" /\ pc'[t].object = o /\ pc'[t].conn = c
       /\ \A u \in Thread : u # t => pc'[u] = pc[u]
       /\ pc' \in [Thread -> [at : At, object : Object, conn : Conn \cup {None}]]
  <2>1. "multistream" \in At
    BY DEF At
  <2> QED
    BY <1>1, <1>3, <2>1 DEF IInv, Typed
<1>11. \A u \in Thread : pc[u].at # "idle" => u # t /\ pc[u].object = o /\ SessionOf(u) = s
                           /\ s # None /\ SessionOf(u)' = here /\ here = s
  <2>1. \A u \in Thread : pc[u].at # "idle" => u # t /\ pc[u].object = o
    BY <1>1 DEF Idle
  <2>2. \A u \in Thread : pc[u].at # "idle" => SessionOf(u) = s /\ s # None
    BY <2>1 DEF IInv, OneObject, SessionOf
  <2> QED
    BY <1>5, <1>7, <1>10, <2>1, <2>2 DEF SessionOf
<1>12. SessionOf(t)' = here
  BY <1>7, <1>10 DEF SessionOf
<1>13. \A u \in Thread : u # t => pc'[u] = pc[u] /\ pc[u].conn # c
  BY <1>2, <1>3, <1>10 DEF IInv, MadeBefore, Typed, Conn, None
<1>14. Typed'
  <2>1. \A x \in Object : peer'[x].connected => peer'[x].session # None
    BY <1>3, <1>7 DEF IInv, Typed, TypeOK
  <2> QED
    BY <1>1, <1>3, <1>7, <1>8, <1>9, <1>10, <2>1 DEF IInv, Typed, TypeOK, PeerType
<1>15. MadeBefore'
  <2>1. \A x \in Object : peer'[x].session <= sessions'
    <3>1. \A x \in Object : peer[x].session \in Int
      BY DEF IInv, Typed, TypeOK, Session, None
    <3> QED
      BY <1>2, <1>3, <1>7, <3>1 DEF IInv, MadeBefore
  <2>2. \A x \in freed : x <= sessions'
    <3>1. \A x \in freed : x \in Int
      BY DEF IInv, Typed, TypeOK, Session
    <3> QED
      BY <1>2, <1>3, <3>1 DEF IInv, MadeBefore
  <2>3. \A x \in Session : IF x <= sessions' THEN streams'[x].conn \in Conn
                           ELSE handed[x] = 0 /\ streams'[x].layer = "raw"
    <3>1. \A x \in Session : x # here => (x <= sessions' <=> x <= sessions)
      BY <1>1, <1>2, <1>4, <1>5 DEF Session
    <3> QED
      BY <1>3, <1>9, <3>1 DEF IInv, MadeBefore
  <2>4. \A d \in Conn : linked'[d] <= sessions' /\ (linked'[d] # None => d <= conns')
    <3>1. linked'[c] <= sessions'
      BY <1>2, <1>3, <1>8 DEF Link, None
    <3>2. \A d \in Conn : linked[d] \in Int
      BY DEF IInv, Typed, TypeOK, Session, None
    <3>3. c <= conns' /\ conns <= conns'
      BY <1>1, <1>2, <1>3 DEF c
    <3> QED
      BY <1>2, <1>3, <1>8, <3>1, <3>2, <3>3 DEF IInv, MadeBefore, Conn
  <2>5. \A u \in Thread : pc'[u].conn <= conns'
    <3>1. c <= conns' /\ conns <= conns'
      BY <1>1, <1>2, <1>3 DEF c
    <3>2. \A u \in Thread : pc[u].conn \in Int
      BY DEF IInv, Typed, TypeOK, Conn, None
    <3> QED
      BY <1>2, <1>3, <1>10, <3>1, <3>2 DEF IInv, MadeBefore
  <2>6. \A x \in Session : streams'[x].conn <= conns'
    <3>1. c <= conns' /\ conns <= conns'
      BY <1>1, <1>2, <1>3 DEF c
    <3>2. \A x \in Session : streams[x].conn \in Int
      BY DEF IInv, Typed, TypeOK, Conn, None
    <3> QED
      BY <1>2, <1>3, <1>9, <3>1, <3>2 DEF IInv, MadeBefore
  <2> QED
    BY <1>1, <2>1, <2>2, <2>3, <2>4, <2>5, <2>6 DEF MadeBefore
<1>16. OneObject'
  <2>1. \A x \in Object : ~peer'[x].there => peer'[x].session = None
    BY <1>1, <1>7 DEF IInv, OneObject
  <2>2. \A u \in Thread : IF pc'[u].at = "idle" THEN pc'[u] = Idle
                          ELSE pc'[u].conn # None /\ pc'[u].object = o
    BY <1>3, <1>10, <1>11 DEF IInv, OneObject
  <2>3. \A u \in Thread : pc'[u].at # "idle" => peer'[pc'[u].object].there /\ SessionOf(u)' = here
    BY <1>1, <1>7, <2>2 DEF SessionOf
  <2> QED
    BY <1>3, <2>1, <2>2, <2>3 DEF OneObject
<1>17. LinkedStreams'
  <2>1. \A d, e \in Conn : linked'[d] = linked'[e] /\ linked'[d] # None => d = e
    <3>1. \A d \in Conn : d # c => linked[d] # here \/ Link(s, here) = None
      BY <1>2, <1>3, <1>4 DEF IInv, MadeBefore, Typed, TypeOK, Session, None, Link
    <3>2. Link(s, here) \in {None, here}
      BY DEF Link
    <3> QED
      BY <1>3, <1>8, <3>1, <3>2 DEF IInv, LinkedStreams
  <2>2. Link(s, here) \in {None, here}
    BY DEF Link
  <2>3. \A x \in Session : x <= sessions' => linked'[streams'[x].conn] \in {None, x}
    <3>1. linked'[streams'[here].conn] \in {None, here}
      BY <1>8, <1>9, <2>2
    <3>2. ASSUME NEW x \in Session, x # here, x <= sessions'
          PROVE  linked'[streams'[x].conn] \in {None, x}
      <4>1. x <= sessions
        BY <1>1, <1>2, <1>4, <1>5, <3>2 DEF Session
      <4>2. streams'[x] = streams[x] /\ streams[x].conn \in Conn
            /\ linked[streams[x].conn] \in {None, x}
        BY <1>9, <3>2, <4>1 DEF IInv, MadeBefore, LinkedStreams
      <4>3. streams[x].conn # c
        <5>1. streams[x].conn <= conns
          BY DEF IInv, MadeBefore
        <5> QED
          BY <1>2, <1>3, <4>2, <5>1 DEF Conn
      <4> QED
        BY <1>8, <4>2, <4>3
    <3> QED
      BY <3>1, <3>2
  <2>4. \A x \in Session : streams'[x].layer # "raw" => linked'[streams'[x].conn] = x
    <3> SUFFICES ASSUME NEW x \in Session, streams'[x].layer # "raw"
                 PROVE  linked'[streams'[x].conn] = x
      OBVIOUS
    <3>1. x # here /\ streams'[x] = streams[x]
      BY <1>9
    <3>2. linked[streams[x].conn] = x /\ streams[x].conn \in Conn
      BY <3>1 DEF IInv, LinkedStreams, MadeBefore, Session
    <3>3. streams[x].conn # c
      BY <1>6, <3>2 DEF Session, None
    <3> QED
      BY <1>8, <3>1, <3>2, <3>3
  <2>5. \A u \in Thread : pc'[u].at # "idle" => linked'[pc'[u].conn] \in {None, SessionOf(u)'}
    <3>1. linked'[pc'[t].conn] \in {None, SessionOf(t)'}
      BY <1>8, <1>10, <1>12, <2>2
    <3>2. \A u \in Thread : pc[u].at # "idle" => pc[u].conn \in Conn
      BY DialFacts
    <3> QED
      BY <1>8, <1>11, <1>13, <3>1, <3>2 DEF IInv, LinkedStreams
  <2>6. \A u, v \in Thread : pc'[u].at = "multistream" /\ pc'[v].at = "multistream"
                               /\ pc'[u].conn = pc'[v].conn => u = v
    BY <1>10, <1>13 DEF IInv, LinkedStreams
  <2> QED
    BY <2>1, <2>3, <2>4, <2>5, <2>6 DEF LinkedStreams
<1>18. SecureDial'
  <2>1. \A u \in Thread : pc'[u].at \in Secured => u # t /\ pc[u].at \in Secured
                                                   /\ pc[u].at # "idle"
    BY <1>10 DEF Secured
  <2>2. \A u \in Thread : pc[u].at # "idle" => pc[u].conn \in Conn
    BY DialFacts
  <2> QED
    BY <1>1, <1>8, <1>11, <1>13, <2>1, <2>2 DEF IInv, SecureDial
<1>19. OneUpgrade'
  <2>1. \A u \in Thread : pc'[u].at \in Secured => u # t /\ pc[u].at \in Secured
                                                   /\ pc[u].at # "idle"
    BY <1>10 DEF Secured
  <2>2. \A u \in Thread : u # t /\ WillUpgrade(u)' => WillUpgrade(u) /\ pc[u].at # "idle"
    <3>1. \A u \in Thread : pc[u].at # "idle" => pc[u].conn \in Conn
      BY DialFacts
    <3> QED
      BY <1>8, <1>13, <3>1 DEF WillUpgrade
  <2>3. WillUpgrade(t)' => s = None
    BY <1>8, <1>10 DEF WillUpgrade, Link
  <2>4. s = None => handed[here] = 0
    BY <1>2, <1>3, <1>4 DEF IInv, MadeBefore
  <2>5. \A u, v \in Thread : pc'[u].at \in Secured /\ pc'[v].at \in Secured => u = v
    BY <2>1 DEF IInv, OneUpgrade
  <2>6. \A u \in Thread : pc'[u].at \in Secured =>
          /\ handed[SessionOf(u)'] = 0 /\ streams'[SessionOf(u)'].layer # "ms"
          /\ \A v \in Thread : ~WillUpgrade(v)'
    BY <1>9, <1>11, <2>1, <2>2, <2>3 DEF IInv, OneUpgrade
  <2>7. \A u \in Thread : WillUpgrade(u)' =>
          handed[SessionOf(u)'] = 0 /\ streams'[SessionOf(u)'].layer # "ms"
    BY <1>9, <1>11, <1>12, <2>2, <2>3, <2>4 DEF IInv, OneUpgrade
  <2>8. \A x \in Object : peer'[x].session # None /\ streams'[peer'[x].session].layer = "ms"
                            => handed[peer'[x].session] = 0
    <3>1. \A x \in Object : peer[x].session # None => peer[x].session \in Session
      BY DEF IInv, Typed, TypeOK
    <3> QED
      BY <1>7, <1>9, <3>1 DEF IInv, OneUpgrade
  <2> QED
    BY <1>1, <2>5, <2>6, <2>7, <2>8 DEF OneUpgrade
<1>20. NoDanglingPeer'
  <2>1. here \notin freed
    <3>1. CASE s = None
      BY <1>2, <1>4, <3>1 DEF IInv, MadeBefore, Typed, TypeOK, Session
    <3>2. CASE s # None
      BY <1>5, <3>2 DEF IInv, NoDanglingPeer
    <3> QED
      BY <3>1, <3>2
  <2> QED
    BY <1>1, <1>7, <2>1 DEF IInv, NoDanglingPeer
<1> QED
  BY <1>1, <1>14, <1>15, <1>16, <1>17, <1>18, <1>19, <1>20 DEF IInv, ListenedOnce

\* The caller starts over with another object while nobody dials.
LEMMA NewPeerIInv ==
  ASSUME IInv, NewPeer
  PROVE  IInv'
<1>1. /\ peer' = [peer EXCEPT !["mine"] = [NoPeer EXCEPT !.there = TRUE]]
      /\ streams' = streams /\ sessions' = sessions /\ freed' = freed /\ linked' = linked
      /\ conns' = conns /\ acked' = acked /\ pc' = pc /\ queue' = queue
      /\ listening' = listening /\ handed' = handed
  BY DEF NewPeer, network, swarm
<1>2. \A t \in Thread : pc[t] = Idle /\ pc[t].at = "idle" /\ pc[t].at \notin Secured
                        /\ ~WillUpgrade(t)'
  BY <1>1 DEF NewPeer, Idle, Secured, WillUpgrade
<1>3. /\ peer' \in [Object -> PeerType] /\ peer'["mine"].session = None /\ peer'["mine"].there
      /\ ~peer'["mine"].connected /\ \A o \in Object : o # "mine" => peer'[o] = peer[o]
  <2> DEFINE new == [NoPeer EXCEPT !.there = TRUE]
  <2>1. new \in PeerType /\ new.session = None /\ new.there /\ ~new.connected
    BY DEF NoPeer, PeerType
  <2>2. peer \in [Object -> PeerType] /\ "mine" \in Object
    BY DEF IInv, Typed, TypeOK, PeerType, Object
  <2> HIDE DEF new
  <2>3. peer' = [peer EXCEPT !["mine"] = new]
    BY <1>1 DEF new
  <2>4. peer'["mine"] = new /\ \A o \in Object : o # "mine" => peer'[o] = peer[o]
    BY <2>2, <2>3
  <2>5. peer' \in [Object -> PeerType]
    BY <2>1, <2>2, <2>3
  <2> QED
    BY <2>1, <2>4, <2>5
<1>4. Typed'
  <2>1. \A o \in Object : peer'[o].connected => peer'[o].session # None
    BY <1>3 DEF IInv, Typed, TypeOK
  <2> QED
    BY <1>1, <1>3, <2>1 DEF IInv, Typed, TypeOK, PeerType
<1>5. MadeBefore'
  <2>1. None <= sessions
    BY DEF IInv, Typed, TypeOK, None
  <2> QED
    BY <1>1, <1>3, <2>1 DEF IInv, MadeBefore
<1>6. OneObject'
  BY <1>1, <1>2, <1>3 DEF IInv, OneObject
<1>7. LinkedStreams'
  BY <1>1, <1>2 DEF IInv, LinkedStreams
<1>8. SecureDial'
  BY <1>1, <1>2 DEF SecureDial
<1>9. OneUpgrade'
  BY <1>1, <1>2, <1>3 DEF IInv, OneUpgrade
<1>10. NoDanglingPeer'
  <2>1. None \notin freed
    BY DEF IInv, Typed, TypeOK, Session, None
  <2> QED
    BY <1>1, <1>3, <2>1 DEF IInv, NoDanglingPeer
<1> QED
  BY <1>1, <1>4, <1>5, <1>6, <1>7, <1>8, <1>9, <1>10 DEF IInv, ListenedOnce

\* The copy in the peerstore shares the session of the caller's peer.
LEMMA AddPeerIInv ==
  ASSUME IInv, libp2p_peerstore_add_peer
  PROVE  IInv'
<1>1. /\ ~peer["stored"].there /\ peer' = [peer EXCEPT !["stored"] = peer["mine"]]
      /\ streams' = streams /\ sessions' = sessions /\ freed' = freed /\ linked' = linked
      /\ conns' = conns /\ acked' = acked /\ pc' = pc /\ queue' = queue
      /\ listening' = listening /\ handed' = handed
  BY DEF libp2p_peerstore_add_peer, network, swarm
<1>2. /\ peer \in [Object -> PeerType] /\ "mine" \in Object /\ "stored" \in Object
      /\ \A o \in Object : o = "mine" \/ o = "stored"
  BY DEF IInv, Typed, TypeOK, PeerType, Object
<1>3. peer' \in [Object -> PeerType] /\ \A o \in Object : peer'[o] = peer["mine"]
  BY <1>1, <1>2
<1>4. \A t \in Thread : pc[t].at # "idle" => pc[t].object = "mine" /\ SessionOf(t)' = SessionOf(t)
  <2>1. \A t \in Thread : pc[t].at # "idle" => pc[t].object = "mine"
    BY <1>1, <1>2 DEF IInv, OneObject, Typed
  <2> QED
    BY <1>1, <1>2, <1>3, <2>1 DEF SessionOf
<1>5. \A t \in Thread : (pc[t].at \in Secured => pc[t].at # "idle")
                        /\ (WillUpgrade(t)' <=> WillUpgrade(t))
                        /\ (WillUpgrade(t) => pc[t].at # "idle")
  BY <1>1 DEF WillUpgrade, Secured
<1>6. Typed'
  BY <1>1, <1>2, <1>3 DEF IInv, Typed, TypeOK, PeerType
<1>7. MadeBefore'
  BY <1>1, <1>2, <1>3 DEF IInv, MadeBefore
<1>8. OneObject'
  BY <1>1, <1>2, <1>3, <1>4 DEF IInv, OneObject
<1>9. LinkedStreams'
  BY <1>1, <1>4 DEF IInv, LinkedStreams
<1>10. SecureDial'
  BY <1>1, <1>4, <1>5 DEF IInv, SecureDial
<1>11. OneUpgrade'
  BY <1>1, <1>2, <1>3, <1>4, <1>5 DEF IInv, OneUpgrade
<1>12. NoDanglingPeer'
  BY <1>1, <1>2, <1>3 DEF IInv, NoDanglingPeer
<1> QED
  BY <1>1, <1>6, <1>7, <1>8, <1>9, <1>10, <1>11, <1>12 DEF IInv, ListenedOnce

\* An incoming connection's session is one no peer has.
LEMMA AddConnectionIInv ==
  ASSUME IInv, libp2p_swarm_add_connection
  PROVE  IInv'
<1> DEFINE n == sessions + 1
           c == conns + 1
<1>1. /\ sessions < MaxSessions /\ conns < MaxConns /\ sessions' = n /\ conns' = c
      /\ linked' = [linked EXCEPT ![c] = n]
      /\ streams' = [streams EXCEPT ![n] = [conn |-> c, layer |-> "ms", insecure |-> c]]
      /\ queue' = Append(queue, n) /\ handed' = [handed EXCEPT ![n] = @ + 1]
      /\ peer' = peer /\ freed' = freed /\ acked' = acked /\ pc' = pc
      /\ listening' = listening
  BY DEF libp2p_swarm_add_connection
<1>2. sessions \in 0..MaxSessions /\ conns \in 0..MaxConns
  BY DEF IInv, Typed, TypeOK
<1>3. /\ c \in Conn /\ n \in Session /\ n \in 0..MaxSessions /\ c \in 0..MaxConns
      /\ c > conns /\ n > sessions /\ c # None /\ n # None
  BY <1>1, <1>2, DialAssumption DEF Conn, Session, None
<1>4. linked[c] = None /\ handed[n] = 0
  BY <1>2, <1>3 DEF IInv, MadeBefore
<1>5. \A x \in Session : x # n => (x <= sessions' <=> x <= sessions)
  BY <1>1, <1>2 DEF Session
<1>6. \A x \in Int : (x <= sessions => x <= n) /\ (x <= conns => x <= c)
  BY <1>2
<1> HIDE DEF n, c
<1>7. /\ linked' \in [Conn -> Session \cup {None}] /\ linked'[c] = n
      /\ \A d \in Conn : d # c => linked'[d] = linked[d]
  BY <1>1, <1>3 DEF IInv, Typed, TypeOK
<1>8. /\ streams' \in [Session -> [conn : Conn \cup {None}, layer : Layer,
                                   insecure : Conn \cup {None}]]
      /\ streams'[n].conn = c /\ \A x \in Session : x # n => streams'[x] = streams[x]
  BY <1>1, <1>3 DEF IInv, Typed, TypeOK, Layer
<1>9. /\ handed' \in [Session -> Nat] /\ handed'[n] = 1
      /\ \A x \in Session : x # n => handed'[x] = handed[x]
  BY <1>1, <1>3, <1>4 DEF IInv, Typed, TypeOK
<1>10. \A o \in Object : peer[o].session \in Int /\ peer[o].session # n
                         /\ (peer[o].session # None => peer[o].session \in Session)
  BY <1>2, <1>3 DEF IInv, Typed, TypeOK, MadeBefore, Session, None
<1>11. \A t \in Thread : pc[t].conn \in Int /\ pc[t].conn # c
  BY <1>2, <1>3 DEF IInv, Typed, TypeOK, MadeBefore, Conn, None
<1>12. \A t \in Thread : /\ SessionOf(t)' = SessionOf(t) /\ SessionOf(t) # n
                         /\ pc[t].at # "idle" =>
                              /\ pc[t].conn \in Conn /\ SessionOf(t) \in Session
                              /\ linked'[pc[t].conn] = linked[pc[t].conn]
  <2>1. \A t \in Thread : SessionOf(t)' = SessionOf(t) /\ SessionOf(t) # n
    BY <1>1, <1>10 DEF SessionOf, IInv, Typed
  <2> QED
    BY <1>7, <1>11, <2>1, DialFacts
<1>13. Typed'
  <2>1. queue' \in Seq(Session)
    BY <1>1, <1>3 DEF IInv, Typed, TypeOK
  <2> QED
    BY <1>1, <1>3, <1>7, <1>8, <1>9, <2>1 DEF IInv, Typed, TypeOK
<1>14. MadeBefore'
  <2>1. /\ \A o \in Object : peer[o].session <= n
        /\ \A t \in Thread : pc[t].conn <= c
    BY <1>6, <1>10, <1>11 DEF IInv, MadeBefore
  <2>2. \A x \in freed : x <= n
    <3>1. \A x \in freed : x \in Int
      BY DEF IInv, Typed, TypeOK, Session
    <3> QED
      BY <1>6, <3>1 DEF IInv, MadeBefore
  <2>3. \A x \in Session : IF x <= n THEN streams'[x].conn \in Conn
                           ELSE handed'[x] = 0 /\ streams'[x].layer = "raw"
    BY <1>1, <1>3, <1>5, <1>8, <1>9 DEF IInv, MadeBefore
  <2>4. \A x \in Session : streams'[x].conn <= c
    <3>1. \A x \in Session : streams[x].conn \in Int
      BY DEF IInv, Typed, TypeOK, Conn, None
    <3>2. \A x \in Session : streams[x].conn <= c
      BY <1>6, <3>1 DEF IInv, MadeBefore
    <3> QED
      BY <1>3, <1>8, <3>2
  <2>5. \A d \in Conn : linked'[d] <= n /\ (linked'[d] # None => d <= c)
    <3>1. \A d \in Conn : linked[d] \in Int /\ d \in Int
      BY DEF IInv, Typed, TypeOK, Conn, Session, None
    <3>2. \A d \in Conn : linked[d] <= n /\ (linked[d] # None => d <= c)
      BY <1>6, <3>1 DEF IInv, MadeBefore
    <3> QED
      BY <1>3, <1>7, <3>2
  <2> QED
    BY <1>1, <2>1, <2>2, <2>3, <2>4, <2>5 DEF MadeBefore
<1>15. OneObject'
  BY <1>1, <1>12 DEF IInv, OneObject
<1>16. LinkedStreams'
  <2>1. \A d \in Conn : linked[d] # n
    BY <1>2, <1>3 DEF IInv, MadeBefore, Typed, TypeOK, Session, None
  <2>2. \A d, e \in Conn : linked'[d] = linked'[e] /\ linked'[d] # None => d = e
    BY <1>7, <2>1 DEF IInv, LinkedStreams
  <2>3. \A x \in Session : x # n /\ x <= sessions =>
          linked'[streams'[x].conn] = linked[streams[x].conn] /\ streams[x].conn \in Conn
    BY <1>2, <1>3, <1>7, <1>8 DEF IInv, MadeBefore, Conn
  <2>4. \A x \in Session : x <= n => linked'[streams'[x].conn] \in {None, x}
    BY <1>1, <1>5, <1>7, <1>8, <2>3 DEF IInv, LinkedStreams
  <2>5. \A x \in Session : streams'[x].layer # "raw" => linked'[streams'[x].conn] = x
    BY <1>7, <1>8, <2>3 DEF IInv, LinkedStreams, MadeBefore
  <2> QED
    BY <1>1, <1>12, <2>2, <2>4, <2>5 DEF IInv, LinkedStreams
<1>17. \A t \in Thread : (pc[t].at \in Secured => pc[t].at # "idle")
                         /\ (WillUpgrade(t)' <=> WillUpgrade(t))
                         /\ (WillUpgrade(t) => pc[t].at # "idle")
  BY <1>1, <1>12 DEF WillUpgrade, Secured
<1>18. SecureDial'
  BY <1>1, <1>12, <1>17 DEF IInv, SecureDial
<1>19. OneUpgrade'
  <2>1. \A t, u \in Thread : pc[t].at \in Secured /\ pc[u].at \in Secured => t = u
    BY DEF IInv, OneUpgrade
  <2>2. \A t \in Thread : pc[t].at # "idle" =>
          handed'[SessionOf(t)] = handed[SessionOf(t)]
          /\ streams'[SessionOf(t)] = streams[SessionOf(t)]
    BY <1>8, <1>9, <1>12
  <2>3. \A o \in Object : peer[o].session # None =>
          handed'[peer[o].session] = handed[peer[o].session]
          /\ streams'[peer[o].session] = streams[peer[o].session]
    BY <1>8, <1>9, <1>10
  <2> QED
    BY <1>1, <1>12, <1>17, <2>1, <2>2, <2>3 DEF IInv, OneUpgrade
<1>20. ListenedOnce'
  BY <1>9 DEF IInv, ListenedOnce
<1> QED
  BY <1>1, <1>13, <1>14, <1>15, <1>16, <1>18, <1>19, <1>20 DEF IInv, NoDanglingPeer

\* The swarm's thread takes a listener or is done with one; a step that changes nothing.
LEMMA SwarmIInv ==
  ASSUME IInv, Listen \/ ListenEnds \/ UNCHANGED vars
  PROVE  IInv'
<1>1. /\ peer' = peer /\ streams' = streams /\ sessions' = sessions /\ freed' = freed
      /\ linked' = linked /\ conns' = conns /\ acked' = acked /\ pc' = pc /\ handed' = handed
  BY DEF Listen, ListenEnds, vars, network, swarm
<1>2. queue' \in Seq(Session) /\ listening' \in Session \cup {None}
  <2>1. queue \in Seq(Session) /\ listening \in Session \cup {None}
    BY DEF IInv, Typed, TypeOK
  <2>2. \A q \in Seq(Session) : q # <<>> => Head(q) \in Session /\ Tail(q) \in Seq(Session)
    OBVIOUS
  <2> QED
    BY <2>1, <2>2 DEF Listen, ListenEnds, vars, swarm
<1>3. Typed'
  BY <1>1, <1>2 DEF IInv, Typed, TypeOK
<1>4. \A t \in Thread : SessionOf(t)' = SessionOf(t) /\ (WillUpgrade(t)' <=> WillUpgrade(t))
  BY <1>1 DEF SessionOf, WillUpgrade
<1>5. MadeBefore' /\ OneObject' /\ LinkedStreams' /\ SecureDial' /\ OneUpgrade'
  BY <1>1, <1>4 DEF IInv, MadeBefore, OneObject, LinkedStreams, SecureDial, OneUpgrade
<1> QED
  BY <1>1, <1>3, <1>5 DEF IInv, ListenedOnce, NoDanglingPeer

\* Every step keeps the invariant.
LEMMA NextIInv == IInv /\ [Next]_vars => IInv'
<1> SUFFICES ASSUME IInv, [Next]_vars PROVE IInv'
  OBVIOUS
<1>1. ASSUME NEW t \in Thread,
             \/ \E o \in Object : Connect(t, o)
             \/ Multistream(t) \/ MultistreamAck(t) \/ Ready(t) \/ Noise(t)
             \/ MultistreamNoise(t) \/ ReadyNoise(t) \/ Yamux(t) \/ ReadyYamux(t)
             \/ Identify(t) \/ Add(t) \/ GiveUp(t)
      PROVE  IInv'
  BY <1>1, ConnectIInv, MultistreamIInv, MovesIInv, NoiseIInv, MultistreamNoiseIInv, YamuxIInv,
     AddIInv, GiveUpIInv
<1> QED
  BY <1>1, NewPeerIInv, AddPeerIInv, AddConnectionIInv, SwarmIInv DEF Next
-----------------------------------------------------------------------------
\* The inductive invariant holds throughout, for any number of callers, sessions and
\* connections.
THEOREM InvariantHolds == Spec => []IInv
BY InitIInv, NextIInv, PTL DEF Spec

\* Every variable of the dialler keeps its type; a peer said to be connected has a session.
THEOREM TypeCorrect == Spec => []TypeOK
<1>1. IInv => TypeOK
  BY DEF IInv, Typed
<1> QED
  BY <1>1, InvariantHolds, PTL

\* However many callers dial the peer, and whatever fails, libp2p_swarm_add_peer and
\* libp2p_swarm_add_connection hand a session to the swarm once: it gets one listener.
THEOREM OneListener == Spec => []ListenedOnce
<1>1. IInv => ListenedOnce
  BY DEF IInv
<1> QED
  BY <1>1, InvariantHolds, PTL

\* A dial that libp2p_conn_dialer_join_swarm reports as a success ran the noise handshake on
\* the connection of its own session.
THEOREM DialIsSecure == Spec => []SuccessIsSecure
<1>1. IInv => SuccessIsSecure
  BY DEF IInv, SecureDial, SuccessIsSecure, Secured
<1> QED
  BY <1>1, InvariantHolds, PTL

\* No Libp2pPeer points at a session that libp2p_session_context_free was called on when the
\* peerstore's entry changed.
THEOREM PeersAreAlive == Spec => []NoDanglingPeer
<1>1. IInv => NoDanglingPeer
  BY DEF IInv
<1> QED
  BY <1>1, InvariantHolds, PTL
=============================================================================
