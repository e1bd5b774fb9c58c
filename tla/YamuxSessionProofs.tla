------------------------- MODULE YamuxSessionProofs -------------------------
(***************************************************************************)
(* Proofs about YamuxSession, for any bounds and any accept_backlog.  The  *)
(* two copies of a stream's state, what was sent on it and what the peer   *)
(* has done are tied together stream by stream, for a session whose ids    *)
(* are assigned as the protocol has it.                                    *)
(***************************************************************************)
EXTENDS YamuxSession, FiniteSetTheorems, WellFoundedInduction, TLAPS

StreamType == [id : Id, state : State, cstate : State, buffer : Seq(Data), consumed : Seq(Data)]

\* The counters of calls and frames bound what they count.
Counted ==
  /\ mainWrites <= calls
  /\ \A id \in Id : peerData[id] <= frames

SynIn(s) == \E k \in 1..Len(s) : s[k] = Frame("window", "syn")

\* What may have been sent on a stream that "first" opens.
SentOK(s, first) ==
  \A k \in 1..Len(s) : IF k = 1 THEN s[k] \in {first, Frame("window", "rst")}
                                ELSE s[k].flag \notin {"syn", "ack"}

\* A stream of ours is in "inited" until something is sent on it, one of the peer's never.
StatesAgree(e, s, p, n) ==
  /\ e.cstate # "syn_recv"
  /\ IF e.id % 2 = 1
       THEN e.id < n /\ (e.cstate = "inited" <=> s = <<>>)
            /\ (e.cstate = "inited" => e.state = "inited")
       ELSE e.cstate # "inited" /\ s # <<>> /\ p # "none"
  /\ SynIn(s) /\ p = "none" => e.state = "syn_sent"
  /\ e.state = "closed" => p \in {"finished", "reset"}

\* All the data the peer has sent on the stream, in order.
Numbered(id, n) == [k \in 1..n |-> Payload(id, k)]
AllData(e, n) == e.consumed \o e.buffer = Numbered(e.id, n)

\* Every entry of the table, and no two of one stream.
TableOK ==
  /\ nextid % 2 = 1
  /\ \A i, j \in 1..Len(streams) : streams[i].id = streams[j].id => i = j
  /\ \A i \in 1..Len(streams) :
       /\ StatesAgree(streams[i], sent[streams[i].id], peer[streams[i].id], nextid)
       /\ AllData(streams[i], peerData[streams[i].id])

\* Every stream, in the table or not.
IdOK(id) ==
  /\ (\A i \in 1..Len(streams) : streams[i].id # id) => sent[id] = <<>>
  /\ id % 2 = 1 /\ peer[id] # "none" => SynIn(sent[id])
  /\ peer[id] = "none" => peerData[id] = 0
  /\ SentOK(sent[id], Frame("window", IF id % 2 = 0 THEN "ack" ELSE "syn"))
  /\ id % 2 = 0 /\ peer[id] # "none" =>
       (\E i \in 1..Len(streams) : streams[i].id = id) \/ Len(streams) = Backlog

IInv ==
  /\ TypeOK /\ Counted
  /\ Regular => TableOK /\ \A id \in Id : IdOK(id)

(***************************************************************************)
(* The table of streams                                                    *)
(***************************************************************************)
\* A set of numbers that is not empty has a least element.
LEMMA Least ==
  ASSUME NEW S \in SUBSET Nat, S # {}
  PROVE  \E m \in S : \A k \in S : m <= k
<1> DEFINE R == OpToRel(<, Nat)
<1>1. \E m \in S : \A k \in S : ~(<<k, m>> \in R)
  <2>1. IsWellFoundedOn(R, Nat)
    BY NatLessThanWellFounded
  <2> HIDE DEF R
  <2> QED
    BY <2>1, WFMin
<1>2. \A m, k \in Nat : ~(<<k, m>> \in R) => m <= k
  BY DEF OpToRel
<1> HIDE DEF R
<1> QED
  BY <1>1, <1>2

\* The search of yamux_get_session_stream ends at one of the entries it is for.
LEMMA FirstIsMember ==
  ASSUME NEW S \in SUBSET Nat, S # {}
  PROVE  FirstOf(S) \in S
BY Least DEF FirstOf

\* Where there is one entry only, that is the one.
LEMMA FirstOfOne ==
  ASSUME NEW i \in Nat
  PROVE  FirstOf({i}) = i
BY FirstIsMember

\* An entry of the table is replaced by another; the others stay.
LEMMA Update ==
  ASSUME NEW s \in Seq(StreamType), NEW i \in 1..Len(s), NEW e \in StreamType
  PROVE  LET t == [s EXCEPT ![i] = e]
         IN  /\ t \in Seq(StreamType) /\ Len(t) = Len(s)
             /\ t[i] = e /\ \A j \in 1..Len(s) : j # i => t[j] = s[j]
OBVIOUS

\* A new entry comes last; the others stay.
LEMMA Extend ==
  ASSUME NEW s \in Seq(StreamType), NEW e \in StreamType
  PROVE  LET t == Append(s, e)
         IN  /\ t \in Seq(StreamType) /\ Len(t) = Len(s) + 1
             /\ t[Len(s) + 1] = e /\ \A j \in 1..Len(s) : t[j] = s[j]
OBVIOUS

\* The entry with another state in the session's table.
WithState(e, st) == [e EXCEPT !.state = st]

\* The fields of an entry.
LEMMA EntryType ==
  ASSUME NEW e \in StreamType
  PROVE  /\ e.id \in Id /\ e.state \in State /\ e.cstate \in State
         /\ e.buffer \in Seq(Data) /\ e.consumed \in Seq(Data)
BY DEF StreamType

\* Storing a state in an entry keeps the rest of it.
LEMMA WithStateFacts ==
  ASSUME NEW e \in StreamType, NEW st \in State
  PROVE  LET u == WithState(e, st)
         IN  /\ u \in StreamType /\ u.state = st /\ u.id = e.id /\ u.cstate = e.cstate
             /\ u.buffer = e.buffer /\ u.consumed = e.consumed
BY DEF StreamType, WithState

\* Storing a state in the table changes the state of one entry, or nothing at all.
LEMMA SetStateType ==
  ASSUME NEW s \in Seq(StreamType), NEW id, NEW st \in State
  PROVE  /\ SetState(s, id, st) \in Seq(StreamType)
         /\ Len(SetState(s, id, st)) = Len(s)
<1>1. CASE Entry(s, id) = {}
  BY <1>1 DEF SetState
<1>2. CASE Entry(s, id) # {}
  <2> DEFINE i == FirstOf(Entry(s, id))
  <2>1. i \in 1..Len(s)
    <3>1. Entry(s, id) \in SUBSET Nat /\ Entry(s, id) \subseteq 1..Len(s)
      BY DEF Entry
    <3> QED
      BY <1>2, <3>1, FirstIsMember
  <2>2. SetState(s, id, st) = [s EXCEPT ![i] = WithState(s[i], st)]
    BY <1>2 DEF SetState, WithState
  <2> HIDE DEF i
  <2>3. s[i] \in StreamType
    BY <2>1
  <2> QED
    BY <2>1, <2>2, <2>3, WithStateFacts, Update
<1> QED
  BY <1>1, <1>2

\* Where no other entry has the id of entry i, the state of entry i is stored.
LEMMA SetStateOne ==
  ASSUME NEW s \in Seq(StreamType), NEW i \in 1..Len(s), NEW st \in State,
         \A j \in 1..Len(s) : s[j].id = s[i].id => j = i
  PROVE  SetState(s, s[i].id, st) = [s EXCEPT ![i] = WithState(s[i], st)]
<1>1. Entry(s, s[i].id) = {i}
  BY DEF Entry
<1>2. FirstOf(Entry(s, s[i].id)) = i
  BY <1>1, FirstOfOne
<1>3. SetState(s, s[i].id, st) = [s EXCEPT ![i].state = st]
  BY <1>1, <1>2 DEF SetState
<1> QED
  BY <1>3 DEF WithState

\* A table with one more entry, as a function.
LEMMA AppendAsFunction ==
  ASSUME NEW s \in Seq(StreamType), NEW d \in StreamType, NEW n \in Nat, Len(s) = n
  PROVE  Append(s, d) = [k \in 1..(n + 1) |-> IF k = n + 1 THEN d ELSE s[k]]
<1> DEFINE t == Append(s, d)
<1>1. t \in Seq(StreamType) /\ Len(t) = n + 1 /\ t[n + 1] = d /\ \A k \in 1..n : t[k] = s[k]
  OBVIOUS
<1> HIDE DEF t
<1>2. t = [k \in 1..(n + 1) |-> t[k]]
  BY <1>1
<1>3. \A k \in 1..(n + 1) : t[k] = IF k = n + 1 THEN d ELSE s[k]
  BY <1>1
<1> QED
  BY <1>2, <1>3 DEF t

\* Its last entry is replaced.
LEMMA ReplaceLast ==
  ASSUME NEW s \in Seq(StreamType), NEW d \in StreamType, NEW e \in StreamType,
         NEW n \in Nat, Len(s) + 1 = n
  PROVE  [Append(s, d) EXCEPT ![n] = e] = Append(s, e)
<1>1. Len(s) = n - 1 /\ n - 1 \in Nat /\ (n - 1) + 1 = n
  OBVIOUS
<1>2. /\ Append(s, d) = [k \in 1..n |-> IF k = n THEN d ELSE s[k]]
      /\ Append(s, e) = [k \in 1..n |-> IF k = n THEN e ELSE s[k]]
  BY <1>1, AppendAsFunction
<1> QED
  BY <1>2

\* The state of a stream that was just entered is stored in the new entry.
LEMMA SetStateLast ==
  ASSUME NEW s \in Seq(StreamType), NEW d \in StreamType, NEW st \in State,
         \A j \in 1..Len(s) : s[j].id # d.id
  PROVE  SetState(Append(s, d), d.id, st) = Append(s, WithState(d, st))
<1> DEFINE t == Append(s, d)
           n == Len(s) + 1
           e == WithState(d, st)
<1>1. /\ t \in Seq(StreamType) /\ Len(t) = n /\ t[n] = d
      /\ \A j \in 1..Len(s) : t[j] = s[j]
  BY Extend
<1>2. n \in 1..n /\ \A j \in 1..n : j \in 1..Len(s) \/ j = n
  OBVIOUS
<1>3. e \in StreamType
  BY WithStateFacts
<1> HIDE DEF e
<1>4. [t EXCEPT ![n] = e] = Append(s, e)
  BY <1>3, ReplaceLast
<1>5. n \in 1..Len(t) /\ \A j \in 1..Len(t) : t[j].id = t[n].id => j = n
  BY <1>1, <1>2
<1>6. n \in Nat
  OBVIOUS
<1> HIDE DEF t, n
<1>7. SetState(t, t[n].id, st) = [t EXCEPT ![n] = WithState(d, st)]
  <2>1. Entry(t, t[n].id) = {n}
    BY <1>5 DEF Entry
  <2>2. FirstOf(Entry(t, t[n].id)) = n
    BY <1>6, <2>1, FirstOfOne
  <2>3. SetState(t, t[n].id, st) = [t EXCEPT ![n].state = st]
    BY <2>1, <2>2 DEF SetState
  <2> QED
    BY <1>1, <2>3 DEF WithState
<1> QED
  BY <1>1, <1>4, <1>7 DEF e, t

\* The flag and the state get_flags answers with.
LEMMA FlagFacts ==
  ASSUME NEW c \in State
  PROVE  /\ get_flags(c).next \in State
         /\ get_flags(c).flag \in {"nil", "syn", "ack"}
         /\ get_flags(c).flag = "nil" => get_flags(c).next = c /\ c \notin {"inited", "syn_recv"}
         /\ c = "inited" => get_flags(c).flag = "syn" /\ get_flags(c).next = "syn_sent"
         /\ c # "inited" /\ c # "syn_recv" => get_flags(c).flag = "nil"
BY DEF get_flags, State

\* The entry of a channel after one of its frames was flagged.
Flagged(e) ==
  LET g == get_flags(e.cstate)
  IN  IF g.flag = "nil" THEN e ELSE [e EXCEPT !.cstate = g.next, !.state = g.next]

\* Flagging a frame keeps the table's type and length.
LEMMA AdvanceType ==
  ASSUME NEW s \in Seq(StreamType), NEW i \in 1..Len(s)
  PROVE  Advance(s, i) \in Seq(StreamType) /\ Len(Advance(s, i)) = Len(s)
<1> DEFINE g == get_flags(s[i].cstate)
           e == [s[i] EXCEPT !.cstate = g.next]
           t == [s EXCEPT ![i] = e]
<1>1. s[i] \in StreamType /\ s[i].cstate \in State
  BY EntryType
<1>2. g.next \in State
  BY <1>1, FlagFacts
<1>3. e \in StreamType
  BY <1>1, <1>2 DEF StreamType
<1>4. Advance(s, i) = IF g.flag = "nil" THEN s ELSE SetState(t, s[i].id, g.next)
  BY DEF Advance
<1> HIDE DEF g, e
<1>5. t \in Seq(StreamType) /\ Len(t) = Len(s)
  BY <1>3, Update
<1> HIDE DEF t
<1>6. SetState(t, s[i].id, g.next) \in Seq(StreamType) /\ Len(SetState(t, s[i].id, g.next)) = Len(s)
  BY <1>2, <1>5, SetStateType
<1> QED
  BY <1>4, <1>6

\* Where ids are unique, flagging a frame of entry i changes that entry only, and both
\* of its copies of the state.
LEMMA AdvanceOne ==
  ASSUME NEW s \in Seq(StreamType), NEW i \in 1..Len(s),
         \A j \in 1..Len(s) : s[j].id = s[i].id => j = i
  PROVE  /\ Advance(s, i) = [s EXCEPT ![i] = Flagged(s[i])]
         /\ Flagged(s[i]) \in StreamType /\ Flagged(s[i]).id = s[i].id
<1> DEFINE g == get_flags(s[i].cstate)
           e == [s[i] EXCEPT !.cstate = g.next]
           t == [s EXCEPT ![i] = e]
<1>1. s[i] \in StreamType /\ s[i].cstate \in State
  BY EntryType
<1>2. g.next \in State
  BY <1>1, FlagFacts
<1>3. e \in StreamType /\ e.id = s[i].id
  BY <1>1, <1>2 DEF StreamType
<1>4. Advance(s, i) = IF g.flag = "nil" THEN s ELSE SetState(t, s[i].id, g.next)
  BY DEF Advance
<1>5. Flagged(s[i]) = IF g.flag = "nil" THEN s[i] ELSE WithState(e, g.next)
  BY <1>1 DEF Flagged, StreamType, WithState
<1> HIDE DEF g, e
<1>6. /\ t \in Seq(StreamType) /\ Len(t) = Len(s) /\ t[i] = e
      /\ \A j \in 1..Len(s) : j # i => t[j] = s[j]
  BY <1>3, Update
<1>7. \A j \in 1..Len(t) : t[j].id = t[i].id => j = i
  BY <1>3, <1>6
<1>8. SetState(t, t[i].id, g.next) = [t EXCEPT ![i] = WithState(e, g.next)]
  <2> HIDE DEF t
  <2> QED
    BY <1>2, <1>6, <1>7, SetStateOne
<1>9. [t EXCEPT ![i] = WithState(e, g.next)] = [s EXCEPT ![i] = WithState(e, g.next)]
  OBVIOUS
<1>10. s = [s EXCEPT ![i] = s[i]]
  OBVIOUS
<1>11. WithState(e, g.next) \in StreamType /\ WithState(e, g.next).id = s[i].id
  BY <1>2, <1>3, WithStateFacts
<1> HIDE DEF t
<1> QED
  BY <1>1, <1>3, <1>4, <1>5, <1>6, <1>8, <1>9, <1>10, <1>11

\* The entry of a stream after yamux_stream_process, in a given state.
Processed(e, st, data) == [e EXCEPT !.state = st, !.buffer = @ \o data]

\* It has the new state, and the data is at the end of its buffer.
LEMMA ProcessedFacts ==
  ASSUME NEW e \in StreamType, NEW st \in State, NEW data \in Seq(Data)
  PROVE  LET u == Processed(e, st, data)
         IN  /\ u \in StreamType /\ u.id = e.id /\ u.state = st /\ u.cstate = e.cstate
             /\ u.buffer = e.buffer \o data /\ u.consumed = e.consumed
<1>1. e.buffer \in Seq(Data)
  BY EntryType
<1>2. e.buffer \o data \in Seq(Data)
  BY <1>1
<1> QED
  BY <1>2 DEF Processed, StreamType

\* Processing a frame changes the state and the buffer of the entry it is for.
LEMMA ProcessOne ==
  ASSUME NEW s \in Seq(StreamType), NEW i \in 1..Len(s), NEW st \in State, NEW data \in Seq(Data)
  PROVE  yamux_stream_process([s EXCEPT ![i].state = st], i, data)
           = [s EXCEPT ![i] = Processed(s[i], st, data)]
<1>1. s[i] \in StreamType
  OBVIOUS
<1> QED
  BY <1>1 DEF yamux_stream_process, StreamType, Processed

\* The types of the variables, with the type of an entry named.
Typed ==
  /\ weDialled \in BOOLEAN
  /\ ctx_state \in {"inited", "est"} /\ below \in {"open", "closed"} /\ closed \in 0..1
  /\ nextid \in 1..(MaxId + 2)
  /\ streams \in Seq(StreamType) /\ Len(streams) <= Backlog
  /\ sent \in [Id -> Seq(FrameType)]
  /\ sessionSent \in Seq(FrameType)
  /\ mainWrites \in 0..MaxCalls /\ calls \in 0..MaxCalls
  /\ peer \in [Id -> {"none", "open", "finished", "reset"}]
  /\ peerData \in [Id -> 0..MaxFrames]
  /\ frames \in 0..MaxFrames

\* They are the type invariant's.
LEMMA Types == (TypeOK <=> Typed) /\ (TypeOK' <=> Typed')
BY DEF TypeOK, Typed, StreamType

\* A frame of the peer that carries one of the flags a stream's frames have.
StreamFrame(f) ==
  f.id \in Id /\ f.flag \in {"nil", "syn", "ack", "fin", "rst"} /\ f.data \in Seq(Data)

\* The state KnownStream gives the entry, and whether it refuses the frame.
NextState(f, st) ==
  CASE f.flag \in {"rst", "fin"} -> "closed" [] f.flag = "ack" -> "est" [] OTHER -> st
Refused(f, st) == f.flag = "syn" \/ (f.flag = "ack" /\ st # "syn_sent")

\* A frame for a stream of the table replaces its entry, or is refused.
LEMMA KnownFacts ==
  ASSUME TypeOK, NEW f, StreamFrame(f), NEW i \in 1..Len(streams), KnownStream(f, i)
  PROVE  LET e == IF Refused(f, streams[i].state) THEN streams[i]
                  ELSE Processed(streams[i], NextState(f, streams[i].state), f.data)
         IN  streams' = [streams EXCEPT ![i] = e] /\ e \in StreamType /\ e.id = streams[i].id
<1>1. streams \in Seq(StreamType) /\ streams[i] \in StreamType /\ streams[i].state \in State
  BY Types, EntryType DEF Typed
<1>2. NextState(f, streams[i].state) \in State
  BY <1>1 DEF NextState, State
<1>3. CASE Refused(f, streams[i].state)
  <2>1. streams' = streams
    BY <1>3 DEF KnownStream, Refused
  <2>2. streams = [streams EXCEPT ![i] = streams[i]]
    BY <1>1
  <2> QED
    BY <1>1, <1>3, <2>1, <2>2
<1>4. CASE ~Refused(f, streams[i].state)
  <2> DEFINE n == NextState(f, streams[i].state)
             u == Processed(streams[i], n, f.data)
  <2>1. streams' = yamux_stream_process([streams EXCEPT ![i].state = n], i, f.data)
    BY <1>4 DEF KnownStream, Refused, NextState
  <2>2. f.data \in Seq(Data)
    BY DEF StreamFrame
  <2>3. n \in State
    BY <1>2
  <2> HIDE DEF n
  <2>4. yamux_stream_process([streams EXCEPT ![i].state = n], i, f.data) = [streams EXCEPT ![i] = u]
    BY <1>1 DEF yamux_stream_process, StreamType, Processed
  <2>5. u \in StreamType /\ u.id = streams[i].id
    BY <1>1, <2>2, <2>3, ProcessedFacts
  <2>6. streams' = [streams EXCEPT ![i] = u]
    BY <2>1, <2>4
  <2> HIDE DEF u
  <2> QED
    BY <1>4, <2>5, <2>6 DEF n, u
<1> QED
  BY <1>3, <1>4

\* The entry of a stream the peer has opened.
PeerStream(id) ==
  [id |-> id, state |-> "est", cstate |-> "est", buffer |-> <<>>, consumed |-> <<>>]

\* The entries of new streams are entries.
LEMMA NewEntries ==
  ASSUME NEW id \in Id
  PROVE  /\ Stream(id) \in StreamType /\ PeerStream(id) \in StreamType
         /\ [Stream(id) EXCEPT !.cstate = "est"] \in StreamType
         /\ WithState([Stream(id) EXCEPT !.cstate = "est"], "est") = PeerStream(id)
<1>1. <<>> \in Seq(Data)
  OBVIOUS
<1>2. Stream(id) \in StreamType
  BY <1>1 DEF Stream, StreamType, State
<1>3. PeerStream(id) \in StreamType
  BY <1>1 DEF PeerStream, StreamType, State
<1>4. [Stream(id) EXCEPT !.cstate = "est"] \in StreamType
  BY <1>2 DEF StreamType, State
<1>5. WithState([Stream(id) EXCEPT !.cstate = "est"], "est") = PeerStream(id)
  <2>1. \A e \in StreamType : WithState(e, "est") = [e EXCEPT !.state = "est"]
    BY DEF WithState
  <2>2. \A e \in StreamType : [e EXCEPT !.state = "est"] = [id |-> e.id, state |-> "est",
          cstate |-> e.cstate, buffer |-> e.buffer, consumed |-> e.consumed]
    BY DEF StreamType
  <2>3. [Stream(id) EXCEPT !.cstate = "est"] = [id |-> id, state |-> "inited",
          cstate |-> "est", buffer |-> <<>>, consumed |-> <<>>]
    BY DEF Stream
  <2> DEFINE e == [Stream(id) EXCEPT !.cstate = "est"]
  <2>4. e \in StreamType /\ e.id = id /\ e.cstate = "est" /\ e.buffer = <<>> /\ e.consumed = <<>>
    BY <1>4, <2>3
  <2> HIDE DEF e
  <2>5. WithState(e, "est") = PeerStream(id)
    BY <2>1, <2>2, <2>4 DEF PeerStream
  <2> QED
    BY <2>5 DEF e
<1> QED
  BY <1>2, <1>3, <1>4, <1>5

\* A frame of the peer keeps the table and the history of what we sent well-typed.
LEMMA DecodeType ==
  ASSUME TypeOK, NEW f, StreamFrame(f), yamux_decode(f)
  PROVE  /\ streams' \in Seq(StreamType) /\ Len(streams') <= Backlog
         /\ sent' \in [Id -> Seq(FrameType)]
         /\ UNCHANGED <<session, nextid, sessionSent, mainWrites, calls>>
<1>0. f.id # 0
  BY BoundsAssumption DEF StreamFrame, Id
<1>a. /\ streams \in Seq(StreamType) /\ Len(streams) <= Backlog
      /\ sent \in [Id -> Seq(FrameType)]
  BY Types DEF Typed
<1>1. CASE /\ Live(f.id) # {}
           /\ KnownStream(f, FirstOf(Live(f.id)))
           /\ UNCHANGED <<session, nextid, sent, sessionSent, mainWrites, calls>>
  <2> DEFINE i == FirstOf(Live(f.id))
  <2>1. Live(f.id) \in SUBSET Nat /\ Live(f.id) \subseteq 1..Len(streams)
    BY DEF Live, Entry
  <2>2. i \in 1..Len(streams)
    BY <1>1, <2>1, FirstIsMember
  <2>3. KnownStream(f, i)
    BY <1>1
  <2> HIDE DEF i
  <2>4. PICK e \in StreamType : streams' = [streams EXCEPT ![i] = e]
    BY <2>2, <2>3, KnownFacts
  <2>5. streams' \in Seq(StreamType) /\ Len(streams') = Len(streams)
    BY <1>a, <2>2, <2>4, Update
  <2> QED
    BY <1>a, <1>1, <2>5
<1>2. CASE NewStream(f) /\ UNCHANGED <<session, nextid, sessionSent, mainWrites, calls>>
  <2>1. CASE UNCHANGED <<streams, sent>>
    BY <1>a, <1>2, <2>1
  <2>2. CASE /\ Len(streams) < Backlog
             /\ streams' = SetState(Append(streams, [Stream(f.id) EXCEPT !.cstate = "est"]), f.id, "est")
             /\ sent' = [sent EXCEPT ![f.id] = @ \o <<Frame("window", "ack"), Frame("data", "nil")>>]
    <3> DEFINE e == [Stream(f.id) EXCEPT !.cstate = "est"]
               s == Append(streams, e)
    <3>1. e \in StreamType
      BY NewEntries DEF StreamFrame
    <3> HIDE DEF e
    <3>2. s \in Seq(StreamType) /\ Len(s) = Len(streams) + 1
      BY <1>a, <3>1, Extend
    <3> HIDE DEF s
    <3>3. streams' = SetState(s, f.id, "est")
      BY <2>2 DEF e, s
    <3>4. streams' \in Seq(StreamType) /\ Len(streams') = Len(streams) + 1
      BY <3>2, <3>3, SetStateType DEF State
    <3>5. Len(streams') <= Backlog
      BY <1>a, <2>2, <3>4, BoundsAssumption
    <3>6. sent' \in [Id -> Seq(FrameType)]
      <4>1. <<Frame("window", "ack"), Frame("data", "nil")>> \in Seq(FrameType)
        BY DEF Frame, FrameType
      <4>2. sent[f.id] \in Seq(FrameType)
        BY <1>a DEF StreamFrame
      <4>3. sent[f.id] \o <<Frame("window", "ack"), Frame("data", "nil")>> \in Seq(FrameType)
        BY <4>1, <4>2
      <4> QED
        BY <1>a, <2>2, <4>3
    <3> QED
      BY <1>2, <3>4, <3>5, <3>6
  <2> QED
    BY <1>2, <2>1, <2>2 DEF NewStream
<1> QED
  BY <1>0, <1>1, <1>2 DEF yamux_decode, SessionFrame

\* The entry of a channel whose own state is set, and of one that was read.
WithCstate(e, st) == [e EXCEPT !.cstate = st]
ReadOut(e) == [e EXCEPT !.consumed = @ \o e.buffer, !.buffer = <<>>]

\* Setting the channel's state keeps the rest of the entry.
LEMMA WithCstateFacts ==
  ASSUME NEW e \in StreamType, NEW st \in State
  PROVE  LET u == WithCstate(e, st)
         IN  /\ u \in StreamType /\ u.cstate = st /\ u.id = e.id /\ u.state = e.state
             /\ u.buffer = e.buffer /\ u.consumed = e.consumed
BY DEF StreamType, WithCstate

\* A read moves the buffer behind what was read before.
LEMMA ReadOutFacts ==
  ASSUME NEW e \in StreamType
  PROVE  LET u == ReadOut(e)
         IN  /\ u \in StreamType /\ u.cstate = e.cstate /\ u.id = e.id /\ u.state = e.state
             /\ u.buffer = <<>> /\ u.consumed = e.consumed \o e.buffer
<1>1. e.consumed \in Seq(Data) /\ e.buffer \in Seq(Data) /\ <<>> \in Seq(Data)
  BY EntryType
<1>2. e.consumed \o e.buffer \in Seq(Data)
  BY <1>1
<1> QED
  BY <1>1, <1>2 DEF StreamType, ReadOut

\* A channel is read, closed or reset in its own entry only.
LEMMA EntryUpdates ==
  ASSUME NEW s \in Seq(StreamType), NEW i \in 1..Len(s), NEW st \in State
  PROVE  /\ [s EXCEPT ![i].cstate = st] = [s EXCEPT ![i] = WithCstate(s[i], st)]
         /\ [s EXCEPT ![i].consumed = @ \o s[i].buffer, ![i].buffer = <<>>]
              = [s EXCEPT ![i] = ReadOut(s[i])]
<1>1. s[i] \in StreamType
  OBVIOUS
<1>2. [s EXCEPT ![i].cstate = st] = [s EXCEPT ![i] = WithCstate(s[i], st)]
  BY DEF WithCstate
<1>3. [s EXCEPT ![i].consumed = @ \o s[i].buffer, ![i].buffer = <<>>] = [s EXCEPT ![i] = ReadOut(s[i])]
  BY <1>1 DEF ReadOut, StreamType
<1> QED
  BY <1>2, <1>3

\* The frames of a write are frames.
LEMMA FrameTypes ==
  ASSUME NEW c \in State
  PROVE  /\ WriteFrames(c) \in Seq(FrameType)
         /\ Frame("window", get_flags(c).flag) \in FrameType
         /\ \A t \in {"window", "data", "ping", "go_away", "raw"},
               g \in {"nil", "syn", "ack", "fin", "rst", "unencoded"} : Frame(t, g) \in FrameType
<1>1. \A t \in {"window", "data", "ping", "go_away", "raw"},
         g \in {"nil", "syn", "ack", "fin", "rst", "unencoded"} : Frame(t, g) \in FrameType
  BY DEF Frame, FrameType
<1>2. get_flags(c).flag \in {"nil", "syn", "ack"} /\ get_flags(c).next \in State
  BY FlagFacts
<1>3. get_flags(get_flags(c).next).flag \in {"nil", "syn", "ack"}
  BY <1>2, FlagFacts
<1>4. Frame("data", get_flags(c).flag) \in FrameType /\ Frame("window", get_flags(c).flag) \in FrameType
      /\ Frame("data", get_flags(get_flags(c).next).flag) \in FrameType
  BY <1>1, <1>2, <1>3
<1>5. WriteFrames(c) = IF c = "inited"
                         THEN <<Frame("window", get_flags(c).flag),
                                Frame("data", get_flags(get_flags(c).next).flag)>>
                         ELSE <<Frame("data", get_flags(c).flag)>>
  BY DEF WriteFrames
<1>6. \A x, y \in FrameType : <<x, y>> \in Seq(FrameType) /\ <<x>> \in Seq(FrameType)
  OBVIOUS
<1> QED
  BY <1>1, <1>4, <1>5, <1>6

\* What a local call sends on a stream is appended to what was sent on it.
LEMMA SentTypes ==
  ASSUME Typed, NEW id \in Id, NEW fs \in Seq(FrameType), NEW f \in FrameType
  PROVE  /\ [sent EXCEPT ![id] = @ \o fs] \in [Id -> Seq(FrameType)]
         /\ [sent EXCEPT ![id] = Append(@, f)] \in [Id -> Seq(FrameType)]
<1>1. sent \in [Id -> Seq(FrameType)] /\ sent[id] \in Seq(FrameType)
  BY DEF Typed
<1>2. sent[id] \o fs \in Seq(FrameType) /\ Append(sent[id], f) \in Seq(FrameType)
  BY <1>1
<1> QED
  BY <1>1, <1>2

\* A local call on a channel keeps the types.
LEMMA ChannelTypes ==
  ASSUME Typed, Counted, NEW i \in 1..Len(streams),
         \/ libp2p_yamux_write(i) \/ libp2p_yamux_channel_read(i)
         \/ yamux_stream_init(i) \/ yamux_stream_window_update(i)
         \/ yamux_stream_close(i) \/ yamux_stream_reset(i)
  PROVE  Typed' /\ Counted'
<1> DEFINE e == streams[i]
<1>1. /\ streams \in Seq(StreamType) /\ Len(streams) <= Backlog /\ e \in StreamType
      /\ e.id \in Id /\ e.cstate \in State
  BY EntryType DEF Typed
<1>2. /\ UNCHANGED <<session, nextid, sessionSent, mainWrites, remote>>
      /\ calls' \in 0..MaxCalls /\ calls <= calls'
  <2>1. UNCHANGED <<session, nextid, sessionSent, mainWrites, remote>>
    BY DEF libp2p_yamux_write, libp2p_yamux_channel_read, yamux_stream_init,
           yamux_stream_window_update, yamux_stream_close, yamux_stream_reset
  <2>2. (calls < MaxCalls /\ calls' = calls + 1) \/ calls' = calls
    BY DEF Call, libp2p_yamux_write, libp2p_yamux_channel_read, yamux_stream_init,
           yamux_stream_window_update, yamux_stream_close, yamux_stream_reset
  <2>3. calls \in 0..MaxCalls
    BY DEF Typed
  <2> QED
    BY <2>1, <2>2, <2>3, BoundsAssumption
<1>3. streams' \in Seq(StreamType) /\ Len(streams') = Len(streams)
  <2>1. CASE streams' = Advance(streams, i)
    BY <1>1, <2>1, AdvanceType
  <2>2. CASE libp2p_yamux_channel_read(i)
    <3>1. streams' = [streams EXCEPT ![i] = ReadOut(e)]
      BY <1>1, <2>2, EntryUpdates DEF libp2p_yamux_channel_read
    <3>2. ReadOut(e) \in StreamType
      BY <1>1, ReadOutFacts
    <3> QED
      BY <1>1, <3>1, <3>2, Update
  <2>3. ASSUME NEW st \in State, streams' = [streams EXCEPT ![i].cstate = st]
        PROVE  streams' \in Seq(StreamType) /\ Len(streams') = Len(streams)
    <3>1. streams' = [streams EXCEPT ![i] = WithCstate(e, st)]
      BY <2>3 DEF WithCstate
    <3>2. WithCstate(e, st) \in StreamType
      BY <1>1, WithCstateFacts
    <3> QED
      BY <1>1, <3>1, <3>2, Update
  <2>4. "closing" \in State /\ "closed" \in State
    BY DEF State
  <2> QED
    BY <2>1, <2>2, <2>3, <2>4 DEF libp2p_yamux_write, yamux_stream_init,
       yamux_stream_window_update, yamux_stream_close, yamux_stream_reset
<1>4. sent' \in [Id -> Seq(FrameType)]
  <2> DEFINE w == Frame("window", get_flags(e.cstate).flag)
             fs == WriteFrames(e.cstate)
  <2>1. w \in FrameType /\ fs \in Seq(FrameType)
    BY <1>1, FrameTypes
  <2>2. /\ Frame("window", "syn") \in FrameType /\ Frame("window", "fin") \in FrameType
        /\ Frame("window", "rst") \in FrameType
    BY <1>1, FrameTypes
  <2> HIDE DEF w, fs
  <2>3. \/ sent' = sent
        \/ sent' = [sent EXCEPT ![e.id] = @ \o fs]
        \/ \E f \in FrameType : sent' = [sent EXCEPT ![e.id] = Append(@, f)]
    <3>1. CASE libp2p_yamux_write(i)
      BY <3>1 DEF libp2p_yamux_write, fs
    <3>2. CASE libp2p_yamux_channel_read(i)
      BY <3>2 DEF libp2p_yamux_channel_read
    <3>3. CASE yamux_stream_init(i)
      BY <2>2, <3>3 DEF yamux_stream_init
    <3>4. CASE yamux_stream_window_update(i)
      <4>1. sent' = [sent EXCEPT ![e.id] = Append(@, w)]
        BY <3>4 DEF yamux_stream_window_update, w
      <4> QED
        BY <2>1, <4>1
    <3>5. CASE yamux_stream_close(i)
      BY <2>2, <3>5 DEF yamux_stream_close
    <3>6. CASE yamux_stream_reset(i)
      BY <2>2, <3>6 DEF yamux_stream_reset
    <3> QED
      BY <3>1, <3>2, <3>3, <3>4, <3>5, <3>6
  <2>4. sent \in [Id -> Seq(FrameType)]
    BY DEF Typed
  <2>5. CASE sent' = [sent EXCEPT ![e.id] = @ \o fs]
    BY <1>1, <2>1, <2>5, SentTypes
  <2>6. ASSUME NEW f \in FrameType, sent' = [sent EXCEPT ![e.id] = Append(@, f)]
        PROVE  sent' \in [Id -> Seq(FrameType)]
    BY <1>1, <2>1, <2>6, SentTypes
  <2> QED
    BY <2>3, <2>4, <2>5, <2>6
<1>5. Typed'
  BY <1>1, <1>2, <1>3, <1>4 DEF Typed, session, remote
<1>6. \A x, y, z \in Nat : x <= y /\ y <= z => x <= z
  OBVIOUS
<1> QED
  BY <1>2, <1>5, <1>6, BoundsAssumption DEF Counted, Typed, session, remote

\* A frame of the peer on a stream: its data is numbered within the bounds.
LEMMA ReceiveTypes ==
  ASSUME Typed, Counted, NEW id \in Id, NEW type,
         NEW flag \in {"nil", "syn", "ack", "fin", "rst"}, NEW data \in Seq(Data),
         Receive(id, type, flag, data)
  PROVE  /\ streams' \in Seq(StreamType) /\ Len(streams') <= Backlog
         /\ sent' \in [Id -> Seq(FrameType)]
         /\ UNCHANGED <<session, nextid, sessionSent, mainWrites, calls>>
         /\ frames' = frames + 1 /\ frames' \in 0..MaxFrames
<1> DEFINE f == [id |-> id, type |-> type, flag |-> flag, data |-> data]
<1>1. frames < MaxFrames /\ frames' = frames + 1 /\ yamux_decode(f)
  BY DEF Receive
<1>2. frames' \in 0..MaxFrames
  BY <1>1, BoundsAssumption DEF Typed
<1>3. f.id = id /\ f.flag = flag /\ f.data = data
  OBVIOUS
<1> HIDE DEF f
<1>4. StreamFrame(f)
  BY <1>3 DEF StreamFrame
<1> QED
  BY <1>1, <1>2, <1>4, Types, DecodeType

\* The frames of the peer keep the types.
LEMMA PeerTypes ==
  ASSUME Typed, Counted, NEW id \in Id,
         \/ PeerOpens(id) \/ PeerAccepts(id) \/ PeerAcceptsWithData(id) \/ PeerResets(id)
         \/ \E flag \in {"nil", "fin"} : PeerSends(id, flag) \/ PeerUpdates(id, flag)
  PROVE  Typed' /\ Counted'
<1>1. /\ peer \in [Id -> {"none", "open", "finished", "reset"}] /\ peerData \in [Id -> 0..MaxFrames]
      /\ frames \in 0..MaxFrames /\ <<>> \in Seq(Data)
  BY DEF Typed
<1>2. ASSUME NEW type, NEW flag \in {"nil", "syn", "ack", "fin", "rst"}, NEW data \in Seq(Data),
             Receive(id, type, flag, data),
             peer' \in [Id -> {"none", "open", "finished", "reset"}],
             NEW n \in 0..(frames + 1), peerData' = [peerData EXCEPT ![id] = n] \/ peerData' = peerData
      PROVE  Typed' /\ Counted'
  <2>1. /\ streams' \in Seq(StreamType) /\ Len(streams') <= Backlog
        /\ sent' \in [Id -> Seq(FrameType)]
        /\ UNCHANGED <<session, nextid, sessionSent, mainWrites, calls>>
        /\ frames' = frames + 1 /\ frames' \in 0..MaxFrames
    BY <1>2, ReceiveTypes
  <2>2. \A j \in Id : peerData[j] \in 0..frames
    BY <1>1 DEF Counted
  <2>a. n \in 0..MaxFrames /\ n \in 0..frames' /\ \A x \in 0..frames : x \in 0..frames'
    BY <1>1, <2>1, BoundsAssumption
  <2>b. peerData' = [peerData EXCEPT ![id] = n] \/ peerData' = peerData
    BY <1>2
  <2>3. \A j \in Id : peerData'[j] \in 0..frames'
    BY <1>1, <2>2, <2>a, <2>b
  <2>4. peerData' \in [Id -> 0..MaxFrames]
    BY <1>1, <2>a, <2>b
  <2>5. Typed'
    BY <1>2, <2>1, <2>4 DEF Typed, session
  <2> QED
    BY <2>1, <2>3, <2>5 DEF Counted
<1>3. /\ "nil" \in {"nil", "syn", "ack", "fin", "rst"} /\ "fin" \in {"nil", "syn", "ack", "fin", "rst"}
      /\ 0 \in 0..(frames + 1)
  BY <1>1, BoundsAssumption
<1>4. CASE PeerOpens(id)
  BY <1>1, <1>2, <1>3, <1>4 DEF PeerOpens
<1>5. CASE PeerAccepts(id)
  BY <1>1, <1>2, <1>3, <1>5 DEF PeerAccepts
<1>6. CASE PeerResets(id)
  BY <1>1, <1>2, <1>3, <1>6 DEF PeerResets
<1>7. CASE PeerAcceptsWithData(id)
  <2>1. Receive(id, "data", "ack", <<Payload(id, 1)>>)
    BY <1>7 DEF PeerAcceptsWithData
  <2>2. 1 \in 1..MaxFrames /\ 1 \in 0..(frames + 1)
    BY <1>1, <2>1, BoundsAssumption DEF Receive
  <2>3. <<Payload(id, 1)>> \in Seq(Data)
    BY <2>2 DEF Payload, Data
  <2>4. peer' \in [Id -> {"none", "open", "finished", "reset"}] /\ peerData' = [peerData EXCEPT ![id] = 1]
    BY <1>1, <1>7 DEF PeerAcceptsWithData
  <2> QED
    BY <1>2, <2>1, <2>2, <2>3, <2>4
<1>8. ASSUME NEW flag \in {"nil", "fin"}, PeerSends(id, flag)
      PROVE  Typed' /\ Counted'
  <2> DEFINE n == peerData[id] + 1
  <2>1. Receive(id, "data", flag, <<Payload(id, n)>>)
    BY <1>8 DEF PeerSends
  <2>2. n \in 1..MaxFrames /\ n \in 0..(frames + 1)
    <3>1. peerData[id] \in 0..frames /\ frames < MaxFrames
      BY <1>1, <2>1 DEF Counted, Receive
    <3> QED
      BY <1>1, <3>1, BoundsAssumption
  <2>3. <<Payload(id, n)>> \in Seq(Data)
    BY <2>2 DEF Payload, Data
  <2>4. peer' \in [Id -> {"none", "open", "finished", "reset"}] /\ peerData' = [peerData EXCEPT ![id] = n]
    BY <1>1, <1>8 DEF PeerSends
  <2>5. flag \in {"nil", "syn", "ack", "fin", "rst"}
    OBVIOUS
  <2> HIDE DEF n
  <2> QED
    BY <1>2, <2>1, <2>2, <2>3, <2>4, <2>5
<1>9. ASSUME NEW flag \in {"nil", "fin"}, PeerUpdates(id, flag)
      PROVE  Typed' /\ Counted'
  <2>1. peer' \in [Id -> {"none", "open", "finished", "reset"}]
    BY <1>1, <1>9 DEF PeerUpdates
  <2>2. Receive(id, "window", flag, <<>>) /\ peerData' = peerData
    BY <1>9 DEF PeerUpdates
  <2>3. flag \in {"nil", "syn", "ack", "fin", "rst"}
    OBVIOUS
  <2> QED
    BY <1>1, <1>2, <1>3, <2>1, <2>2, <2>3
<1> QED
  BY <1>4, <1>5, <1>6, <1>7, <1>8, <1>9

\* No step breaks a type.
LEMMA TypeNext ==
  ASSUME Typed, Counted, [Next]_vars
  PROVE  Typed' /\ Counted'
<1> DEFINE Bystander == UNCHANGED <<streams, sent>>
<1>1. /\ streams \in Seq(StreamType) /\ Len(streams) <= Backlog /\ nextid \in 1..(MaxId + 2)
      /\ sent \in [Id -> Seq(FrameType)] /\ sessionSent \in Seq(FrameType)
      /\ mainWrites \in 0..MaxCalls /\ calls \in 0..MaxCalls /\ mainWrites <= calls
  BY DEF Typed, Counted
<1>2. \A t \in {"window", "data", "ping", "go_away", "raw"},
         g \in {"nil", "syn", "ack", "fin", "rst", "unencoded"} : Frame(t, g) \in FrameType
  BY FrameTypes DEF State
<1>3. CASE yamux_channel_new
  <2>1. calls' \in 0..MaxCalls /\ mainWrites' = mainWrites /\ mainWrites <= calls'
    BY <1>1, <1>3, BoundsAssumption DEF yamux_channel_new, Call
  <2>2. nextid' \in 1..(MaxId + 2)
    BY <1>1, <1>3, BoundsAssumption DEF yamux_channel_new, Id
  <2>3. streams' \in Seq(StreamType) /\ Len(streams') <= Backlog
    <3>1. CASE streams' = streams
      BY <1>1, <3>1
    <3>2. CASE Len(streams) # Backlog /\ streams' = Append(streams, Stream(nextid))
      <4>1. Stream(nextid) \in StreamType
        BY <1>3, NewEntries DEF yamux_channel_new
      <4>2. streams' \in Seq(StreamType) /\ Len(streams') = Len(streams) + 1
        BY <1>1, <3>2, <4>1, Extend
      <4> QED
        BY <1>1, <3>2, <4>2, BoundsAssumption
    <3> QED
      BY <1>3, <3>1, <3>2 DEF yamux_channel_new
  <2>4. UNCHANGED <<session, sent, sessionSent, mainWrites, remote>>
    BY <1>3 DEF yamux_channel_new
  <2> QED
    BY <2>1, <2>2, <2>3, <2>4 DEF Typed, Counted, session, remote
<1>4. CASE WriteBeforeReady
  <2>1. calls' \in 0..MaxCalls /\ mainWrites <= calls'
    BY <1>1, <1>4, BoundsAssumption DEF WriteBeforeReady, Call
  <2>2. sessionSent' \in Seq(FrameType)
    BY <1>1, <1>2, <1>4 DEF WriteBeforeReady
  <2>3. UNCHANGED <<session, nextid, streams, sent, mainWrites, remote>>
    BY <1>4 DEF WriteBeforeReady
  <2> QED
    BY <2>1, <2>2, <2>3 DEF Typed, Counted, session, remote
<1>5. CASE WriteMain
  <2> DEFINE x == libp2p_yamux_get_next_id
  <2>1. calls' \in 0..MaxCalls /\ mainWrites' \in 0..MaxCalls /\ mainWrites' <= calls'
    BY <1>1, <1>5, BoundsAssumption DEF WriteMain, Call
  <2>2. x \in Id /\ nextid' = x + 1 /\ sent' = [sent EXCEPT ![x] = Append(@, Frame("data", "nil"))]
    BY <1>5 DEF WriteMain
  <2> HIDE DEF x
  <2>3. nextid' \in 1..(MaxId + 2)
    BY <2>2, BoundsAssumption DEF Id
  <2>4. sent' \in [Id -> Seq(FrameType)]
    <3>1. Frame("data", "nil") \in FrameType /\ <<>> \in Seq(FrameType)
      BY <1>2
    <3> QED
      BY <2>2, <3>1, SentTypes
  <2>5. UNCHANGED <<session, streams, sessionSent, remote>>
    BY <1>5 DEF WriteMain
  <2> QED
    BY <2>1, <2>3, <2>4, <2>5 DEF Typed, Counted, session, remote
<1>6. CASE libp2p_yamux_close
  <2>1. calls' \in 0..MaxCalls /\ mainWrites <= calls'
    BY <1>1, <1>6, BoundsAssumption DEF libp2p_yamux_close, Call
  <2>2. sessionSent' \in Seq(FrameType)
    BY <1>1, <1>2, <1>6 DEF libp2p_yamux_close
  <2>3. below' \in {"open", "closed"} /\
        UNCHANGED <<weDialled, ctx_state, closed, nextid, streams, sent, mainWrites, remote>>
    BY <1>6 DEF libp2p_yamux_close
  <2> QED
    BY <2>1, <2>2, <2>3 DEF Typed, Counted, remote
<1>7. CASE ProtocolReply
  BY <1>7 DEF ProtocolReply, Typed, Counted, remote
<1>8. CASE PeerPings \/ PeerGoesAway
  <2>1. PICK f : f.id = 0 /\ yamux_decode(f)
    BY <1>8 DEF PeerPings, PeerGoesAway, Receive
  <2>2. frames' \in 0..MaxFrames /\ frames <= frames' /\ frames \in 0..MaxFrames
    BY <1>8, BoundsAssumption DEF PeerPings, PeerGoesAway, Receive, Typed
  <2>3. UNCHANGED <<peer, peerData>>
    BY <1>8 DEF PeerPings, PeerGoesAway
  <2>4. SessionFrame(f)
    BY <2>1 DEF yamux_decode
  <2>5. /\ UNCHANGED <<weDialled, ctx_state, below, nextid, streams, sent, mainWrites, calls>>
        /\ closed' \in {closed, 1}
        /\ sessionSent' \in {sessionSent, Append(sessionSent, Frame("ping", "unencoded"))}
    BY <2>4 DEF SessionFrame
  <2>6. sessionSent' \in Seq(FrameType) /\ closed' \in 0..1
    <3>1. Frame("ping", "unencoded") \in FrameType
      BY <1>2
    <3>2. Append(sessionSent, Frame("ping", "unencoded")) \in Seq(FrameType)
      BY <1>1, <3>1
    <3>3. sessionSent' \in Seq(FrameType)
      BY <1>1, <2>5, <3>2
    <3> QED
      BY <2>5, <3>3 DEF Typed
  <2>7. Typed'
    BY <2>2, <2>3, <2>5, <2>6 DEF Typed
  <2>8. \A id \in Id : peerData[id] <= frames'
    BY <2>2, BoundsAssumption DEF Typed, Counted
  <2> QED
    BY <2>3, <2>5, <2>7, <2>8 DEF Counted
<1>9. CASE UNCHANGED vars
  BY <1>9 DEF vars, local, remote, session, Typed, Counted
<1> QED
  BY <1>3, <1>4, <1>5, <1>6, <1>7, <1>8, <1>9, ChannelTypes, PeerTypes DEF Next

(***************************************************************************)
(* What was sent on a stream                                               *)
(***************************************************************************)
\* One more frame: the first opens the stream, and only the first may.
LEMMA SendOne ==
  ASSUME NEW s \in Seq(FrameType), NEW f \in FrameType, NEW first, SentOK(s, first),
         IF s = <<>> THEN f \in {first, Frame("window", "rst")} ELSE f.flag \notin {"syn", "ack"}
  PROVE  /\ Append(s, f) \in Seq(FrameType) /\ SentOK(Append(s, f), first) /\ Append(s, f) # <<>>
         /\ SynIn(Append(s, f)) <=> (SynIn(s) \/ f = Frame("window", "syn"))
         /\ s \o <<f>> = Append(s, f)
<1> DEFINE t == Append(s, f)
<1>1. /\ t \in Seq(FrameType) /\ Len(s) \in Nat /\ Len(t) = Len(s) + 1 /\ t[Len(s) + 1] = f
      /\ \A k \in 1..Len(s) : t[k] = s[k]
  OBVIOUS
<1>2. s = <<>> <=> Len(s) = 0
  OBVIOUS
<1>3. \A k \in 1..Len(t) : k \in 1..Len(s) \/ k = Len(s) + 1
  BY <1>1
<1>4. SentOK(t, first)
  <2> HIDE DEF t
  <2> QED
    BY <1>1, <1>2, <1>3 DEF SentOK
<1>5. SynIn(t) <=> (SynIn(s) \/ f = Frame("window", "syn"))
  <2> HIDE DEF t
  <2> QED
    BY <1>1, <1>3 DEF SynIn
<1>6. t # <<>>
  OBVIOUS
<1>7. s \o <<f>> = t
  OBVIOUS
<1> QED
  BY <1>1, <1>4, <1>5, <1>6, <1>7

\* Two more frames.
LEMMA SendTwo ==
  ASSUME NEW s \in Seq(FrameType), NEW f \in FrameType, NEW g \in FrameType
  PROVE  s \o <<f, g>> = Append(Append(s, f), g)
OBVIOUS

\* The first one and the first two.
LEMMA FromEmpty ==
  ASSUME NEW f \in FrameType, NEW g \in FrameType
  PROVE  /\ <<f>> \in Seq(FrameType) /\ <<f, g>> \in Seq(FrameType)
         /\ <<f>> # <<>> /\ <<f, g>> # <<>>
         /\ \A s \in Seq(FrameType) : s = <<>> => Append(s, f) = <<f>> /\ s \o <<f, g>> = <<f, g>>
<1>1. <<f>> \in Seq(FrameType) /\ <<f, g>> \in Seq(FrameType)
  OBVIOUS
<1>2. <<f>> # <<>> /\ <<f, g>> # <<>>
  OBVIOUS
<1>3. Append(<<>>, f) = <<f>>
  OBVIOUS
<1>4. <<>> \o <<f, g>> = <<f, g>>
  BY <1>1
<1> QED
  BY <1>1, <1>2, <1>3, <1>4

\* A history without a frame holds no SYN.
LEMMA NothingSent == ~SynIn(<<>>) /\ \A first : SentOK(<<>>, first)
BY DEF SynIn, SentOK

\* The flags of the frames that are sent, and that they differ.
LEMMA FrameFacts ==
  /\ \A t, g : Frame(t, g).flag = g /\ Frame(t, g).type = t
  /\ \A t, g, u, h : Frame(t, g) = Frame(u, h) => t = u /\ g = h
BY DEF Frame

(***************************************************************************)
(* One entry of the table changes                                          *)
(***************************************************************************)
\* No entry changes its stream, or goes back to an earlier state.
Monotone ==
  \A i \in 1..Len(streams) :
    streams'[i].id = streams[i].id /\ Rank(streams[i].state) <= Rank(streams'[i].state)

\* The frame that opens a stream of a session we have dialled.
First(id) == Frame("window", IF id % 2 = 0 THEN "ack" ELSE "syn")

StreamsOK == TableOK /\ \A id \in Id : IdOK(id)

\* The ranks of the states are numbers.
LEMMA RankFacts ==
  /\ \A st \in State : Rank(st) \in 0..4 /\ Rank(st) <= Rank("closed")
  /\ Rank("inited") <= Rank("syn_sent") /\ Rank("syn_sent") <= Rank("est")
<1>1. /\ Rank("inited") = 0 /\ Rank("syn_sent") = 1 /\ Rank("syn_recv") = 1
      /\ Rank("est") = 2 /\ Rank("closing") = 3 /\ Rank("closed") = 4
  BY DEF Rank
<1> QED
  BY <1>1 DEF State

\* Where a step changes one entry, and the rest of the state for that entry's stream
\* only, what has to be shown is about that stream.
LEMMA EntryStep ==
  ASSUME Typed, Typed', StreamsOK,
         NEW i \in 1..Len(streams), NEW e \in StreamType, e.id = streams[i].id,
         streams' = [streams EXCEPT ![i] = e], nextid' = nextid,
         \A id \in Id : id # e.id => /\ sent'[id] = sent[id] /\ peer'[id] = peer[id]
                                     /\ peerData'[id] = peerData[id],
         StatesAgree(e, sent'[e.id], peer'[e.id], nextid),
         AllData(e, peerData'[e.id]),
         SentOK(sent'[e.id], First(e.id)),
         e.id % 2 = 1 /\ peer'[e.id] # "none" => SynIn(sent'[e.id]),
         peer'[e.id] = "none" => peerData'[e.id] = 0,
         Rank(streams[i].state) <= Rank(e.state)
  PROVE  StreamsOK' /\ Monotone
<1>1. /\ streams' \in Seq(StreamType) /\ Len(streams') = Len(streams) /\ streams'[i] = e
      /\ \A j \in 1..Len(streams) : j # i => streams'[j] = streams[j]
  BY Update DEF Typed
<1>2. \A j \in 1..Len(streams) : streams[j] \in StreamType /\ streams[j].id \in Id
  BY EntryType DEF Typed
<1>3. \A j \in 1..Len(streams) : streams'[j].id = streams[j].id
  BY <1>1
<1>4. \A j, k \in 1..Len(streams) : streams[j].id = streams[k].id => j = k
  BY DEF StreamsOK, TableOK
<1>5. ASSUME NEW j \in 1..Len(streams)
      PROVE  /\ StatesAgree(streams'[j], sent'[streams'[j].id], peer'[streams'[j].id], nextid')
             /\ AllData(streams'[j], peerData'[streams'[j].id])
             /\ Rank(streams[j].state) <= Rank(streams'[j].state)
  <2>1. CASE j = i
    BY <1>1, <2>1
  <2>2. CASE j # i
    <3>1. streams'[j] = streams[j] /\ streams[j].id # e.id /\ streams[j].id \in Id
      BY <1>1, <1>2, <1>4, <2>2
    <3>2. streams[j].state \in State
      BY <1>2, EntryType
    <3>3. Rank(streams[j].state) <= Rank(streams[j].state)
      BY <3>2, RankFacts
    <3> QED
      BY <3>1, <3>3 DEF StreamsOK, TableOK
  <2> QED
    BY <2>1, <2>2
<1>6. TableOK'
  <2>1. (nextid % 2 = 1)'
    BY DEF StreamsOK, TableOK
  <2> QED
    BY <1>1, <1>3, <1>4, <1>5, <2>1 DEF TableOK
<1>7. ASSUME NEW id \in Id
      PROVE  IdOK(id)'
  <2>1. IdOK(id) /\ e.id \in Id
    BY EntryType DEF StreamsOK
  <2>2. (\A j \in 1..Len(streams) : streams[j].id # id)' <=> \A j \in 1..Len(streams) : streams[j].id # id
    BY <1>1, <1>3
  <2>3. CASE id = e.id
    <3>1. \E j \in 1..Len(streams) : streams[j].id = id
      BY <2>3
    <3> QED
      BY <2>2, <2>3, <3>1 DEF IdOK, First
  <2>4. CASE id # e.id
    BY <1>1, <2>1, <2>2, <2>4 DEF IdOK
  <2> QED
    BY <2>3, <2>4
<1> QED
  BY <1>3, <1>5, <1>6, <1>7 DEF StreamsOK, Monotone

\* The same for a step that enters a stream in the table.
LEMMA NewEntryStep ==
  ASSUME Typed, Typed', StreamsOK,
         NEW e \in StreamType, \A i \in 1..Len(streams) : streams[i].id # e.id,
         streams' = Append(streams, e), nextid <= nextid', nextid' % 2 = 1,
         \A id \in Id : id # e.id => /\ sent'[id] = sent[id] /\ peer'[id] = peer[id]
                                     /\ peerData'[id] = peerData[id],
         StatesAgree(e, sent'[e.id], peer'[e.id], nextid'),
         AllData(e, peerData'[e.id]),
         SentOK(sent'[e.id], First(e.id)),
         e.id % 2 = 1 /\ peer'[e.id] # "none" => SynIn(sent'[e.id]),
         peer'[e.id] = "none" => peerData'[e.id] = 0
  PROVE  StreamsOK' /\ Monotone
<1> DEFINE n == Len(streams) + 1
<1>1. /\ streams' \in Seq(StreamType) /\ Len(streams') = n /\ streams'[n] = e
      /\ \A j \in 1..Len(streams) : streams'[j] = streams[j]
  BY Extend DEF Typed
<1>2. \A j \in 1..Len(streams) : streams[j] \in StreamType /\ streams[j].id \in Id
                                 /\ streams[j].id # e.id
  BY EntryType DEF Typed
<1>3. /\ n \in 1..n /\ Len(streams) \in Nat /\ \A j \in 1..Len(streams) : j \in 1..n /\ j # n
      /\ \A j \in 1..n : j \in 1..Len(streams) \/ j = n
  <2>1. Len(streams) \in Nat
    BY DEF Typed
  <2>2. \A m \in Nat : /\ m + 1 \in 1..(m + 1) /\ \A j \in 1..m : j \in 1..(m + 1) /\ j # m + 1
                       /\ \A j \in 1..(m + 1) : j \in 1..m \/ j = m + 1
    OBVIOUS
  <2> QED
    BY <2>1, <2>2
<1> HIDE DEF n
<1>4. \A j, k \in 1..Len(streams) : streams[j].id = streams[k].id => j = k
  BY DEF StreamsOK, TableOK
<1>5. ASSUME NEW j \in 1..Len(streams)
      PROVE  /\ StatesAgree(streams'[j], sent'[streams'[j].id], peer'[streams'[j].id], nextid')
             /\ AllData(streams'[j], peerData'[streams'[j].id])
             /\ streams'[j].id = streams[j].id
             /\ Rank(streams[j].state) <= Rank(streams'[j].state)
  <2>1. streams'[j] = streams[j] /\ streams[j].id # e.id /\ streams[j].id \in Id
    BY <1>1, <1>2
  <2>2. streams[j].state \in State
    BY <1>2, EntryType
  <2>3. Rank(streams[j].state) <= Rank(streams[j].state)
    BY <2>2, RankFacts
  <2>4. /\ StatesAgree(streams[j], sent[streams[j].id], peer[streams[j].id], nextid)
        /\ AllData(streams[j], peerData[streams[j].id])
    BY DEF StreamsOK, TableOK
  <2>5. streams[j].id < nextid => streams[j].id < nextid'
    BY <2>1 DEF Typed, Id
  <2>6. StatesAgree(streams[j], sent[streams[j].id], peer[streams[j].id], nextid')
    BY <2>4, <2>5 DEF StatesAgree
  <2> QED
    BY <2>1, <2>3, <2>4, <2>6
<1>6. TableOK'
  <2>1. \A j \in 1..n : /\ StatesAgree(streams'[j], sent'[streams'[j].id], peer'[streams'[j].id], nextid')
                        /\ AllData(streams'[j], peerData'[streams'[j].id])
    BY <1>1, <1>3, <1>5
  <2>2. \A j, k \in 1..n : streams'[j].id = streams'[k].id => j = k
    BY <1>1, <1>2, <1>3, <1>4
  <2> QED
    BY <1>1, <2>1, <2>2 DEF TableOK
<1>7. ASSUME NEW id \in Id
      PROVE  IdOK(id)'
  <2>1. IdOK(id) /\ e.id \in Id
    BY EntryType DEF StreamsOK
  <2>2. CASE id = e.id
    <3>1. streams'[n].id = id /\ n \in 1..Len(streams')
      BY <1>1, <1>3, <2>2
    <3> QED
      BY <2>2, <3>1 DEF IdOK, First
  <2>3. CASE id # e.id
    <3>1. (\A j \in 1..Len(streams) : streams[j].id # id)' => \A j \in 1..Len(streams) : streams[j].id # id
      BY <1>1, <1>3
    <3>2. (\E j \in 1..Len(streams) : streams[j].id = id) => (\E j \in 1..Len(streams) : streams[j].id = id)'
      BY <1>1, <1>3
    <3>3. Len(streams) # Backlog
      BY <1>1, BoundsAssumption DEF Typed, n
    <3> QED
      BY <1>1, <2>1, <2>3, <3>1, <3>2, <3>3 DEF IdOK
  <2> QED
    BY <2>2, <2>3
<1> QED
  BY <1>5, <1>6, <1>7 DEF StreamsOK, Monotone

\* The same for a step that changes nothing in the table, and the rest for one stream
\* only that is not in it, or for none.
LEMMA OutsideStep ==
  ASSUME Typed, Typed', StreamsOK, NEW x,
         \A i \in 1..Len(streams) : streams[i].id # x,
         UNCHANGED <<streams, sent>>, nextid <= nextid', nextid' % 2 = 1,
         \A id \in Id : id # x => peer'[id] = peer[id] /\ peerData'[id] = peerData[id],
         x \in Id => /\ peer'[x] # "none" => x % 2 = 0 /\ Len(streams) = Backlog
                     /\ peer'[x] = "none" => peerData'[x] = 0
  PROVE  StreamsOK' /\ Monotone
<1>1. \A j \in 1..Len(streams) : streams[j].id \in Id /\ streams[j].id # x /\ streams[j].state \in State
  BY EntryType DEF Typed
<1>2. ASSUME NEW j \in 1..Len(streams)
      PROVE  /\ StatesAgree(streams[j], sent'[streams[j].id], peer'[streams[j].id], nextid')
             /\ AllData(streams[j], peerData'[streams[j].id])
  <2>1. /\ StatesAgree(streams[j], sent[streams[j].id], peer[streams[j].id], nextid)
        /\ AllData(streams[j], peerData[streams[j].id])
    BY DEF StreamsOK, TableOK
  <2>2. streams[j].id < nextid => streams[j].id < nextid'
    BY <1>1 DEF Typed, Id
  <2>3. StatesAgree(streams[j], sent[streams[j].id], peer[streams[j].id], nextid')
    BY <2>1, <2>2 DEF StatesAgree
  <2> QED
    BY <1>1, <2>1, <2>3
<1>3. TableOK'
  BY <1>2 DEF StreamsOK, TableOK
<1>4. ASSUME NEW id \in Id
      PROVE  IdOK(id)'
  <2>1. IdOK(id)
    BY DEF StreamsOK
  <2>2. CASE id = x
    <3>1. sent[id] = <<>>
      BY <2>1, <2>2 DEF IdOK
    <3>2. peer'[id] # "none" => id % 2 # 1
      BY <2>2
    <3> QED
      BY <2>1, <2>2, <3>1, <3>2 DEF IdOK
  <2>3. CASE id # x
    BY <2>1, <2>3 DEF IdOK
  <2> QED
    BY <2>2, <2>3
<1>5. Monotone
  BY <1>1, RankFacts DEF Monotone
<1> QED
  BY <1>3, <1>4, <1>5 DEF StreamsOK

(***************************************************************************)
(* The local operations                                                    *)
(***************************************************************************)
\* What holds of an entry and of its stream.
LEMMA EntryFacts ==
  ASSUME Typed, StreamsOK, NEW i \in 1..Len(streams)
  PROVE  LET e == streams[i]
             x == streams[i].id
         IN  /\ e \in StreamType /\ x \in Id /\ e.state \in State /\ e.cstate \in State
             /\ e.buffer \in Seq(Data) /\ e.consumed \in Seq(Data)
             /\ StatesAgree(e, sent[x], peer[x], nextid) /\ AllData(e, peerData[x])
             /\ IdOK(x) /\ SentOK(sent[x], First(x)) /\ sent[x] \in Seq(FrameType)
             /\ \A j \in 1..Len(streams) : streams[j].id = x => j = i
             /\ x % 2 = 0 \/ x % 2 = 1
<1>1. streams[i] \in StreamType /\ streams[i].id \in Id
  BY EntryType DEF Typed
<1>2. IdOK(streams[i].id) /\ sent[streams[i].id] \in Seq(FrameType)
  BY <1>1 DEF StreamsOK, Typed
<1>3. SentOK(sent[streams[i].id], First(streams[i].id))
  BY <1>2 DEF IdOK, First
<1>4. \A n \in Id : n % 2 = 0 \/ n % 2 = 1
  BY DEF Id
<1> QED
  BY <1>1, <1>2, <1>3, <1>4, EntryType DEF StreamsOK, TableOK

\* A frame that opens nothing: the table's copy of the state stays.
LEMMA SendPlain ==
  ASSUME Typed, Typed', StreamsOK, NEW i \in 1..Len(streams), NEW e \in StreamType, NEW f \in FrameType,
         e.id = streams[i].id, e.state = streams[i].state,
         e.buffer = streams[i].buffer, e.consumed = streams[i].consumed,
         e.cstate \notin {"inited", "syn_recv"},
         f.flag \notin {"syn", "ack"},
         streams[i].cstate = "inited" => f = Frame("window", "rst"),
         streams' = [streams EXCEPT ![i] = e],
         sent' = [sent EXCEPT ![streams[i].id] = Append(@, f)],
         UNCHANGED <<nextid, remote>>
  PROVE  StreamsOK' /\ Monotone
<1> DEFINE x == streams[i].id
           s == sent[x]
           t == Append(s, f)
<1>1. /\ x \in Id /\ streams[i].state \in State /\ streams[i].cstate \in State
      /\ StatesAgree(streams[i], s, peer[x], nextid) /\ AllData(streams[i], peerData[x])
      /\ IdOK(x) /\ SentOK(s, First(x)) /\ s \in Seq(FrameType) /\ (x % 2 = 0 \/ x % 2 = 1)
  BY EntryFacts
<1>2. s = <<>> => streams[i].cstate = "inited"
  BY <1>1 DEF StatesAgree
<1>3. f # Frame("window", "syn")
  BY FrameFacts
<1>4. SentOK(t, First(x)) /\ t # <<>> /\ (SynIn(t) <=> SynIn(s))
  BY <1>1, <1>2, <1>3, SendOne
<1>5. sent'[x] = t /\ \A id \in Id : id # x => sent'[id] = sent[id]
  BY <1>1 DEF Typed
<1>6. peer' = peer /\ peerData' = peerData /\ nextid' = nextid
  BY DEF remote
<1> HIDE DEF s, t, x
<1>7. e.id = x
  BY DEF x
<1>8. StatesAgree(e, t, peer[x], nextid)
  BY <1>1, <1>4, <1>7 DEF StatesAgree, x
<1>9. AllData(e, peerData[x])
  BY <1>1, <1>7 DEF AllData, x
<1>10. Rank(streams[i].state) <= Rank(e.state)
  BY <1>1, RankFacts
<1>11. /\ x % 2 = 1 /\ peer[x] # "none" => SynIn(t)
       /\ peer[x] = "none" => peerData[x] = 0
  BY <1>1, <1>4 DEF IdOK, s
<1> QED
  BY <1>1, <1>4, <1>5, <1>6, <1>7, <1>8, <1>9, <1>10, <1>11, EntryStep

\* The frame that opens a stream of ours: both copies of the state change.
LEMMA SendSyn ==
  ASSUME Typed, Typed', StreamsOK, NEW i \in 1..Len(streams), NEW t \in Seq(FrameType),
         streams[i].cstate = "inited",
         streams' = [streams EXCEPT ![i] = Flagged(streams[i])],
         SentOK(t, Frame("window", "syn")), SynIn(t), t # <<>>,
         sent[streams[i].id] = <<>> => sent' = [sent EXCEPT ![streams[i].id] = t],
         UNCHANGED <<nextid, remote>>
  PROVE  StreamsOK' /\ Monotone
<1> DEFINE x == streams[i].id
           e == Flagged(streams[i])
<1>1. /\ x \in Id /\ streams[i] \in StreamType
      /\ StatesAgree(streams[i], sent[x], peer[x], nextid) /\ AllData(streams[i], peerData[x])
      /\ IdOK(x) /\ (x % 2 = 0 \/ x % 2 = 1)
  BY EntryFacts
<1>2. x % 2 = 1 /\ sent[x] = <<>> /\ streams[i].state = "inited" /\ x < nextid
  BY <1>1 DEF StatesAgree
<1>3. First(x) = Frame("window", "syn")
  BY <1>2 DEF First
<1>4. /\ e \in StreamType /\ e.id = x /\ e.cstate = "syn_sent" /\ e.state = "syn_sent"
      /\ e.buffer = streams[i].buffer /\ e.consumed = streams[i].consumed
  <2>1. get_flags("inited").flag = "syn" /\ get_flags("inited").next = "syn_sent"
    BY FlagFacts DEF State
  <2>2. e = [streams[i] EXCEPT !.cstate = "syn_sent", !.state = "syn_sent"]
    BY <2>1 DEF Flagged
  <2> QED
    BY <1>1, <2>2 DEF StreamType, State
<1>5. sent'[x] = t /\ \A id \in Id : id # x => sent'[id] = sent[id]
  BY <1>1, <1>2 DEF Typed
<1>6. peer' = peer /\ peerData' = peerData /\ nextid' = nextid
  BY DEF remote
<1>7. streams' = [streams EXCEPT ![i] = e] /\ e.id = streams[i].id
  BY <1>4
<1> HIDE DEF x, e
<1>8. StatesAgree(e, t, peer[x], nextid)
  BY <1>1, <1>2, <1>4 DEF StatesAgree
<1>9. AllData(e, peerData[x])
  BY <1>1, <1>4 DEF AllData, x
<1>10. Rank(streams[i].state) <= Rank(e.state)
  BY <1>2, <1>4, RankFacts
<1>11. peer[x] = "none" => peerData[x] = 0
  BY <1>1 DEF IdOK
<1>12. /\ \A id \in Id : id # e.id => /\ sent'[id] = sent[id] /\ peer'[id] = peer[id]
                                      /\ peerData'[id] = peerData[id]
       /\ StatesAgree(e, sent'[e.id], peer'[e.id], nextid) /\ AllData(e, peerData'[e.id])
       /\ SentOK(sent'[e.id], First(e.id)) /\ SynIn(sent'[e.id])
       /\ peer'[e.id] = "none" => peerData'[e.id] = 0
  BY <1>3, <1>4, <1>5, <1>6, <1>8, <1>9, <1>11
<1>13. e \in StreamType
  BY <1>4
<1> QED
  BY <1>6, <1>7, <1>10, <1>12, <1>13, EntryStep

\* A call that flags its frame and opens nothing leaves the entry as it was.
LEMMA FlagNothing ==
  ASSUME Typed, StreamsOK, NEW i \in 1..Len(streams), streams[i].cstate # "inited"
  PROVE  /\ get_flags(streams[i].cstate).flag = "nil"
         /\ Advance(streams, i) = [streams EXCEPT ![i] = streams[i]]
         /\ WriteFrames(streams[i].cstate) = <<Frame("data", "nil")>>
<1>1. streams[i].cstate \in State /\ streams[i].cstate # "syn_recv"
  BY EntryFacts DEF StatesAgree
<1>2. get_flags(streams[i].cstate).flag = "nil"
  BY <1>1, FlagFacts
<1>3. Advance(streams, i) = streams
  BY <1>2 DEF Advance
<1>4. streams = [streams EXCEPT ![i] = streams[i]]
  BY DEF Typed
<1> QED
  BY <1>2, <1>3, <1>4 DEF WriteFrames

\* Each local operation on a channel keeps the streams in order.
LEMMA ChannelStep ==
  ASSUME Typed, Typed', StreamsOK, NEW i \in 1..Len(streams),
         \/ libp2p_yamux_write(i) \/ libp2p_yamux_channel_read(i)
         \/ yamux_stream_init(i) \/ yamux_stream_window_update(i)
         \/ yamux_stream_close(i) \/ yamux_stream_reset(i)
  PROVE  StreamsOK' /\ Monotone
<1> DEFINE e == streams[i]
           x == streams[i].id
           c == streams[i].cstate
           syn == Frame("window", "syn")
           nil == Frame("data", "nil")
<1>1. /\ e \in StreamType /\ x \in Id /\ c \in State /\ e.state \in State
      /\ e.buffer \in Seq(Data) /\ e.consumed \in Seq(Data) /\ streams \in Seq(StreamType)
      /\ StatesAgree(e, sent[x], peer[x], nextid) /\ AllData(e, peerData[x])
      /\ IdOK(x) /\ SentOK(sent[x], First(x)) /\ sent[x] \in Seq(FrameType)
      /\ \A j \in 1..Len(streams) : streams[j].id = x => j = i
  BY EntryFacts DEF Typed
<1>2. UNCHANGED <<nextid, remote>>
  BY DEF libp2p_yamux_write, libp2p_yamux_channel_read, yamux_stream_init,
         yamux_stream_window_update, yamux_stream_close, yamux_stream_reset
<1>3. c # "syn_recv"
  BY <1>1 DEF StatesAgree
<1>4. \A t \in {"window", "data"}, g \in {"nil", "syn", "fin", "rst"} :
        Frame(t, g) \in FrameType /\ Frame(t, g).flag = g
  BY <1>1, FrameTypes, FrameFacts
<1>5. CASE /\ c = "inited"
           /\ libp2p_yamux_write(i) \/ yamux_stream_init(i) \/ yamux_stream_window_update(i)
  <2>1. get_flags("inited").flag = "syn" /\ get_flags("inited").next = "syn_sent"
        /\ get_flags("syn_sent").flag = "nil"
    BY FlagFacts DEF State
  <2>2. streams' = Advance(streams, i)
    BY <1>5 DEF libp2p_yamux_write, yamux_stream_init, yamux_stream_window_update
  <2>3. streams' = [streams EXCEPT ![i] = Flagged(e)]
    BY <1>1, <2>2, AdvanceOne
  <2>4. WriteFrames(c) = <<syn, nil>>
    BY <1>5, <2>1 DEF WriteFrames
  <2>5. /\ <<syn>> \in Seq(FrameType) /\ <<syn, nil>> \in Seq(FrameType)
        /\ <<syn>> # <<>> /\ <<syn, nil>> # <<>>
        /\ \A s \in Seq(FrameType) : s = <<>> => Append(s, syn) = <<syn>> /\ s \o <<syn, nil>> = <<syn, nil>>
    <3>1. syn \in FrameType /\ nil \in FrameType
      BY <1>4
    <3> HIDE DEF syn, nil
    <3> QED
      BY <3>1, FromEmpty
  <2>6. /\ SentOK(<<syn>>, syn) /\ SynIn(<<syn>>)
        /\ SentOK(<<syn, nil>>, syn) /\ SynIn(<<syn, nil>>)
    BY <1>4 DEF SentOK, SynIn
  <2>7. \/ sent' = [sent EXCEPT ![x] = Append(@, syn)]
        \/ sent' = [sent EXCEPT ![x] = @ \o <<syn, nil>>]
    BY <1>5, <2>1, <2>4 DEF libp2p_yamux_write, yamux_stream_init, yamux_stream_window_update
  <2>8. sent[x] = <<>> => \/ sent' = [sent EXCEPT ![x] = <<syn>>]
                          \/ sent' = [sent EXCEPT ![x] = <<syn, nil>>]
    BY <1>1, <2>5, <2>7
  <2> HIDE DEF syn, nil
  <2>9. CASE sent[x] = <<>> => sent' = [sent EXCEPT ![x] = <<syn>>]
    BY <1>2, <1>5, <2>3, <2>5, <2>6, <2>9, SendSyn DEF syn
  <2>10. CASE sent[x] = <<>> => sent' = [sent EXCEPT ![x] = <<syn, nil>>]
    BY <1>2, <1>5, <2>3, <2>5, <2>6, <2>10, SendSyn DEF syn
  <2> QED
    BY <2>8, <2>9, <2>10
<1>6. CASE c # "inited" /\ (libp2p_yamux_write(i) \/ yamux_stream_window_update(i))
  <2>1. /\ get_flags(c).flag = "nil" /\ Advance(streams, i) = [streams EXCEPT ![i] = e]
        /\ WriteFrames(c) = <<nil>>
    BY <1>6, FlagNothing
  <2>2. streams' = [streams EXCEPT ![i] = e]
    BY <1>6, <2>1 DEF libp2p_yamux_write, yamux_stream_window_update
  <2>3. sent[x] \o <<nil>> = Append(sent[x], nil)
    BY <1>1, <1>4
  <2>4. \E f \in {nil, Frame("window", "nil")} : sent' = [sent EXCEPT ![x] = Append(@, f)]
    BY <1>6, <2>1, <2>3 DEF libp2p_yamux_write, yamux_stream_window_update
  <2>5. \A f \in {nil, Frame("window", "nil")} : f \in FrameType /\ f.flag = "nil"
    BY <1>4
  <2> HIDE DEF nil
  <2> QED
    BY <1>1, <1>2, <1>3, <1>6, <2>2, <2>4, <2>5, SendPlain
<1>7. ASSUME NEW st \in {"closing", "closed"}, NEW g \in {"fin", "rst"},
             streams' = [streams EXCEPT ![i].cstate = st],
             sent' = [sent EXCEPT ![x] = Append(@, Frame("window", g))],
             c = "inited" => g = "rst"
      PROVE  StreamsOK' /\ Monotone
  <2> DEFINE u == WithCstate(e, st)
             f == Frame("window", g)
  <2>1. st \in State /\ st \notin {"inited", "syn_recv"}
    BY DEF State
  <2>2. streams' = [streams EXCEPT ![i] = u]
    BY <1>7 DEF WithCstate
  <2>3. /\ u \in StreamType /\ u.cstate = st /\ u.id = e.id /\ u.state = e.state
        /\ u.buffer = e.buffer /\ u.consumed = e.consumed
    BY <1>1, <2>1, WithCstateFacts
  <2>4. f \in FrameType /\ f.flag = g /\ sent' = [sent EXCEPT ![x] = Append(@, f)]
    BY <1>4, <1>7
  <2>5. c = "inited" => f = Frame("window", "rst")
    BY <1>7
  <2>6. f.flag \notin {"syn", "ack"}
    BY <2>4
  <2> HIDE DEF u, f
  <2> QED
    BY <1>2, <2>1, <2>2, <2>3, <2>4, <2>5, <2>6, SendPlain
<1>8. CASE yamux_stream_close(i)
  BY <1>7, <1>8 DEF yamux_stream_close
<1>9. CASE yamux_stream_reset(i)
  BY <1>7, <1>9 DEF yamux_stream_reset
<1>10. CASE libp2p_yamux_channel_read(i)
  <2> DEFINE u == ReadOut(e)
  <2>1. streams' = [streams EXCEPT ![i] = u] /\ UNCHANGED sent
    BY <1>1, <1>10, EntryUpdates DEF libp2p_yamux_channel_read
  <2>2. /\ u \in StreamType /\ u.cstate = e.cstate /\ u.id = e.id /\ u.state = e.state
        /\ u.buffer = <<>> /\ u.consumed = e.consumed \o e.buffer
    BY <1>1, ReadOutFacts
  <2> HIDE DEF u
  <2>3. u.consumed \o u.buffer = e.consumed \o e.buffer
    <3>1. \A s \in Seq(Data) : s \o <<>> = s
      OBVIOUS
    <3>2. e.consumed \o e.buffer \in Seq(Data)
      BY <1>1
    <3> QED
      BY <2>2, <3>1, <3>2
  <2>4. AllData(u, peerData[x])
    BY <1>1, <2>2, <2>3 DEF AllData
  <2>5. StatesAgree(u, sent[x], peer[x], nextid)
    BY <1>1, <2>2 DEF StatesAgree
  <2>6. Rank(e.state) <= Rank(u.state)
    BY <1>1, <2>2, RankFacts
  <2>7. /\ x % 2 = 1 /\ peer[x] # "none" => SynIn(sent[x])
        /\ peer[x] = "none" => peerData[x] = 0
    BY <1>1 DEF IdOK
  <2>8. sent' = sent /\ peer' = peer /\ peerData' = peerData /\ nextid' = nextid
    BY <1>2, <2>1 DEF remote
  <2> QED
    BY <1>1, <2>1, <2>2, <2>4, <2>5, <2>6, <2>7, <2>8, EntryStep
<1>11. yamux_stream_init(i) => c = "inited"
  BY DEF yamux_stream_init
<1> QED
  BY <1>5, <1>6, <1>8, <1>9, <1>10, <1>11

\* A new stream of ours has an id nothing was sent on and the peer knows nothing of.
LEMMA ChannelNewStep ==
  ASSUME Typed, Typed', StreamsOK, yamux_channel_new
  PROVE  StreamsOK' /\ Monotone
<1> DEFINE x == nextid
<1>1. /\ x \in Id /\ x % 2 = 1 /\ nextid' = x + 2 /\ x \in Nat
      /\ UNCHANGED <<sent, peer, peerData>>
  BY DEF yamux_channel_new, StreamsOK, TableOK, remote, Id
<1>2. nextid' % 2 = 1 /\ nextid <= nextid' /\ x < nextid'
  BY <1>1
<1>3. \A i \in 1..Len(streams) : streams[i].id # x
  <2>1. SUFFICES ASSUME NEW i \in 1..Len(streams), streams[i].id = x PROVE FALSE
    OBVIOUS
  <2>2. StatesAgree(streams[i], sent[x], peer[x], nextid)
    BY <2>1, EntryFacts
  <2> QED
    BY <1>1, <2>1, <2>2 DEF StatesAgree
<1>4. IdOK(x) /\ sent[x] = <<>>
  BY <1>1, <1>3 DEF StreamsOK, IdOK
<1>5. peer[x] = "none" /\ peerData[x] = 0
  BY <1>1, <1>4, NothingSent DEF IdOK
<1>6. CASE streams' = streams
  <2>1. x \in Id => /\ peer'[x] # "none" => x % 2 = 0 /\ Len(streams) = Backlog
                    /\ peer'[x] = "none" => peerData'[x] = 0
    BY <1>1, <1>5
  <2> HIDE DEF x
  <2> QED
    BY <1>1, <1>2, <1>3, <1>6, <2>1, OutsideStep
<1>7. CASE streams' = Append(streams, Stream(x))
  <2> DEFINE e == Stream(x)
  <2>1. /\ e \in StreamType /\ e.id = x /\ e.state = "inited" /\ e.cstate = "inited"
        /\ e.buffer = <<>> /\ e.consumed = <<>>
    BY <1>1, NewEntries DEF Stream
  <2>2. streams' = Append(streams, e)
    BY <1>7
  <2> HIDE DEF e
  <2>3. StatesAgree(e, <<>>, "none", nextid')
    BY <1>1, <1>2, <2>1, NothingSent DEF StatesAgree
  <2>4. AllData(e, 0)
    BY <2>1 DEF AllData, Numbered
  <2>5. SentOK(<<>>, First(x))
    BY NothingSent
  <2> HIDE DEF x
  <2>6. sent'[e.id] = <<>> /\ peer'[e.id] = "none" /\ peerData'[e.id] = 0
    BY <1>1, <1>4, <1>5, <2>1
  <2>7. \A i \in 1..Len(streams) : streams[i].id # e.id
    BY <1>3, <2>1
  <2> QED
    BY <1>1, <1>2, <2>1, <2>2, <2>3, <2>4, <2>5, <2>6, <2>7, NewEntryStep
<1> QED
  BY <1>6, <1>7 DEF yamux_channel_new

(***************************************************************************)
(* The frames of the peer                                                  *)
(***************************************************************************)
\* The entry of a stream after a frame of the peer.
After(f, e) ==
  IF e.state = "closed" \/ Refused(f, e.state) THEN e ELSE Processed(e, NextState(f, e.state), f.data)

\* A frame for a stream of the table, which opens none, changes that entry only.
LEMMA DecodeKnown ==
  ASSUME Typed, StreamsOK, NEW i \in 1..Len(streams), NEW f, StreamFrame(f),
         f.id = streams[i].id, f.flag # "syn", yamux_decode(f)
  PROVE  /\ streams' = [streams EXCEPT ![i] = After(f, streams[i])]
         /\ After(f, streams[i]) \in StreamType /\ After(f, streams[i]).id = f.id
         /\ UNCHANGED <<sent, nextid>>
<1>1. /\ streams[i] \in StreamType /\ streams \in Seq(StreamType)
      /\ \A j \in 1..Len(streams) : streams[j].id = streams[i].id => j = i
  BY EntryFacts DEF Typed
<1>2. Entry(streams, f.id) = {i}
  BY <1>1 DEF Entry
<1>3. f.id # 0
  BY BoundsAssumption DEF StreamFrame, Id
<1>4. CASE streams[i].state = "closed"
  <2>1. Live(f.id) = {}
    BY <1>2, <1>4 DEF Live
  <2>2. NewStream(f) /\ UNCHANGED nextid
    BY <1>3, <2>1 DEF yamux_decode, SessionFrame
  <2>3. UNCHANGED <<streams, sent>>
    BY <2>2 DEF NewStream
  <2>4. After(f, streams[i]) = streams[i] /\ streams = [streams EXCEPT ![i] = streams[i]]
    BY <1>1, <1>4 DEF After
  <2> QED
    BY <1>1, <2>2, <2>3, <2>4
<1>5. CASE streams[i].state # "closed"
  <2>1. Live(f.id) = {i}
    BY <1>2, <1>5 DEF Live
  <2>2. FirstOf(Live(f.id)) = i
    BY <2>1, FirstOfOne
  <2>3. KnownStream(f, i) /\ UNCHANGED <<sent, nextid>>
    BY <1>3, <2>1, <2>2 DEF yamux_decode, SessionFrame
  <2> QED
    BY <1>5, <2>3, Types, KnownFacts DEF After
<1> QED
  BY <1>4, <1>5

\* A frame for a stream that is not in the table, and opens none, is dropped.
LEMMA DecodeUnknown ==
  ASSUME Typed, NEW f, StreamFrame(f), \A i \in 1..Len(streams) : streams[i].id # f.id,
         f.flag # "syn", yamux_decode(f)
  PROVE  UNCHANGED <<streams, sent, nextid>>
<1>1. f.id # 0
  BY BoundsAssumption DEF StreamFrame, Id
<1>2. Live(f.id) = {}
  BY DEF Live, Entry
<1>3. NewStream(f) /\ UNCHANGED nextid
  BY <1>1, <1>2 DEF yamux_decode, SessionFrame
<1> QED
  BY <1>3 DEF NewStream

\* A frame of the peer's that opens no stream: what has to be shown of its stream.
LEMMA PeerFrame ==
  ASSUME Typed, Typed', StreamsOK, NEW f, StreamFrame(f), f.flag # "syn", yamux_decode(f),
         NEW p, peer' = [peer EXCEPT ![f.id] = p],
         NEW n, peerData' = [peerData EXCEPT ![f.id] = n], n \in Nat,
         p # "none",
         peer[f.id] = "none" => SynIn(sent[f.id]),
         \A i \in 1..Len(streams) : streams[i].id = f.id =>
           LET e == After(f, streams[i])
           IN  /\ e.state = "closed" => p \in {"finished", "reset"}
               /\ e.cstate = streams[i].cstate
               /\ Rank(streams[i].state) <= Rank(e.state)
               /\ AllData(e, n)
  PROVE  StreamsOK' /\ Monotone
<1> DEFINE x == f.id
<1>1. x \in Id /\ IdOK(x)
  BY DEF StreamFrame, StreamsOK
<1>2. /\ peer'[x] = p /\ peerData'[x] = n
      /\ \A id \in Id : id # x => peer'[id] = peer[id] /\ peerData'[id] = peerData[id]
  BY <1>1 DEF Typed
<1>3. CASE \E i \in 1..Len(streams) : streams[i].id = x
  <2>1. PICK i \in 1..Len(streams) : streams[i].id = x
    BY <1>3
  <2> DEFINE e == After(f, streams[i])
  <2>2. /\ streams' = [streams EXCEPT ![i] = e] /\ e \in StreamType /\ e.id = x
        /\ UNCHANGED <<sent, nextid>>
    BY <2>1, DecodeKnown
  <2>3. /\ e.state = "closed" => p \in {"finished", "reset"}
        /\ e.cstate = streams[i].cstate
        /\ Rank(streams[i].state) <= Rank(e.state)
        /\ AllData(e, n)
    BY <2>1
  <2> HIDE DEF e, x
  <2>4. /\ StatesAgree(streams[i], sent[x], peer[x], nextid) /\ SentOK(sent[x], First(x))
        /\ x % 2 = 0 \/ x % 2 = 1
    BY <2>1, EntryFacts
  <2>6. x % 2 = 1 => SynIn(sent[x])
    BY <1>1, <2>4 DEF IdOK, x
  <2>9. streams[i].cstate # "inited"
    BY <2>1, <2>4, <2>6, NothingSent DEF StatesAgree
  <2>5. StatesAgree(e, sent[x], p, nextid)
    BY <2>1, <2>2, <2>3, <2>4, <2>9 DEF StatesAgree
  <2>7. /\ \A id \in Id : id # e.id => /\ sent'[id] = sent[id] /\ peer'[id] = peer[id]
                                      /\ peerData'[id] = peerData[id]
        /\ StatesAgree(e, sent'[e.id], peer'[e.id], nextid) /\ AllData(e, peerData'[e.id])
        /\ SentOK(sent'[e.id], First(e.id)) /\ (e.id % 2 = 1 => SynIn(sent'[e.id]))
        /\ peer'[e.id] # "none"
    BY <1>2, <2>2, <2>3, <2>4, <2>5, <2>6
  <2>8. /\ streams' = [streams EXCEPT ![i] = e] /\ e \in StreamType /\ e.id = streams[i].id
        /\ nextid' = nextid /\ Rank(streams[i].state) <= Rank(e.state)
    BY <2>1, <2>2, <2>3
  <2> QED
    BY <2>7, <2>8, EntryStep
<1>4. CASE \A i \in 1..Len(streams) : streams[i].id # x
  <2>1. UNCHANGED <<streams, sent, nextid>>
    BY <1>4, DecodeUnknown
  <2>2. sent[x] = <<>> /\ peer[x] # "none"
    BY <1>1, <1>4, NothingSent DEF IdOK
  <2>3. x % 2 # 1 /\ (x % 2 = 0 \/ x % 2 = 1)
    BY <1>1, <2>2, NothingSent DEF IdOK, Id
  <2>4. Len(streams) = Backlog
    BY <1>1, <1>4, <2>2, <2>3 DEF IdOK
  <2>5. nextid' % 2 = 1 /\ nextid <= nextid'
    BY <2>1 DEF StreamsOK, TableOK, Typed
  <2>6. x \in Id => /\ peer'[x] # "none" => x % 2 = 0 /\ Len(streams) = Backlog
                    /\ peer'[x] = "none" => peerData'[x] = 0
    BY <1>2, <2>3, <2>4
  <2>7. /\ UNCHANGED <<streams, sent>>
        /\ \A id \in Id : id # x => peer'[id] = peer[id] /\ peerData'[id] = peerData[id]
    BY <1>2, <2>1
  <2> HIDE DEF x
  <2> QED
    BY <1>4, <2>5, <2>6, <2>7, OutsideStep
<1> QED
  BY <1>3, <1>4

\* The piece comes after everything that was there.
LEMMA ConcatAppend ==
  ASSUME NEW c \in Seq(Data), NEW b \in Seq(Data), NEW d \in Data
  PROVE  c \o b \in Seq(Data) /\ c \o (b \o <<d>>) = Append(c \o b, d)
<1>1. c \o b \in Seq(Data)
  OBVIOUS
<1>2. c \o (b \o <<d>>) = Append(c \o b, d)
  OBVIOUS
<1> QED
  BY <1>1, <1>2

\* One more piece of data at the end.
LEMMA OneMore ==
  ASSUME NEW c \in Seq(Data), NEW b \in Seq(Data), NEW n \in Nat, NEW id,
         c \o b = Numbered(id, n), Payload(id, n + 1) \in Data
  PROVE  c \o (b \o <<Payload(id, n + 1)>>) = Numbered(id, n + 1)
<1> DEFINE d == Payload(id, n + 1)
           s == c \o b
           all == [k \in 1..(n + 1) |-> Payload(id, k)]
<1>1. d \in Data
  OBVIOUS
<1>2. all[n + 1] = d /\ \A k \in 1..n : all[k] = Payload(id, k)
  OBVIOUS
<1>3. s = [k \in 1..n |-> Payload(id, k)] /\ s \in Seq(Data)
  BY ConcatAppend DEF Numbered
<1>4. DOMAIN s = 1..n /\ \A k \in 1..n : s[k] = Payload(id, k)
  BY <1>3
<1>5. Len(s) = n
  BY <1>3, <1>4
<1>6. all = [k \in 1..(n + 1) |-> all[k]]
  OBVIOUS
<1> HIDE DEF d, all
<1>7. c \o (b \o <<d>>) = Append(s, d)
  BY <1>1, ConcatAppend
<1> HIDE DEF s
<1>8. Append(s, d) = [k \in 1..(n + 1) |-> IF k = n + 1 THEN d ELSE s[k]]
  BY <1>1, <1>3, <1>5
<1>9. \A k \in 1..(n + 1) : (IF k = n + 1 THEN d ELSE s[k]) = all[k]
  BY <1>2, <1>4
<1>10. Append(s, d) = all
  BY <1>6, <1>8, <1>9
<1> QED
  BY <1>7, <1>10 DEF all, d, Numbered

\* So an entry that has all the data has all of it with the next piece in its buffer.
LEMMA DataKept ==
  ASSUME NEW e \in StreamType, NEW n \in Nat, AllData(e, n), Payload(e.id, n + 1) \in Data
  PROVE  e.consumed \o (e.buffer \o <<Payload(e.id, n + 1)>>) = Numbered(e.id, n + 1)
<1>1. e.consumed \o e.buffer = Numbered(e.id, n)
  BY DEF AllData
<1>2. e.consumed \in Seq(Data) /\ e.buffer \in Seq(Data)
  BY EntryType
<1> DEFINE c == e.consumed
           b == e.buffer
           x == e.id
<1>3. c \in Seq(Data) /\ b \in Seq(Data) /\ c \o b = Numbered(x, n) /\ Payload(x, n + 1) \in Data
  BY <1>1, <1>2
<1> HIDE DEF c, b, x
<1>4. c \o (b \o <<Payload(x, n + 1)>>) = Numbered(x, n + 1)
  BY <1>3, OneMore
<1> QED
  BY <1>4 DEF c, b, x

\* What a frame of the peer does to the entry of its stream.
LEMMA AfterFacts ==
  ASSUME NEW e \in StreamType, NEW f, StreamFrame(f), f.flag # "syn",
         f.flag = "ack" => e.state = "syn_sent",
         NEW n \in Nat, AllData(e, n), NEW m,
         \/ f.data = <<>> /\ m = n
         \/ f.data = <<Payload(e.id, n + 1)>> /\ m = n + 1 /\ Payload(e.id, n + 1) \in Data /\ e.state # "closed"
  PROVE  /\ After(f, e).cstate = e.cstate
         /\ Rank(e.state) <= Rank(After(f, e).state)
         /\ AllData(After(f, e), m)
         /\ After(f, e).state = IF e.state = "closed" \/ f.flag \in {"fin", "rst"} THEN "closed"
                                ELSE IF f.flag = "ack" THEN "est" ELSE e.state
<1>1. /\ e.state \in State /\ e.buffer \in Seq(Data) /\ e.consumed \in Seq(Data)
      /\ f.data \in Seq(Data) /\ ~Refused(f, e.state)
  BY EntryType DEF StreamFrame, Refused
<1>2. CASE e.state = "closed"
  <2>1. After(f, e) = e
    BY <1>2 DEF After
  <2>2. Rank(e.state) <= Rank(e.state)
    BY <1>1, RankFacts
  <2> QED
    BY <1>2, <2>1, <2>2
<1>3. CASE e.state # "closed"
  <2> DEFINE st == NextState(f, e.state)
             u == Processed(e, st, f.data)
  <2>1. st = IF f.flag \in {"fin", "rst"} THEN "closed" ELSE IF f.flag = "ack" THEN "est" ELSE e.state
    BY DEF NextState
  <2>2. st \in State
    BY <1>1, <2>1 DEF State
  <2>3. Rank(e.state) <= Rank(st)
    <3>1. Rank(e.state) <= Rank(e.state)
      BY <1>1, RankFacts
    <3> QED
      BY <1>1, <2>1, <3>1, RankFacts
  <2>4. After(f, e) = u
    BY <1>1, <1>3 DEF After
  <2> HIDE DEF st
  <2>5. /\ u.id = e.id /\ u.state = st /\ u.cstate = e.cstate
        /\ u.buffer = e.buffer \o f.data /\ u.consumed = e.consumed
    <3>1. f.data \in Seq(Data)
      BY <1>1
    <3> QED
      BY <2>2, <3>1, ProcessedFacts
  <2> HIDE DEF u
  <2>6. AllData(u, m)
    <3>1. CASE f.data = <<>> /\ m = n
      <4>1. e.buffer \o <<>> = e.buffer
        BY <1>1
      <4> QED
        BY <2>5, <3>1, <4>1 DEF AllData
    <3>2. CASE f.data = <<Payload(e.id, n + 1)>> /\ m = n + 1 /\ Payload(e.id, n + 1) \in Data
      <4>1. e.consumed \o (e.buffer \o f.data) = Numbered(e.id, m)
        BY <3>2, DataKept
      <4> QED
        BY <2>5, <4>1 DEF AllData
    <3> QED
      BY <3>1, <3>2
  <2> QED
    BY <1>3, <2>1, <2>3, <2>4, <2>5, <2>6
<1> QED
  BY <1>2, <1>3

\* The peer keeps to the protocol: it acknowledges a stream once, answers on one of ours
\* only after the SYN, and is done with a stream after its FIN or RST.
PeerMoves(id, flag, p) ==
  /\ flag \in {"nil", "ack", "fin", "rst"} /\ p \in {"open", "finished", "reset"}
  /\ peer[id] = "none" => SynIn(sent[id])
  /\ flag = "ack" => peer[id] = "none"
  /\ flag \in {"fin", "rst"} \/ (p = "open" => peer[id] \notin {"finished", "reset"})
  /\ flag \in {"fin", "rst"} => p # "open"

\* The data of its frame, and the number of its data frames from then on.
PeerDatum(id, data, m) ==
  /\ data \in Seq(Data) /\ m \in Nat
  /\ \/ data = <<>> /\ m = peerData[id]
     \/ /\ data = <<Payload(id, peerData[id] + 1)>> /\ m = peerData[id] + 1
        /\ Payload(id, peerData[id] + 1) \in Data /\ peer[id] \in {"none", "open"}

\* A frame of the peer on a stream, with or without data, that opens none.
LEMMA StreamFrameStep ==
  ASSUME Typed, Typed', StreamsOK, NEW id \in Id, NEW type, NEW flag, NEW data, NEW p, NEW m,
         Receive(id, type, flag, data), PeerMoves(id, flag, p), PeerDatum(id, data, m),
         peer' = [peer EXCEPT ![id] = p], peerData' = [peerData EXCEPT ![id] = m]
  PROVE  StreamsOK' /\ Monotone
<1> DEFINE f == [id |-> id, type |-> type, flag |-> flag, data |-> data]
<1>1. yamux_decode(f)
  BY DEF Receive
<1>2. f.id = id /\ f.flag = flag /\ f.data = data
  OBVIOUS
<1> HIDE DEF f
<1>3. StreamFrame(f) /\ f.flag # "syn"
  BY <1>2 DEF StreamFrame, PeerMoves, PeerDatum
<1>4. peerData[id] \in Nat
  BY BoundsAssumption DEF Typed
<1>5. ASSUME NEW i \in 1..Len(streams), streams[i].id = id
      PROVE  LET e == After(f, streams[i])
             IN  /\ e.state = "closed" => p \in {"finished", "reset"}
                 /\ e.cstate = streams[i].cstate
                 /\ Rank(streams[i].state) <= Rank(e.state)
                 /\ AllData(e, m)
  <2> DEFINE d == streams[i]
             n == peerData[id]
  <2>1. d \in StreamType /\ StatesAgree(d, sent[id], peer[id], nextid) /\ AllData(d, n) /\ d.id = id
    BY <1>5, EntryFacts
  <2>2. flag = "ack" => d.state = "syn_sent"
    BY <2>1 DEF StatesAgree, PeerMoves
  <2>3. d.state = "closed" => peer[id] \in {"finished", "reset"}
    BY <2>1 DEF StatesAgree
  <2>4. \/ f.data = <<>> /\ m = n
        \/ f.data = <<Payload(d.id, n + 1)>> /\ m = n + 1 /\ Payload(d.id, n + 1) \in Data /\ d.state # "closed"
    BY <1>2, <2>1, <2>3 DEF PeerDatum
  <2>5. n \in Nat
    BY <1>4
  <2> HIDE DEF d, n
  <2>6. /\ After(f, d).cstate = d.cstate
        /\ Rank(d.state) <= Rank(After(f, d).state)
        /\ AllData(After(f, d), m)
        /\ After(f, d).state = IF d.state = "closed" \/ f.flag \in {"fin", "rst"} THEN "closed"
                               ELSE IF f.flag = "ack" THEN "est" ELSE d.state
    <3>1. f.flag = "ack" => d.state = "syn_sent"
      BY <1>2, <2>2
    <3> QED
      BY <1>3, <2>1, <2>4, <2>5, <3>1, AfterFacts
  <2>7. After(f, d).state = "closed" => p \in {"finished", "reset"}
    BY <1>2, <2>3, <2>6 DEF PeerMoves
  <2> QED
    BY <2>6, <2>7 DEF d
<1>6. \A i \in 1..Len(streams) : streams[i].id = f.id =>
        LET e == After(f, streams[i])
        IN  /\ e.state = "closed" => p \in {"finished", "reset"}
            /\ e.cstate = streams[i].cstate
            /\ Rank(streams[i].state) <= Rank(e.state)
            /\ AllData(e, m)
  BY <1>2, <1>5
<1>7. /\ peer' = [peer EXCEPT ![f.id] = p] /\ peerData' = [peerData EXCEPT ![f.id] = m] /\ p # "none"
      /\ m \in Nat /\ (peer[f.id] = "none" => SynIn(sent[f.id]))
  BY <1>2 DEF PeerMoves, PeerDatum
<1> QED
  BY <1>1, <1>3, <1>6, <1>7, PeerFrame

\* A stream the peer opens is entered in the table and acknowledged, or refused for
\* want of room.
LEMMA PeerOpensStep ==
  ASSUME Typed, Typed', Regular, StreamsOK, NEW id \in Id, PeerOpens(id)
  PROVE  StreamsOK' /\ Monotone
<1> DEFINE f == [id |-> id, type |-> "window", flag |-> "syn", data |-> <<>>]
           ack == Frame("window", "ack")
           nil == Frame("data", "nil")
<1>1. yamux_decode(f) /\ peer[id] = "none" /\ id \in PeerId
      /\ peer' = [peer EXCEPT ![id] = "open"] /\ peerData' = peerData
  BY DEF PeerOpens, Receive
<1>2. f.id = id /\ f.flag = "syn" /\ id # 0
  BY BoundsAssumption DEF Id
<1> HIDE DEF f
<1>3. id % 2 = 0 /\ NewStreamId(id)
  BY <1>1 DEF PeerId, Regular, NewStreamId, am_server
<1>4. IdOK(id) /\ peerData[id] = 0
  BY <1>1 DEF StreamsOK, IdOK
<1>5. \A i \in 1..Len(streams) : streams[i].id # id
  <2>1. SUFFICES ASSUME NEW i \in 1..Len(streams), streams[i].id = id PROVE FALSE
    OBVIOUS
  <2>2. StatesAgree(streams[i], sent[id], peer[id], nextid)
    BY <2>1, EntryFacts
  <2>3. id % 2 # 1
    BY <1>3
  <2> QED
    BY <1>1, <2>1, <2>2, <2>3 DEF StatesAgree
<1>6. sent[id] = <<>>
  BY <1>4, <1>5 DEF IdOK
<1>7. NewStream(f) /\ UNCHANGED nextid
  <2>1. Live(id) = {}
    BY <1>5 DEF Live, Entry
  <2> QED
    BY <1>1, <1>2, <2>1 DEF yamux_decode, SessionFrame
<1>8. /\ peer'[id] = "open" /\ peerData'[id] = 0
      /\ \A j \in Id : j # id => peer'[j] = peer[j] /\ peerData'[j] = peerData[j]
  BY <1>1, <1>4 DEF Typed
<1>9. nextid' % 2 = 1 /\ nextid <= nextid' /\ nextid' = nextid
  BY <1>7 DEF StreamsOK, TableOK, Typed
<1>10. CASE Len(streams) < Backlog
  <2> DEFINE d == [Stream(id) EXCEPT !.cstate = "est"]
             e == PeerStream(id)
  <2>1. streams' = SetState(Append(streams, d), id, "est")
        /\ sent' = [sent EXCEPT ![id] = @ \o <<ack, nil>>]
    BY <1>2, <1>3, <1>7, <1>10 DEF NewStream
  <2>2. d \in StreamType /\ e \in StreamType /\ WithState(d, "est") = e
    BY NewEntries
  <2>3. d.id = id
    BY DEF Stream
  <2>4. /\ e.id = id /\ e.state = "est" /\ e.cstate = "est" /\ e.buffer = <<>> /\ e.consumed = <<>>
    BY DEF PeerStream
  <2>5. streams \in Seq(StreamType)
    BY DEF Typed
  <2>10. "est" \in State
    BY DEF State
  <2> HIDE DEF d, e
  <2>12. streams' = Append(streams, e)
    BY <1>5, <2>1, <2>2, <2>3, <2>5, <2>10, SetStateLast
  <2>13. /\ ack \in FrameType /\ nil \in FrameType /\ ack.flag = "ack" /\ nil.flag = "nil"
         /\ ack # Frame("window", "syn") /\ nil # Frame("window", "syn")
    BY <2>10, FrameTypes, FrameFacts
  <2>14. First(id) = ack
    BY <1>3 DEF First
  <2> HIDE DEF ack, nil
  <2>15. sent' = [sent EXCEPT ![id] = <<ack, nil>>] /\ <<ack, nil>> # <<>>
    BY <1>6, <2>1, <2>13, FromEmpty DEF Typed
  <2>16. SentOK(<<ack, nil>>, ack)
    BY <2>13 DEF SentOK
  <2>17. StatesAgree(e, <<ack, nil>>, "open", nextid')
    <3>1. id % 2 # 1
      BY <1>3
    <3> QED
      BY <2>4, <2>15, <3>1 DEF StatesAgree
  <2>18. AllData(e, 0)
    BY <2>4 DEF AllData, Numbered
  <2>19. /\ sent'[id] = <<ack, nil>> /\ \A j \in Id : j # id => sent'[j] = sent[j]
    BY <2>15 DEF Typed
  <2>20. /\ \A i \in 1..Len(streams) : streams[i].id # e.id
         /\ \A j \in Id : j # e.id => /\ sent'[j] = sent[j] /\ peer'[j] = peer[j]
                                      /\ peerData'[j] = peerData[j]
         /\ StatesAgree(e, sent'[e.id], peer'[e.id], nextid') /\ AllData(e, peerData'[e.id])
         /\ SentOK(sent'[e.id], First(e.id))
         /\ e.id % 2 # 1 /\ peer'[e.id] # "none"
    BY <1>3, <1>5, <1>8, <2>4, <2>14, <2>16, <2>17, <2>18, <2>19
  <2> QED
    BY <1>9, <2>2, <2>12, <2>20, NewEntryStep
<1>11. CASE Len(streams) = Backlog
  <2>1. UNCHANGED <<streams, sent>>
    BY <1>7, <1>11, BoundsAssumption DEF NewStream
  <2>2. id \in Id => /\ peer'[id] # "none" => id % 2 = 0 /\ Len(streams) = Backlog
                     /\ peer'[id] = "none" => peerData'[id] = 0
    BY <1>3, <1>8, <1>11
  <2> QED
    BY <1>5, <1>8, <1>9, <2>1, <2>2, OutsideStep
<1> QED
  BY <1>10, <1>11, BoundsAssumption DEF Typed

\* Each frame of the peer on a stream keeps the streams in order.
LEMMA PeerStep ==
  ASSUME Typed, Typed', Counted, Regular, StreamsOK, NEW id \in Id,
         \/ PeerOpens(id) \/ PeerAccepts(id) \/ PeerAcceptsWithData(id) \/ PeerResets(id)
         \/ \E flag \in {"nil", "fin"} : PeerSends(id, flag) \/ PeerUpdates(id, flag)
  PROVE  StreamsOK' /\ Monotone
<1> DEFINE n == peerData[id]
<1>1. /\ n \in Nat /\ n <= frames /\ frames \in Nat /\ MaxFrames \in Nat
      /\ peer[id] \in {"none", "open", "finished", "reset"}
      /\ peerData = [peerData EXCEPT ![id] = n]
      /\ <<>> \in Seq(Data)
  BY BoundsAssumption DEF Typed, Counted
<1>2. ASSUME frames < MaxFrames
      PROVE  Payload(id, n + 1) \in Data /\ <<Payload(id, n + 1)>> \in Seq(Data) /\ n + 1 \in Nat
  <2>1. n + 1 \in 1..MaxFrames
    BY <1>1, <1>2
  <2> QED
    BY <1>1, <2>1 DEF Payload, Data
<1>3. SynSeen(id) => SynIn(sent[id])
  BY DEF SynSeen, SynIn
<1>4. peer[id] = "none" => n = 0
  BY DEF StreamsOK, IdOK
<1> HIDE DEF n
<1>5. PeerDatum(id, <<>>, n)
  BY <1>1 DEF PeerDatum, n
<1>6. frames < MaxFrames /\ peer[id] \in {"none", "open"} => PeerDatum(id, <<Payload(id, n + 1)>>, n + 1)
  BY <1>2 DEF PeerDatum, n
<1>7. CASE PeerAccepts(id)
  <2>1. /\ peer[id] = "none" /\ SynIn(sent[id]) /\ Receive(id, "window", "ack", <<>>)
        /\ peer' = [peer EXCEPT ![id] = "open"] /\ peerData' = [peerData EXCEPT ![id] = n]
    BY <1>1, <1>3, <1>7 DEF PeerAccepts
  <2>2. PeerMoves(id, "ack", "open")
    BY <2>1 DEF PeerMoves
  <2> QED
    BY <1>5, <2>1, <2>2, StreamFrameStep
<1>8. CASE PeerAcceptsWithData(id)
  <2>1. /\ peer[id] = "none" /\ SynIn(sent[id]) /\ Receive(id, "data", "ack", <<Payload(id, 1)>>)
        /\ peer' = [peer EXCEPT ![id] = "open"] /\ peerData' = [peerData EXCEPT ![id] = 1]
    BY <1>1, <1>3, <1>8 DEF PeerAcceptsWithData
  <2>2. n + 1 = 1 /\ frames < MaxFrames
    BY <1>4, <2>1 DEF Receive
  <2>3. PeerMoves(id, "ack", "open")
    BY <2>1 DEF PeerMoves
  <2>4. PeerDatum(id, <<Payload(id, 1)>>, 1)
    BY <1>6, <2>1, <2>2
  <2> QED
    BY <2>1, <2>3, <2>4, StreamFrameStep
<1>9. CASE PeerResets(id)
  <2>1. /\ peer[id] = "none" => SynIn(sent[id])
        /\ Receive(id, "window", "rst", <<>>)
        /\ peer' = [peer EXCEPT ![id] = "reset"] /\ peerData' = [peerData EXCEPT ![id] = n]
    BY <1>1, <1>3, <1>9 DEF PeerResets
  <2>2. PeerMoves(id, "rst", "reset")
    BY <2>1 DEF PeerMoves
  <2> QED
    BY <1>5, <2>1, <2>2, StreamFrameStep
<1>10. ASSUME NEW flag \in {"nil", "fin"}, PeerSends(id, flag)
       PROVE  StreamsOK' /\ Monotone
  <2> DEFINE p == IF flag = "fin" THEN "finished" ELSE "open"
  <2>1. /\ peer[id] = "open" /\ Receive(id, "data", flag, <<Payload(id, n + 1)>>)
        /\ peer' = [peer EXCEPT ![id] = p] /\ peerData' = [peerData EXCEPT ![id] = n + 1]
    BY <1>1, <1>10 DEF PeerSends, n
  <2>2. frames < MaxFrames
    BY <2>1 DEF Receive
  <2>3. PeerMoves(id, flag, p)
    BY <2>1 DEF PeerMoves
  <2> HIDE DEF p
  <2>4. PeerDatum(id, <<Payload(id, n + 1)>>, n + 1)
    BY <1>6, <2>1, <2>2
  <2> QED
    BY <2>1, <2>3, <2>4, StreamFrameStep
<1>11. ASSUME NEW flag \in {"nil", "fin"}, PeerUpdates(id, flag)
       PROVE  StreamsOK' /\ Monotone
  <2> DEFINE p == IF flag = "fin" THEN "finished" ELSE peer[id]
  <2>1. /\ peer[id] = "open" \/ (peer[id] = "finished" /\ flag = "nil")
        /\ Receive(id, "window", flag, <<>>) /\ peerData' = [peerData EXCEPT ![id] = n]
    BY <1>1, <1>11 DEF PeerUpdates
  <2>2. peer' = [peer EXCEPT ![id] = p]
    BY <1>11 DEF PeerUpdates, Typed
  <2>3. PeerMoves(id, flag, p)
    BY <2>1 DEF PeerMoves
  <2> HIDE DEF p
  <2> QED
    BY <1>5, <2>1, <2>2, <2>3, StreamFrameStep
<1> QED
  BY <1>7, <1>8, <1>9, <1>10, <1>11, PeerOpensStep

(***************************************************************************)
(* The invariant and what follows from it                                  *)
(***************************************************************************)
\* The invariant, with its parts named as the lemmas name them.
LEMMA IInvParts ==
  /\ IInv <=> Typed /\ Counted /\ (Regular => StreamsOK)
  /\ IInv' <=> Typed' /\ Counted' /\ (Regular' => StreamsOK')
BY Types DEF IInv, StreamsOK

\* A session that is regular after a step was regular before it, and no step breaks the
\* invariant or takes a stream of a regular session back to an earlier state.
LEMMA NextIInv ==
  ASSUME IInv, [Next]_vars
  PROVE  IInv' /\ (Regular' => Monotone)
<1>1. Typed /\ Counted /\ (Regular => StreamsOK)
  BY IInvParts
<1>2. Typed' /\ Counted'
  BY <1>1, TypeNext
<1>3. SUFFICES ASSUME Regular' PROVE StreamsOK' /\ Monotone
  BY <1>2, IInvParts
<1>4. CASE WriteMain
  <2>1. mainWrites \in Nat /\ mainWrites' = mainWrites + 1
    BY <1>1, <1>4, BoundsAssumption DEF WriteMain, Typed
  <2> QED
    BY <1>3, <2>1 DEF Regular
<1>5. CASE ~WriteMain
  <2>1. UNCHANGED <<weDialled, mainWrites>>
    <3>1. CASE \E id \in Id :
                 \/ PeerOpens(id) \/ PeerAccepts(id) \/ PeerAcceptsWithData(id) \/ PeerResets(id)
                 \/ \E flag \in {"nil", "fin"} : PeerSends(id, flag) \/ PeerUpdates(id, flag)
      <4>1. PICK f : yamux_decode(f)
        BY <3>1 DEF PeerOpens, PeerAccepts, PeerAcceptsWithData, PeerResets, PeerSends, PeerUpdates, Receive
      <4> QED
        BY <4>1 DEF yamux_decode, SessionFrame, session
    <3>2. CASE \E i \in 1..Len(streams) :
                 \/ libp2p_yamux_write(i) \/ libp2p_yamux_channel_read(i)
                 \/ yamux_stream_init(i) \/ yamux_stream_window_update(i)
                 \/ yamux_stream_close(i) \/ yamux_stream_reset(i)
      BY <3>2 DEF libp2p_yamux_write, libp2p_yamux_channel_read, yamux_stream_init,
                  yamux_stream_window_update, yamux_stream_close, yamux_stream_reset, session
    <3>3. CASE PeerPings \/ PeerGoesAway
      <4>1. PICK f : yamux_decode(f)
        BY <3>3 DEF PeerPings, PeerGoesAway, Receive
      <4> QED
        BY <4>1 DEF yamux_decode, SessionFrame, session
    <3>4. CASE \/ yamux_channel_new \/ WriteBeforeReady \/ libp2p_yamux_close
               \/ ProtocolReply \/ UNCHANGED vars
      BY <3>4 DEF yamux_channel_new, WriteBeforeReady, libp2p_yamux_close, ProtocolReply,
                  vars, local, session
    <3> QED
      BY <1>5, <3>1, <3>2, <3>3, <3>4 DEF Next
  <2>2. Regular /\ StreamsOK
    BY <1>1, <1>3, <2>1 DEF Regular
  <2>3. ASSUME UNCHANGED <<streams, sent, nextid, peer, peerData>>
        PROVE  StreamsOK' /\ Monotone
    <3>1. \A i \in 1..Len(streams) : streams[i].id # 0 /\ 0 \notin Id
      BY <1>1, EntryType, BoundsAssumption DEF Typed, Id
    <3>2. nextid' % 2 = 1 /\ nextid <= nextid'
      BY <1>1, <2>2, <2>3 DEF StreamsOK, TableOK, Typed
    <3>3. 0 \notin Id
      BY BoundsAssumption DEF Id
    <3> QED
      BY <1>1, <1>2, <2>2, <2>3, <3>1, <3>2, <3>3, OutsideStep
  <2>4. CASE PeerPings \/ PeerGoesAway
    <3>1. PICK f : f.id = 0 /\ yamux_decode(f)
      BY <2>4 DEF PeerPings, PeerGoesAway, Receive
    <3>2. UNCHANGED <<streams, sent, nextid>>
      BY <3>1 DEF yamux_decode, SessionFrame
    <3> QED
      BY <2>3, <2>4, <3>2 DEF PeerPings, PeerGoesAway
  <2>5. CASE WriteBeforeReady \/ libp2p_yamux_close \/ ProtocolReply \/ UNCHANGED vars
    BY <2>3, <2>5 DEF WriteBeforeReady, libp2p_yamux_close, ProtocolReply, vars, local, remote
  <2>6. CASE yamux_channel_new
    BY <1>1, <1>2, <2>2, <2>6, ChannelNewStep
  <2> QED
    BY <1>1, <1>2, <1>5, <2>2, <2>4, <2>5, <2>6, ChannelStep, PeerStep DEF Next
<1> QED
  BY <1>4, <1>5

\* A session starts with an empty table, and nobody has sent anything.
LEMMA InitIInv == Init => IInv
<1> SUFFICES ASSUME Init PROVE IInv
  OBVIOUS
<1>1. /\ weDialled \in BOOLEAN
      /\ ctx_state \in {"inited", "est"} /\ below = "open" /\ closed = 0 /\ nextid = 1
      /\ streams = <<>> /\ sessionSent = <<>> /\ mainWrites = 0 /\ calls = 0 /\ frames = 0
      /\ sent = [id \in Id |-> <<>>] /\ peer = [id \in Id |-> "none"] /\ peerData = [id \in Id |-> 0]
  BY DEF Init, am_server
<1>2. streams \in Seq(StreamType) /\ Len(streams) = 0
  BY <1>1
<1>3. sessionSent \in Seq(FrameType) /\ <<>> \in Seq(FrameType)
  BY <1>1
<1>4. Typed
  BY <1>1, <1>2, <1>3, BoundsAssumption DEF Typed
<1>5. Counted
  BY <1>1 DEF Counted
<1>6. StreamsOK
  <2>1. TableOK
    BY <1>1, <1>2 DEF TableOK
  <2>2. \A id \in Id : IdOK(id)
    BY <1>1, NothingSent DEF IdOK
  <2> QED
    BY <2>1, <2>2 DEF StreamsOK
<1> QED
  BY <1>4, <1>5, <1>6, IInvParts

\* The inductive invariant holds of every session, whatever the bounds and the backlog.
THEOREM InvariantHolds == Spec => []IInv
<1>1. IInv /\ [Next]_vars => IInv'
  BY NextIInv
<1> QED
  BY InitIInv, <1>1, PTL DEF Spec

\* The variables keep their types, and the table of streams never outgrows accept_backlog.
THEOREM TypeCorrect == Spec => []TypeOK
<1>1. IInv => TypeOK
  BY DEF IInv
<1> QED
  BY InvariantHolds, <1>1, PTL

\* What a reader of a channel has got and will get is what the peer sent on that stream,
\* all of it, in order and once, whichever frames the two sides exchange in between.
THEOREM DataKeepsOrder == Spec => []DeliveredInOrder
<1>1. IInv => DeliveredInOrder
  BY IInvParts DEF DeliveredInOrder, StreamsOK, TableOK, AllData, Numbered
<1> QED
  BY InvariantHolds, <1>1, PTL

\* The first frame on a stream opens it, acknowledges it or resets it, and no later one
\* carries a SYN or an ACK, whichever of the three operations that flag a frame came first.
THEOREM StreamsOpenOnce == Spec => []OpensOnce
<1>1. IInv => OpensOnce
  <2> SUFFICES ASSUME IInv, Regular, NEW id \in Id
               PROVE  \A k \in 1..Len(sent[id]) :
                        IF k = 1 THEN sent[id][k] \in {Opens(id), Frame("window", "rst")}
                                 ELSE sent[id][k].flag \notin {"syn", "ack"}
    BY DEF OpensOnce
  <2>1. SentOK(sent[id], First(id))
    BY IInvParts DEF StreamsOK, IdOK, First
  <2>2. Opens(id) = First(id)
    BY DEF Opens, First, PeerId, Regular
  <2> QED
    BY <2>1, <2>2 DEF SentOK
<1> QED
  BY InvariantHolds, <1>1, PTL

\* The dialer of a session accepts every stream its peer opens, once, unless the table is
\* full.
THEOREM StreamsAreAccepted == Spec => []DialerAccepts
<1>1. IInv => DialerAccepts
  <2> SUFFICES ASSUME IInv, Regular, NEW id \in PeerId, peer[id] # "none", Len(streams) # Backlog
               PROVE  Cardinality(Entry(streams, id)) = 1
    BY DEF DialerAccepts, PeerStreamsExist
  <2>1. id \in Id /\ id % 2 = 0 /\ StreamsOK
    BY IInvParts DEF PeerId, Regular
  <2>2. PICK i \in 1..Len(streams) : streams[i].id = id
    BY <2>1 DEF StreamsOK, IdOK
  <2>3. Entry(streams, id) = {i}
    BY <2>1, <2>2 DEF Entry, StreamsOK, TableOK
  <2> QED
    BY <2>3, FS_Singleton
<1> QED
  BY InvariantHolds, <1>1, PTL

\* A stream's state in the table never goes back: what a frame of ours stores there does
\* not reopen a stream the peer has closed.
THEOREM StatesOnlyAdvance == Spec => StatesAdvance
<1>1. IInv /\ [Next]_vars =>
        [Regular' => \A i \in 1..Len(streams) :
           /\ streams'[i].id = streams[i].id
           /\ Rank(streams[i].state) <= Rank(streams'[i].state)]_vars
  BY NextIInv DEF Monotone
<1> QED
  BY InvariantHolds, <1>1, PTL DEF Spec, StatesAdvance
=============================================================================
