--------------------------- MODULE YamuxV2Proofs ----------------------------
(***************************************************************************)
(* Proofs about YamuxV2, for any windows, number of streams, bytes and     *)
(* pings: what an open has been answered, where frame boundaries may get   *)
(* lost, what a sender is allowed, and in which order bytes are delivered. *)
(***************************************************************************)
EXTENDS YamuxV2, FiniteSetTheorems, SequenceTheorems, TLAPS

StreamType ==
  [ open : BOOLEAN, send : Nat, recv : 0..Window, closed : BOOLEAN, buffer : Seq(1..MaxBytes) ]

PendingType == [id : Id, data : Seq(1..MaxBytes)]

CallType == [op : {"idle", "open", "accept", "read", "ping"}, id : Id \cup {0}, value : Nat]

\* The types, but for the bound on the send windows.
Types ==
  /\ wire \in [End -> Seq(FrameType)]
  /\ sync \in [End -> BOOLEAN] /\ closed \in [End -> BOOLEAN] /\ shut \in [End -> BOOLEAN]
  /\ opens \in [End -> 0..MaxOpens] /\ pings \in [End -> 0..MaxPings]
  /\ pending \in [End -> Seq(PendingType)]
  /\ ctx \in [End -> [Id -> StreamType]]
  /\ call \in [End -> CallType]
  /\ accepted \in [End -> [Id -> Nat]] /\ written \in [End -> [Id -> 0..MaxBytes]]
  /\ got \in [End -> [Id -> Seq(1..MaxBytes)]] /\ dropped \in [End -> [Id -> SUBSET (1..MaxBytes)]]

\* The ids an end has used.
Opened(e) == {e + 2 * k - 1 : k \in 1..opens[e]}

\* The end e knows of a stream, or the session has ended.
Known(e, id) == accepted[e][id] = 1 \/ id \in PendingIds(e) \/ \E d \in End : shut[d]

\* The end e has yet to hear of a stream.
Unheard(e, id) == accepted[e][id] = 0 /\ id \notin PendingIds(e)

WindowOK(e, f) ==
  f.type = "window" =>
    /\ f.flag \in {"none", "syn", "ack"} /\ f.id \in Id
    /\ f.len > 0 => written[e][f.id] > 0
    /\ f.flag \in {"syn", "ack"} => f.len = 0
    /\ f.flag = "syn" => f.data = <<>> /\ f.id \in Opened(Other(e)) /\ Unheard(e, f.id)
    /\ f.flag = "ack" => Known(Other(e), f.id)

DataOK(e, f) ==
  f.type = "data" =>
    /\ f.flag \in {"none", "fin"} /\ f.id \in Id /\ f.len = Len(f.data)
    /\ f.len > 0 => written[Other(e)][f.id] > 0
    /\ f.flag = "none" => f.len > 0

PingOK(e, f) ==
  /\ f.type = "ping" => /\ f.flag \in {"none", "ack"} /\ f.len > 0
                        /\ f.len <= IF f.flag = "ack" THEN pings[e] ELSE pings[Other(e)]
  /\ f.type = "go_away" => f.flag = "none" /\ f.len = 0

\* A frame on its way to e.
FrameOK(e, f) == WindowOK(e, f) /\ DataOK(e, f) /\ PingOK(e, f)

Frames == \A e \in End : \A f \in ToSet(wire[e]) : FrameOK(e, f)

IsPing(f) == f.type = "ping" /\ f.flag = "none"
IsAnswer(f) == f.type = "ping" /\ f.flag = "ack"

\* Two frames of the same ping, or of the same SYN.
Clash(f, g) ==
  \/ IsPing(f) /\ IsPing(g) /\ f.len = g.len
  \/ IsAnswer(f) /\ IsAnswer(g) /\ f.len = g.len
  \/ f.flag = "syn" /\ g.flag = "syn" /\ f.id = g.id

Distinct(w) == \A i, j \in DOMAIN w : i # j => ~Clash(w[i], w[j])

\* No answer comes to a ping that is still on its way.
Apart(v, w) == \A f \in ToSet(v), g \in ToSet(w) : IsAnswer(f) /\ IsPing(g) => f.len # g.len

Wires == \A e \in End : Distinct(wire[e]) /\ Apart(wire[e], wire[Other(e)])

Pinging(e, f) == call[e].op = "ping" /\ call[e].value = f.len

\* As long as only e pings, the only ping under way is the one it waits for.
PingsOK(e) ==
  pings[Other(e)] = 0 /\ sync[e] /\ ~closed[e] =>
    /\ \A f \in ToSet(wire[e]) : IsAnswer(f) => Pinging(e, f)
    /\ \A f \in ToSet(wire[Other(e)]) : IsPing(f) => shut[Other(e)] \/ Pinging(e, f)

CallOK(e) ==
  /\ call[e].op \in {"open", "read"} => call[e].id \in Id /\ ctx[e][call[e].id].open
  /\ call[e].op = "open" => call[e].id \in Opened(e)
  /\ call[e].op = "ping" => pings[e] > 0
  /\ shut[e] <=> closed[e]
  /\ shut[e] => call[e] = Idle

StreamOK(e, id) ==
  /\ accepted[e][id] <= 1
  /\ accepted[e][id] = 1 => id \in Opened(Other(e)) /\ id \notin PendingIds(e)
  /\ ctx[e][id].open \/ written[e][id] > 0 => id \in Opened(e) \/ accepted[e][id] = 1
  /\ id \in Mine(e) /\ ctx[e][id].open =>
       Known(Other(e), id) \/ (call[e].op = "open" /\ call[e].id = id)
  /\ ctx[e][id].open /\ ctx[e][id].recv < Window => written[Other(e)][id] > 0

PendingOK(e) ==
  /\ PendingIds(e) \subseteq Opened(Other(e))
  /\ \A i, j \in DOMAIN pending[e] : i # j => pending[e][i].id # pending[e][j].id

Room(e, id) == IF ctx[e][id].open THEN ctx[e][id].recv ELSE Window

\* CreditBounded, of ends that have lost the frame boundaries too.
CreditOK(e, id) ==
  /\ ctx[e][id].open =>
       ctx[e][id].send + InFlight(Other(e), "data", id) + InFlight(e, "window", id)
         <= Room(Other(e), id)
  /\ ~ctx[e][id].open => ctx[e][id].send = 0

IInv ==
  /\ Types
  /\ Frames
  /\ Wires
  /\ \A e \in End : PingsOK(e) /\ CallOK(e) /\ PendingOK(e)
  /\ \A e \in End, id \in Id : StreamOK(e, id) /\ CreditOK(e, id)
  /\ FramingLost

(***************************************************************************)
(* Ends and ids                                                            *)
(***************************************************************************)
\* There are two ends.
LEMMA Ends ==
  /\ \A e \in End : Other(e) \in End /\ Other(e) # e /\ Other(Other(e)) = e
  /\ \A d, e \in End : d = e \/ d = Other(e)
BY DEF End, Other

\* The ids of the two ends are different.
LEMMA Ids ==
  /\ \A e \in End : Mine(e) \subseteq Id
  /\ Id \subseteq Int
  /\ \A e \in End, k \in 1..MaxOpens : e + 2 * k - 1 \in Mine(e)
  /\ \A e \in End : Mine(e) \cap Mine(Other(e)) = {}
<1>1. \A e \in End : Mine(e) \subseteq Id
  BY DEF End, Id
<1>2. Id \subseteq Int
  BY V2Assumption DEF Id, Mine
<1>3. \A e \in End, k \in 1..MaxOpens : e + 2 * k - 1 \in Mine(e)
  BY DEF Mine
<1>4. Mine(0) \cap Mine(1) = {}
  BY V2Assumption DEF Mine
<1>5. \A e \in End : Mine(e) \cap Mine(Other(e)) = {}
  BY <1>4 DEF End, Other
<1> QED
  BY <1>1, <1>2, <1>3, <1>5

\* An end has used ids of its own only, and the next one is new.
LEMMA Fresh ==
  ASSUME Types, NEW e \in End
  PROVE  /\ Opened(e) \subseteq Mine(e)
         /\ opens[e] < MaxOpens => /\ e + 2 * opens[e] + 1 \in Mine(e)
                                   /\ e + 2 * opens[e] + 1 \notin Opened(e)
<1>1. opens[e] \in Nat /\ opens[e] <= MaxOpens /\ MaxOpens \in Nat /\ e \in Int
  BY V2Assumption DEF Types, End
<1>2. Opened(e) \subseteq Mine(e)
  BY <1>1 DEF Opened, Mine
<1>3. ASSUME opens[e] < MaxOpens PROVE e + 2 * opens[e] + 1 \in Mine(e)
  <2>1. opens[e] + 1 \in 1..MaxOpens /\ e + 2 * (opens[e] + 1) - 1 = e + 2 * opens[e] + 1
    BY <1>1, <1>3
  <2> QED
    BY <2>1 DEF Mine
<1>4. e + 2 * opens[e] + 1 \notin Opened(e)
  BY <1>1 DEF Opened
<1> QED
  BY <1>2, <1>3, <1>4

(***************************************************************************)
(* Wires                                                                   *)
(***************************************************************************)
\* The elements of a sequence.
LEMMA Elements ==
  ASSUME NEW S, NEW w \in Seq(S)
  PROVE  ToSet(w) \subseteq S
<1> SUFFICES ASSUME NEW i \in DOMAIN w PROVE w[i] \in S
  BY DEF ToSet
<1> QED
  OBVIOUS

\* A function on the first n numbers is a sequence.
LEMMA Listed ==
  ASSUME NEW S, NEW n \in Nat, NEW d, d = [i \in 1..n |-> d[i]], \A i \in 1..n : d[i] \in S
  PROVE  d \in Seq(S) /\ Len(d) = n
OBVIOUS

\* A sequence without its first element.
LEMMA Shorter ==
  ASSUME NEW S, NEW w \in Seq(S), w # <<>>
  PROVE  /\ Tail(w) \in Seq(S) /\ Len(Tail(w)) = Len(w) - 1 /\ Len(w) \in Nat \ {0}
         /\ \A i \in DOMAIN Tail(w) : i \in Nat /\ i + 1 \in DOMAIN w /\ Tail(w)[i] = w[i + 1]
         /\ 1 \in DOMAIN w /\ Head(w) = w[1] /\ Head(w) \in S
         /\ ToSet(Tail(w)) \subseteq ToSet(w) /\ Head(w) \in ToSet(w)
<1>1. Tail(w) \in Seq(S) /\ Len(Tail(w)) = Len(w) - 1 /\ Len(w) \in Nat \ {0}
  OBVIOUS
<1>2. \A i \in DOMAIN Tail(w) : i \in Nat /\ i + 1 \in DOMAIN w /\ Tail(w)[i] = w[i + 1]
  OBVIOUS
<1>3. 1 \in DOMAIN w /\ Head(w) = w[1] /\ Head(w) \in S
  OBVIOUS
<1> QED
  BY <1>1, <1>2, <1>3 DEF ToSet

\* A sequence with one element more.
LEMMA Longer ==
  ASSUME NEW S, NEW w \in Seq(S), NEW g \in S
  PROVE  /\ w \o <<g>> \in Seq(S) /\ Len(w \o <<g>>) = Len(w) + 1 /\ Len(w) \in Nat
         /\ DOMAIN w = 1..Len(w) /\ DOMAIN (w \o <<g>>) = 1..(Len(w) + 1)
         /\ \A i \in DOMAIN w : (w \o <<g>>)[i] = w[i]
         /\ (w \o <<g>>)[Len(w) + 1] = g
         /\ ToSet(w \o <<g>>) = ToSet(w) \cup {g}
<1>1. /\ w \o <<g>> \in Seq(S) /\ Len(w \o <<g>>) = Len(w) + 1 /\ Len(w) \in Nat
      /\ DOMAIN w = 1..Len(w) /\ DOMAIN (w \o <<g>>) = 1..(Len(w) + 1)
  OBVIOUS
<1>2. (\A i \in DOMAIN w : (w \o <<g>>)[i] = w[i]) /\ (w \o <<g>>)[Len(w) + 1] = g
  OBVIOUS
<1>3. \A i : i \in 1..(Len(w) + 1) <=> i \in 1..Len(w) \/ i = Len(w) + 1
  BY <1>1
<1> DEFINE v == w \o <<g>>
<1>4. ToSet(v) = ToSet(w) \cup {g}
  <2> HIDE DEF v
  <2>1. /\ DOMAIN v = 1..(Len(w) + 1) /\ DOMAIN w = 1..Len(w)
        /\ (\A i \in DOMAIN w : v[i] = w[i]) /\ v[Len(w) + 1] = g
    BY <1>1, <1>2 DEF v
  <2> QED
    BY <1>3, <2>1 DEF ToSet
<1> QED
  BY <1>1, <1>2, <1>4

\* The frames of a wire stay distinct, and the first is distinct from the others.
LEMMA ShorterDistinct ==
  ASSUME NEW S, NEW w \in Seq(S), w # <<>>, Distinct(w)
  PROVE  Distinct(Tail(w)) /\ \A f \in ToSet(Tail(w)) : ~Clash(Head(w), f)
<1> DEFINE v == Tail(w)
<1>1. /\ \A i \in DOMAIN v : i \in Nat /\ i + 1 \in DOMAIN w /\ v[i] = w[i + 1]
      /\ 1 \in DOMAIN w /\ Head(w) = w[1]
  BY Shorter
<1> HIDE DEF v
<1>2. \A i, j \in DOMAIN v : i # j => i + 1 # j + 1
  BY <1>1
<1>3. Distinct(v)
  BY <1>1, <1>2 DEF Distinct
<1>4. \A i \in DOMAIN v : 1 # i + 1
  <2>1. v = Tail(w)
    BY DEF v
  <2>2. \A i \in DOMAIN v : i \in Nat \ {0}
    BY <2>1
  <2> QED
    BY <2>2
<1>5. \A f \in ToSet(v) : ~Clash(Head(w), f)
  BY <1>1, <1>4 DEF Distinct, ToSet
<1> QED
  BY <1>3, <1>5 DEF v

\* So they do with one more that is distinct from all.
LEMMA LongerDistinct ==
  ASSUME NEW S, NEW w \in Seq(S), NEW g \in S, Distinct(w), \A f \in ToSet(w) : ~Clash(f, g)
  PROVE  Distinct(w \o <<g>>)
<1> DEFINE v == w \o <<g>>
           n == Len(w) + 1
<1>1. /\ \A i \in DOMAIN w : v[i] = w[i]
      /\ v[n] = g /\ \A i \in DOMAIN v : i # n => i \in DOMAIN w
  BY Longer
<1> HIDE DEF v, n
<1>2. \A f : Clash(g, f) <=> Clash(f, g)
  BY DEF Clash
<1>3. \A i \in DOMAIN w : w[i] \in ToSet(w)
  BY DEF ToSet
<1>4. Distinct(v)
  BY <1>1, <1>2, <1>3 DEF Distinct
<1> QED
  BY <1>4 DEF v

\* What a frame adds to the sum of a type for a stream.
Worth(f, type, id) == IF f.type = type /\ f.id = id THEN f.len ELSE 0

Amount(w, type, id) == Cardinality(Units(w, type, id))

\* The units of one frame.
LEMMA OneFrame ==
  ASSUME NEW i, NEW n \in Nat
  PROVE  IsFiniteSet({i} \X (1..n)) /\ Cardinality({i} \X (1..n)) = n
<1> DEFINE S == {i}
           T == 1..n
<1>1. IsFiniteSet(S) /\ Cardinality(S) = 1
  BY FS_Singleton, Zenon
<1>2. IsFiniteSet(T) /\ Cardinality(T) = n
  BY FS_Interval
<1> HIDE DEF S, T
<1>3. IsFiniteSet(S \X T) /\ Cardinality(S \X T) = Cardinality(S) * Cardinality(T)
  BY <1>1, <1>2, FS_Product
<1>4. 1 * n = n
  OBVIOUS
<1>5. Cardinality(S \X T) = n
  BY <1>1, <1>2, <1>3, <1>4, Zenon
<1> QED
  BY <1>3, <1>5 DEF S, T

\* The sum over a wire is a number.
LEMMA UnitsFinite ==
  ASSUME NEW w \in Seq(FrameType), NEW type, NEW id
  PROVE  IsFiniteSet(Units(w, type, id)) /\ Amount(w, type, id) \in Nat
<1> DEFINE D == {k \in DOMAIN w : w[k].type = type /\ w[k].id = id}
           U == [i \in D |-> {i} \X (1..w[i].len)]
           R == {{i} \X (1..w[i].len) : i \in D}
<1>1. D \in SUBSET (1..Len(w)) /\ Len(w) \in Nat
  OBVIOUS
<1>2. IsFiniteSet(D)
  <2>1. IsFiniteSet(1..Len(w))
    BY <1>1, FS_Interval
  <2> HIDE DEF D
  <2> QED
    BY <1>1, <2>1, FS_Subset
<1>3. U \in Surjection(D, R)
  BY DEF Surjection
<1>4. IsFiniteSet(R)
  <2> HIDE DEF D, U, R
  <2> QED
    BY <1>2, <1>3, FS_Surjection
<1>5. ASSUME NEW T \in R PROVE IsFiniteSet(T)
  <2>1. PICK i \in D : T = {i} \X (1..w[i].len)
    OBVIOUS
  <2>2. w[i].len \in Nat
    <3>1. w[i] \in FrameType
      OBVIOUS
    <3> QED
      BY <3>1 DEF FrameType
  <2> HIDE DEF D
  <2> QED
    BY <2>1, <2>2, OneFrame
<1>6. Units(w, type, id) = UNION R
  BY DEF Units
<1>7. IsFiniteSet(UNION R)
  <2> HIDE DEF R
  <2> QED
    BY <1>4, <1>5, FS_UNION
<1> QED
  BY <1>6, <1>7, FS_CardinalityType DEF Amount

\* Its elements.
LEMMA UnitsIn ==
  ASSUME NEW w, NEW type, NEW id
  PROVE  \A p : p \in Units(w, type, id) <=>
           \E i \in DOMAIN w : /\ w[i].type = type /\ w[i].id = id
                              /\ \E b \in 1..w[i].len : p = <<i, b>>
BY DEF Units

\* One frame more adds its worth.
LEMMA AmountLonger ==
  ASSUME NEW w \in Seq(FrameType), NEW g \in FrameType, NEW type, NEW id
  PROVE  Amount(w \o <<g>>, type, id) = Amount(w, type, id) + Worth(g, type, id)
<1> DEFINE v == w \o <<g>>
           n == Len(w) + 1
           U == Units(w, type, id)
           V == {n} \X (1..g.len)
<1>1. /\ DOMAIN w = 1..Len(w) /\ DOMAIN v = 1..n /\ Len(w) \in Nat
      /\ (\A i \in DOMAIN w : v[i] = w[i]) /\ v[n] = g
  BY Longer
<1>2. \A i : i \in 1..n <=> i \in 1..Len(w) \/ i = n
  BY <1>1
<1>3. n \notin DOMAIN w /\ g.len \in Nat
  BY <1>1 DEF FrameType
<1> HIDE DEF v, n
<1>4. \A p : p \in Units(v, type, id) <=> p \in U \/ (g.type = type /\ g.id = id /\ p \in V)
  BY <1>1, <1>2, UnitsIn
<1>5. U \cap V = {}
  BY <1>3, UnitsIn
<1>6. IsFiniteSet(U) /\ Amount(w, type, id) \in Nat
  BY UnitsFinite
<1>7. IsFiniteSet(V) /\ Cardinality(V) = g.len
  BY <1>3, OneFrame
<1>8. CASE g.type = type /\ g.id = id
  <2>1. Units(v, type, id) = U \cup V
    BY <1>4, <1>8
  <2>2. Cardinality(U \cup V) = Cardinality(U) + Cardinality(V) - Cardinality({})
    <3> HIDE DEF U, V
    <3> QED
      BY <1>5, <1>6, <1>7, FS_Union
  <2>3. Cardinality({}) = 0
    BY FS_EmptySet
  <2>4. Worth(g, type, id) = g.len
    BY <1>8 DEF Worth
  <2>5. Amount(w, type, id) = Cardinality(U) /\ Amount(w \o <<g>>, type, id) = Cardinality(U \cup V)
    BY <2>1 DEF Amount, v
  <2> HIDE DEF U, V
  <2> QED
    BY <1>3, <1>6, <1>7, <2>2, <2>3, <2>4, <2>5
<1>9. CASE ~(g.type = type /\ g.id = id)
  <2>1. Units(v, type, id) = U
    BY <1>4, <1>9
  <2> QED
    BY <1>6, <1>9, <2>1 DEF Amount, Worth, v
<1> QED
  BY <1>8, <1>9

\* Taking the first frame takes its worth.
LEMMA AmountShorter ==
  ASSUME NEW w \in Seq(FrameType), w # <<>>, NEW type, NEW id
  PROVE  Amount(w, type, id) = Amount(Tail(w), type, id) + Worth(Head(w), type, id)
<1> DEFINE v == Tail(w)
           g == Head(w)
           U == Units(v, type, id)
           W == Units(w, type, id)
           M == {p \in W : p[1] # 1}
           V == {1} \X (1..g.len)
           F == [p \in U |-> <<p[1] + 1, p[2]>>]
<1>1. /\ v \in Seq(FrameType) /\ Len(v) = Len(w) - 1 /\ Len(w) \in Nat \ {0}
      /\ \A i \in DOMAIN v : i \in Nat /\ i + 1 \in DOMAIN w /\ v[i] = w[i + 1]
      /\ 1 \in DOMAIN w /\ g = w[1] /\ g \in FrameType
  BY Shorter
<1>2. DOMAIN w = 1..Len(w) /\ DOMAIN v = 1..Len(v)
  BY <1>1
<1>3. g.len \in Nat
  BY <1>1 DEF FrameType
<1> HIDE DEF v, g
<1>4. IsFiniteSet(U) /\ IsFiniteSet(W) /\ Amount(v, type, id) \in Nat /\ Amount(w, type, id) \in Nat
  BY <1>1, UnitsFinite
<1>5. M \in SUBSET W /\ IsFiniteSet(M)
  BY <1>4, FS_Subset
<1>6. \A i \in DOMAIN w : i = 1 \/ (i - 1 \in DOMAIN v /\ v[i - 1] = w[i] /\ (i - 1) + 1 = i)
  BY <1>1, <1>2
<1>7. \A i \in DOMAIN v : i + 1 # 1 /\ i \in Int
  BY <1>1, <1>2
<1>8. ASSUME NEW p \in U PROVE F[p] \in M
  <2>1. PICK i \in DOMAIN v : /\ v[i].type = type /\ v[i].id = id
                              /\ \E b \in 1..v[i].len : p = <<i, b>>
    BY UnitsIn
  <2>2. PICK b \in 1..v[i].len : p = <<i, b>>
    BY <2>1
  <2>3. F[p] = <<i + 1, b>>
    BY <2>2
  <2>4. i + 1 \in DOMAIN w /\ w[i + 1] = v[i] /\ i + 1 # 1
    BY <1>1, <1>7
  <2>5. <<i + 1, b>> \in W
    BY <2>1, <2>2, <2>4, UnitsIn
  <2> QED
    BY <2>3, <2>4, <2>5
<1>9. ASSUME NEW q \in M PROVE \E p \in U : F[p] = q
  <2>1. PICK i \in DOMAIN w : /\ w[i].type = type /\ w[i].id = id
                              /\ \E b \in 1..w[i].len : q = <<i, b>>
    BY UnitsIn
  <2>2. PICK b \in 1..w[i].len : q = <<i, b>>
    BY <2>1
  <2>3. i # 1
    BY <2>2
  <2>4. i - 1 \in DOMAIN v /\ v[i - 1] = w[i] /\ (i - 1) + 1 = i
    BY <1>6, <2>3
  <2>5. <<i - 1, b>> \in U
    BY <2>1, <2>2, <2>4, UnitsIn
  <2>6. F[<<i - 1, b>>] = <<i, b>>
    BY <2>4, <2>5
  <2> QED
    BY <2>2, <2>5, <2>6
<1>10. \A p \in U : \E i \in Int : \E b : p = <<i, b>>
  BY <1>7, UnitsIn
<1>11. \A p, q \in U : F[p] = F[q] => p = q
  <2> SUFFICES ASSUME NEW p \in U, NEW q \in U, F[p] = F[q] PROVE p = q
    OBVIOUS
  <2>1. PICK i \in Int : \E b : p = <<i, b>>
    BY <1>10
  <2>2. PICK b : p = <<i, b>>
    BY <2>1
  <2>3. PICK j \in Int : \E c : q = <<j, c>>
    BY <1>10
  <2>4. PICK c : q = <<j, c>>
    BY <2>3
  <2>5. i + 1 = j + 1 /\ b = c
    BY <2>2, <2>4
  <2> QED
    BY <2>2, <2>4, <2>5
<1>12. F \in Bijection(U, M)
  <2>1. F \in [U -> M]
    BY <1>8
  <2> HIDE DEF F, U, M
  <2>2. F \in Injection(U, M)
    BY <1>11, <2>1 DEF Injection, IsInjective
  <2>3. F \in Surjection(U, M)
    BY <1>9, <2>1 DEF Surjection
  <2> QED
    BY <2>2, <2>3 DEF Bijection
<1>13. Cardinality(M) = Cardinality(U)
  <2> HIDE DEF F, U, M
  <2>1. ExistsBijection(U, M)
    BY <1>12 DEF ExistsBijection
  <2> QED
    BY <1>4, <2>1, FS_Bijection
<1>14. IsFiniteSet(V) /\ Cardinality(V) = g.len
  BY <1>3, OneFrame
<1>15. M \cap V = {}
  OBVIOUS
<1>16. \A p : p \in W <=> p \in M \/ (g.type = type /\ g.id = id /\ p \in V)
  BY <1>1, UnitsIn
<1>17. CASE g.type = type /\ g.id = id
  <2>1. W = M \cup V
    BY <1>16, <1>17
  <2>2. Cardinality(M \cup V) = Cardinality(M) + Cardinality(V) - Cardinality({})
    <3> HIDE DEF M, V
    <3> QED
      BY <1>5, <1>14, <1>15, FS_Union
  <2>3. Cardinality({}) = 0
    BY FS_EmptySet
  <2>4. Worth(g, type, id) = g.len
    BY <1>17 DEF Worth
  <2>5. /\ Amount(v, type, id) = Cardinality(U) /\ Amount(w, type, id) = Cardinality(M \cup V)
        /\ v = Tail(w) /\ g = Head(w)
    BY <2>1 DEF Amount, v, g
  <2> HIDE DEF M, U, V
  <2> QED
    BY <1>3, <1>4, <1>13, <1>14, <2>2, <2>3, <2>4, <2>5
<1>18. CASE ~(g.type = type /\ g.id = id)
  <2>1. W = M
    BY <1>16, <1>18
  <2>2. Worth(g, type, id) = 0
    BY <1>18 DEF Worth
  <2> HIDE DEF M
  <2> QED
    BY <1>4, <1>13, <2>1, <2>2 DEF Amount, v, g
<1> QED
  BY <1>17, <1>18

\* A sum of nothing.
LEMMA AmountZero ==
  ASSUME NEW w \in Seq(FrameType), NEW type, NEW id, \A f \in ToSet(w) : Worth(f, type, id) = 0
  PROVE  Amount(w, type, id) = 0
<1>1. \A i \in DOMAIN w : w[i].type = type /\ w[i].id = id => w[i].len = 0
  BY DEF ToSet, Worth
<1>2. 1..0 = {}
  OBVIOUS
<1>3. Units(w, type, id) = {}
  BY <1>1, <1>2, UnitsIn
<1> QED
  BY <1>3, FS_EmptySet DEF Amount

\* What one stream has written is no more than what all have.
LEMMA TotalBounds ==
  ASSUME NEW w \in [Id -> 0..MaxBytes], NEW id \in Id
  PROVE  Total(w) \in Nat /\ w[id] <= Total(w)
<1> DEFINE A == Id \X (1..MaxBytes)
           B == {b \in A : b[2] <= w[b[1]]}
           C == {id} \X (1..w[id])
<1>1. IsFiniteSet(Id)
  <2>1. \A e \in End : Mine(e) \in SUBSET (0..(2 * MaxOpens + 1))
    BY V2Assumption DEF Mine, End
  <2>2. Id \in SUBSET (0..(2 * MaxOpens + 1))
    BY <2>1 DEF Id, End
  <2>3. IsFiniteSet(0..(2 * MaxOpens + 1))
    <3>1. 2 * MaxOpens + 1 \in Int
      BY V2Assumption
    <3> QED
      BY <3>1, FS_Interval
  <2> QED
    BY <2>2, <2>3, FS_Subset
<1>2. MaxBytes \in Nat /\ w[id] \in Nat /\ w[id] <= MaxBytes
  BY V2Assumption
<1>3. IsFiniteSet(1..MaxBytes)
  BY <1>2, FS_Interval
<1>4. IsFiniteSet(A)
  BY <1>1, <1>3, FS_Product
<1>5. B \in SUBSET A /\ IsFiniteSet(B)
  <2>1. B \in SUBSET A
    OBVIOUS
  <2> HIDE DEF B, A
  <2> QED
    BY <1>4, <2>1, FS_Subset
<1>6. C \in SUBSET B
  BY <1>2
<1>7. Cardinality(C) <= Cardinality(B) /\ Cardinality(B) \in Nat
  <2> HIDE DEF B, C
  <2> QED
    BY <1>5, <1>6, FS_Subset, FS_CardinalityType
<1>8. Cardinality(C) = w[id]
  BY <1>2, OneFrame
<1> QED
  BY <1>7, <1>8 DEF Total

(***************************************************************************)
(* What a step does to the wires                                           *)
(***************************************************************************)
\* Nothing or one frame.
Sent == {<<>>} \cup {<<g>> : g \in FrameType}

Took(e) == wire[e] # <<>> /\ wire'[e] = Tail(wire[e])

Gets(o, sent) == wire'[o] = IF shut[o] \/ sent = <<>> THEN wire[o] ELSE wire[o] \o sent

\* A step of e: it takes a frame or none, and sends at most one.
Moves(e, sent) ==
  /\ sent \in Sent
  /\ wire' \in [End -> Seq(FrameType)]
  /\ Took(e) \/ wire'[e] = wire[e]
  /\ Gets(Other(e), sent)

\* What is sent is a sequence of frames.
LEMMA SentFrames ==
  ASSUME NEW w \in Seq(FrameType), NEW sent \in Sent
  PROVE  /\ w \o sent \in Seq(FrameType) /\ (sent = <<>> => w \o sent = w)
         /\ ToSet(w \o sent) = ToSet(w) \cup ToSet(sent) /\ ToSet(sent) \subseteq FrameType
<1>1. CASE sent = <<>>
  BY <1>1 DEF ToSet
<1>2. CASE \E g \in FrameType : sent = <<g>>
  <2>1. PICK g \in FrameType : sent = <<g>>
    BY <1>2
  <2>2. ToSet(sent) = {g} /\ sent # <<>>
    BY <2>1 DEF ToSet
  <2> QED
    BY <2>1, <2>2, Longer
<1> QED
  BY <1>1, <1>2 DEF Sent

\* Exchange is such a step.
LEMMA ExchangeMoves ==
  ASSUME Types, NEW e \in End, NEW sent \in Sent, wire[e] # <<>>, Exchange(e, sent)
  PROVE  Moves(e, sent) /\ Took(e)
<1> DEFINE o == Other(e)
           v == IF shut[o] THEN wire[o] ELSE wire[o] \o sent
<1>1. o \in End /\ o # e /\ wire[e] \in Seq(FrameType) /\ wire[o] \in Seq(FrameType)
  BY Ends DEF Types
<1>2. Tail(wire[e]) \in Seq(FrameType) /\ v \in Seq(FrameType)
  BY <1>1, Shorter, SentFrames
<1>3. wire' = [wire EXCEPT ![e] = Tail(@), ![o] = v]
  BY <1>1 DEF Exchange, Types
<1>4. wire[o] \o <<>> = wire[o]
  BY <1>1
<1> HIDE DEF v
<1>5. wire' \in [End -> Seq(FrameType)] /\ wire'[e] = Tail(wire[e]) /\ wire'[o] = v
  BY <1>1, <1>2, <1>3 DEF Types
<1> QED
  BY <1>4, <1>5 DEF Moves, Took, Gets, v

\* Send is such a step.
LEMMA SendMoves ==
  ASSUME Types, NEW e \in End, NEW sent \in Sent, Send(e, sent)
  PROVE  Moves(e, sent) /\ wire'[e] = wire[e]
<1> DEFINE o == Other(e)
           v == IF shut[o] THEN wire[o] ELSE wire[o] \o sent
<1>1. o \in End /\ o # e /\ wire[e] \in Seq(FrameType) /\ wire[o] \in Seq(FrameType)
  BY Ends DEF Types
<1>2. v \in Seq(FrameType)
  BY <1>1, SentFrames
<1>3. wire' = [wire EXCEPT ![o] = v]
  BY <1>1 DEF Send, Types
<1>4. wire[o] \o <<>> = wire[o]
  BY <1>1
<1> HIDE DEF v
<1>5. wire' \in [End -> Seq(FrameType)] /\ wire'[e] = wire[e] /\ wire'[o] = v
  BY <1>1, <1>2, <1>3 DEF Types
<1> QED
  BY <1>4, <1>5 DEF Moves, Gets, v

\* And so is a step that leaves the wires alone.
LEMMA NoMoves ==
  ASSUME Types, NEW e \in End, wire' = wire
  PROVE  Moves(e, <<>>)
BY Ends DEF Types, Moves, Gets, Sent

\* The frames that are sent have the type of frames.
LEMMA FrameTypes ==
  ASSUME NEW type \in {"window", "data", "ping", "go_away"}, NEW flag \in {"none", "syn", "ack", "fin"},
         NEW id \in Id \cup {0}, NEW len \in Nat
  PROVE  Frame(type, flag, id, len) \in FrameType /\ <<Frame(type, flag, id, len)>> \in Sent
<1>1. <<>> \in Seq(1..MaxBytes)
  OBVIOUS
<1>2. Frame(type, flag, id, len) \in FrameType
  BY <1>1 DEF Frame, FrameType
<1> QED
  BY <1>2 DEF Sent

\* Where the frames after a step come from.
LEMMA MovedFrames ==
  ASSUME Types, NEW e \in End, NEW sent, Moves(e, sent)
  PROVE  /\ ToSet(wire'[e]) \subseteq ToSet(wire[e])
         /\ ToSet(wire'[Other(e)]) \subseteq ToSet(wire[Other(e)]) \cup ToSet(sent)
         /\ shut[Other(e)] => wire'[Other(e)] = wire[Other(e)]
         /\ ToSet(wire[Other(e)]) \subseteq ToSet(wire'[Other(e)])
         /\ \A d \in End : ToSet(wire[d]) \subseteq FrameType
         /\ ToSet(sent) \subseteq FrameType
<1>1. /\ wire[e] \in Seq(FrameType) /\ wire[Other(e)] \in Seq(FrameType) /\ sent \in Sent
      /\ Other(e) \in End
  BY Ends DEF Types, Moves
<1>2. ToSet(wire'[e]) \subseteq ToSet(wire[e])
  BY <1>1, Shorter DEF Moves, Took
<1>3. /\ ToSet(wire'[Other(e)]) \subseteq ToSet(wire[Other(e)]) \cup ToSet(sent)
      /\ ToSet(wire[Other(e)]) \subseteq ToSet(wire'[Other(e)])
      /\ ToSet(sent) \subseteq FrameType
  BY <1>1, SentFrames DEF Moves, Gets
<1>4. \A d \in End : wire[d] \in Seq(FrameType)
  BY DEF Types
<1>5. \A d \in End : ToSet(wire[d]) \subseteq FrameType
  BY <1>4, Elements
<1> QED
  BY <1>2, <1>3, <1>5 DEF Moves, Gets

(***************************************************************************)
(* Types, and what a step of one end leaves alone                          *)
(***************************************************************************)
\* The other end keeps its state; e has changed one stream at most.
Local(e) ==
  /\ sync'[Other(e)] = sync[Other(e)] /\ closed'[Other(e)] = closed[Other(e)]
  /\ shut'[Other(e)] = shut[Other(e)] /\ opens'[Other(e)] = opens[Other(e)]
  /\ pings'[Other(e)] = pings[Other(e)] /\ pending'[Other(e)] = pending[Other(e)]
  /\ ctx'[Other(e)] = ctx[Other(e)] /\ call'[Other(e)] = call[Other(e)]
  /\ accepted'[Other(e)] = accepted[Other(e)] /\ written'[Other(e)] = written[Other(e)]

Puts(e, id, c) ==
  /\ ctx' \in [End -> [Id -> StreamType]] /\ ctx'[Other(e)] = ctx[Other(e)]
  /\ ctx'[e][id] = c /\ \A j \in Id : j # id => ctx'[e][j] = ctx[e][j]

\* A step of e that sends at most one frame.
Shape(e, sent) == Types' /\ Local(e) /\ Moves(e, sent)

\* The frame a call of e takes.
LEMMA FirstFrame ==
  ASSUME Types, NEW e \in End, NEW op, NEW f, Next1(e, op, f)
  PROVE  /\ f \in FrameType /\ f \in ToSet(wire[e]) /\ wire[e] # <<>> /\ f = Head(wire[e])
         /\ call[e].op = op /\ sync[e]
<1>1. wire[e] \in Seq(FrameType)
  BY DEF Types
<1> QED
  BY <1>1, Shorter DEF Next1

\* A stream is set.
LEMMA PutStream ==
  ASSUME Types, NEW e \in End, NEW id \in Id, NEW c \in StreamType,
         ctx' = [ctx EXCEPT ![e][id] = c]
  PROVE  Puts(e, id, c)
<1>1. Other(e) \in End /\ Other(e) # e
  BY Ends
<1>2. ctx \in [End -> [Id -> StreamType]]
  BY DEF Types
<1> QED
  BY <1>1, <1>2 DEF Puts

\* The streams that are set have their type.
LEMMA StreamTypes ==
  /\ NoStream \in StreamType
  /\ \A b \in Seq(1..MaxBytes) : NewStream(b) \in StreamType
  /\ Idle \in CallType
<1>1. <<>> \in Seq(1..MaxBytes) /\ 0 \in 0..Window /\ Window \in 0..Window /\ Window \in Nat
  BY V2Assumption
<1> QED
  BY <1>1 DEF NoStream, NewStream, StreamType, Idle, CallType

\* The fields of a stream.
LEMMA StreamFields ==
  ASSUME Types, NEW e \in End, NEW id \in Id
  PROVE  /\ ctx[e][id] \in StreamType
         /\ ctx[e][id].open \in BOOLEAN /\ ctx[e][id].closed \in BOOLEAN
         /\ ctx[e][id].send \in Nat /\ ctx[e][id].recv \in 0..Window
         /\ ctx[e][id].buffer \in Seq(1..MaxBytes)
<1>1. ctx[e][id] \in StreamType
  BY DEF Types
<1> QED
  BY <1>1 DEF StreamType

\* A call returns.
LEMMA Returned ==
  ASSUME Types, NEW e \in End, Returns(e)
  PROVE  call' \in [End -> CallType] /\ call'[e] = Idle /\ call'[Other(e)] = call[Other(e)]
<1>1. Idle \in CallType
  BY StreamTypes
<1> QED
  BY <1>1, Ends DEF Types, Returns

\* libp2p_yamux_stream_open.
LEMMA OpenTypes ==
  ASSUME Types, NEW e \in End, Open(e)
  PROVE  LET id == e + 2 * opens[e] + 1
         IN  /\ Shape(e, <<Frame("window", "syn", id, 0)>>) /\ wire'[e] = wire[e]
             /\ Puts(e, id, NewStream(<<>>)) /\ id \in Mine(e) /\ id \in Id
<1> DEFINE id == e + 2 * opens[e] + 1
           g == Frame("window", "syn", id, 0)
           k == [op |-> "open", id |-> id, value |-> 0]
<1>1. id \in Mine(e) /\ id \in Id
  BY Fresh, Ids DEF Open
<1> HIDE DEF id
<1>2. <<g>> \in Sent
  BY <1>1, FrameTypes
<1>3. Moves(e, <<g>>) /\ wire'[e] = wire[e]
  BY <1>2, SendMoves DEF Open, id
<1>4. Puts(e, id, NewStream(<<>>))
  <2>1. <<>> \in Seq(1..MaxBytes)
    OBVIOUS
  <2>3. NewStream(<<>>) \in StreamType
    BY <2>1, StreamTypes
  <2>2. ctx' = [ctx EXCEPT ![e][id] = NewStream(<<>>)]
    BY DEF Open, id
  <2> HIDE DEF id
  <2> QED
    BY <1>1, <2>2, <2>3, PutStream
<1>5. k \in CallType /\ call' = [call EXCEPT ![e] = k]
  BY <1>1 DEF Open, Calls, CallType, id
<1>6. opens[e] + 1 \in 0..MaxOpens /\ opens' = [opens EXCEPT ![e] = opens[e] + 1]
  BY V2Assumption DEF Types, Open
<1> HIDE DEF k
<1>7. call' \in [End -> CallType] /\ opens' \in [End -> 0..MaxOpens]
  BY <1>5, <1>6 DEF Types
<1>8. Types'
  BY <1>3, <1>4, <1>7 DEF Types, Open, Moves, Puts, bytes
<1>9. Local(e)
  BY <1>4, <1>5, <1>6, Ends DEF Types, Open, Local, Puts, bytes
<1> QED
  BY <1>1, <1>3, <1>4, <1>8, <1>9 DEF Shape, id

\* A go away ends the session, and with it a call; an open takes its stream back.
LEMMA GoAwayTypes ==
  ASSUME Types, NEW e \in End, CallOK(e), NEW f, wire[e] # <<>>, GoAwayReceived(e, f)
  PROVE  /\ Shape(e, <<>>) /\ Took(e)
         /\ \A id \in Id : ctx'[e][id] = ctx[e][id] \/ ctx'[e][id] = NoStream
<1>1. Moves(e, <<>>) /\ Took(e)
  BY ExchangeMoves DEF GoAwayReceived, Sent
<1>2. /\ call' \in [End -> CallType] /\ call'[e] = Idle /\ call'[Other(e)] = call[Other(e)]
  BY Returned DEF GoAwayReceived
<1>3. /\ ctx' \in [End -> [Id -> StreamType]] /\ ctx'[Other(e)] = ctx[Other(e)]
      /\ \A id \in Id : ctx'[e][id] = ctx[e][id] \/ ctx'[e][id] = NoStream
  <2>1. CASE call[e].op = "open"
    <3>1. call[e].id \in Id
      BY <2>1 DEF CallOK
    <3>2. Puts(e, call[e].id, NoStream)
      BY <2>1, <3>1, StreamTypes, PutStream DEF GoAwayReceived
    <3> QED
      BY <3>2 DEF Puts
  <2>2. CASE call[e].op # "open"
    BY <2>2 DEF GoAwayReceived, Types
  <2> QED
    BY <2>1, <2>2
<1>4. closed' \in [End -> BOOLEAN] /\ shut' \in [End -> BOOLEAN]
  BY DEF Types, GoAwayReceived
<1>5. Types'
  BY <1>1, <1>2, <1>3, <1>4 DEF Types, GoAwayReceived, Moves, bytes
<1>6. Local(e)
  BY <1>2, <1>3, Ends DEF Types, GoAwayReceived, Local, bytes
<1> QED
  BY <1>1, <1>3, <1>5, <1>6 DEF Shape

\* A ping is answered.
LEMMA ControlSends ==
  ASSUME Types, NEW e \in End, NEW f \in FrameType, wire[e] # <<>>, yamux_handle_control_frame(e, f)
  PROVE  LET sent == IF f.flag = "ack" THEN <<>> ELSE <<Frame("ping", "ack", 0, f.len)>>
         IN  Moves(e, sent) /\ Took(e)
<1> DEFINE sent == IF f.flag = "ack" THEN <<>> ELSE <<Frame("ping", "ack", 0, f.len)>>
<1>1. f.len \in Nat
  BY DEF FrameType
<1>2. <<Frame("ping", "ack", 0, f.len)>> \in Sent
  BY <1>1, FrameTypes
<1>3. sent \in Sent
  BY <1>2 DEF Sent
<1>4. Exchange(e, sent)
  BY DEF yamux_handle_control_frame
<1> HIDE DEF sent
<1> QED
  BY <1>3, <1>4, ExchangeMoves DEF sent

\* A frame is discarded.
LEMMA Discarded ==
  ASSUME Types, NEW e \in End, NEW f \in FrameType, Discard(e, f)
  PROVE  /\ sync' \in [End -> BOOLEAN] /\ sync'[Other(e)] = sync[Other(e)]
         /\ sync'[e] = (f.type = "data" \/ f.len = 0)
         /\ dropped' \in [End -> [Id -> SUBSET (1..MaxBytes)]]
<1>1. Other(e) \in End /\ Other(e) # e
  BY Ends
<1>2. /\ sync' \in [End -> BOOLEAN] /\ sync'[Other(e)] = sync[Other(e)]
      /\ sync'[e] = (f.type = "data" \/ f.len = 0)
  BY <1>1 DEF Types, Discard
<1>3. ToSet(f.data) \subseteq 1..MaxBytes
  <2>1. f.data \in Seq(1..MaxBytes)
    BY DEF FrameType
  <2> QED
    BY <2>1, Elements
<1> DEFINE D == [i \in Id |-> IF i = f.id THEN dropped[e][i] \cup ToSet(f.data) ELSE dropped[e][i]]
<1>4. D \in [Id -> SUBSET (1..MaxBytes)]
  BY <1>3 DEF Types
<1>5. dropped' = [dropped EXCEPT ![e] = D]
  BY DEF Discard
<1> HIDE DEF D
<1>6. dropped' \in [End -> [Id -> SUBSET (1..MaxBytes)]]
  BY <1>4, <1>5 DEF Types
<1> QED
  BY <1>2, <1>6

\* Data is kept with its pending entry.
LEMMA KeptTypes ==
  ASSUME Types, NEW e \in End, NEW f \in FrameType, Keep(e, f)
  PROVE  /\ pending' \in [End -> Seq(PendingType)] /\ pending'[Other(e)] = pending[Other(e)]
         /\ DOMAIN pending'[e] = DOMAIN pending[e]
         /\ \A i \in DOMAIN pending[e] : pending'[e][i].id = pending[e][i].id
<1> DEFINE p == pending[e]
           q == [i \in DOMAIN p |-> Extended(p[i], f)]
<1>1. p \in Seq(PendingType) /\ f.data \in Seq(1..MaxBytes)
  BY DEF Types, FrameType
<1>2. ASSUME NEW i \in DOMAIN p PROVE q[i] \in PendingType /\ q[i].id = p[i].id
  <2> DEFINE x == p[i]
             d == x.data \o f.data
  <2>1. x \in PendingType
    BY <1>1
  <2>2. x.data \in Seq(1..MaxBytes)
    BY <2>1 DEF PendingType
  <2>3. d \in Seq(1..MaxBytes)
    BY <1>1, <2>2
  <2>4. q[i] = Extended(x, f)
    OBVIOUS
  <2>5. Extended(x, f) = IF x.id = f.id THEN [x EXCEPT !.data = d] ELSE x
    BY DEF Extended
  <2> HIDE DEF q, x, d
  <2>6. Extended(x, f) \in PendingType /\ Extended(x, f).id = x.id
    BY <2>1, <2>3, <2>5 DEF PendingType
  <2> QED
    BY <2>4, <2>6 DEF x
<1>3. DOMAIN q = DOMAIN p /\ DOMAIN p = 1..Len(p) /\ Len(p) \in Nat
  BY <1>1
<1>4. q \in Seq(PendingType)
  <2>1. q = [i \in 1..Len(p) |-> q[i]]
    BY <1>3
  <2> HIDE DEF q, p
  <2> QED
    BY <1>2, <1>3, <2>1
<1>5. pending' = [pending EXCEPT ![e] = q]
  BY DEF Keep
<1> HIDE DEF q
<1>6. pending' \in [End -> Seq(PendingType)] /\ pending'[Other(e)] = pending[Other(e)] /\ pending'[e] = q
  BY <1>4, <1>5, Ends DEF Types
<1> QED
  BY <1>2, <1>3, <1>6

\* Nobody's state changes but for the wires.
LEMMA ControlTypes ==
  ASSUME Types, NEW e \in End, NEW f \in FrameType, wire[e] # <<>>, Control(e, f)
  PROVE  /\ Shape(e, IF f.flag = "ack" THEN <<>> ELSE <<Frame("ping", "ack", 0, f.len)>>)
         /\ Took(e)
<1> DEFINE sent == IF f.flag = "ack" THEN <<>> ELSE <<Frame("ping", "ack", 0, f.len)>>
<1>1. Moves(e, sent) /\ Took(e)
  BY ControlSends DEF Control
<1> HIDE DEF sent
<1>2. Types' /\ Local(e)
  BY <1>1 DEF Types, Control, Moves, Local, session, stream, bytes
<1> QED
  BY <1>1, <1>2 DEF Shape, sent

\* A send window is set.
LEMMA PutSend ==
  ASSUME Types, NEW e \in End, NEW id \in Id, NEW n \in Nat,
         ctx' = [ctx EXCEPT ![e][id].send = n]
  PROVE  Puts(e, id, [ctx[e][id] EXCEPT !.send = n])
<1> DEFINE c == [ctx[e][id] EXCEPT !.send = n]
<1>1. c \in StreamType
  BY StreamFields DEF StreamType
<1>2. ctx' = [ctx EXCEPT ![e][id] = c]
  BY DEF Types
<1> HIDE DEF c
<1> QED
  BY <1>1, <1>2, PutStream DEF c

\* The window of the stream that is being opened grows, and the open returns at the ACK.
LEMMA OpenWindowTypes ==
  ASSUME Types, NEW e \in End, NEW f \in FrameType, CallOK(e), Next1(e, "open", f), OpenWindow(e, f)
  PROVE  /\ Shape(e, <<>>) /\ Took(e) /\ f.id \in Id /\ f.id = call[e].id
         /\ Puts(e, f.id, [ctx[e][f.id] EXCEPT !.send = @ + f.len])
         /\ call'[e] = IF f.flag = "ack" THEN Idle ELSE call[e]
<1>1. Moves(e, <<>>) /\ Took(e)
  BY FirstFrame, ExchangeMoves DEF OpenWindow, Sent
<1>2. f.id \in Id /\ f.id = call[e].id
  BY FirstFrame DEF OpenWindow, CallOK
<1>3. /\ call' \in [End -> CallType] /\ call'[Other(e)] = call[Other(e)]
      /\ call'[e] = IF f.flag = "ack" THEN Idle ELSE call[e]
  BY Returned DEF OpenWindow, Types
<1>4. Puts(e, f.id, [ctx[e][f.id] EXCEPT !.send = ctx[e][f.id].send + f.len])
  <2> DEFINE n == ctx[e][f.id].send + f.len
  <2>1. n \in Nat
    BY <1>2, StreamFields DEF FrameType
  <2>2. ctx' = [ctx EXCEPT ![e][f.id].send = n]
    BY <1>2 DEF OpenWindow, Types
  <2> HIDE DEF n
  <2>3. Puts(e, f.id, [ctx[e][f.id] EXCEPT !.send = n])
    BY <1>2, <2>1, <2>2, PutSend
  <2> QED
    BY <2>3 DEF n
<1>5. Types' /\ Local(e)
  BY <1>1, <1>3, <1>4 DEF Types, OpenWindow, Moves, Local, Puts, session, bytes
<1> QED
  BY <1>1, <1>2, <1>3, <1>4, <1>5 DEF Shape

\* A SYN is answered and its stream waits.
LEMMA OpenSynTypes ==
  ASSUME Types, NEW e \in End, NEW f \in FrameType, wire[e] # <<>>, f.id \in Id,
         f.id \notin PendingIds(e), OpenSyn(e, f)
  PROVE  /\ Shape(e, <<Frame("window", "ack", f.id, 0)>>) /\ Took(e)
         /\ pending'[e] = <<[id |-> f.id, data |-> <<>>]>> \o pending[e]
<1> DEFINE g == Frame("window", "ack", f.id, 0)
           x == [id |-> f.id, data |-> <<>>]
           p == <<x>> \o pending[e]
<1>1. <<g>> \in Sent
  BY FrameTypes
<1>2. Moves(e, <<g>>) /\ Took(e)
  BY <1>1, ExchangeMoves DEF OpenSyn
<1>3. x \in PendingType
  <2>1. <<>> \in Seq(1..MaxBytes)
    OBVIOUS
  <2> QED
    BY <2>1 DEF PendingType
<1>4. p \in Seq(PendingType)
  <2> HIDE DEF x
  <2>1. pending[e] \in Seq(PendingType)
    BY DEF Types
  <2> QED
    BY <1>3, <2>1
<1>5. pending' = [pending EXCEPT ![e] = p]
  BY DEF OpenSyn
<1> HIDE DEF p
<1>6. pending' \in [End -> Seq(PendingType)] /\ pending'[Other(e)] = pending[Other(e)] /\ pending'[e] = p
  BY <1>4, <1>5, Ends DEF Types
<1>7. Types' /\ Local(e)
  BY <1>2, <1>6 DEF Types, OpenSyn, Moves, Local, session, bytes
<1> QED
  BY <1>2, <1>6, <1>7 DEF Shape, p

\* Data is kept.
LEMMA OpenDataTypes ==
  ASSUME Types, NEW e \in End, NEW f \in FrameType, wire[e] # <<>>, OpenData(e, f)
  PROVE  Shape(e, <<>>) /\ Took(e)
<1>1. Moves(e, <<>>) /\ Took(e)
  BY ExchangeMoves DEF OpenData, Sent
<1>2. pending' \in [End -> Seq(PendingType)] /\ pending'[Other(e)] = pending[Other(e)]
  BY KeptTypes DEF OpenData
<1>3. Types' /\ Local(e)
  BY <1>1, <1>2 DEF Types, OpenData, Moves, Local, session, bytes
<1> QED
  BY <1>1, <1>3 DEF Shape

\* A frame that nobody waits for is thrown away.
Drops(e, f) == OpenOther(e, f) \/ AcceptOther(e, f) \/ ReadOther(e, f)

\* A frame is thrown away.
LEMMA DropsTypes ==
  ASSUME Types, NEW e \in End, NEW f \in FrameType, wire[e] # <<>>, Drops(e, f)
  PROVE  Shape(e, <<>>) /\ Took(e)
<1>1. /\ Exchange(e, <<>>) /\ Discard(e, f)
      /\ UNCHANGED <<session, call, stream, written, got>>
  BY DEF Drops, OpenOther, AcceptOther, ReadOther
<1>2. Moves(e, <<>>) /\ Took(e)
  BY <1>1, ExchangeMoves DEF Sent
<1>3. /\ sync' \in [End -> BOOLEAN] /\ sync'[Other(e)] = sync[Other(e)]
      /\ dropped' \in [End -> [Id -> SUBSET (1..MaxBytes)]]
  BY <1>1, Discarded
<1>4. Types' /\ Local(e)
  BY <1>1, <1>2, <1>3 DEF Types, Moves, Local, session, stream
<1> QED
  BY <1>2, <1>4 DEF Shape

\* A stream is accepted.
LEMMA AcceptedTypes ==
  ASSUME Types, NEW e \in End, NEW id \in Id, NEW b \in Seq(1..MaxBytes), Accepted(e, id, b)
  PROVE  /\ Puts(e, id, NewStream(b)) /\ accepted' \in [End -> [Id -> Nat]]
         /\ accepted'[e][id] = accepted[e][id] + 1 /\ accepted'[Other(e)] = accepted[Other(e)]
         /\ \A j \in Id : j # id => accepted'[e][j] = accepted[e][j]
<1>1. Puts(e, id, NewStream(b))
  BY StreamTypes, PutStream DEF Accepted
<1>2. Other(e) \in End /\ Other(e) # e /\ accepted \in [End -> [Id -> Nat]]
  BY Ends DEF Types
<1>3. accepted' = [accepted EXCEPT ![e][id] = accepted[e][id] + 1]
  BY <1>2 DEF Accepted
<1> QED
  BY <1>1, <1>2, <1>3

\* The latest of the waiting streams is accepted.
LEMMA AcceptPendingTypes ==
  ASSUME Types, NEW e \in End, AcceptPending(e)
  PROVE  LET id == Head(pending[e]).id
         IN  /\ id \in Id /\ Shape(e, <<Frame("window", "ack", id, 0)>>) /\ wire'[e] = wire[e]
             /\ Puts(e, id, NewStream(Head(pending[e]).data)) /\ pending'[e] = Tail(pending[e])
             /\ accepted'[e][id] = accepted[e][id] + 1
             /\ \A j \in Id : j # id => accepted'[e][j] = accepted[e][j]
<1> DEFINE x == Head(pending[e])
           id == x.id
           g == Frame("window", "ack", id, 0)
           p == Tail(pending[e])
<1>1. pending[e] \in Seq(PendingType) /\ pending[e] # <<>>
  BY DEF Types, AcceptPending
<1>2. x \in PendingType /\ p \in Seq(PendingType)
  BY <1>1, Shorter
<1> HIDE DEF x, p
<1>3. id \in Id /\ x.data \in Seq(1..MaxBytes)
  BY <1>2 DEF PendingType
<1> HIDE DEF id
<1>4. <<g>> \in Sent
  BY <1>3, FrameTypes
<1>5. Moves(e, <<g>>) /\ wire'[e] = wire[e]
  BY <1>4, SendMoves DEF AcceptPending, id, x
<1>6. /\ Puts(e, id, NewStream(x.data)) /\ accepted' \in [End -> [Id -> Nat]]
      /\ accepted'[e][id] = accepted[e][id] + 1 /\ accepted'[Other(e)] = accepted[Other(e)]
      /\ \A j \in Id : j # id => accepted'[e][j] = accepted[e][j]
  <2>1. Accepted(e, id, x.data)
    BY DEF AcceptPending, id, x
  <2> QED
    BY <1>3, <2>1, AcceptedTypes
<1>7. pending' = [pending EXCEPT ![e] = p]
  BY DEF AcceptPending, p, Types
<1>8. pending' \in [End -> Seq(PendingType)] /\ pending'[Other(e)] = pending[Other(e)] /\ pending'[e] = p
  BY <1>2, <1>7, Ends DEF Types
<1>9. Types' /\ Local(e)
  BY <1>5, <1>6, <1>8 DEF Types, AcceptPending, Moves, Local, Puts, session, bytes
<1> QED
  BY <1>3, <1>5, <1>6, <1>8, <1>9 DEF Shape, id, x, p

\* An accept begins to wait.
LEMMA AcceptTypes ==
  ASSUME Types, NEW e \in End, Accept(e)
  PROVE  /\ Shape(e, <<>>) /\ wire' = wire
         /\ call'[e] = [op |-> "accept", id |-> 0, value |-> 0]
<1> DEFINE k == [op |-> "accept", id |-> 0, value |-> 0]
<1>1. k \in CallType /\ call' = [call EXCEPT ![e] = k]
  BY DEF Accept, Calls, CallType
<1> HIDE DEF k
<1>2. call' \in [End -> CallType] /\ call'[Other(e)] = call[Other(e)] /\ call'[e] = k
  BY <1>1, Ends DEF Types
<1>3. Moves(e, <<>>) /\ wire' = wire
  BY NoMoves DEF Accept
<1>4. Types' /\ Local(e)
  BY <1>2, <1>3 DEF Types, Accept, Moves, Local, session, stream, bytes
<1> QED
  BY <1>2, <1>3, <1>4 DEF Shape, k

\* A SYN is accepted.
LEMMA AcceptSynTypes ==
  ASSUME Types, NEW e \in End, NEW f \in FrameType, wire[e] # <<>>, f.id \in Id, AcceptSyn(e, f)
  PROVE  /\ Shape(e, <<Frame("window", "ack", f.id, 0)>>) /\ Took(e) /\ call'[e] = Idle
         /\ Puts(e, f.id, NewStream(f.data)) /\ accepted'[e][f.id] = accepted[e][f.id] + 1
         /\ \A j \in Id : j # f.id => accepted'[e][j] = accepted[e][j]
<1> DEFINE g == Frame("window", "ack", f.id, 0)
<1>1. <<g>> \in Sent
  BY FrameTypes
<1>2. Moves(e, <<g>>) /\ Took(e)
  BY <1>1, ExchangeMoves DEF AcceptSyn
<1>3. /\ Puts(e, f.id, NewStream(f.data)) /\ accepted' \in [End -> [Id -> Nat]]
      /\ accepted'[e][f.id] = accepted[e][f.id] + 1 /\ accepted'[Other(e)] = accepted[Other(e)]
      /\ \A j \in Id : j # f.id => accepted'[e][j] = accepted[e][j]
  <2>1. f.data \in Seq(1..MaxBytes)
    BY DEF FrameType
  <2> QED
    BY <2>1, AcceptedTypes DEF AcceptSyn
<1>4. call' \in [End -> CallType] /\ call'[e] = Idle /\ call'[Other(e)] = call[Other(e)]
  BY Returned DEF AcceptSyn
<1>5. Types' /\ Local(e)
  BY <1>2, <1>3, <1>4 DEF Types, AcceptSyn, Moves, Local, Puts, session, bytes
<1> QED
  BY <1>2, <1>3, <1>4, <1>5 DEF Shape

\* What a write sends: count bytes, no more than the window.
Chunk(e, id, count) == [i \in 1..count |-> written[e][id] + i]

\* A write takes what it sends off the window.
LEMMA WriteTypes ==
  ASSUME Types, NEW e \in End, NEW id \in Id, NEW n \in 1..MaxBytes, Write(e, id, n)
  PROVE  \E count \in Nat \ {0} :
           /\ count <= ctx[e][id].send
           /\ Shape(e, <<Data(id, Chunk(e, id, count))>>) /\ wire'[e] = wire[e]
           /\ Data(id, Chunk(e, id, count)).len = count
           /\ Len(Chunk(e, id, count)) = count
           /\ Puts(e, id, [ctx[e][id] EXCEPT !.send = @ - count])
           /\ written'[e][id] = written[e][id] + count
           /\ \A j \in Id : j # id => written'[e][j] = written[e][j]
<1> DEFINE send == ctx[e][id].send
           count == Least(n, send)
           d == Chunk(e, id, count)
           g == Data(id, d)
           m == send - count
           w == written[e][id] + count
<1>1. send \in Nat /\ n \in Nat /\ written[e][id] \in 0..MaxBytes
  BY StreamFields, V2Assumption DEF Types
<1>2. count \in Nat /\ count > 0 /\ count <= send
  BY <1>1 DEF Write, Least
<1>3. Total(written[e]) \in Nat /\ written[e][id] <= Total(written[e])
  <2>1. written[e] \in [Id -> 0..MaxBytes]
    BY DEF Types
  <2> QED
    BY <2>1, TotalBounds
<1>4. Total(written[e]) + count <= MaxBytes
  BY DEF Write
<1> HIDE DEF count, send
<1>5. w \in 0..MaxBytes /\ m \in Nat /\ \A i \in 1..count : written[e][id] + i \in 1..MaxBytes
  BY <1>1, <1>2, <1>3, <1>4, V2Assumption
<1>6. d \in Seq(1..MaxBytes) /\ Len(d) = count
  <2>1. d = [i \in 1..count |-> written[e][id] + i]
    BY DEF Chunk
  <2>2. d = [i \in 1..count |-> d[i]] /\ \A i \in 1..count : d[i] \in 1..MaxBytes
    BY <1>5, <2>1
  <2> HIDE DEF d
  <2> QED
    BY <1>2, <2>2, Listed
<1> HIDE DEF d
<1>7. g \in FrameType /\ <<g>> \in Sent /\ g.len = count
  BY <1>2, <1>6 DEF Data, FrameType, Sent
<1>8. Moves(e, <<g>>) /\ wire'[e] = wire[e]
  <2>1. Send(e, <<g>>)
    BY DEF Write, d, Chunk, count, send
  <2> HIDE DEF g
  <2> QED
    BY <1>7, <2>1, SendMoves
<1>9. Puts(e, id, [ctx[e][id] EXCEPT !.send = m])
  <2>1. ctx' = [ctx EXCEPT ![e][id].send = m]
    BY DEF Write, Types, count, send
  <2> HIDE DEF m
  <2> QED
    BY <1>5, <2>1, PutSend
<1>10. written' = [written EXCEPT ![e][id] = w]
  BY DEF Write, Types, count, send
<1> HIDE DEF g, w, m
<1>11. /\ written' \in [End -> [Id -> 0..MaxBytes]] /\ written'[Other(e)] = written[Other(e)]
       /\ written'[e][id] = w /\ \A j \in Id : j # id => written'[e][j] = written[e][j]
  BY <1>5, <1>10, Ends DEF Types
<1>12. Types' /\ Local(e)
  BY <1>8, <1>9, <1>11 DEF Types, Write, Moves, Local, Puts, session
<1>13. /\ count \in Nat \ {0} /\ count <= ctx[e][id].send
       /\ Shape(e, <<Data(id, Chunk(e, id, count))>>) /\ wire'[e] = wire[e]
       /\ Data(id, Chunk(e, id, count)).len = count
       /\ Len(Chunk(e, id, count)) = count
       /\ Puts(e, id, [ctx[e][id] EXCEPT !.send = ctx[e][id].send - count])
       /\ written'[e][id] = written[e][id] + count
       /\ \A j \in Id : j # id => written'[e][j] = written[e][j]
  BY <1>2, <1>6, <1>7, <1>8, <1>9, <1>11, <1>12 DEF Shape, w, send, m, g, d
<1> QED
  BY <1>13

\* A part of a sequence.
LEMMA Part ==
  ASSUME NEW S, NEW b \in Seq(S), NEW m \in 1..(Len(b) + 1), NEW n \in 0..Len(b)
  PROVE  SubSeq(b, m, n) \in Seq(S)
OBVIOUS

\* Delivered bytes are appended.
LEMMA GotTypes ==
  ASSUME Types, NEW e \in End, NEW id \in Id, NEW b \in Seq(1..MaxBytes),
         got' = [got EXCEPT ![e][id] = @ \o b]
  PROVE  got' \in [End -> [Id -> Seq(1..MaxBytes)]]
<1> DEFINE s == got[e][id] \o b
<1>1. got \in [End -> [Id -> Seq(1..MaxBytes)]]
  BY DEF Types
<1>2. s \in Seq(1..MaxBytes)
  <2>1. got[e][id] \in Seq(1..MaxBytes)
    BY <1>1
  <2> QED
    BY <2>1
<1>3. got' = [got EXCEPT ![e][id] = s]
  BY <1>1
<1> HIDE DEF s
<1> QED
  BY <1>1, <1>2, <1>3

\* A buffer is set.
LEMMA PutBuffer ==
  ASSUME Types, NEW e \in End, NEW id \in Id, NEW b \in Seq(1..MaxBytes),
         ctx' = [ctx EXCEPT ![e][id].buffer = b]
  PROVE  Puts(e, id, [ctx[e][id] EXCEPT !.buffer = b])
<1> DEFINE c == [ctx[e][id] EXCEPT !.buffer = b]
<1>1. c \in StreamType
  BY StreamFields DEF StreamType
<1>2. ctx' = [ctx EXCEPT ![e][id] = c]
  BY DEF Types
<1> HIDE DEF c
<1> QED
  BY <1>1, <1>2, PutStream DEF c

\* A read takes what is buffered or begins to wait.
LEMMA ReadTypes ==
  ASSUME Types, NEW e \in End, NEW id \in Id, Read(e, id, 1)
  PROVE  /\ Shape(e, <<>>) /\ wire' = wire
         /\ \/ ctx' = ctx /\ call'[e] = [op |-> "read", id |-> id, value |-> 1]
            \/ call' = call /\ \E b : Puts(e, id, [ctx[e][id] EXCEPT !.buffer = b])
<1> DEFINE b == ctx[e][id].buffer
           k == Least(1, Len(b))
           x == SubSeq(b, 1, k)
           y == SubSeq(b, k + 1, Len(b))
<1>1. Moves(e, <<>>) /\ wire' = wire
  BY NoMoves DEF Read
<1>2. CASE b = <<>>
  <2> DEFINE r == [op |-> "read", id |-> id, value |-> 1]
  <2>1. r \in CallType /\ call' = [call EXCEPT ![e] = r] /\ ctx' = ctx /\ got' = got
    BY <1>2 DEF Read, Calls, CallType
  <2> HIDE DEF r
  <2>2. call' \in [End -> CallType] /\ call'[Other(e)] = call[Other(e)] /\ call'[e] = r
    BY <2>1, Ends DEF Types
  <2>3. Types' /\ Local(e)
    BY <1>1, <2>1, <2>2 DEF Types, Read, Moves, Local, session
  <2> QED
    BY <1>1, <2>1, <2>2, <2>3 DEF Shape, r
<1>3. CASE b # <<>>
  <2>1. b \in Seq(1..MaxBytes) /\ Len(b) \in Nat
    BY StreamFields
  <2>2. k \in 0..Len(b) /\ k + 1 \in 1..(Len(b) + 1) /\ 1 \in 1..(Len(b) + 1) /\ Len(b) \in 0..Len(b)
    BY <2>1 DEF Least
  <2>3. x \in Seq(1..MaxBytes) /\ y \in Seq(1..MaxBytes)
    <3> HIDE DEF b, k
    <3> QED
      BY <2>1, <2>2, Part
  <2>4. /\ got' = [got EXCEPT ![e][id] = @ \o x] /\ ctx' = [ctx EXCEPT ![e][id].buffer = y]
        /\ call' = call
    BY <1>3 DEF Read
  <2> HIDE DEF x, y
  <2>5. got' \in [End -> [Id -> Seq(1..MaxBytes)]] /\ Puts(e, id, [ctx[e][id] EXCEPT !.buffer = y])
    BY <2>3, <2>4, GotTypes, PutBuffer
  <2>6. Types' /\ Local(e)
    BY <1>1, <2>4, <2>5 DEF Types, Read, Moves, Local, Puts, session
  <2> QED
    BY <1>1, <2>4, <2>5, <2>6 DEF Shape
<1> QED
  BY <1>2, <1>3

\* A window frame changes the stream that is read.
LEMMA ReadWindowTypes ==
  ASSUME Types, NEW e \in End, NEW f \in FrameType, CallOK(e), Next1(e, "read", f), ReadWindow(e, f)
  PROVE  /\ Shape(e, <<>>) /\ Took(e)
         /\ IF f.id = call[e].id
            THEN f.id \in Id /\ Puts(e, f.id, [ctx[e][f.id] EXCEPT !.send = @ + f.len])
            ELSE ctx' = ctx
<1>1. Moves(e, <<>>) /\ Took(e)
  BY FirstFrame, ExchangeMoves DEF ReadWindow, Sent
<1>2. CASE f.id = call[e].id
  <2>1. f.id \in Id
    BY <1>2, FirstFrame DEF CallOK
  <2> DEFINE n == ctx[e][f.id].send + f.len
  <2>2. n \in Nat
    BY <2>1, StreamFields DEF FrameType
  <2>3. ctx' = [ctx EXCEPT ![e][f.id].send = n]
    BY <1>2, <2>1 DEF ReadWindow, Types
  <2> HIDE DEF n
  <2>4. Puts(e, f.id, [ctx[e][f.id] EXCEPT !.send = n])
    BY <2>1, <2>2, <2>3, PutSend
  <2>5. Types' /\ Local(e)
    BY <1>1, <2>4 DEF Types, ReadWindow, Moves, Local, Puts, session, bytes
  <2> QED
    BY <1>1, <1>2, <2>1, <2>4, <2>5 DEF Shape, n
<1>3. CASE f.id # call[e].id
  <2>1. ctx' = ctx
    BY <1>3 DEF ReadWindow
  <2>2. Types' /\ Local(e)
    BY <1>1, <2>1 DEF Types, ReadWindow, Moves, Local, session, bytes
  <2> QED
    BY <1>1, <1>3, <2>1, <2>2 DEF Shape
<1> QED
  BY <1>2, <1>3

\* Data for a waiting stream is kept and credited.
LEMMA ReadPendingTypes ==
  ASSUME Types, NEW e \in End, NEW f \in FrameType, wire[e] # <<>>, ReadPending(e, f)
  PROVE  Shape(e, <<Frame("window", "none", f.id, f.len)>>) /\ Took(e)
<1> DEFINE g == Frame("window", "none", f.id, f.len)
<1>1. <<g>> \in Sent
  BY FrameTypes DEF FrameType
<1>2. Moves(e, <<g>>) /\ Took(e)
  BY <1>1, ExchangeMoves DEF ReadPending
<1>3. pending' \in [End -> Seq(PendingType)] /\ pending'[Other(e)] = pending[Other(e)]
  BY KeptTypes DEF ReadPending
<1>4. Types' /\ Local(e)
  BY <1>2, <1>3 DEF Types, ReadPending, Moves, Local, session, bytes
<1> QED
  BY <1>2, <1>4 DEF Shape

\* A FIN closes the stream that is read.
LEMMA ReadFinTypes ==
  ASSUME Types, NEW e \in End, NEW f \in FrameType, CallOK(e), Next1(e, "read", f), ReadFin(e, f)
  PROVE  /\ Shape(e, <<>>) /\ Took(e) /\ call'[e] = Idle /\ f.id \in Id
         /\ Puts(e, f.id, [ctx[e][f.id] EXCEPT !.closed = TRUE])
<1>1. Moves(e, <<>>) /\ Took(e)
  BY FirstFrame, ExchangeMoves DEF ReadFin, Sent
<1>2. call' \in [End -> CallType] /\ call'[e] = Idle /\ call'[Other(e)] = call[Other(e)]
  BY Returned DEF ReadFin
<1>3. f.id \in Id
  BY FirstFrame DEF CallOK, ReadFin
<1> DEFINE c == [ctx[e][f.id] EXCEPT !.closed = TRUE]
<1>4. c \in StreamType
  BY <1>3, StreamFields DEF StreamType
<1>5. ctx' = [ctx EXCEPT ![e][f.id] = c]
  BY <1>3 DEF Types, ReadFin
<1> HIDE DEF c
<1>6. Puts(e, f.id, c)
  BY <1>3, <1>4, <1>5, PutStream
<1>7. Types' /\ Local(e)
  BY <1>1, <1>2, <1>6 DEF Types, ReadFin, Moves, Local, Puts, session, bytes
<1> QED
  BY <1>1, <1>2, <1>3, <1>6, <1>7 DEF Shape, c

\* The window stays within its initial size.
LEMMA WindowArithmetic ==
  ASSUME NEW recv \in 0..Window, NEW len \in Nat
  PROVE  /\ Left(recv, len) \in 0..Window /\ Increment(recv, len) \in Nat
         /\ Left(recv, len) + Increment(recv, len) \in 0..Window
         /\ len <= recv => Left(recv, len) = recv - len
BY V2Assumption DEF Left, Increment

\* Data is delivered, the rest of it buffered, and the window given back.
LEMMA ReadDataTypes ==
  ASSUME Types, NEW e \in End, NEW f \in FrameType, CallOK(e), DataOK(e, f), Next1(e, "read", f),
         ReadData(e, f)
  PROVE  LET recv == ctx[e][f.id].recv
             inc == Increment(recv, f.len)
             sent == IF inc > 0 THEN <<Frame("window", "none", f.id, inc)>> ELSE <<>>
         IN  /\ Shape(e, sent) /\ Took(e) /\ call'[e] = Idle /\ f.id \in Id
             /\ \E b : Puts(e, f.id, [ctx[e][f.id] EXCEPT !.recv = Left(recv, f.len) + inc, !.buffer = b])
<1> DEFINE recv == ctx[e][f.id].recv
           inc == Increment(recv, f.len)
           sent == IF inc > 0 THEN <<Frame("window", "none", f.id, inc)>> ELSE <<>>
           k == Least(call[e].value, f.len)
           x == SubSeq(f.data, 1, k)
           y == SubSeq(f.data, k + 1, f.len)
           r == Left(recv, f.len) + inc
           c == [ctx[e][f.id] EXCEPT !.recv = r, !.buffer = y]
<1>1. f.id \in Id /\ f.type = "data"
  BY FirstFrame DEF CallOK, ReadData
<1>2. recv \in 0..Window /\ f.len \in Nat
  BY <1>1, StreamFields DEF FrameType
<1>3. inc \in Nat /\ r \in 0..Window
  BY <1>2, WindowArithmetic
<1>4. sent \in Sent
  <2>1. <<Frame("window", "none", f.id, inc)>> \in Sent
    BY <1>1, <1>3, FrameTypes
  <2> QED
    BY <2>1 DEF Sent
<1>5. Moves(e, sent) /\ Took(e)
  <2>1. Exchange(e, sent)
    BY DEF ReadData
  <2> HIDE DEF sent
  <2> QED
    BY <1>4, <2>1, FirstFrame, ExchangeMoves
<1>6. call' \in [End -> CallType] /\ call'[e] = Idle /\ call'[Other(e)] = call[Other(e)]
  BY Returned DEF ReadData
<1>7. x \in Seq(1..MaxBytes) /\ y \in Seq(1..MaxBytes)
  <2>1. f.data \in Seq(1..MaxBytes) /\ f.len = Len(f.data)
    BY <1>1 DEF FrameType, DataOK
  <2>2. call[e].value \in Nat
    BY DEF Types, CallType
  <2>3. k \in 0..f.len /\ k + 1 \in 1..(f.len + 1) /\ 1 \in 1..(f.len + 1) /\ f.len \in 0..f.len
    BY <1>2, <2>2 DEF Least
  <2> DEFINE b == f.data
  <2> HIDE DEF k, b
  <2>4. b \in Seq(1..MaxBytes) /\ f.len = Len(b)
    BY <2>1 DEF b
  <2>5. SubSeq(b, 1, k) \in Seq(1..MaxBytes) /\ SubSeq(b, k + 1, f.len) \in Seq(1..MaxBytes)
    BY <2>3, <2>4, Part
  <2> QED
    BY <2>5 DEF b
<1>8. got' = [got EXCEPT ![e][f.id] = @ \o x] /\ ctx' = [ctx EXCEPT ![e][f.id].recv = r, ![e][f.id].buffer = y]
  BY DEF ReadData
<1> HIDE DEF x, y, r, sent
<1>9. c \in StreamType
  BY <1>1, <1>3, <1>7, StreamFields DEF StreamType
<1>10. ctx' = [ctx EXCEPT ![e][f.id] = c]
  BY <1>1, <1>8 DEF Types
<1> HIDE DEF c
<1>11. got' \in [End -> [Id -> Seq(1..MaxBytes)]] /\ Puts(e, f.id, c)
  BY <1>1, <1>7, <1>8, <1>9, <1>10, GotTypes, PutStream
<1>12. Types' /\ Local(e)
  BY <1>5, <1>6, <1>11 DEF Types, ReadData, Moves, Local, Puts, session
<1> QED
  BY <1>1, <1>5, <1>6, <1>11, <1>12 DEF Shape, c, r, sent

\* A stream is closed; the other end is told unless it knows.
LEMMA CloseTypes ==
  ASSUME Types, NEW e \in End, NEW id \in Id, CloseStream(e, id)
  PROVE  /\ Shape(e, IF ctx[e][id].closed \/ closed[e] THEN <<>> ELSE <<Frame("data", "fin", id, 0)>>)
         /\ wire'[e] = wire[e] /\ Puts(e, id, NoStream)
<1> DEFINE sent == IF ctx[e][id].closed \/ closed[e] THEN <<>> ELSE <<Frame("data", "fin", id, 0)>>
<1>1. sent \in Sent
  <2>1. <<Frame("data", "fin", id, 0)>> \in Sent
    BY FrameTypes
  <2> QED
    BY <2>1 DEF Sent
<1>2. Moves(e, sent) /\ wire'[e] = wire[e]
  <2>1. Send(e, sent)
    BY DEF CloseStream
  <2> HIDE DEF sent
  <2> QED
    BY <1>1, <2>1, SendMoves
<1>3. Puts(e, id, NoStream)
  BY StreamTypes, PutStream DEF CloseStream
<1> HIDE DEF sent
<1>4. Types' /\ Local(e)
  BY <1>2, <1>3 DEF Types, CloseStream, Moves, Local, Puts, session, bytes
<1> QED
  BY <1>2, <1>3, <1>4 DEF Shape, sent

\* A ping is sent.
LEMMA PingTypes ==
  ASSUME Types, NEW e \in End, libp2p_yamux_session_ping(e)
  PROVE  /\ Shape(e, <<Frame("ping", "none", 0, pings[e] + 1)>>) /\ wire'[e] = wire[e]
         /\ pings'[e] = pings[e] + 1 /\ pings[e] \in Nat
         /\ call'[e] = [op |-> "ping", id |-> 0, value |-> pings[e] + 1]
<1> DEFINE n == pings[e] + 1
           k == [op |-> "ping", id |-> 0, value |-> n]
<1>1. n \in 0..MaxPings /\ pings[e] \in Nat /\ n \in Nat
  BY V2Assumption DEF Types, libp2p_yamux_session_ping
<1>2. pings' = [pings EXCEPT ![e] = n]
  BY DEF libp2p_yamux_session_ping, Types
<1>3. call' = [call EXCEPT ![e] = k]
  BY DEF libp2p_yamux_session_ping, Calls
<1>4. Send(e, <<Frame("ping", "none", 0, n)>>)
  BY DEF libp2p_yamux_session_ping
<1> HIDE DEF n
<1>5. k \in CallType
  BY <1>1 DEF CallType
<1>6. Moves(e, <<Frame("ping", "none", 0, n)>>) /\ wire'[e] = wire[e]
  BY <1>1, <1>4, FrameTypes, SendMoves
<1> HIDE DEF k
<1>7. /\ call' \in [End -> CallType] /\ call'[Other(e)] = call[Other(e)] /\ call'[e] = k
      /\ pings' \in [End -> 0..MaxPings] /\ pings'[Other(e)] = pings[Other(e)] /\ pings'[e] = n
  BY <1>1, <1>2, <1>3, <1>5, Ends DEF Types
<1>8. Types' /\ Local(e)
  BY <1>6, <1>7 DEF Types, libp2p_yamux_session_ping, Moves, Local, stream, bytes
<1> QED
  BY <1>1, <1>6, <1>7, <1>8 DEF Shape, k, n

\* A ping has been answered.
LEMMA PongTypes ==
  ASSUME Types, NEW e \in End, NEW f \in FrameType, wire[e] # <<>>, Pong(e, f)
  PROVE  Shape(e, <<>>) /\ Took(e) /\ call'[e] = Idle
<1>1. Moves(e, <<>>) /\ Took(e)
  BY ExchangeMoves DEF Pong, Sent
<1>2. call' \in [End -> CallType] /\ call'[e] = Idle /\ call'[Other(e)] = call[Other(e)]
  BY Returned DEF Pong
<1>3. Types' /\ Local(e)
  BY <1>1, <1>2 DEF Types, Pong, Moves, Local, session, stream, bytes
<1> QED
  BY <1>1, <1>2, <1>3 DEF Shape

\* While it waits, an end answers pings and throws the other frames away.
LEMMA PingOtherTypes ==
  ASSUME Types, NEW e \in End, NEW f \in FrameType, wire[e] # <<>>, PingOther(e, f)
  PROVE  /\ Shape(e, IF f.type = "ping" /\ f.flag # "ack" THEN <<Frame("ping", "ack", 0, f.len)>> ELSE <<>>)
         /\ Took(e)
<1> DEFINE sent == IF f.type = "ping" /\ f.flag # "ack" THEN <<Frame("ping", "ack", 0, f.len)>> ELSE <<>>
<1>1. Moves(e, sent) /\ Took(e)
  <2>1. CASE f.type = "ping"
    BY <2>1, ControlSends DEF PingOther
  <2>2. CASE f.type # "ping"
    BY <2>2, ExchangeMoves DEF PingOther, Sent
  <2> QED
    BY <2>1, <2>2
<1>2. /\ sync' \in [End -> BOOLEAN] /\ sync'[Other(e)] = sync[Other(e)]
      /\ dropped' \in [End -> [Id -> SUBSET (1..MaxBytes)]]
  BY Discarded DEF PingOther
<1> HIDE DEF sent
<1>3. Types' /\ Local(e)
  BY <1>1, <1>2 DEF Types, PingOther, Moves, Local, session, stream
<1> QED
  BY <1>1, <1>3 DEF Shape, sent

\* An end says that it goes away.
LEMMA GoodbyeTypes ==
  ASSUME Types, NEW e \in End, libp2p_yamux_session_goaway(e)
  PROVE  /\ Shape(e, <<Frame("go_away", "none", 0, 0)>>) /\ wire'[e] = wire[e]
         /\ closed'[e] /\ shut'[e]
<1> DEFINE g == Frame("go_away", "none", 0, 0)
<1>1. <<g>> \in Sent
  BY FrameTypes
<1>2. Moves(e, <<g>>) /\ wire'[e] = wire[e]
  BY <1>1, SendMoves DEF libp2p_yamux_session_goaway
<1>3. /\ closed' \in [End -> BOOLEAN] /\ closed'[Other(e)] = closed[Other(e)] /\ closed'[e]
      /\ shut' \in [End -> BOOLEAN] /\ shut'[Other(e)] = shut[Other(e)] /\ shut'[e]
  BY Ends DEF Types, libp2p_yamux_session_goaway
<1>4. Types' /\ Local(e)
  BY <1>2, <1>3 DEF Types, libp2p_yamux_session_goaway, Moves, Local, stream, bytes
<1> QED
  BY <1>2, <1>3, <1>4 DEF Shape

\* A session is freed.
LEMMA FreeTypes ==
  ASSUME Types, NEW e \in End, libp2p_yamux_session_free(e)
  PROVE  /\ Shape(e, <<>>) /\ wire' = wire /\ pending'[e] = <<>>
         /\ closed'[e] /\ shut'[e]
<1>1. Moves(e, <<>>) /\ wire' = wire
  BY NoMoves DEF libp2p_yamux_session_free
<1>2. /\ closed' \in [End -> BOOLEAN] /\ closed'[Other(e)] = closed[Other(e)] /\ closed'[e]
      /\ shut' \in [End -> BOOLEAN] /\ shut'[Other(e)] = shut[Other(e)] /\ shut'[e]
  BY Ends DEF Types, libp2p_yamux_session_free
<1>3. <<>> \in Seq(PendingType)
  OBVIOUS
<1>4. pending' \in [End -> Seq(PendingType)] /\ pending'[Other(e)] = pending[Other(e)] /\ pending'[e] = <<>>
  BY <1>3, Ends DEF Types, libp2p_yamux_session_free
<1>5. Types' /\ Local(e)
  BY <1>1, <1>2, <1>4 DEF Types, libp2p_yamux_session_free, Moves, Local, bytes
<1> QED
  BY <1>1, <1>2, <1>4, <1>5 DEF Shape

\* A call fails.
LEMMA FailedTypes ==
  ASSUME Types, NEW e \in End, CallOK(e), Fails(e)
  PROVE  /\ call' \in [End -> CallType] /\ call'[e] = Idle /\ call'[Other(e)] = call[Other(e)]
         /\ ctx' \in [End -> [Id -> StreamType]] /\ ctx'[Other(e)] = ctx[Other(e)]
         /\ \A id \in Id : ctx'[e][id] = ctx[e][id] \/ ctx'[e][id] = NoStream
         /\ call[e].op = "open" => ctx'[e][call[e].id] = NoStream
<1>1. call' \in [End -> CallType] /\ call'[e] = Idle /\ call'[Other(e)] = call[Other(e)]
  BY Returned DEF Fails
<1>2. CASE call[e].op = "open"
  <2>1. call[e].id \in Id
    BY <1>2 DEF CallOK
  <2>2. Puts(e, call[e].id, NoStream)
    BY <1>2, <2>1, StreamTypes, PutStream DEF Fails
  <2> QED
    BY <1>1, <2>2 DEF Puts
<1>3. CASE call[e].op # "open"
  BY <1>1, <1>3 DEF Fails, Types
<1> QED
  BY <1>2, <1>3

\* A read fails.
LEMMA ReadFailsTypes ==
  ASSUME Types, NEW e \in End, CallOK(e), ReadFails(e)
  PROVE  Shape(e, <<>>) /\ wire' = wire
<1>1. Moves(e, <<>>) /\ wire' = wire
  BY NoMoves DEF ReadFails
<1>2. Types' /\ Local(e)
  BY <1>1, FailedTypes DEF Types, ReadFails, Moves, Local, session, bytes
<1> QED
  BY <1>1, <1>2 DEF Shape

\* An answer cannot be written.
LEMMA AnswerFailsTypes ==
  ASSUME Types, NEW e \in End, CallOK(e), AnswerFails(e)
  PROVE  Shape(e, <<>>) /\ Took(e)
<1>1. Moves(e, <<>>) /\ Took(e)
  BY ExchangeMoves DEF AnswerFails, Sent
<1>2. Types' /\ Local(e)
  BY <1>1, FailedTypes DEF Types, AnswerFails, Moves, Local, session, bytes
<1> QED
  BY <1>1, <1>2 DEF Shape

\* The first frame of a call cannot be written.
LEMMA FirstWriteTypes ==
  ASSUME Types, NEW e \in End, FirstWriteFails(e)
  PROVE  Shape(e, <<>>) /\ wire' = wire
<1>1. Moves(e, <<>>) /\ wire' = wire
  BY NoMoves DEF FirstWriteFails
<1>2. opens' \in [End -> 0..MaxOpens] /\ opens'[Other(e)] = opens[Other(e)]
  <2>1. CASE opens[e] < MaxOpens /\ opens' = [opens EXCEPT ![e] = @ + 1]
    <3>1. opens[e] + 1 \in 0..MaxOpens
      BY <2>1, V2Assumption DEF Types
    <3> QED
      BY <2>1, <3>1, Ends DEF Types
  <2>2. CASE opens' = opens
    BY <2>2 DEF Types
  <2> QED
    BY <2>1, <2>2 DEF FirstWriteFails
<1>3. pings' \in [End -> 0..MaxPings] /\ pings'[Other(e)] = pings[Other(e)]
  <2>1. CASE pings[e] < MaxPings /\ pings' = [pings EXCEPT ![e] = @ + 1]
    <3>1. pings[e] + 1 \in 0..MaxPings
      BY <2>1, V2Assumption DEF Types
    <3> QED
      BY <2>1, <3>1, Ends DEF Types
  <2>2. CASE pings' = pings
    BY <2>2 DEF Types
  <2> QED
    BY <2>1, <2>2 DEF FirstWriteFails
<1>4. pending' \in [End -> Seq(PendingType)] /\ pending'[Other(e)] = pending[Other(e)]
  <2>1. CASE pending[e] # <<>> /\ pending' = [pending EXCEPT ![e] = Tail(@)]
    <3>1. pending[e] \in Seq(PendingType)
      BY DEF Types
    <3>2. Tail(pending[e]) \in Seq(PendingType)
      BY <2>1, <3>1, Shorter
    <3> QED
      BY <2>1, <3>2, Ends DEF Types
  <2> QED
    BY <2>1 DEF FirstWriteFails, Types
<1>5. Types' /\ Local(e)
  BY <1>1, <1>2, <1>3, <1>4 DEF Types, FirstWriteFails, Moves, Local, bytes
<1> QED
  BY <1>1, <1>5 DEF Shape

(***************************************************************************)
(* What a step keeps                                                       *)
(***************************************************************************)
\* What e has done is not undone.
GrowsAt(e) ==
  /\ Opened(e) \subseteq Opened(e)' /\ pings[e] <= pings'[e]
  /\ shut[e] => shut'[e]
  /\ closed[e] => closed'[e]
  /\ sync'[e] => sync[e]
  /\ \A id \in Id : written[e][id] > 0 => written'[e][id] > 0
  /\ \A id \in Id : Known(e, id) => Known(e, id)'

Grows == \A e \in End : GrowsAt(e)

\* The other end has done nothing.
LEMMA OtherSame ==
  ASSUME Types, NEW e \in End, Local(e)
  PROVE  /\ Opened(Other(e))' = Opened(Other(e)) /\ PendingIds(Other(e))' = PendingIds(Other(e))
         /\ \A id \in Id : Unheard(Other(e), id)' <=> Unheard(Other(e), id)
BY DEF Local, Opened, PendingIds, Unheard

\* A step that undoes nothing of e undoes nothing.
LEMMA GrowsAll ==
  ASSUME Types, NEW e \in End, Local(e), GrowsAt(e)
  PROVE  Grows
<1> DEFINE o == Other(e)
<1>1. o \in End /\ \A d \in End : d = e \/ d = o
  BY Ends
<1>2. pings[o] \in Nat /\ pings[o] <= pings[o]
  BY <1>1, V2Assumption DEF Types
<1>3. \A d \in End : shut[d] => shut'[d]
  BY <1>1 DEF Local, GrowsAt
<1>4. \A id \in Id : Known(o, id) => Known(o, id)'
  BY <1>3, OtherSame DEF Known, Local
<1>5. GrowsAt(o)
  BY <1>1, <1>2, <1>4, OtherSame DEF Local, GrowsAt
<1> QED
  BY <1>1, <1>5 DEF Grows

\* A frame stays what it is, but for a SYN that has been heard.
LEMMA FrameKept ==
  ASSUME Types, Types', Grows, NEW d \in End, NEW f \in FrameType, FrameOK(d, f),
         f.flag = "syn" => Unheard(d, f.id)'
  PROVE  FrameOK(d, f)'
<1>1. Other(d) \in End /\ f.len \in Nat
  BY Ends DEF FrameType
<1>2. WindowOK(d, f)'
  BY <1>1 DEF FrameOK, WindowOK, Grows, GrowsAt
<1>3. DataOK(d, f)'
  BY <1>1 DEF FrameOK, DataOK, Grows, GrowsAt
<1>4. PingOK(d, f)'
  <2>1. /\ pings[d] <= pings'[d] /\ pings[Other(d)] <= pings'[Other(d)]
        /\ pings[d] \in Nat /\ pings'[d] \in Nat /\ pings[Other(d)] \in Nat /\ pings'[Other(d)] \in Nat
    BY <1>1, V2Assumption DEF Grows, GrowsAt, Types
  <2> QED
    BY <1>1, <2>1 DEF FrameOK, PingOK
<1> QED
  BY <1>2, <1>3, <1>4 DEF FrameOK

\* So do the frames of both wires, if those that are sent are right.
LEMMA FramesKept ==
  ASSUME Types, Frames, Grows, NEW e \in End, NEW sent, Shape(e, sent),
         ~shut[Other(e)] => \A g \in ToSet(sent) : FrameOK(Other(e), g)',
         \A f \in ToSet(wire'[e]) : f.flag = "syn" => Unheard(e, f.id)'
  PROVE  Frames'
<1> DEFINE o == Other(e)
<1>1. o \in End /\ \A d \in End : d = e \/ d = o
  BY Ends
<1>2. /\ ToSet(wire'[e]) \subseteq ToSet(wire[e])
      /\ ToSet(wire'[o]) \subseteq ToSet(wire[o]) \cup ToSet(sent)
      /\ shut[o] => wire'[o] = wire[o]
      /\ \A d \in End : ToSet(wire[d]) \subseteq FrameType
  BY MovedFrames DEF Shape
<1>3. ASSUME NEW f \in ToSet(wire'[e]) PROVE FrameOK(e, f)'
  <2>1. f \in FrameType /\ FrameOK(e, f)
    BY <1>2 DEF Frames
  <2> QED
    BY <2>1, FrameKept DEF Shape
<1>4. ASSUME NEW f \in ToSet(wire[o]) PROVE FrameOK(o, f)'
  <2>1. f \in FrameType /\ FrameOK(o, f)
    BY <1>1, <1>2 DEF Frames
  <2>2. f.flag = "syn" => Unheard(o, f.id)
    <3>1. f.flag = "syn" => f.type = "window"
      BY <2>1 DEF FrameOK, WindowOK, DataOK, PingOK, FrameType
    <3> QED
      BY <2>1, <3>1 DEF FrameOK, WindowOK
  <2>3. f.flag = "syn" => Unheard(o, f.id)'
    BY <2>2 DEF Shape, Local, Unheard, PendingIds
  <2> QED
    BY <1>1, <2>1, <2>3, FrameKept DEF Shape
<1>5. ASSUME NEW f \in ToSet(wire'[o]) PROVE FrameOK(o, f)'
  BY <1>2, <1>4
<1> QED
  BY <1>1, <1>3, <1>5 DEF Frames

\* The frames stay apart, if those that are sent are.
LEMMA WiresKept ==
  ASSUME Types, Wires, NEW e \in End, NEW sent, Moves(e, sent),
         ~shut[Other(e)] => \A g \in ToSet(sent) :
           /\ \A f \in ToSet(wire[Other(e)]) : ~Clash(f, g)
           /\ \A f \in ToSet(wire'[e]) :
                (IsAnswer(g) /\ IsPing(f)) \/ (IsPing(g) /\ IsAnswer(f)) => f.len # g.len
  PROVE  Wires'
<1> DEFINE o == Other(e)
<1>1. o \in End /\ Other(o) = e /\ \A d \in End : d = e \/ d = o
  BY Ends
<1>2. /\ ToSet(wire'[e]) \subseteq ToSet(wire[e])
      /\ ToSet(wire'[o]) \subseteq ToSet(wire[o]) \cup ToSet(sent)
      /\ shut[o] => wire'[o] = wire[o]
  BY MovedFrames
<1>3. wire[e] \in Seq(FrameType) /\ wire[o] \in Seq(FrameType) /\ Distinct(wire[e]) /\ Distinct(wire[o])
  BY <1>1 DEF Types, Wires
<1>4. Distinct(wire'[e])
  BY <1>3, ShorterDistinct DEF Moves, Took
<1>5. Distinct(wire'[o])
  <2>1. CASE shut[o] \/ sent = <<>>
    BY <1>3, <2>1 DEF Moves, Gets
  <2>2. CASE ~shut[o] /\ \E g \in FrameType : sent = <<g>>
    <3>1. PICK g \in FrameType : sent = <<g>>
      BY <2>2
    <3>2. g \in ToSet(sent) /\ sent # <<>>
      BY <3>1 DEF ToSet
    <3>3. wire'[o] = wire[o] \o <<g>>
      BY <2>2, <3>1, <3>2 DEF Moves, Gets
    <3>4. \A f \in ToSet(wire[o]) : ~Clash(f, g)
      BY <2>2, <3>2
    <3> QED
      BY <1>3, <3>3, <3>4, LongerDistinct
  <2> QED
    BY <2>1, <2>2 DEF Moves, Sent
<1>6. Apart(wire[e], wire[o]) /\ Apart(wire[o], wire[e])
  BY <1>1 DEF Wires
<1>7. Apart(wire'[e], wire'[o]) /\ Apart(wire'[o], wire'[e])
  BY <1>2, <1>6 DEF Apart
<1> QED
  BY <1>1, <1>4, <1>5, <1>7 DEF Wires

\* A frame that is no ping and no SYN.
Plain(sent) == \A g \in ToSet(sent) : g.type # "ping" /\ g.flag # "syn"

\* Frames without a ping and without a SYN clash with none.
LEMMA WiresPlain ==
  ASSUME Types, Wires, NEW e \in End, NEW sent, Moves(e, sent), Plain(sent)
  PROVE  Wires'
BY WiresKept DEF Plain, Clash, IsPing, IsAnswer

\* The pings under way, when a step of e is about no ping.
LEMMA PingsKept ==
  ASSUME Types, NEW e \in End, NEW sent, Shape(e, sent), Grows,
         \A g \in ToSet(sent) : g.type # "ping", PingsOK(e), PingsOK(Other(e)),
         closed'[e] \/ call'[e] = call[e] \/ call[e].op # "ping"
  PROVE  PingsOK(e)' /\ PingsOK(Other(e))'
<1> DEFINE o == Other(e)
<1>1. o \in End /\ Other(o) = e
  BY Ends
<1>2. /\ ToSet(wire'[e]) \subseteq ToSet(wire[e])
      /\ ToSet(wire'[o]) \subseteq ToSet(wire[o]) \cup ToSet(sent)
  BY MovedFrames DEF Shape
<1>3. /\ pings[e] <= pings'[e] /\ pings[e] \in Nat /\ pings'[e] \in Nat
      /\ (sync'[e] => sync[e]) /\ (closed[e] => closed'[e]) /\ (shut[e] => shut'[e])
  BY V2Assumption DEF Grows, GrowsAt, Shape, Types
<1>4. PingsOK(e)'
  BY <1>2, <1>3 DEF PingsOK, Pinging, Shape, Local, IsPing, IsAnswer
<1>5. pings'[e] = 0 => pings[e] = 0
  BY <1>3
<1>6. PingsOK(o)'
  BY <1>1, <1>2, <1>3, <1>5 DEF PingsOK, Pinging, Shape, Local, IsPing, IsAnswer
<1> QED
  BY <1>4, <1>6

\* The other end's call.
LEMMA CallOther ==
  ASSUME Types, NEW e \in End, Local(e), CallOK(Other(e))
  PROVE  CallOK(Other(e))'
<1>1. Opened(Other(e))' = Opened(Other(e))
  BY OtherSame
<1> QED
  BY <1>1 DEF CallOK, Local

\* The streams that wait at the other end.
LEMMA PendingOther ==
  ASSUME Types, NEW e \in End, Local(e), Grows, PendingOK(Other(e))
  PROVE  PendingOK(Other(e))'
<1>1. PendingIds(Other(e))' = PendingIds(Other(e)) /\ pending'[Other(e)] = pending[Other(e)]
  BY OtherSame DEF Local
<1>2. Opened(Other(Other(e))) \subseteq Opened(Other(Other(e)))'
  BY Ends DEF Grows, GrowsAt
<1> QED
  BY <1>1, <1>2 DEF PendingOK

\* The streams of the other end.
LEMMA StreamsOther ==
  ASSUME Types, NEW e \in End, Local(e), Grows, NEW id \in Id, StreamOK(Other(e), id)
  PROVE  StreamOK(Other(e), id)'
<1> DEFINE o == Other(e)
<1>1. o \in End /\ Other(o) = e
  BY Ends
<1>2. /\ Opened(o)' = Opened(o) /\ PendingIds(o)' = PendingIds(o)
      /\ accepted'[o] = accepted[o] /\ ctx'[o] = ctx[o] /\ call'[o] = call[o] /\ written'[o] = written[o]
  BY OtherSame DEF Local
<1>3. /\ Opened(e) \subseteq Opened(e)' /\ (written[e][id] > 0 => written'[e][id] > 0)
      /\ (Known(e, id) => Known(e, id)')
  BY DEF Grows, GrowsAt
<1> QED
  BY <1>1, <1>2, <1>3 DEF StreamOK

\* The streams that wait at e, when they are the same.
LEMMA PendingSame ==
  ASSUME Types, NEW e \in End, Local(e), PendingOK(e),
         DOMAIN pending'[e] = DOMAIN pending[e],
         \A i \in DOMAIN pending[e] : pending'[e][i].id = pending[e][i].id
  PROVE  PendingOK(e)' /\ PendingIds(e)' = PendingIds(e)
<1>1. PendingIds(e)' = PendingIds(e)
  BY DEF PendingIds
<1>2. Opened(Other(e))' = Opened(Other(e))
  BY OtherSame
<1> QED
  BY <1>1, <1>2 DEF PendingOK

\* A stream of e that is neither opened nor accepted.
LEMMA StreamKept ==
  ASSUME Types, Types', NEW e \in End, Local(e), Grows, NEW id \in Id, StreamOK(e, id),
         accepted'[e][id] = accepted[e][id],
         id \in PendingIds(e)' => id \in PendingIds(e),
         ctx'[e][id].open =>
           /\ ctx[e][id].open
           /\ ctx'[e][id].recv = ctx[e][id].recv \/ written[Other(e)][id] > 0
           /\ call[e].op = "open" /\ call[e].id = id => call'[e] = call[e] \/ Known(Other(e), id)',
         written'[e][id] > 0 => written[e][id] > 0 \/ ctx[e][id].open
  PROVE  StreamOK(e, id)'
<1> DEFINE o == Other(e)
<1>1. o \in End
  BY Ends
<1>2. Opened(o)' = Opened(o) /\ written'[o] = written[o] /\ Opened(e) \subseteq Opened(e)'
  BY OtherSame DEF Local, Grows, GrowsAt
<1>3. Known(o, id) => Known(o, id)'
  BY <1>1 DEF Grows, GrowsAt
<1>4. /\ accepted'[e][id] <= 1
      /\ accepted'[e][id] = 1 => id \in Opened(o)' /\ id \notin PendingIds(e)'
  BY <1>2 DEF StreamOK
<1>5. ctx'[e][id].open \/ written'[e][id] > 0 => id \in Opened(e)' \/ accepted'[e][id] = 1
  BY <1>2 DEF StreamOK
<1>6. id \in Mine(e) /\ ctx'[e][id].open =>
        Known(o, id)' \/ (call'[e].op = "open" /\ call'[e].id = id)
  BY <1>3 DEF StreamOK
<1>7. ctx'[e][id].open /\ ctx'[e][id].recv < Window => written'[o][id] > 0
  BY <1>2 DEF StreamOK
<1> QED
  BY <1>4, <1>5, <1>6, <1>7 DEF StreamOK

\* The boundaries of the frames, when e does not lose them.
LEMMA FramingKept ==
  ASSUME Types, Types', NEW e \in End, Local(e), Grows, FramingLost, ~sync'[e] => ~sync[e]
  PROVE  FramingLost'
<1>1. \A d \in End : ~sync'[d] => ~sync[d]
  BY Ends DEF Local
<1>2. \A d \in End : pings[d] \in Nat /\ pings'[d] \in Nat /\ pings[d] <= pings'[d]
  BY V2Assumption DEF Grows, GrowsAt, Types
<1>3. \A d \in End : pings[d] > 0 => pings'[d] > 0
  BY <1>2
<1>4. \A d \in End : Other(d) \in End
  BY Ends
<1>5. \A d \in End : (\E id \in Id : written[d][id] > 0) => \E id \in Id : written'[d][id] > 0
  BY DEF Grows, GrowsAt
<1> QED
  BY <1>1, <1>3, <1>4, <1>5 DEF FramingLost

(***************************************************************************)
(* Credit                                                                  *)
(***************************************************************************)
\* What is on its way to e after a step of e.
LEMMA FlowTaken ==
  ASSUME Types, NEW e \in End, NEW sent, Moves(e, sent), NEW type, NEW id
  PROVE  /\ InFlight(e, type, id) \in Nat /\ InFlight(e, type, id)' \in Nat
         /\ InFlight(e, type, id)' <= InFlight(e, type, id)
         /\ wire'[e] = wire[e] => InFlight(e, type, id)' = InFlight(e, type, id)
         /\ Took(e) => InFlight(e, type, id) = InFlight(e, type, id)' + Worth(Head(wire[e]), type, id)
<1> DEFINE v == wire[e]
           w == wire'[e]
           a == Amount(v, type, id)
           b == Amount(w, type, id)
<1>1. InFlight(e, type, id) = a /\ InFlight(e, type, id)' = b
  BY DEF InFlight, Amount, Units
<1>2. v \in Seq(FrameType) /\ w \in Seq(FrameType)
  BY DEF Types, Moves
<1>3. a \in Nat /\ b \in Nat
  <2> HIDE DEF v, w
  <2> QED
    BY <1>2, UnitsFinite
<1>4. CASE Took(e)
  <2>1. v # <<>> /\ w = Tail(v) /\ Head(v) \in FrameType
    BY <1>2, <1>4, Shorter DEF Took
  <2>2. Worth(Head(v), type, id) \in Nat
    BY <2>1 DEF Worth, FrameType
  <2>3. a = b + Worth(Head(v), type, id)
    BY <1>2, <2>1, AmountShorter
  <2>4. w = v => b = a
    OBVIOUS
  <2> HIDE DEF a, b
  <2>5. b <= a
    BY <1>3, <2>2, <2>3
  <2> QED
    BY <1>1, <1>3, <2>3, <2>4, <2>5
<1>5. CASE ~Took(e)
  <2>1. w = v
    BY <1>5 DEF Moves
  <2>2. b = a
    BY <2>1
  <2> HIDE DEF a, b
  <2> QED
    BY <1>1, <1>3, <1>5, <2>2
<1> QED
  BY <1>4, <1>5

\* What is on its way to the other end.
LEMMA FlowSent ==
  ASSUME Types, NEW e \in End, NEW sent, Moves(e, sent), NEW type, NEW id
  PROVE  /\ InFlight(Other(e), type, id) \in Nat /\ InFlight(Other(e), type, id)' \in Nat
         /\ \A g : sent = <<g>> =>
              InFlight(Other(e), type, id)' <= InFlight(Other(e), type, id) + Worth(g, type, id)
         /\ (\A g \in ToSet(sent) : Worth(g, type, id) = 0) =>
              InFlight(Other(e), type, id)' = InFlight(Other(e), type, id)
<1> DEFINE v == wire[Other(e)]
           w == wire'[Other(e)]
           a == Amount(v, type, id)
           b == Amount(w, type, id)
<1>1. InFlight(Other(e), type, id) = a /\ InFlight(Other(e), type, id)' = b
  BY DEF InFlight, Amount, Units
<1>2. v \in Seq(FrameType) /\ w \in Seq(FrameType)
  BY Ends DEF Types, Moves
<1>3. a \in Nat /\ b \in Nat
  <2> HIDE DEF v, w
  <2> QED
    BY <1>2, UnitsFinite
<1>4. CASE \E g \in FrameType : sent = <<g>>
  <2>1. PICK g \in FrameType : sent = <<g>>
    BY <1>4
  <2>2. Worth(g, type, id) \in Nat
    BY DEF Worth, FrameType
  <2>3. g \in ToSet(sent) /\ sent # <<>> /\ \A h : sent = <<h>> => h = g
    BY <2>1 DEF ToSet
  <2>4. b = a \/ b = a + Worth(g, type, id)
    <3>1. CASE shut[Other(e)]
      BY <3>1 DEF Moves, Gets
    <3>2. CASE ~shut[Other(e)]
      <4>1. w = v \o <<g>>
        BY <2>1, <2>3, <3>2 DEF Moves, Gets
      <4> QED
        BY <1>2, <4>1, AmountLonger
    <3> QED
      BY <3>1, <3>2
  <2> HIDE DEF a, b
  <2>5. b <= a + Worth(g, type, id) /\ (Worth(g, type, id) = 0 => b = a)
    BY <1>3, <2>2, <2>4
  <2> QED
    BY <1>1, <1>3, <2>3, <2>5
<1>5. CASE sent = <<>>
  <2>1. w = v
    BY <1>5 DEF Moves, Gets
  <2>2. b = a /\ \A g : sent # <<g>>
    BY <1>5, <2>1
  <2> HIDE DEF a, b
  <2> QED
    BY <1>1, <1>3, <2>2
<1> QED
  BY <1>4, <1>5 DEF Moves, Sent

\* Frames that carry no data of a stream and no credit for it.
Mute(sent, id) == \A g \in ToSet(sent) : Worth(g, "data", id) = 0 /\ Worth(g, "window", id) = 0

\* The credit of a stream that e neither uses nor opens.
LEMMA CreditKept ==
  ASSUME Types, NEW e \in End, NEW sent, Shape(e, sent), NEW id \in Id, Mute(sent, id),
         CreditOK(e, id), CreditOK(Other(e), id),
         ctx'[e][id] = NoStream \/ (/\ ctx'[e][id].open = ctx[e][id].open
                                    /\ ctx'[e][id].send = ctx[e][id].send
                                    /\ ctx'[e][id].recv = ctx[e][id].recv)
  PROVE  CreditOK(e, id)' /\ CreditOK(Other(e), id)'
<1> DEFINE o == Other(e)
           de == InFlight(e, "data", id)
           do == InFlight(o, "data", id)
           we == InFlight(e, "window", id)
           wo == InFlight(o, "window", id)
<1>1. o \in End /\ Other(o) = e /\ ctx'[o] = ctx[o]
  BY Ends DEF Shape, Local
<1>2. /\ de \in Nat /\ do \in Nat /\ we \in Nat /\ wo \in Nat
      /\ de' \in Nat /\ we' \in Nat /\ de' <= de /\ we' <= we
      /\ do' = do /\ wo' = wo
  BY FlowTaken, FlowSent DEF Shape, Mute
<1>3. /\ ctx[e][id] \in StreamType /\ ctx[o][id] \in StreamType
      /\ ctx[e][id].send \in Nat /\ ctx[o][id].send \in Nat
      /\ ctx[e][id].recv \in 0..Window /\ ctx[o][id].recv \in 0..Window /\ Window \in Nat
  BY <1>1, StreamFields, V2Assumption
<1>4. NoStream.open = FALSE
  BY DEF NoStream
<1> HIDE DEF de, do, we, wo
<1>5. CreditOK(e, id)'
  <2>0. ~ctx'[e][id].open => ctx'[e][id].send = 0
    BY DEF CreditOK, NoStream
  <2> SUFFICES ASSUME ctx'[e][id].open PROVE ctx'[e][id].send + do' + we' <= Room(o, id)'
    BY <1>1, <2>0 DEF CreditOK, do, we
  <2>1. ctx[e][id].open /\ ctx'[e][id].send = ctx[e][id].send
    BY <1>4
  <2>2. Room(o, id)' = Room(o, id) /\ Room(o, id) \in Nat
    BY <1>1, <1>3 DEF Room
  <2>3. ctx[e][id].send + do + we <= Room(o, id)
    BY <2>1 DEF CreditOK, do, we
  <2> HIDE DEF o
  <2> QED
    BY <1>2, <1>3, <2>1, <2>2, <2>3
<1>6. CreditOK(o, id)'
  <2> SUFFICES ASSUME ctx'[o][id].open PROVE ctx'[o][id].send + de' + wo' <= Room(e, id)'
    BY <1>1 DEF CreditOK, de, wo
  <2>1. ctx[o][id].send + de + wo <= Room(e, id)
    BY <1>1 DEF CreditOK, de, wo
  <2>2. Room(e, id) \in Nat /\ Room(e, id)' \in Nat /\ Room(e, id) <= Room(e, id)'
    BY <1>3, <1>4 DEF Room
  <2>3. ctx'[o][id].send = ctx[o][id].send
    BY <1>1
  <2> HIDE DEF o
  <2> QED
    BY <1>2, <1>3, <2>1, <2>2, <2>3
<1> QED
  BY <1>5, <1>6

(***************************************************************************)
(* Steps that open and accept no stream and carry no data                  *)
(***************************************************************************)
\* What is left to show of a step.
LEMMA Assembled ==
  ASSUME IInv, NEW e \in End, NEW sent, Shape(e, sent), Grows, Frames', Wires',
         PingsOK(e)', PingsOK(Other(e))', CallOK(e)', PendingOK(e)', FramingLost',
         \A id \in Id : StreamOK(e, id)' /\ CreditOK(e, id)' /\ CreditOK(Other(e), id)'
  PROVE  IInv'
<1>1. Other(e) \in End /\ \A d \in End : d = e \/ d = Other(e)
  BY Ends
<1>2. CallOK(Other(e))' /\ PendingOK(Other(e))' /\ \A id \in Id : StreamOK(Other(e), id)'
  BY <1>1, CallOther, PendingOther, StreamsOther DEF IInv, Shape
<1>3. \A d \in End : PingsOK(d)' /\ CallOK(d)' /\ PendingOK(d)'
  BY <1>1, <1>2
<1>4. \A d \in End, id \in Id : StreamOK(d, id)' /\ CreditOK(d, id)'
  BY <1>1, <1>2
<1> QED
  BY <1>3, <1>4 DEF IInv, Shape

\* The step changes streams only in what they have buffered, or closes them.
Quiet(e, sent) ==
  /\ Shape(e, sent)
  /\ opens[e] <= opens'[e] /\ pings[e] <= pings'[e]
  /\ shut[e] => shut'[e]
  /\ closed[e] => closed'[e]
  /\ sync'[e] => sync[e]
  /\ accepted'[e] = accepted[e] /\ written'[e] = written[e]
  /\ DOMAIN pending'[e] = DOMAIN pending[e]
  /\ \A i \in DOMAIN pending[e] : pending'[e][i].id = pending[e][i].id
  /\ \A id \in Id : Mute(sent, id)
  /\ \A id \in Id : ctx'[e][id] = NoStream \/ (/\ ctx'[e][id].open = ctx[e][id].open
                                              /\ ctx'[e][id].send = ctx[e][id].send
                                              /\ ctx'[e][id].recv = ctx[e][id].recv)
  /\ call[e].op = "open" => call'[e] = call[e] \/ ctx'[e][call[e].id] = NoStream

\* The ids of an end only grow in number.
LEMMA OpenedGrows ==
  ASSUME Types, Types', NEW e \in End, opens[e] <= opens'[e]
  PROVE  Opened(e) \subseteq Opened(e)'
<1>1. opens[e] \in Nat /\ opens'[e] \in Nat
  BY V2Assumption DEF Types
<1>2. 1..opens[e] \subseteq 1..opens'[e]
  BY <1>1
<1> QED
  BY <1>2 DEF Opened

\* A SYN on its way to e is one e has not heard of.
LEMMA SynUnheard ==
  ASSUME IInv, NEW e \in End, NEW f \in ToSet(wire[e]), f.flag = "syn"
  PROVE  /\ f.type = "window" /\ f.id \in Id /\ f.id \in Opened(Other(e)) /\ Unheard(e, f.id)
         /\ f.data = <<>> /\ f.len = 0
<1>1. FrameOK(e, f)
  BY DEF IInv, Frames
<1>2. f \in FrameType
  <2>1. wire[e] \in Seq(FrameType)
    BY DEF IInv, Types
  <2> QED
    BY <2>1, Elements
<1>3. f.type = "window"
  BY <1>1, <1>2 DEF FrameOK, DataOK, PingOK, FrameType
<1> QED
  BY <1>1, <1>3 DEF FrameOK, WindowOK

\* Such a step keeps what is known of frames, streams and credit.
LEMMA QuietKeeps ==
  ASSUME IInv, NEW e \in End, NEW sent, Quiet(e, sent)
  PROVE  /\ Grows /\ PendingOK(e)'
         /\ \A id \in Id : StreamOK(e, id)' /\ CreditOK(e, id)' /\ CreditOK(Other(e), id)'
         /\ (~shut[Other(e)] => \A g \in ToSet(sent) : FrameOK(Other(e), g)') => Frames'
<1> DEFINE o == Other(e)
<1>1. /\ Types /\ Types' /\ Local(e) /\ Moves(e, sent) /\ o \in End /\ PendingOK(e)
  BY Ends DEF IInv, Quiet, Shape
<1>2. PendingOK(e)' /\ PendingIds(e)' = PendingIds(e)
  BY <1>1, PendingSame DEF Quiet
<1>3. Grows
  <2>1. \A d \in End : shut[d] => shut'[d]
    BY <1>1, Ends DEF Quiet, Local
  <2>2. \A id \in Id : Known(e, id) => Known(e, id)'
    BY <1>2, <2>1 DEF Known, Quiet
  <2>3. Opened(e) \subseteq Opened(e)'
    BY <1>1, OpenedGrows DEF Quiet
  <2>4. GrowsAt(e)
    BY <2>2, <2>3 DEF GrowsAt, Quiet
  <2> QED
    BY <1>1, <2>4, GrowsAll
<1>4. ASSUME NEW id \in Id PROVE StreamOK(e, id)'
  <2>1. StreamOK(e, id) /\ NoStream.open = FALSE
    BY DEF IInv, NoStream
  <2>2. ctx'[e][id].open =>
           /\ ctx[e][id].open
           /\ ctx'[e][id].recv = ctx[e][id].recv \/ written[Other(e)][id] > 0
           /\ call[e].op = "open" /\ call[e].id = id => call'[e] = call[e] \/ Known(Other(e), id)'
    BY <2>1 DEF Quiet
  <2>3. accepted'[e][id] = accepted[e][id] /\ (written'[e][id] > 0 => written[e][id] > 0)
    BY DEF Quiet
  <2> QED
    BY <1>1, <1>2, <1>3, <2>1, <2>2, <2>3, StreamKept
<1>5. ASSUME NEW id \in Id PROVE CreditOK(e, id)' /\ CreditOK(o, id)'
  <2>1. /\ ctx'[e][id] = NoStream \/ (/\ ctx'[e][id].open = ctx[e][id].open
                                      /\ ctx'[e][id].send = ctx[e][id].send
                                      /\ ctx'[e][id].recv = ctx[e][id].recv)
        /\ Mute(sent, id) /\ Shape(e, sent)
    BY DEF Quiet
  <2>2. CreditOK(e, id) /\ CreditOK(o, id)
    BY <1>1 DEF IInv
  <2> QED
    BY <1>1, <2>1, <2>2, CreditKept
<1>6. ASSUME ~shut[o] => \A g \in ToSet(sent) : FrameOK(o, g)' PROVE Frames'
  <2>1. ToSet(wire'[e]) \subseteq ToSet(wire[e])
    BY <1>1, MovedFrames
  <2>2. \A f \in ToSet(wire'[e]) : f.flag = "syn" => Unheard(e, f.id)'
    BY <1>2, <2>1, SynUnheard DEF Unheard, Quiet
  <2>3. Frames /\ Shape(e, sent)
    BY DEF IInv, Quiet
  <2> QED
    BY <1>1, <1>3, <1>6, <2>2, <2>3, FramesKept
<1> QED
  BY <1>2, <1>3, <1>4, <1>5, <1>6

\* Such a step that is about no ping and keeps to the frame boundaries keeps the invariant.
LEMMA QuietStep ==
  ASSUME IInv, NEW e \in End, NEW sent, Quiet(e, sent), Plain(sent),
         ~shut[Other(e)] => \A g \in ToSet(sent) : FrameOK(Other(e), g)',
         closed'[e] \/ call'[e] = call[e] \/ call[e].op # "ping",
         CallOK(e)', ~sync'[e] => ~sync[e]
  PROVE  IInv'
<1> DEFINE o == Other(e)
<1>1. /\ Types /\ Types' /\ Local(e) /\ Moves(e, sent) /\ o \in End /\ Shape(e, sent)
  BY Ends DEF IInv, Quiet, Shape
<1>2. /\ Grows /\ PendingOK(e)' /\ Frames'
      /\ \A id \in Id : StreamOK(e, id)' /\ CreditOK(e, id)' /\ CreditOK(o, id)'
  BY QuietKeeps
<1>3. Wires'
  BY <1>1, WiresPlain DEF IInv
<1>4. PingsOK(e)' /\ PingsOK(o)'
  BY <1>1, <1>2, PingsKept DEF IInv, Plain
<1>5. FramingLost'
  BY <1>1, <1>2, FramingKept DEF IInv
<1> QED
  BY <1>1, <1>2, <1>3, <1>4, <1>5, Assembled

\* An empty message.
LEMMA Nothing == Plain(<<>>) /\ ToSet(<<>>) = {} /\ \A id \in Id : Mute(<<>>, id)
BY DEF Plain, ToSet, Mute

\* No call is under way.
LEMMA IdleCall ==
  ASSUME NEW e \in End, call'[e] = Idle, shut'[e] <=> closed'[e]
  PROVE  CallOK(e)'
BY DEF CallOK, Idle

\* Numbers that stay.
LEMMA Counts ==
  ASSUME Types, NEW e \in End
  PROVE  opens[e] \in Nat /\ pings[e] \in Nat /\ opens[e] <= opens[e] /\ pings[e] <= pings[e]
BY V2Assumption DEF Types

\* A go away.
LEMMA GoAwayStep ==
  ASSUME IInv, NEW e \in End, NEW f, wire[e] # <<>>, GoAwayReceived(e, f)
  PROVE  IInv'
<1>1. Types /\ CallOK(e)
  BY DEF IInv
<1>2. Shape(e, <<>>)
  BY <1>1, GoAwayTypes
<1>3. /\ call'[e] = Idle
      /\ \A id \in Id : ctx'[e][id] = ctx[e][id] \/ ctx'[e][id] = NoStream
      /\ call[e].op = "open" => ctx'[e][call[e].id] = NoStream
  BY <1>1, FailedTypes DEF GoAwayReceived, Fails
<1>4. /\ closed'[e] /\ shut'[e] /\ sync' = sync /\ opens' = opens /\ pings' = pings
      /\ pending' = pending /\ accepted' = accepted /\ written' = written
  BY <1>1 DEF GoAwayReceived, Types, bytes
<1>5. Quiet(e, <<>>)
  BY <1>1, <1>2, <1>3, <1>4, Counts, Nothing DEF Quiet
<1>6. CallOK(e)'
  BY <1>3, <1>4, IdleCall
<1> QED
  BY <1>4, <1>5, <1>6, Nothing, QuietStep

\* Data for a waiting stream.
LEMMA OpenDataStep ==
  ASSUME IInv, NEW e \in End, NEW f \in FrameType, wire[e] # <<>>, OpenData(e, f)
  PROVE  IInv'
<1>1. Types /\ CallOK(e)
  BY DEF IInv
<1>2. Shape(e, <<>>)
  BY <1>1, OpenDataTypes
<1>3. /\ DOMAIN pending'[e] = DOMAIN pending[e]
      /\ \A i \in DOMAIN pending[e] : pending'[e][i].id = pending[e][i].id
  BY <1>1, KeptTypes DEF OpenData
<1>4. /\ closed' = closed /\ shut' = shut /\ sync' = sync /\ opens' = opens /\ pings' = pings
      /\ call' = call /\ ctx' = ctx /\ accepted' = accepted /\ written' = written
  BY DEF OpenData, session, bytes
<1>5. Quiet(e, <<>>)
  BY <1>1, <1>2, <1>3, <1>4, Counts, Nothing DEF Quiet
<1>6. CallOK(e)'
  BY <1>1, <1>4 DEF CallOK, Opened
<1> QED
  BY <1>4, <1>5, <1>6, Nothing, QuietStep

\* An accept that waits.
LEMMA AcceptStep1 ==
  ASSUME IInv, NEW e \in End, Accept(e)
  PROVE  IInv'
<1>1. Types /\ CallOK(e)
  BY DEF IInv
<1>2. Shape(e, <<>>) /\ call'[e] = [op |-> "accept", id |-> 0, value |-> 0] /\ call[e] = Idle /\ ~closed[e]
  BY <1>1, AcceptTypes DEF Accept
<1>3. /\ closed' = closed /\ shut' = shut /\ sync' = sync /\ opens' = opens /\ pings' = pings
      /\ pending' = pending /\ ctx' = ctx /\ accepted' = accepted /\ written' = written
  BY DEF Accept, session, stream, bytes
<1>4. call[e].op = "idle" /\ call'[e].op = "accept"
  BY <1>2 DEF Idle
<1>5. Quiet(e, <<>>)
  BY <1>1, <1>2, <1>3, <1>4, Counts, Nothing DEF Quiet
<1>6. CallOK(e)'
  BY <1>1, <1>2, <1>3, <1>4 DEF CallOK
<1> QED
  BY <1>3, <1>4, <1>5, <1>6, Nothing, QuietStep

\* A read begins.
LEMMA ReadStep1 ==
  ASSUME IInv, NEW e \in End, NEW id \in Id, Read(e, id, 1)
  PROVE  IInv'
<1>1. Types /\ CallOK(e)
  BY DEF IInv
<1>2. /\ Shape(e, <<>>)
      /\ \/ ctx' = ctx /\ call'[e] = [op |-> "read", id |-> id, value |-> 1]
         \/ call' = call /\ \E b : Puts(e, id, [ctx[e][id] EXCEPT !.buffer = b])
  BY <1>1, ReadTypes
<1>3. /\ closed' = closed /\ shut' = shut /\ sync' = sync /\ opens' = opens /\ pings' = pings
      /\ pending' = pending /\ accepted' = accepted /\ written' = written
      /\ call[e] = Idle /\ ctx[e][id].open /\ ~closed[e]
  BY DEF Read, session, Usable
<1>4. call[e].op = "idle"
  BY <1>3 DEF Idle
<1>5. \A j \in Id : /\ ctx'[e][j].open = ctx[e][j].open /\ ctx'[e][j].send = ctx[e][j].send
                    /\ ctx'[e][j].recv = ctx[e][j].recv
  <2>1. CASE ctx' = ctx
    BY <2>1
  <2>2. CASE \E b : Puts(e, id, [ctx[e][id] EXCEPT !.buffer = b])
    <3>1. PICK b : Puts(e, id, [ctx[e][id] EXCEPT !.buffer = b])
      BY <2>2
    <3>2. ctx[e][id] \in StreamType
      BY <1>1, StreamFields
    <3> QED
      BY <3>1, <3>2 DEF Puts, StreamType
  <2> QED
    BY <1>2, <2>1, <2>2
<1>6. Quiet(e, <<>>)
  BY <1>1, <1>2, <1>3, <1>4, <1>5, Counts, Nothing DEF Quiet
<1>7. CallOK(e)'
  <2>1. CASE call' = call
    BY <1>1, <1>3, <1>4, <2>1 DEF CallOK
  <2>2. CASE call'[e] = [op |-> "read", id |-> id, value |-> 1]
    BY <1>1, <1>3, <1>5, <2>2 DEF CallOK
  <2> QED
    BY <1>2, <2>1, <2>2
<1> QED
  BY <1>3, <1>4, <1>6, <1>7, Nothing, QuietStep

\* A FIN.
LEMMA ReadFinStep ==
  ASSUME IInv, NEW e \in End, NEW f \in FrameType, Next1(e, "read", f), ReadFin(e, f)
  PROVE  IInv'
<1>1. Types /\ CallOK(e) /\ call[e].op = "read"
  BY FirstFrame DEF IInv
<1>2. /\ Shape(e, <<>>) /\ call'[e] = Idle /\ f.id \in Id
      /\ Puts(e, f.id, [ctx[e][f.id] EXCEPT !.closed = TRUE])
  BY <1>1, ReadFinTypes
<1>3. /\ closed' = closed /\ shut' = shut /\ sync' = sync /\ opens' = opens /\ pings' = pings
      /\ pending' = pending /\ accepted' = accepted /\ written' = written
  BY DEF ReadFin, session, bytes
<1>4. \A j \in Id : /\ ctx'[e][j].open = ctx[e][j].open /\ ctx'[e][j].send = ctx[e][j].send
                    /\ ctx'[e][j].recv = ctx[e][j].recv
  <2>1. ctx[e][f.id] \in StreamType
    BY <1>1, <1>2, StreamFields
  <2> QED
    BY <1>2, <2>1 DEF Puts, StreamType
<1>5. Quiet(e, <<>>)
  BY <1>1, <1>2, <1>3, <1>4, Counts, Nothing DEF Quiet
<1>6. CallOK(e)'
  BY <1>1, <1>2, <1>3, IdleCall DEF CallOK
<1> QED
  BY <1>1, <1>3, <1>5, <1>6, Nothing, QuietStep

\* One frame.
LEMMA Single == ASSUME NEW g PROVE ToSet(<<g>>) = {g}
BY DEF ToSet

\* A stream is closed.
LEMMA CloseStep ==
  ASSUME IInv, NEW e \in End, NEW id \in Id, CloseStream(e, id)
  PROVE  IInv'
<1> DEFINE g == Frame("data", "fin", id, 0)
           sent == IF ctx[e][id].closed \/ closed[e] THEN <<>> ELSE <<g>>
<1>1. Types /\ CallOK(e) /\ call[e] = Idle /\ call[e].op = "idle"
  BY DEF IInv, CloseStream, Idle
<1>2. Shape(e, sent) /\ Puts(e, id, NoStream)
  BY <1>1, CloseTypes
<1>3. /\ closed' = closed /\ shut' = shut /\ sync' = sync /\ opens' = opens /\ pings' = pings
      /\ pending' = pending /\ accepted' = accepted /\ written' = written /\ call' = call
  BY DEF CloseStream, session, bytes
<1>4. \A h \in ToSet(sent) : h = g
  BY Nothing, Single
<1>5. /\ g.type = "data" /\ g.flag = "fin" /\ g.id = id /\ g.len = 0 /\ g.data = <<>>
      /\ Len(<<>>) = 0
  BY DEF Frame
<1> HIDE DEF g, sent
<1>6. Plain(sent) /\ \A j \in Id : Mute(sent, j)
  BY <1>4, <1>5 DEF Plain, Mute, Worth
<1>7. FrameOK(Other(e), g)'
  BY <1>5 DEF FrameOK, WindowOK, DataOK, PingOK
<1>8. Quiet(e, sent)
  BY <1>1, <1>2, <1>3, <1>6, Counts DEF Quiet, Puts
<1>9. CallOK(e)'
  BY <1>1, <1>3, IdleCall DEF CallOK
<1> QED
  BY <1>3, <1>4, <1>6, <1>7, <1>8, <1>9, QuietStep

\* An end goes away.
LEMMA GoodbyeStep ==
  ASSUME IInv, NEW e \in End, libp2p_yamux_session_goaway(e)
  PROVE  IInv'
<1> DEFINE g == Frame("go_away", "none", 0, 0)
<1>1. Types /\ call[e] = Idle /\ call[e].op = "idle"
  BY DEF IInv, libp2p_yamux_session_goaway, Idle
<1>2. Shape(e, <<g>>) /\ closed'[e] /\ shut'[e]
  BY <1>1, GoodbyeTypes
<1>3. /\ sync' = sync /\ opens' = opens /\ pings' = pings /\ ctx' = ctx
      /\ pending' = pending /\ accepted' = accepted /\ written' = written /\ call' = call
  BY DEF libp2p_yamux_session_goaway, stream, bytes
<1>4. g.type = "go_away" /\ g.flag = "none" /\ g.len = 0
  BY DEF Frame
<1> HIDE DEF g
<1>5. Plain(<<g>>) /\ \A j \in Id : Mute(<<g>>, j)
  BY <1>4, Single DEF Plain, Mute, Worth
<1>6. FrameOK(Other(e), g)'
  BY <1>4 DEF FrameOK, WindowOK, DataOK, PingOK
<1>7. Quiet(e, <<g>>)
  BY <1>1, <1>2, <1>3, <1>5, Counts DEF Quiet
<1>8. CallOK(e)'
  BY <1>1, <1>2, <1>3, IdleCall
<1> QED
  BY <1>2, <1>3, <1>5, <1>6, <1>7, <1>8, Single, QuietStep

\* The other end's pings.
LEMMA PingsOther ==
  ASSUME Types, NEW e \in End, NEW sent, Shape(e, sent), Grows, PingsOK(Other(e)),
         \A g \in ToSet(sent) : ~IsAnswer(g)
  PROVE  PingsOK(Other(e))'
<1> DEFINE o == Other(e)
<1>1. o \in End /\ Other(o) = e
  BY Ends
<1>2. /\ ToSet(wire'[e]) \subseteq ToSet(wire[e])
      /\ ToSet(wire'[o]) \subseteq ToSet(wire[o]) \cup ToSet(sent)
  BY MovedFrames DEF Shape
<1>3. pings[e] <= pings'[e] /\ pings[e] \in Nat /\ pings'[e] \in Nat /\ (shut[e] => shut'[e])
  BY V2Assumption DEF Grows, GrowsAt, Shape, Types
<1>4. pings'[e] = 0 => pings[e] = 0
  BY <1>3
<1> QED
  BY <1>1, <1>2, <1>3, <1>4 DEF PingsOK, Pinging, Shape, Local

\* A window frame that gives something back was preceded by data.
LEMMA CreditWasSpent ==
  ASSUME IInv, NEW e \in End, NEW f \in ToSet(wire[e]), f.type = "window", f.len # 0
  PROVE  \E id \in Id : written[e][id] > 0
<1>1. WindowOK(e, f)
  BY DEF IInv, Frames, FrameOK
<1>2. f.len \in Nat
  <2>1. wire[e] \in Seq(FrameType)
    BY DEF IInv, Types
  <2>2. f \in FrameType
    BY <2>1, Elements
  <2> QED
    BY <2>2 DEF FrameType
<1>3. f.len > 0 /\ f.id \in Id
  BY <1>1, <1>2 DEF WindowOK
<1> QED
  BY <1>1, <1>3 DEF WindowOK

\* A frame is thrown away: only credit takes the frame boundaries with it.
LEMMA DropsStep ==
  ASSUME IInv, NEW e \in End, NEW op, NEW f \in FrameType, Next1(e, op, f), Drops(e, f)
  PROVE  IInv'
<1> DEFINE o == Other(e)
<1>1. Types /\ CallOK(e) /\ wire[e] # <<>> /\ f \in ToSet(wire[e]) /\ sync[e] /\ o \in End
  BY FirstFrame, Ends DEF IInv
<1>2. Shape(e, <<>>)
  BY <1>1, DropsTypes
<1>3. /\ Discard(e, f) /\ f.type \in {"window", "data"}
      /\ closed' = closed /\ shut' = shut /\ opens' = opens /\ pings' = pings
      /\ pending' = pending /\ ctx' = ctx /\ accepted' = accepted /\ written' = written /\ call' = call
  BY DEF Drops, OpenOther, AcceptOther, ReadOther, session, stream
<1>4. sync'[o] = sync[o] /\ sync'[e] = (f.type = "data" \/ f.len = 0)
  BY <1>1, <1>3, Discarded
<1>5. Quiet(e, <<>>)
  BY <1>1, <1>2, <1>3, Counts, Nothing DEF Quiet
<1>6. /\ Grows /\ PendingOK(e)' /\ Frames'
      /\ \A id \in Id : StreamOK(e, id)' /\ CreditOK(e, id)' /\ CreditOK(o, id)'
  BY <1>5, Nothing, QuietKeeps
<1>7. Wires'
  BY <1>1, <1>2, Nothing, WiresPlain DEF IInv, Shape
<1>8. PingsOK(e)' /\ PingsOK(o)'
  BY <1>1, <1>2, <1>3, <1>6, Nothing, PingsKept DEF IInv
<1>9. CallOK(e)'
  BY <1>1, <1>3 DEF CallOK, Opened
<1>10. FramingLost'
  <2>1. CASE sync'[e]
    BY <1>1, <1>2, <1>6, <2>1, FramingKept DEF IInv, Shape
  <2>2. CASE ~sync'[e]
    <3>1. \E id \in Id : written[e][id] > 0
      BY <1>1, <1>3, <1>4, <2>2, CreditWasSpent
    <3> QED
      BY <1>3, <1>4, <3>1, Ends DEF FramingLost, IInv
  <2> QED
    BY <2>1, <2>2
<1> QED
  BY <1>2, <1>6, <1>7, <1>8, <1>9, <1>10, Assembled

\* The answer to a ping.
Answer(f) == Frame("ping", "ack", 0, f.len)

\* A ping is answered: the answer is the only frame of that ping.
LEMMA Answered ==
  ASSUME IInv, NEW e \in End, NEW f \in FrameType, wire[e] # <<>>, f = Head(wire[e]), IsPing(f),
         call[e].op # "idle", Quiet(e, <<Answer(f)>>), Took(e), call' = call, pings' = pings
  PROVE  /\ Wires' /\ PingsOK(e)' /\ PingsOK(Other(e))' /\ pings[Other(e)] > 0
         /\ FrameOK(Other(e), Answer(f))'
<1> DEFINE o == Other(e)
           g == Answer(f)
<1>1. Types /\ Moves(e, <<g>>) /\ Local(e) /\ Shape(e, <<g>>) /\ o \in End /\ Other(o) = e
  BY Ends DEF IInv, Quiet, Shape
<1>2. /\ IsAnswer(g) /\ g.len = f.len /\ g.type = "ping" /\ g.flag = "ack" /\ ~IsPing(g)
  BY DEF Answer, Frame, IsAnswer, IsPing
<1> HIDE DEF g
<1>3. /\ wire[e] \in Seq(FrameType) /\ wire'[e] = Tail(wire[e]) /\ Distinct(wire[e])
      /\ Apart(wire[o], wire[e])
  BY <1>1 DEF IInv, Wires, Types, Took
<1>4. f \in ToSet(wire[e]) /\ \A h \in ToSet(wire'[e]) : ~Clash(f, h)
  BY <1>3, Shorter, ShorterDistinct
<1>5. f.len > 0 /\ f.len <= pings[o] /\ f.len \in Nat /\ pings[o] \in Nat
  <2>1. PingOK(e, f)
    BY <1>4 DEF IInv, Frames, FrameOK
  <2> QED
    BY <1>1, <2>1, V2Assumption DEF PingOK, IsPing, Types, FrameType
<1>6. pings[o] > 0
  BY <1>5
<1>7. Wires'
  <2>1. \A h \in ToSet(wire[o]) : ~Clash(h, g)
    BY <1>2, <1>3, <1>4 DEF Apart, Clash
  <2>2. \A h \in ToSet(wire'[e]) : IsPing(h) => h.len # g.len
    BY <1>2, <1>4 DEF Clash
  <2>3. ToSet(<<g>>) = {g}
    BY Single
  <2> QED
    BY <1>1, <1>2, <2>1, <2>2, <2>3, WiresKept DEF IInv
<1>8. PingsOK(e)'
  BY <1>1, <1>6 DEF PingsOK
<1>9. ~shut[e]
  BY DEF IInv, CallOK, Idle
<1>10. /\ ToSet(wire'[e]) \subseteq ToSet(wire[e]) /\ ToSet(wire'[o]) \subseteq ToSet(wire[o]) \cup {g}
  BY <1>1, MovedFrames, Single
<1>11. PingsOK(o)'
  <2> SUFFICES ASSUME pings'[e] = 0, sync'[o], ~closed'[o]
               PROVE  /\ \A h \in ToSet(wire'[o]) : IsAnswer(h) => Pinging(o, h)'
                      /\ \A h \in ToSet(wire'[e]) : IsPing(h) => shut'[e] \/ Pinging(o, h)'
    BY <1>1 DEF PingsOK
  <2>1. /\ \A h \in ToSet(wire[o]) : IsAnswer(h) => Pinging(o, h)
        /\ \A h \in ToSet(wire[e]) : IsPing(h) => Pinging(o, h)
    BY <1>1, <1>9 DEF IInv, PingsOK, Local
  <2>2. \A h : Pinging(o, h)' <=> Pinging(o, h)
    BY DEF Pinging
  <2>3. Pinging(o, g)
    BY <1>2, <1>4, <2>1 DEF Pinging
  <2> QED
    BY <1>10, <2>1, <2>2, <2>3
<1>12. FrameOK(o, g)'
  BY <1>1, <1>2, <1>5 DEF FrameOK, WindowOK, DataOK, PingOK
<1> QED
  BY <1>6, <1>7, <1>8, <1>11, <1>12 DEF g

\* A ping, or an answer nobody waits for.
LEMMA ControlStep ==
  ASSUME IInv, NEW e \in End, NEW op, NEW f \in FrameType, Next1(e, op, f), op # "idle", Control(e, f)
  PROVE  IInv'
<1> DEFINE o == Other(e)
           sent == IF f.flag = "ack" THEN <<>> ELSE <<Answer(f)>>
<1>1. /\ Types /\ CallOK(e) /\ wire[e] # <<>> /\ f \in ToSet(wire[e]) /\ f = Head(wire[e]) /\ o \in End
      /\ call[e].op # "idle"
  BY FirstFrame, Ends DEF IInv
<1>2. Shape(e, sent) /\ Took(e)
  BY <1>1, ControlTypes DEF Answer
<1>3. /\ f.type = "ping" /\ sync' = sync
      /\ closed' = closed /\ shut' = shut /\ opens' = opens /\ pings' = pings
      /\ pending' = pending /\ ctx' = ctx /\ accepted' = accepted /\ written' = written /\ call' = call
  BY DEF Control, yamux_handle_control_frame, session, stream, bytes
<1>4. \A j \in Id : Mute(sent, j)
  BY Nothing, Single DEF Mute, Worth, Answer, Frame
<1>5. Quiet(e, sent)
  BY <1>1, <1>2, <1>3, <1>4, Counts DEF Quiet
<1>6. CallOK(e)'
  BY <1>1, <1>3 DEF CallOK, Opened
<1>7. CASE f.flag = "ack"
  BY <1>3, <1>5, <1>6, <1>7, Nothing, QuietStep
<1>8. CASE f.flag # "ack"
  <2>1. IsPing(f)
    BY <1>1, <1>3, <1>8 DEF IsPing, IInv, Frames, FrameOK, PingOK
  <2>2. sent = <<Answer(f)>> /\ ToSet(sent) = {Answer(f)}
    BY <1>8, Single
  <2> HIDE DEF sent
  <2>3. Wires' /\ PingsOK(e)' /\ PingsOK(o)' /\ FrameOK(o, Answer(f))'
    BY <1>1, <1>2, <1>3, <1>5, <2>1, <2>2, Answered
  <2>4. /\ Grows /\ PendingOK(e)' /\ Frames'
        /\ \A id \in Id : StreamOK(e, id)' /\ CreditOK(e, id)' /\ CreditOK(o, id)'
    BY <1>5, <2>2, <2>3, QuietKeeps
  <2>5. FramingLost'
    BY <1>1, <1>2, <1>3, <2>4, FramingKept DEF IInv, Shape
  <2> QED
    BY <1>2, <1>6, <2>3, <2>4, <2>5, Assembled
<1> QED
  BY <1>7, <1>8

\* A ping has been answered: no other frame of it is under way.
LEMMA PongStep ==
  ASSUME IInv, NEW e \in End, NEW f \in FrameType, Next1(e, "ping", f), Pong(e, f)
  PROVE  IInv'
<1> DEFINE o == Other(e)
<1>1. /\ Types /\ CallOK(e) /\ wire[e] # <<>> /\ f \in ToSet(wire[e]) /\ f = Head(wire[e]) /\ o \in End
      /\ call[e].op = "ping" /\ IsAnswer(f) /\ f.len = call[e].value /\ Other(o) = e
  BY FirstFrame, Ends DEF IInv, Pong, IsPong, IsAnswer
<1>2. Shape(e, <<>>) /\ Took(e) /\ call'[e] = Idle
  BY <1>1, PongTypes
<1>3. /\ sync' = sync /\ closed' = closed /\ shut' = shut /\ opens' = opens /\ pings' = pings
      /\ pending' = pending /\ ctx' = ctx /\ accepted' = accepted /\ written' = written
  BY DEF Pong, session, stream, bytes
<1>4. Quiet(e, <<>>)
  BY <1>1, <1>2, <1>3, Counts, Nothing DEF Quiet
<1>5. /\ Grows /\ PendingOK(e)' /\ Frames'
      /\ \A id \in Id : StreamOK(e, id)' /\ CreditOK(e, id)' /\ CreditOK(o, id)'
  BY <1>4, Nothing, QuietKeeps
<1>6. Wires'
  BY <1>1, <1>2, Nothing, WiresPlain DEF IInv, Shape
<1>7. /\ wire[e] \in Seq(FrameType) /\ wire'[e] = Tail(wire[e]) /\ Distinct(wire[e])
      /\ Apart(wire[e], wire[o])
  BY <1>1, <1>2 DEF IInv, Wires, Types, Took
<1>8. \A h \in ToSet(wire'[e]) : ~Clash(f, h)
  BY <1>1, <1>7, ShorterDistinct
<1>9. ToSet(wire'[e]) \subseteq ToSet(wire[e]) /\ ToSet(wire'[o]) \subseteq ToSet(wire[o])
  BY <1>1, <1>2, MovedFrames, Nothing DEF Shape
<1>10. PingsOK(e)'
  <2> SUFFICES ASSUME pings[o] = 0, sync[e], ~closed[e]
               PROVE  /\ \A h \in ToSet(wire'[e]) : ~IsAnswer(h)
                      /\ \A h \in ToSet(wire'[o]) : IsPing(h) => shut'[o]
    BY <1>3 DEF PingsOK
  <2>1. /\ \A h \in ToSet(wire[e]) : IsAnswer(h) => h.len = f.len
        /\ \A h \in ToSet(wire[o]) : IsPing(h) => shut[o] \/ h.len = f.len
    BY <1>1 DEF IInv, PingsOK, Pinging
  <2>2. \A h \in ToSet(wire'[e]) : ~IsAnswer(h)
    BY <1>1, <1>8, <1>9, <2>1 DEF Clash
  <2>3. \A h \in ToSet(wire'[o]) : IsPing(h) => shut'[o]
    BY <1>1, <1>3, <1>7, <1>9, <2>1 DEF Apart
  <2> QED
    BY <2>2, <2>3
<1>11. PingsOK(o)'
  BY <1>1, <1>2, <1>5, Nothing, PingsOther DEF IInv
<1>12. CallOK(e)'
  BY <1>1, <1>2, <1>3, IdleCall DEF CallOK
<1>13. FramingLost'
  BY <1>1, <1>2, <1>3, <1>5, FramingKept DEF IInv, Shape
<1> QED
  BY <1>2, <1>5, <1>6, <1>10, <1>11, <1>12, <1>13, Assembled

\* A ping is sent: its number is new.
LEMMA PingStep1 ==
  ASSUME IInv, NEW e \in End, libp2p_yamux_session_ping(e)
  PROVE  IInv'
<1>0. PICK n : n = pings[e] + 1
  OBVIOUS
<1> DEFINE o == Other(e)
           g == Frame("ping", "none", 0, n)
<1>1. /\ Types /\ CallOK(e) /\ o \in End /\ Other(o) = e
      /\ call[e] = Idle /\ call[e].op = "idle" /\ ~closed[e]
  BY Ends DEF IInv, libp2p_yamux_session_ping, Idle
<1>2. /\ Shape(e, <<g>>) /\ pings'[e] = n /\ pings[e] \in Nat /\ wire'[e] = wire[e]
      /\ call'[e] = [op |-> "ping", id |-> 0, value |-> n]
  BY <1>0, <1>1, PingTypes
<1>3. /\ sync' = sync /\ closed' = closed /\ shut' = shut /\ opens' = opens
      /\ pending' = pending /\ ctx' = ctx /\ accepted' = accepted /\ written' = written
  BY DEF libp2p_yamux_session_ping, stream, bytes
<1>4. g.type = "ping" /\ g.flag = "none" /\ g.len = n /\ IsPing(g) /\ ~IsAnswer(g) /\ ToSet(<<g>>) = {g}
  BY Single DEF Frame, IsPing, IsAnswer
<1>5. n \in Nat /\ n > 0 /\ pings[e] <= n /\ ~(n <= pings[e])
  BY <1>0, <1>2
<1> HIDE DEF g
<1>6. \A j \in Id : Mute(<<g>>, j)
  BY <1>4 DEF Mute, Worth
<1>7. Quiet(e, <<g>>)
  BY <1>1, <1>2, <1>3, <1>5, <1>6, Counts DEF Quiet
<1>8. FrameOK(o, g)'
  <2>1. n <= n
    BY <1>5
  <2> QED
    BY <1>1, <1>2, <1>4, <1>5, <2>1 DEF FrameOK, WindowOK, DataOK, PingOK
<1>9. /\ Grows /\ PendingOK(e)' /\ Frames'
      /\ \A id \in Id : StreamOK(e, id)' /\ CreditOK(e, id)' /\ CreditOK(o, id)'
  BY <1>4, <1>7, <1>8, QuietKeeps
<1>10. Wires'
  <2>1. \A h \in ToSet(wire[o]) : IsPing(h) => h.len # n
    <3>1. \A h \in ToSet(wire[o]) : PingOK(o, h)
      BY <1>1 DEF IInv, Frames, FrameOK
    <3> QED
      BY <1>1, <1>5, <3>1 DEF PingOK, IsPing
  <2>2. \A h \in ToSet(wire[e]) : IsAnswer(h) => h.len # n
    <3>1. \A h \in ToSet(wire[e]) : PingOK(e, h)
      BY DEF IInv, Frames, FrameOK
    <3> QED
      BY <1>5, <3>1 DEF PingOK, IsAnswer
  <2>3. \A h \in ToSet(wire[o]) : ~Clash(h, g)
    BY <1>4, <2>1 DEF Clash
  <2> QED
    BY <1>1, <1>2, <1>4, <2>2, <2>3, WiresKept DEF IInv, Shape
<1>11. ToSet(wire'[o]) \subseteq ToSet(wire[o]) \cup {g}
  BY <1>1, <1>2, <1>4, MovedFrames DEF Shape
<1>12. PingsOK(e)'
  <2> SUFFICES ASSUME pings[o] = 0, sync[e], ~closed[e]
               PROVE  /\ \A h \in ToSet(wire'[e]) : ~IsAnswer(h)
                      /\ \A h \in ToSet(wire'[o]) : IsPing(h) => shut'[o] \/ Pinging(e, h)'
    BY <1>2, <1>3 DEF PingsOK, Shape, Local
  <2>1. /\ \A h \in ToSet(wire[e]) : ~IsAnswer(h)
        /\ \A h \in ToSet(wire[o]) : IsPing(h) => shut[o]
    BY <1>1 DEF IInv, PingsOK, Pinging
  <2>2. Pinging(e, g)'
    BY <1>2, <1>4 DEF Pinging
  <2> QED
    BY <1>2, <1>3, <1>11, <2>1, <2>2
<1>13. PingsOK(o)'
  BY <1>1, <1>2, <1>4, <1>9, PingsOther DEF IInv
<1>14. CallOK(e)'
  BY <1>1, <1>2, <1>3, <1>5 DEF CallOK
<1>15. FramingLost'
  BY <1>1, <1>2, <1>3, <1>9, FramingKept DEF IInv, Shape
<1> QED
  BY <1>2, <1>9, <1>10, <1>12, <1>13, <1>14, <1>15, Assembled

\* Another frame comes while an end waits for its answer.
LEMMA PingOtherStep ==
  ASSUME IInv, NEW e \in End, NEW f \in FrameType, Next1(e, "ping", f), PingOther(e, f)
  PROVE  IInv'
<1> DEFINE o == Other(e)
           asks == f.type = "ping" /\ f.flag # "ack"
           sent == IF asks THEN <<Answer(f)>> ELSE <<>>
<1>1. /\ Types /\ CallOK(e) /\ wire[e] # <<>> /\ f \in ToSet(wire[e]) /\ f = Head(wire[e]) /\ o \in End
      /\ call[e].op = "ping" /\ sync[e] /\ pings[e] > 0
  BY FirstFrame, Ends DEF IInv, CallOK
<1>2. ~closed[e]
  BY <1>1 DEF CallOK, Idle
<1>3. Shape(e, sent) /\ Took(e)
  BY <1>1, PingOtherTypes DEF Answer
<1>4. /\ Discard(e, f) /\ f.type # "go_away" /\ ~IsPong(e, f)
      /\ closed' = closed /\ shut' = shut /\ opens' = opens /\ pings' = pings
      /\ pending' = pending /\ ctx' = ctx /\ accepted' = accepted /\ written' = written /\ call' = call
  BY DEF PingOther, session, stream
<1>5. sync'[o] = sync[o] /\ sync'[e] = (f.type = "data" \/ f.len = 0)
  BY <1>1, <1>4, Discarded
<1>6. \A j \in Id : Mute(sent, j)
  BY Nothing, Single DEF Mute, Worth, Answer, Frame
<1>7. Quiet(e, sent)
  BY <1>1, <1>3, <1>4, <1>6, Counts DEF Quiet
<1>8. CallOK(e)'
  BY <1>1, <1>4 DEF CallOK, Opened
<1>9. f.type = "ping" => pings[o] > 0
  <2> SUFFICES ASSUME f.type = "ping", ~(pings[o] > 0) PROVE FALSE
    OBVIOUS
  <2>1. pings[o] = 0
    BY <1>1, V2Assumption DEF Types
  <2>2. PingOK(e, f)
    BY <1>1 DEF IInv, Frames, FrameOK
  <2>3. CASE f.flag = "ack"
    BY <1>1, <1>2, <1>4, <2>1, <2>3 DEF IInv, PingsOK, Pinging, IsAnswer, IsPong
  <2>4. CASE f.flag # "ack"
    BY <2>1, <2>2, <2>4 DEF PingOK, FrameType
  <2> QED
    BY <2>3, <2>4
<1>10. FramingLost' \/ ~Grows
  <2>1. CASE sync'[e]
    BY <1>1, <1>3, <2>1, FramingKept DEF IInv, Shape
  <2>2. CASE ~sync'[e]
    <3>1. f.type = "ping" \/ (f.type = "window" /\ f.len # 0)
      BY <1>4, <1>5, <2>2 DEF FrameType
    <3>2. (pings[e] > 0 /\ pings[o] > 0) \/ \E id \in Id : written[e][id] > 0
      BY <1>1, <1>9, <3>1, CreditWasSpent
    <3> QED
      BY <1>4, <1>5, <3>2, Ends DEF FramingLost, IInv
  <2> QED
    BY <2>1, <2>2
<1>11. CASE asks
  <2>1. IsPing(f)
    BY <1>1, <1>11 DEF IsPing, IInv, Frames, FrameOK, PingOK
  <2>2. sent = <<Answer(f)>> /\ ToSet(sent) = {Answer(f)}
    BY <1>11, Single
  <2> HIDE DEF sent
  <2>3. Wires' /\ PingsOK(e)' /\ PingsOK(o)' /\ FrameOK(o, Answer(f))'
    BY <1>1, <1>3, <1>4, <1>7, <2>1, <2>2, Answered
  <2>4. /\ Grows /\ PendingOK(e)' /\ Frames'
        /\ \A id \in Id : StreamOK(e, id)' /\ CreditOK(e, id)' /\ CreditOK(o, id)'
    BY <1>7, <2>2, <2>3, QuietKeeps
  <2> QED
    BY <1>3, <1>8, <1>10, <2>3, <2>4, Assembled
<1>12. CASE ~asks
  <2>1. sent = <<>>
    BY <1>12
  <2> HIDE DEF sent
  <2>2. /\ Grows /\ PendingOK(e)' /\ Frames'
        /\ \A id \in Id : StreamOK(e, id)' /\ CreditOK(e, id)' /\ CreditOK(o, id)'
    BY <1>7, <2>1, Nothing, QuietKeeps
  <2>3. Wires'
    BY <1>1, <1>3, <2>1, Nothing, WiresPlain DEF IInv, Shape
  <2>4. PingsOK(e)' /\ PingsOK(o)'
    BY <1>1, <1>3, <1>4, <2>1, <2>2, Nothing, PingsKept DEF IInv
  <2> QED
    BY <1>3, <1>8, <1>10, <2>2, <2>3, <2>4, Assembled
<1> QED
  BY <1>11, <1>12

\* A call fails: no answer to a ping is left that could be taken for another frame.
LEMMA FailStep ==
  ASSUME IInv, NEW e \in End, Shape(e, <<>>), Fails(e),
         sync' = sync, closed' = closed, shut' = shut, opens' = opens, pings' = pings,
         pending' = pending, accepted' = accepted, written' = written,
         pings[Other(e)] = 0 /\ sync[e] =>
           shut[Other(e)] /\ \A h \in ToSet(wire'[e]) : ~IsAnswer(h)
  PROVE  IInv'
<1> DEFINE o == Other(e)
<1>1. Types /\ CallOK(e) /\ o \in End
  BY Ends DEF IInv
<1>2. /\ call'[e] = Idle
      /\ \A id \in Id : ctx'[e][id] = ctx[e][id] \/ ctx'[e][id] = NoStream
      /\ call[e].op = "open" => ctx'[e][call[e].id] = NoStream
  BY <1>1, FailedTypes
<1>3. Quiet(e, <<>>)
  BY <1>1, <1>2, Counts, Nothing DEF Quiet
<1>4. /\ Grows /\ PendingOK(e)' /\ Frames'
      /\ \A id \in Id : StreamOK(e, id)' /\ CreditOK(e, id)' /\ CreditOK(o, id)'
  BY <1>3, Nothing, QuietKeeps
<1>5. Wires'
  BY <1>1, Nothing, WiresPlain DEF IInv, Shape
<1>6. PingsOK(e)'
  BY DEF PingsOK
<1>7. PingsOK(o)'
  BY <1>1, <1>4, Nothing, PingsOther DEF IInv
<1>8. CallOK(e)'
  BY <1>1, <1>2, IdleCall DEF CallOK
<1>9. FramingLost'
  BY <1>1, <1>4, FramingKept DEF IInv, Shape
<1> QED
  BY <1>4, <1>5, <1>6, <1>7, <1>8, <1>9, Assembled

\* A read fails.
LEMMA ReadFailsStep ==
  ASSUME IInv, NEW e \in End, ReadFails(e)
  PROVE  IInv'
<1>1. Types /\ CallOK(e)
  BY DEF IInv
<1>2. Shape(e, <<>>) /\ wire' = wire
  BY <1>1, ReadFailsTypes
<1>3. /\ Fails(e) /\ (~sync[e] \/ (wire[e] = <<>> /\ shut[Other(e)]))
      /\ sync' = sync /\ closed' = closed /\ shut' = shut /\ opens' = opens /\ pings' = pings
      /\ pending' = pending /\ accepted' = accepted /\ written' = written
  BY DEF ReadFails, session, bytes
<1>4. sync[e] => shut[Other(e)] /\ ToSet(wire'[e]) = {}
  BY <1>2, <1>3, Nothing
<1> QED
  BY <1>2, <1>3, <1>4, FailStep

\* An answer cannot be written: the frame was the other end's ping, or no ping is waited for.
LEMMA AnswerFailsStep ==
  ASSUME IInv, NEW e \in End, AnswerFails(e)
  PROVE  IInv'
<1> DEFINE o == Other(e)
           f == Head(wire[e])
<1>1. Types /\ CallOK(e) /\ o \in End /\ wire[e] # <<>> /\ shut[o] /\ sync[e] /\ PingsOK(e)
  BY Ends DEF IInv, AnswerFails
<1>2. Shape(e, <<>>) /\ Took(e)
  BY <1>1, AnswerFailsTypes
<1>3. /\ Fails(e)
      /\ (call[e] # Idle /\ f.type = "ping" /\ f.flag # "ack") \/ call[e].op = "accept"
      /\ sync' = sync /\ closed' = closed /\ shut' = shut /\ opens' = opens /\ pings' = pings
      /\ pending' = pending /\ accepted' = accepted /\ written' = written
  BY DEF AnswerFails, session, bytes
<1>4. ToSet(wire'[e]) \subseteq ToSet(wire[e]) /\ f \in ToSet(wire[e]) /\ f \in FrameType
  BY <1>1, <1>2, MovedFrames, Shorter DEF Shape, Types
<1>5. ASSUME pings[o] = 0 PROVE \A h \in ToSet(wire'[e]) : ~IsAnswer(h)
  <2>1. CASE f.type = "ping" /\ f.flag # "ack"
    <3>1. PingOK(e, f)
      BY <1>4 DEF IInv, Frames, FrameOK
    <3>2. f.len > 0 /\ f.len <= pings[o] /\ f.len \in Nat
      BY <1>4, <2>1, <3>1 DEF PingOK, FrameType
    <3> QED
      BY <1>5, <3>2
  <2>2. CASE call[e].op = "accept"
    <3>1. ~closed[e]
      BY <1>1, <2>2 DEF CallOK, Idle
    <3> QED
      BY <1>1, <1>4, <1>5, <2>2, <3>1 DEF PingsOK, Pinging
  <2> QED
    BY <1>3, <2>1, <2>2
<1> HIDE DEF f
<1> QED
  BY <1>1, <1>2, <1>3, <1>5, FailStep

\* The first of the waiting streams leaves the list.
LEMMA PendingTaken ==
  ASSUME Types, NEW e \in End, Local(e), PendingOK(e),
         pending[e] # <<>>, pending'[e] = Tail(pending[e])
  PROVE  /\ PendingOK(e)' /\ PendingIds(e)' \subseteq PendingIds(e)
         /\ Head(pending[e]).id \in PendingIds(e) /\ Head(pending[e]).id \notin PendingIds(e)'
         /\ PendingIds(e) \subseteq PendingIds(e)' \cup {Head(pending[e]).id}
<1> DEFINE v == pending'[e]
           w == pending[e]
<1>1. w \in Seq(PendingType)
  BY DEF Types
<1>2. /\ \A i \in DOMAIN v : i \in Nat /\ i + 1 \in DOMAIN w /\ v[i] = w[i + 1]
      /\ 1 \in DOMAIN w /\ Head(w) = w[1]
  BY <1>1, Shorter
<1>3. \A i \in DOMAIN w : i = 1 \/ (i - 1 \in DOMAIN v /\ (i - 1) + 1 = i)
  <2>1. v = Tail(w) /\ w # <<>>
    OBVIOUS
  <2> HIDE DEF v
  <2> QED
    BY <1>1, <2>1
<1>4. \A i \in DOMAIN v : i + 1 # 1
  <2>1. v = Tail(w) /\ w # <<>>
    OBVIOUS
  <2> HIDE DEF v
  <2>2. \A i \in DOMAIN v : i \in Nat \ {0}
    BY <1>1, <2>1
  <2> QED
    BY <2>2
<1>5. \A i, j \in DOMAIN v : i # j => i + 1 # j + 1
  BY <1>2
<1>6. PendingIds(e)' = {v[i].id : i \in DOMAIN v} /\ PendingIds(e) = {w[i].id : i \in DOMAIN w}
  BY DEF PendingIds
<1>7. Opened(Other(e))' = Opened(Other(e))
  BY OtherSame
<1>8. \A i, j \in DOMAIN w : i # j => w[i].id # w[j].id
  BY DEF PendingOK
<1> HIDE DEF v, w
<1>9. PendingIds(e)' \subseteq PendingIds(e)
  BY <1>2, <1>6
<1>10. \A i, j \in DOMAIN v : i # j => v[i].id # v[j].id
  BY <1>2, <1>5, <1>8
<1>11. Head(w).id \in PendingIds(e) /\ Head(w).id \notin PendingIds(e)'
  BY <1>2, <1>4, <1>6, <1>8
<1>12. PendingIds(e) \subseteq PendingIds(e)' \cup {Head(w).id}
  BY <1>2, <1>3, <1>6
<1>13. PendingOK(e)'
  BY <1>7, <1>9, <1>10 DEF PendingOK, v
<1> QED
  BY <1>9, <1>11, <1>12, <1>13 DEF w

\* Streams that wait are lost, but a session that has ended knows of every stream.
LEMMA PendingLost ==
  ASSUME IInv, NEW e \in End, Shape(e, <<>>), wire' = wire,
         \/ pending'[e] = <<>>
         \/ pending[e] # <<>> /\ pending'[e] = Tail(pending[e]),
         \E d \in End : shut'[d],
         shut[e] => shut'[e], closed[e] => closed'[e], closed'[e] \/ call'[e] = call[e],
         sync' = sync, opens' = opens, pings' = pings,
         ctx' = ctx, call' = call, accepted' = accepted, written' = written, CallOK(e)'
  PROVE  IInv'
<1> DEFINE o == Other(e)
<1>1. Types /\ Types' /\ CallOK(e) /\ o \in End /\ Local(e) /\ Moves(e, <<>>) /\ PendingOK(e)
  BY Ends DEF IInv, Shape
<1>2. PendingOK(e)' /\ PendingIds(e)' \subseteq PendingIds(e)
  <2>1. CASE pending'[e] = <<>>
    BY <2>1 DEF PendingOK, PendingIds
  <2>2. CASE pending[e] # <<>> /\ pending'[e] = Tail(pending[e])
    BY <1>1, <2>2, PendingTaken
  <2> QED
    BY <2>1, <2>2
<1>3. Grows
  <2>1. GrowsAt(e)
    BY <1>1, Counts DEF GrowsAt, Known, Opened
  <2> QED
    BY <1>1, <2>1, GrowsAll
<1>4. ASSUME NEW id \in Id PROVE StreamOK(e, id)' /\ CreditOK(e, id)' /\ CreditOK(o, id)'
  <2>1. StreamOK(e, id)'
    BY <1>1, <1>2, <1>3, StreamKept DEF IInv
  <2> QED
    BY <1>1, <2>1, Nothing, CreditKept DEF IInv
<1>5. Frames'
  <2>1. \A f \in ToSet(wire'[e]) : f.flag = "syn" => Unheard(e, f.id)'
    BY <1>2, SynUnheard DEF Unheard
  <2> QED
    BY <1>1, <1>3, <2>1, Nothing, FramesKept DEF IInv
<1>6. Wires'
  BY <1>1, Nothing, WiresPlain DEF IInv
<1>7. PingsOK(e)' /\ PingsOK(o)'
  BY <1>1, <1>3, Nothing, PingsKept DEF IInv
<1>8. FramingLost'
  BY <1>1, <1>3, FramingKept DEF IInv
<1> QED
  BY <1>2, <1>3, <1>4, <1>5, <1>6, <1>7, <1>8, Assembled

\* A session is freed.
LEMMA FreeStep ==
  ASSUME IInv, NEW e \in End, libp2p_yamux_session_free(e)
  PROVE  IInv'
<1>1. Types /\ call[e] = Idle
  BY DEF IInv, libp2p_yamux_session_free
<1>2. Shape(e, <<>>) /\ wire' = wire /\ pending'[e] = <<>> /\ closed'[e] /\ shut'[e]
  BY <1>1, FreeTypes
<1>3. /\ sync' = sync /\ opens' = opens /\ pings' = pings
      /\ ctx' = ctx /\ call' = call /\ accepted' = accepted /\ written' = written
  BY DEF libp2p_yamux_session_free, bytes
<1>4. CallOK(e)'
  BY <1>1, <1>2, <1>3, IdleCall
<1> QED
  BY <1>2, <1>3, <1>4, PendingLost

\* The first frame of a call cannot be written.
LEMMA FirstWriteStep ==
  ASSUME IInv, NEW e \in End, FirstWriteFails(e)
  PROVE  IInv'
<1>1. Types /\ CallOK(e) /\ call[e] = Idle /\ shut[Other(e)] /\ Other(e) \in End
  BY Ends DEF IInv, FirstWriteFails
<1>2. Shape(e, <<>>) /\ wire' = wire
  BY <1>1, FirstWriteTypes
<1>3. /\ sync' = sync /\ closed' = closed /\ shut' = shut /\ call' = call /\ ctx' = ctx
      /\ accepted' = accepted /\ written' = written
  BY DEF FirstWriteFails, bytes
<1>4. CallOK(e)'
  BY <1>1, <1>3, IdleCall DEF CallOK
<1>5. CASE pending[e] # <<>> /\ pending' = [pending EXCEPT ![e] = Tail(@)] /\ UNCHANGED <<opens, pings>>
  <2>1. pending'[e] = Tail(pending[e]) /\ opens' = opens /\ pings' = pings
    BY <1>1, <1>5 DEF Types
  <2> QED
    BY <1>1, <1>2, <1>3, <1>4, <1>5, <2>1, PendingLost
<1>6. CASE pending' = pending
  <2>1. opens[e] <= opens'[e] /\ pings[e] <= pings'[e]
    <3>1. opens[e] <= opens[e] + 1 /\ pings[e] <= pings[e] + 1
      BY <1>1, Counts
    <3>2. opens'[e] \in {opens[e], opens[e] + 1} /\ pings'[e] \in {pings[e], pings[e] + 1}
      BY <1>1 DEF FirstWriteFails, Types
    <3> QED
      BY <1>1, <3>1, <3>2, Counts
  <2>2. Quiet(e, <<>>)
    BY <1>1, <1>2, <1>3, <1>6, <2>1, Nothing DEF Quiet
  <2> QED
    BY <1>3, <1>4, <2>2, Nothing, QuietStep
<1> QED
  BY <1>5, <1>6 DEF FirstWriteFails

(***************************************************************************)
(* Steps that open or accept a stream                                      *)
(***************************************************************************)
\* Nothing is on its way that belongs to a stream on which nothing was written.
LEMMA NoTraffic ==
  ASSUME IInv, NEW e \in End, NEW id \in Id, written[e][id] = 0
  PROVE  InFlight(Other(e), "data", id) = 0 /\ InFlight(e, "window", id) = 0
<1> DEFINE o == Other(e)
<1>1. /\ o \in End /\ Other(o) = e /\ ~(written[e][id] > 0)
      /\ wire[e] \in Seq(FrameType) /\ wire[o] \in Seq(FrameType)
  BY Ends DEF IInv, Types
<1>2. \A f \in FrameType : f.len \in Nat /\ (f.len > 0 \/ f.len = 0)
  BY DEF FrameType
<1>3. ToSet(wire[e]) \subseteq FrameType /\ ToSet(wire[o]) \subseteq FrameType
  BY <1>1, Elements
<1>4. \A f \in ToSet(wire[o]) : Worth(f, "data", id) = 0
  <2>1. \A f \in ToSet(wire[o]) : DataOK(o, f)
    BY <1>1 DEF IInv, Frames, FrameOK
  <2> QED
    BY <1>1, <1>2, <1>3, <2>1 DEF DataOK, Worth
<1>5. \A f \in ToSet(wire[e]) : Worth(f, "window", id) = 0
  <2>1. \A f \in ToSet(wire[e]) : WindowOK(e, f)
    BY DEF IInv, Frames, FrameOK
  <2> QED
    BY <1>1, <1>2, <1>3, <2>1 DEF WindowOK, Worth
<1> QED
  BY <1>1, <1>4, <1>5, AmountZero DEF InFlight, Amount

\* A stream that e has neither opened nor accepted has not been used.
LEMMA Unused ==
  ASSUME IInv, NEW e \in End, NEW id \in Id, id \notin Opened(e), accepted[e][id] # 1
  PROVE  /\ ~ctx[e][id].open /\ written[e][id] = 0
         /\ ctx[Other(e)][id].open => ctx[Other(e)][id].recv = Window
<1>1. Other(e) \in End /\ Other(Other(e)) = e
  BY Ends
<1>2. StreamOK(e, id) /\ StreamOK(Other(e), id)
  BY <1>1 DEF IInv
<1>3. ~ctx[e][id].open /\ written[e][id] = 0
  BY <1>2, V2Assumption DEF StreamOK, IInv, Types
<1>4. ctx[Other(e)][id].recv \in 0..Window /\ Window \in Nat
  BY <1>1, StreamFields, V2Assumption DEF IInv
<1> QED
  BY <1>1, <1>2, <1>3, <1>4 DEF StreamOK

\* The credit of a stream that is new to e: it may send what the other end has room for.
LEMMA NewCredit ==
  ASSUME IInv, NEW e \in End, NEW sent, Shape(e, sent), NEW id \in Id, Mute(sent, id),
         id \notin Opened(e), accepted[e][id] # 1, NEW b, ctx'[e][id] = NewStream(b)
  PROVE  CreditOK(e, id)' /\ CreditOK(Other(e), id)'
<1> DEFINE o == Other(e)
           de == InFlight(e, "data", id)
           do == InFlight(o, "data", id)
           we == InFlight(e, "window", id)
           wo == InFlight(o, "window", id)
<1>1. o \in End /\ Other(o) = e /\ ctx'[o] = ctx[o] /\ Types
  BY Ends DEF Shape, Local, IInv
<1>2. /\ de \in Nat /\ do \in Nat /\ we \in Nat /\ wo \in Nat
      /\ de' \in Nat /\ we' \in Nat /\ de' <= de /\ we' <= we
      /\ do' = do /\ wo' = wo
  BY <1>1, FlowTaken, FlowSent DEF Shape, Mute
<1>3. do = 0 /\ we = 0 /\ ~ctx[e][id].open /\ (ctx[o][id].open => ctx[o][id].recv = Window)
  BY Unused, NoTraffic
<1>4. /\ ctx[o][id].send \in Nat /\ Window \in Nat
      /\ ctx'[e][id].open /\ ctx'[e][id].send = Window /\ ctx'[e][id].recv = Window
  BY <1>1, StreamFields, V2Assumption DEF NewStream
<1>5. CreditOK(o, id)
  BY <1>1 DEF IInv
<1> HIDE DEF de, do, we, wo
<1>6. CreditOK(e, id)'
  <2>1. Room(o, id)' = Window
    BY <1>1, <1>3 DEF Room
  <2>2. ctx'[e][id].send + do' + we' <= Window
    <3>1. do' = 0 /\ we' = 0
      BY <1>2, <1>3
    <3>2. Window + 0 + 0 <= Window
      BY <1>4
    <3> QED
      BY <1>4, <3>1, <3>2
  <2> QED
    BY <1>1, <1>4, <2>1, <2>2 DEF CreditOK, do, we
<1>7. CreditOK(o, id)'
  <2>1. Room(e, id)' = Window /\ Room(e, id) = Window
    BY <1>3, <1>4 DEF Room
  <2>2. ASSUME ctx[o][id].open PROVE ctx[o][id].send + de' + wo' <= Window
    <3>1. ctx[o][id].send + de + wo <= Window
      BY <1>1, <1>5, <2>1, <2>2 DEF CreditOK, de, wo
    <3> QED
      BY <1>2, <1>4, <3>1
  <2> QED
    BY <1>1, <1>5, <2>1, <2>2 DEF CreditOK, de, wo
<1> QED
  BY <1>6, <1>7

\* An open: its id is new to both ends.
LEMMA OpenStep1 ==
  ASSUME IInv, NEW e \in End, Open(e)
  PROVE  IInv'
<1>0. PICK id : id = e + 2 * opens[e] + 1
  OBVIOUS
<1> DEFINE o == Other(e)
           g == Frame("window", "syn", id, 0)
<1>1. /\ Types /\ CallOK(e) /\ o \in End /\ Other(o) = e /\ PendingOK(e) /\ PendingOK(o)
      /\ call[e] = Idle /\ call[e].op = "idle" /\ ~closed[e] /\ opens[e] < MaxOpens
  BY Ends DEF IInv, Open, Idle
<1>2. /\ Shape(e, <<g>>) /\ wire'[e] = wire[e] /\ Puts(e, id, NewStream(<<>>))
      /\ id \in Mine(e) /\ id \in Id
  BY <1>0, <1>1, OpenTypes
<1>3. /\ sync' = sync /\ closed' = closed /\ shut' = shut /\ pings' = pings
      /\ pending' = pending /\ accepted' = accepted /\ written' = written
  BY DEF Open, bytes
<1>4. call'[e] = [op |-> "open", id |-> id, value |-> 0] /\ opens'[e] = opens[e] + 1
  BY <1>0, <1>1 DEF Open, Calls, Types
<1>5. Types' /\ Local(e) /\ Moves(e, <<g>>)
  BY <1>2 DEF Shape
<1>6. id \notin Opened(e) /\ Opened(e) \subseteq Mine(e) /\ Opened(o) \subseteq Mine(o)
  BY <1>0, <1>1, Fresh
<1>7. id \notin Opened(o)
  BY <1>2, <1>6, Ids
<1>8. id \in Opened(e)' /\ Opened(e) \subseteq Opened(e)'
  <2>1. opens[e] \in Nat /\ e \in Int
    BY <1>1, Counts DEF End
  <2>2. opens[e] + 1 \in 1..opens'[e] /\ id = e + 2 * (opens[e] + 1) - 1 /\ opens[e] <= opens'[e]
    BY <1>0, <1>4, <2>1
  <2>3. id \in Opened(e)'
    BY <2>2 DEF Opened
  <2> QED
    BY <1>1, <1>5, <2>2, <2>3, OpenedGrows
<1>9. accepted[e][id] # 1 /\ Unheard(o, id)
  <2>1. StreamOK(e, id) /\ StreamOK(o, id) /\ accepted[o][id] \in Nat
    BY <1>1, <1>2 DEF IInv, Types
  <2>2. accepted[e][id] # 1 /\ accepted[o][id] # 1 /\ accepted[o][id] <= 1
    BY <1>1, <1>6, <1>7, <2>1 DEF StreamOK
  <2>3. accepted[o][id] = 0
    BY <2>1, <2>2
  <2> QED
    BY <1>1, <1>6, <2>2, <2>3 DEF Unheard, PendingOK
<1>10. /\ g.type = "window" /\ g.flag = "syn" /\ g.id = id /\ g.len = 0 /\ g.data = <<>>
       /\ ToSet(<<g>>) = {g}
  BY Single DEF Frame
<1> HIDE DEF g
<1>11. \A j \in Id : Mute(<<g>>, j)
  BY <1>10 DEF Mute, Worth
<1>12. PendingOK(e)' /\ PendingIds(e)' = PendingIds(e)
  BY <1>1, <1>3, <1>5, PendingSame
<1>13. Grows
  <2>1. GrowsAt(e)
    BY <1>1, <1>3, <1>8, <1>12, Counts DEF GrowsAt, Known
  <2> QED
    BY <1>1, <1>5, <2>1, GrowsAll
<1>14. Frames'
  <2>1. FrameOK(o, g)'
    <3>1. Unheard(o, id)'
      BY <1>1, <1>2, <1>5, <1>9, OtherSame
    <3> QED
      BY <1>1, <1>2, <1>8, <1>10, <3>1 DEF FrameOK, WindowOK, DataOK, PingOK
  <2>2. \A f \in ToSet(wire'[e]) : f.flag = "syn" => Unheard(e, f.id)'
    BY <1>2, <1>3, <1>12, SynUnheard DEF Unheard
  <2> QED
    BY <1>1, <1>2, <1>10, <1>13, <2>1, <2>2, FramesKept DEF IInv
<1>15. Wires'
  <2>1. \A f \in ToSet(wire[o]) : f.flag = "syn" => f.id # id
    BY <1>1, <1>6, SynUnheard
  <2>2. \A f \in ToSet(wire[o]) : ~Clash(f, g)
    BY <1>10, <2>1 DEF Clash, IsPing, IsAnswer
  <2> QED
    BY <1>1, <1>5, <1>10, <2>2, WiresKept DEF IInv, IsPing, IsAnswer
<1>16. PingsOK(e)' /\ PingsOK(o)'
  BY <1>1, <1>2, <1>10, <1>13, PingsKept DEF IInv
<1>17. CallOK(e)'
  <2>1. ctx'[e][id].open
    BY <1>2 DEF Puts, NewStream
  <2> QED
    BY <1>1, <1>2, <1>3, <1>4, <1>8, <2>1 DEF CallOK
<1>18. ASSUME NEW j \in Id PROVE StreamOK(e, j)' /\ CreditOK(e, j)' /\ CreditOK(o, j)'
  <2>0. StreamOK(e, j) /\ CreditOK(e, j) /\ CreditOK(o, j)
    BY <1>1 DEF IInv
  <2>1. CASE j = id
    <3>1. ctx'[e][id].open /\ ctx'[e][id].recv = Window /\ ~(Window < Window)
      BY <1>2, V2Assumption DEF Puts, NewStream
    <3>2. StreamOK(e, id)'
      BY <1>3, <1>4, <1>8, <1>9, <2>0, <2>1, <3>1 DEF StreamOK
    <3>3. CreditOK(e, id)' /\ CreditOK(o, id)'
      BY <1>2, <1>6, <1>9, <1>11, NewCredit DEF Puts
    <3> QED
      BY <2>1, <3>2, <3>3
  <2>2. CASE j # id
    <3>1. ctx'[e][j] = ctx[e][j]
      BY <1>2, <2>2 DEF Puts
    <3>2. StreamOK(e, j)'
      BY <1>1, <1>3, <1>5, <1>12, <1>13, <2>0, <3>1, StreamKept
    <3> QED
      BY <1>1, <1>2, <1>11, <2>0, <3>1, <3>2, CreditKept
  <2> QED
    BY <2>1, <2>2
<1>19. FramingLost'
  BY <1>1, <1>3, <1>5, <1>13, FramingKept DEF IInv
<1> QED
  BY <1>2, <1>12, <1>13, <1>14, <1>15, <1>16, <1>17, <1>18, <1>19, Assembled

\* A stream that the other end has opened is accepted and acknowledged.
LEMMA AcceptedStep ==
  ASSUME IInv, NEW e \in End, NEW id \in Id, NEW b,
         Shape(e, <<Frame("window", "ack", id, 0)>>), Puts(e, id, NewStream(b)),
         accepted'[e][id] = accepted[e][id] + 1,
         \A j \in Id : j # id => accepted'[e][j] = accepted[e][j],
         id \in Opened(Other(e)), accepted[e][id] = 0,
         PendingOK(e)', id \notin PendingIds(e)', PendingIds(e)' \subseteq PendingIds(e),
         PendingIds(e) \subseteq PendingIds(e)' \cup {id},
         \A f \in ToSet(wire'[e]) : f.flag = "syn" => f.id # id,
         call[e].op \in {"idle", "accept"}, call'[e] = Idle,
         sync' = sync, closed' = closed, shut' = shut, opens' = opens, pings' = pings,
         written' = written
  PROVE  IInv'
<1> DEFINE o == Other(e)
           g == Frame("window", "ack", id, 0)
<1>1. /\ Types /\ Types' /\ Local(e) /\ Moves(e, <<g>>) /\ CallOK(e) /\ o \in End /\ Other(o) = e
      /\ Shape(e, <<g>>)
  BY Ends DEF IInv, Shape
<1>2. /\ g.type = "window" /\ g.flag = "ack" /\ g.id = id /\ g.len = 0
      /\ ToSet(<<g>>) = {g}
  BY Single DEF Frame
<1> HIDE DEF g
<1>3. Plain(<<g>>) /\ \A j \in Id : Mute(<<g>>, j)
  BY <1>2 DEF Plain, Mute, Worth
<1>4. accepted'[e][id] = 1
  OBVIOUS
<1>5. id \notin Opened(e) /\ id \notin Mine(e) /\ Opened(o)' = Opened(o)
  BY <1>1, Fresh, Ids, OtherSame
<1>6. Grows
  <2>1. \A j \in Id : Known(e, j) => Known(e, j)'
    BY <1>4 DEF Known
  <2>2. GrowsAt(e)
    BY <1>1, <2>1, Counts DEF GrowsAt, Opened
  <2> QED
    BY <1>1, <2>2, GrowsAll
<1>7. Frames'
  <2>1. FrameOK(o, g)'
    BY <1>1, <1>2, <1>4 DEF FrameOK, WindowOK, DataOK, PingOK, Known
  <2>2. ToSet(wire'[e]) \subseteq ToSet(wire[e])
    BY <1>1, MovedFrames
  <2>3. \A f \in ToSet(wire'[e]) : f.flag = "syn" => Unheard(e, f.id)'
    BY <2>2, SynUnheard DEF Unheard
  <2> QED
    BY <1>1, <1>2, <1>6, <2>1, <2>3, FramesKept DEF IInv
<1>8. Wires'
  BY <1>1, <1>3, WiresPlain DEF IInv
<1>9. PingsOK(e)' /\ PingsOK(o)'
  BY <1>1, <1>2, <1>6, PingsKept DEF IInv
<1>10. CallOK(e)'
  BY <1>1, IdleCall DEF CallOK
<1>11. FramingLost'
  BY <1>1, <1>6, FramingKept DEF IInv
<1>12. ASSUME NEW j \in Id PROVE StreamOK(e, j)' /\ CreditOK(e, j)' /\ CreditOK(o, j)'
  <2>0. StreamOK(e, j) /\ CreditOK(e, j) /\ CreditOK(o, j)
    BY <1>1 DEF IInv
  <2>1. CASE j = id
    <3>1. ctx'[e][id] = NewStream(b) /\ ctx'[e][id].recv = Window /\ ~(Window < Window)
      BY V2Assumption DEF Puts, NewStream
    <3>2. StreamOK(e, id)'
      BY <1>4, <1>5, <3>1 DEF StreamOK, Mine
    <3>3. CreditOK(e, id)' /\ CreditOK(o, id)'
      BY <1>1, <1>3, <1>5, <3>1, NewCredit
    <3> QED
      BY <2>1, <3>2, <3>3
  <2>2. CASE j # id
    <3>1. ctx'[e][j] = ctx[e][j] /\ accepted'[e][j] = accepted[e][j]
      BY <2>2 DEF Puts
    <3>2. StreamOK(e, j)'
      BY <1>1, <1>6, <2>0, <3>1, StreamKept
    <3> QED
      BY <1>1, <1>3, <2>0, <3>1, <3>2, CreditKept
  <2> QED
    BY <2>1, <2>2
<1> QED
  BY <1>1, <1>6, <1>7, <1>8, <1>9, <1>10, <1>11, <1>12, Assembled

\* A waiting stream is accepted.
LEMMA AcceptPendingStep ==
  ASSUME IInv, NEW e \in End, AcceptPending(e)
  PROVE  IInv'
<1>0. PICK id, b : id = Head(pending[e]).id /\ b = Head(pending[e]).data
  OBVIOUS
<1>1. /\ Types /\ PendingOK(e) /\ call[e] = Idle /\ call[e].op = "idle" /\ pending[e] # <<>>
      /\ call' = call
  BY DEF IInv, AcceptPending, Idle
<1>2. /\ id \in Id /\ Shape(e, <<Frame("window", "ack", id, 0)>>) /\ wire'[e] = wire[e]
      /\ Puts(e, id, NewStream(b)) /\ pending'[e] = Tail(pending[e])
      /\ accepted'[e][id] = accepted[e][id] + 1
      /\ \A j \in Id : j # id => accepted'[e][j] = accepted[e][j]
  BY <1>0, <1>1, AcceptPendingTypes
<1>3. /\ sync' = sync /\ closed' = closed /\ shut' = shut /\ opens' = opens /\ pings' = pings
      /\ written' = written
  BY DEF AcceptPending, session, bytes
<1>4. /\ PendingOK(e)' /\ PendingIds(e)' \subseteq PendingIds(e)
      /\ id \in PendingIds(e) /\ id \notin PendingIds(e)'
      /\ PendingIds(e) \subseteq PendingIds(e)' \cup {id}
  BY <1>0, <1>1, <1>2, PendingTaken DEF Shape
<1>5. id \in Opened(Other(e))
  BY <1>1, <1>4 DEF PendingOK
<1>6. accepted[e][id] = 0
  <2>1. StreamOK(e, id) /\ accepted[e][id] \in Nat
    BY <1>1, <1>2 DEF IInv, Types
  <2>2. accepted[e][id] # 1 /\ accepted[e][id] <= 1
    BY <1>4, <2>1 DEF StreamOK
  <2> QED
    BY <2>1, <2>2
<1>7. \A f \in ToSet(wire'[e]) : f.flag = "syn" => f.id # id
  BY <1>2, <1>4, SynUnheard DEF Unheard
<1> QED
  BY <1>1, <1>2, <1>3, <1>4, <1>5, <1>6, <1>7, AcceptedStep

\* A SYN is accepted.
LEMMA AcceptSynStep ==
  ASSUME IInv, NEW e \in End, NEW f \in FrameType, Next1(e, "accept", f), AcceptSyn(e, f)
  PROVE  IInv'
<1>1. /\ Types /\ PendingOK(e) /\ wire[e] # <<>> /\ f \in ToSet(wire[e]) /\ f = Head(wire[e])
      /\ call[e].op = "accept" /\ f.flag = "syn"
  BY FirstFrame DEF IInv, AcceptSyn
<1>2. f.id \in Id /\ f.id \in Opened(Other(e)) /\ Unheard(e, f.id)
  BY <1>1, SynUnheard
<1>3. /\ Shape(e, <<Frame("window", "ack", f.id, 0)>>) /\ Took(e) /\ call'[e] = Idle
      /\ Puts(e, f.id, NewStream(f.data)) /\ accepted'[e][f.id] = accepted[e][f.id] + 1
      /\ \A j \in Id : j # f.id => accepted'[e][j] = accepted[e][j]
  BY <1>1, <1>2, AcceptSynTypes
<1>4. /\ sync' = sync /\ closed' = closed /\ shut' = shut /\ opens' = opens /\ pings' = pings
      /\ pending' = pending /\ written' = written
  BY DEF AcceptSyn, session, bytes
<1>5. PendingOK(e)' /\ PendingIds(e)' = PendingIds(e)
  BY <1>1, <1>3, <1>4, PendingSame DEF Shape
<1>6. \A h \in ToSet(wire'[e]) : h.flag = "syn" => h.id # f.id
  <2>1. wire[e] \in Seq(FrameType) /\ wire'[e] = Tail(wire[e]) /\ Distinct(wire[e])
    BY <1>3 DEF IInv, Wires, Types, Took
  <2>2. \A h \in ToSet(wire'[e]) : ~Clash(f, h)
    BY <1>1, <2>1, ShorterDistinct
  <2> QED
    BY <1>1, <2>2 DEF Clash
<1>7. f.id \notin PendingIds(e)' /\ accepted[e][f.id] = 0
  BY <1>2, <1>5 DEF Unheard
<1> QED
  BY <1>1, <1>2, <1>3, <1>4, <1>5, <1>6, <1>7, AcceptedStep

\* A sequence with one element more in front.
LEMMA InFront ==
  ASSUME NEW S, NEW w \in Seq(S), NEW x \in S
  PROVE  LET v == <<x>> \o w
         IN  /\ DOMAIN w = 1..Len(w) /\ Len(w) \in Nat /\ DOMAIN v = 1..(Len(w) + 1)
             /\ v[1] = x /\ \A i \in 2..(Len(w) + 1) : i - 1 \in 1..Len(w) /\ v[i] = w[i - 1]
OBVIOUS

\* A SYN waits to be accepted and is acknowledged.
LEMMA OpenSynStep ==
  ASSUME IInv, NEW e \in End, NEW f \in FrameType, Next1(e, "open", f), OpenSyn(e, f)
  PROVE  IInv'
<1> DEFINE o == Other(e)
           g == Frame("window", "ack", f.id, 0)
<1>1. /\ Types /\ CallOK(e) /\ PendingOK(e) /\ wire[e] # <<>> /\ f \in ToSet(wire[e]) /\ f = Head(wire[e])
      /\ call[e].op = "open" /\ f.flag = "syn" /\ o \in End /\ Other(o) = e
  BY FirstFrame, Ends DEF IInv, OpenSyn
<1>2. f.id \in Id /\ f.id \in Opened(o) /\ accepted[e][f.id] = 0 /\ f.id \notin PendingIds(e)
  BY <1>1, SynUnheard DEF Unheard
<1>3. /\ Shape(e, <<g>>) /\ Took(e) /\ pending'[e] = <<[id |-> f.id, data |-> <<>>]>> \o pending[e]
  BY <1>1, <1>2, OpenSynTypes
<1>4. /\ sync' = sync /\ closed' = closed /\ shut' = shut /\ opens' = opens /\ pings' = pings
      /\ call' = call /\ ctx' = ctx /\ accepted' = accepted /\ written' = written
  BY DEF OpenSyn, session, bytes
<1>5. Types' /\ Local(e) /\ Moves(e, <<g>>)
  BY <1>3 DEF Shape
<1>6. g.type = "window" /\ g.flag = "ack" /\ g.id = f.id /\ g.len = 0 /\ ToSet(<<g>>) = {g}
  BY Single DEF Frame
<1> HIDE DEF g
<1>7. Plain(<<g>>) /\ \A j \in Id : Mute(<<g>>, j)
  BY <1>6 DEF Plain, Mute, Worth
<1>8. Opened(o)' = Opened(o)
  BY <1>1, <1>5, OtherSame
<1>9. PendingIds(e)' = PendingIds(e) \cup {f.id} /\ PendingOK(e)'
  <2> DEFINE x == [id |-> f.id, data |-> <<>>]
             w == pending[e]
             v == pending'[e]
             n == Len(w)
  <2>1. w \in Seq(PendingType) /\ x \in PendingType /\ x.id = f.id
    <3>1. w \in Seq(PendingType)
      BY <1>1 DEF Types
    <3>2. <<>> \in Seq(1..MaxBytes)
      OBVIOUS
    <3>3. x \in PendingType /\ x.id = f.id
      BY <1>2, <3>2 DEF PendingType
    <3> QED
      BY <3>1, <3>3
  <2> HIDE DEF x
  <2>2. /\ DOMAIN w = 1..n /\ n \in Nat /\ DOMAIN v = 1..(n + 1)
        /\ v[1] = x /\ \A i \in 2..(n + 1) : i - 1 \in 1..n /\ v[i] = w[i - 1]
    BY <1>3, <2>1, InFront DEF x
  <2>3. PendingIds(e)' = {v[i].id : i \in DOMAIN v} /\ PendingIds(e) = {w[i].id : i \in DOMAIN w}
    BY DEF PendingIds
  <2>4. \A i, j \in DOMAIN w : i # j => w[i].id # w[j].id
    BY <1>1 DEF PendingOK
  <2> HIDE DEF v, w, n
  <2>5. \A i \in DOMAIN v : i \in Int /\ (i = 1 \/ (i - 1 \in DOMAIN w /\ v[i] = w[i - 1]))
    BY <2>2
  <2>6. \A i \in DOMAIN w : i + 1 \in DOMAIN v /\ v[i + 1] = w[i] /\ 1 \in DOMAIN v
    BY <2>2
  <2>7. 1 \in DOMAIN v
    BY <2>2
  <2>8. PendingIds(e)' = PendingIds(e) \cup {f.id}
    <3>1. \A i \in DOMAIN v : v[i].id \in PendingIds(e) \cup {f.id}
      BY <2>1, <2>2, <2>3, <2>5
    <3>2. \A i \in DOMAIN w : w[i].id \in PendingIds(e)'
      BY <2>3, <2>6
    <3>3. f.id \in PendingIds(e)'
      BY <2>1, <2>2, <2>3, <2>7
    <3> QED
      BY <2>3, <3>1, <3>2, <3>3
  <2>9. \A i, j \in DOMAIN v : i # j => v[i].id # v[j].id
    <3> SUFFICES ASSUME NEW i \in DOMAIN v, NEW j \in DOMAIN v, i # j PROVE v[i].id # v[j].id
      OBVIOUS
    <3>1. CASE i = 1
      BY <1>2, <2>1, <2>2, <2>3, <2>5, <3>1
    <3>2. CASE j = 1
      BY <1>2, <2>1, <2>2, <2>3, <2>5, <3>2
    <3>3. CASE i # 1 /\ j # 1
      <4>1. i - 1 # j - 1
        BY <2>5
      <4> QED
        BY <2>4, <2>5, <3>3, <4>1
    <3> QED
      BY <3>1, <3>2, <3>3
  <2> QED
    BY <1>1, <1>2, <1>8, <2>8, <2>9 DEF PendingOK, v
<1>10. Grows
  <2>1. \A j \in Id : Known(e, j) => Known(e, j)'
    BY <1>4, <1>9 DEF Known
  <2>2. GrowsAt(e)
    BY <1>1, <1>4, <2>1, Counts DEF GrowsAt, Opened
  <2> QED
    BY <1>1, <1>5, <2>2, GrowsAll
<1>11. Frames'
  <2>1. FrameOK(o, g)'
    BY <1>1, <1>2, <1>6, <1>9 DEF FrameOK, WindowOK, DataOK, PingOK, Known
  <2>2. wire[e] \in Seq(FrameType) /\ wire'[e] = Tail(wire[e]) /\ Distinct(wire[e])
    BY <1>3 DEF IInv, Wires, Types, Took
  <2>3. \A h \in ToSet(wire'[e]) : ~Clash(f, h) /\ h \in ToSet(wire[e])
    BY <1>1, <2>2, Shorter, ShorterDistinct
  <2>4. \A h \in ToSet(wire'[e]) : h.flag = "syn" => h.id # f.id
    BY <1>1, <2>3 DEF Clash
  <2>5. \A h \in ToSet(wire'[e]) : h.flag = "syn" => Unheard(e, h.id)'
    BY <1>4, <1>9, <2>3, <2>4, SynUnheard DEF Unheard
  <2> QED
    BY <1>1, <1>3, <1>6, <1>10, <2>1, <2>5, FramesKept DEF IInv
<1>12. Wires'
  BY <1>1, <1>5, <1>7, WiresPlain DEF IInv
<1>13. PingsOK(e)' /\ PingsOK(o)'
  BY <1>1, <1>3, <1>4, <1>6, <1>10, PingsKept DEF IInv
<1>14. CallOK(e)'
  BY <1>1, <1>4 DEF CallOK, Opened
<1>15. FramingLost'
  BY <1>1, <1>4, <1>5, <1>10, FramingKept DEF IInv
<1>16. ASSUME NEW j \in Id PROVE StreamOK(e, j)' /\ CreditOK(e, j)' /\ CreditOK(o, j)'
  <2>0. StreamOK(e, j) /\ CreditOK(e, j) /\ CreditOK(o, j)
    BY <1>1 DEF IInv
  <2>1. CASE j = f.id
    <3>1. Opened(e)' = Opened(e) /\ (Known(o, j) => Known(o, j)') /\ accepted'[e][j] # 1
      BY <1>1, <1>2, <1>4, <1>10, <2>1 DEF Opened, Grows, GrowsAt
    <3> QED
      BY <1>1, <1>3, <1>4, <1>7, <2>0, <3>1, CreditKept DEF StreamOK
  <2>2. CASE j # f.id
    <3>1. StreamOK(e, j)'
      BY <1>1, <1>4, <1>5, <1>9, <1>10, <2>0, <2>2, StreamKept
    <3> QED
      BY <1>1, <1>3, <1>4, <1>7, <2>0, <3>1, CreditKept
  <2> QED
    BY <2>1, <2>2
<1> QED
  BY <1>3, <1>9, <1>10, <1>11, <1>12, <1>13, <1>14, <1>15, <1>16, Assembled

(***************************************************************************)
(* Steps that move data or credit                                          *)
(***************************************************************************)
\* What is left to show of a step that moves data or credit of one stream.
LEMMA FlowStep ==
  ASSUME IInv, NEW e \in End, NEW sent, Shape(e, sent), Plain(sent), NEW id \in Id,
         \A j \in Id : j # id => /\ ctx'[e][j] = ctx[e][j] /\ written'[e][j] = written[e][j]
                                 /\ Mute(sent, j),
         ctx'[e][id].open = ctx[e][id].open,
         ctx'[e][id].recv = ctx[e][id].recv \/ written[Other(e)][id] > 0,
         written[e][id] > 0 => written'[e][id] > 0,
         written'[e][id] > 0 => written[e][id] > 0 \/ ctx[e][id].open,
         \A g \in ToSet(sent) : FrameOK(Other(e), g)',
         accepted' = accepted, sync' = sync, closed' = closed, shut' = shut,
         opens' = opens, pings' = pings,
         DOMAIN pending'[e] = DOMAIN pending[e],
         \A i \in DOMAIN pending[e] : pending'[e][i].id = pending[e][i].id,
         CallOK(e)', call'[e] = call[e] \/ call[e].op # "ping",
         call[e].op = "open" => call'[e] = call[e] \/ (call[e].id = id /\ Known(Other(e), id)),
         CreditOK(e, id)', CreditOK(Other(e), id)'
  PROVE  IInv'
<1> DEFINE o == Other(e)
<1>1. /\ Types /\ Types' /\ Local(e) /\ Moves(e, sent) /\ o \in End /\ Other(o) = e
      /\ PendingOK(e)
  BY Ends DEF IInv, Shape
<1>2. PendingOK(e)' /\ PendingIds(e)' = PendingIds(e)
  BY <1>1, PendingSame
<1>3. Grows
  <2>1. \A j \in Id : (Known(e, j) => Known(e, j)') /\ (written[e][j] > 0 => written'[e][j] > 0)
    BY <1>2 DEF Known
  <2>2. GrowsAt(e)
    BY <1>1, <2>1, Counts DEF GrowsAt, Opened
  <2> QED
    BY <1>1, <2>2, GrowsAll
<1>4. Frames'
  <2>1. ToSet(wire'[e]) \subseteq ToSet(wire[e])
    BY <1>1, MovedFrames
  <2>2. \A f \in ToSet(wire'[e]) : f.flag = "syn" => Unheard(e, f.id)'
    BY <1>2, <2>1, SynUnheard DEF Unheard
  <2> QED
    BY <1>1, <1>3, <2>2, FramesKept DEF IInv
<1>5. Wires'
  BY <1>1, WiresPlain DEF IInv
<1>6. PingsOK(e)' /\ PingsOK(o)'
  BY <1>1, <1>3, PingsKept DEF IInv, Plain
<1>7. FramingLost'
  BY <1>1, <1>3, FramingKept DEF IInv
<1>8. ASSUME NEW j \in Id PROVE StreamOK(e, j)' /\ CreditOK(e, j)' /\ CreditOK(o, j)'
  <2>0. StreamOK(e, j) /\ CreditOK(e, j) /\ CreditOK(o, j)
    BY <1>1 DEF IInv
  <2>1. Known(o, id) => Known(o, id)'
    BY <1>1, <1>3 DEF Grows, GrowsAt
  <2>2. StreamOK(e, j)'
    BY <1>1, <1>2, <1>3, <2>0, <2>1, StreamKept
  <2>3. CASE j = id
    BY <2>2, <2>3
  <2>4. CASE j # id
    BY <1>1, <2>0, <2>2, <2>4, CreditKept
  <2> QED
    BY <2>3, <2>4
<1> QED
  BY <1>2, <1>3, <1>4, <1>5, <1>6, <1>7, <1>8, Assembled

\* Less is on its way.
LEMMA Fewer ==
  ASSUME NEW s \in Nat, NEW d \in Nat, NEW w \in Nat, NEW r \in Nat, s + d + w <= r,
         NEW k \in Nat, k <= d
  PROVE  s + k + w <= r
OBVIOUS

\* What is left of w has been added to s.
LEMMA Shifted ==
  ASSUME NEW s \in Nat, NEW d \in Nat, NEW w \in Nat, NEW r \in Nat, s + d + w <= r,
         NEW k \in Nat, NEW n \in Nat, w = k + n
  PROVE  (s + n) + d + k <= r
OBVIOUS

\* Credit arrives: what was on its way may be sent.
LEMMA CreditArrives ==
  ASSUME IInv, NEW e \in End, NEW f \in FrameType, Shape(e, <<>>), Took(e), f = Head(wire[e]),
         f.type = "window", NEW id \in Id, f.id = id, ctx[e][id].open,
         Puts(e, id, [ctx[e][id] EXCEPT !.send = @ + f.len])
  PROVE  /\ CreditOK(e, id)' /\ CreditOK(Other(e), id)'
         /\ ctx'[e][id].open = ctx[e][id].open /\ ctx'[e][id].recv = ctx[e][id].recv
<1> DEFINE o == Other(e)
           de == InFlight(e, "data", id)
           do == InFlight(o, "data", id)
           we == InFlight(e, "window", id)
           wo == InFlight(o, "window", id)
<1>1. o \in End /\ Other(o) = e /\ ctx'[o] = ctx[o] /\ Types /\ Moves(e, <<>>)
  BY Ends DEF Shape, Local, IInv
<1>2. f.len \in Nat /\ Worth(f, "window", id) = f.len
  BY DEF FrameType, Worth
<1>3. /\ de \in Nat /\ do \in Nat /\ we \in Nat /\ wo \in Nat
      /\ de' \in Nat /\ we' \in Nat /\ de' <= de /\ we = we' + f.len
      /\ do' = do /\ wo' = wo
  BY <1>1, <1>2, FlowTaken, FlowSent, Nothing
<1>4. /\ ctx[e][id] \in StreamType /\ ctx[e][id].send \in Nat /\ ctx[o][id].send \in Nat
      /\ ctx[e][id].recv \in 0..Window /\ ctx[o][id].recv \in 0..Window /\ Window \in Nat
  BY <1>1, StreamFields, V2Assumption
<1>5. /\ ctx'[e][id].open = ctx[e][id].open /\ ctx'[e][id].recv = ctx[e][id].recv
      /\ ctx'[e][id].send = ctx[e][id].send + f.len
  BY <1>4 DEF Puts, StreamType
<1>6. CreditOK(e, id) /\ CreditOK(o, id)
  BY <1>1 DEF IInv
<1> HIDE DEF de, do, we, wo
<1>7. Room(o, id)' = Room(o, id) /\ Room(e, id)' = Room(e, id) /\ Room(o, id) \in Nat /\ Room(e, id) \in Nat
  BY <1>1, <1>4, <1>5 DEF Room
<1>8. CreditOK(e, id)'
  <2>1. ctx[e][id].send + do + we <= Room(o, id)
    BY <1>6 DEF CreditOK, do, we
  <2>2. ctx'[e][id].send + do' + we' <= Room(o, id)'
    <3> HIDE DEF o
    <3>1. (ctx[e][id].send + f.len) + do + we' <= Room(o, id)
      BY <1>2, <1>3, <1>4, <1>7, <2>1, Shifted
    <3> QED
      BY <1>3, <1>5, <1>7, <3>1
  <2> QED
    BY <1>1, <1>5, <2>2 DEF CreditOK, do, we
<1>9. CreditOK(o, id)'
  <2>1. ASSUME ctx[o][id].open PROVE ctx[o][id].send + de' + wo' <= Room(e, id)'
    <3>1. ctx[o][id].send + de + wo <= Room(e, id)
      BY <1>1, <1>6, <2>1 DEF CreditOK, de, wo
    <3> HIDE DEF o
    <3>2. ctx[o][id].send + de' + wo <= Room(e, id)
      BY <1>3, <1>4, <1>7, <3>1, Fewer
    <3> QED
      BY <1>3, <1>7, <3>2
  <2> QED
    BY <1>1, <1>6, <2>1 DEF CreditOK, de, wo
<1> QED
  BY <1>5, <1>8, <1>9

\* A window frame for the stream that is being opened.
LEMMA OpenWindowStep ==
  ASSUME IInv, NEW e \in End, NEW f \in FrameType, Next1(e, "open", f), OpenWindow(e, f)
  PROVE  IInv'
<1> DEFINE o == Other(e)
<1>1. /\ Types /\ CallOK(e) /\ wire[e] # <<>> /\ f \in ToSet(wire[e]) /\ f = Head(wire[e])
      /\ call[e].op = "open" /\ f.type = "window"
  BY FirstFrame DEF IInv, OpenWindow
<1>2. /\ Shape(e, <<>>) /\ Took(e) /\ f.id \in Id /\ f.id = call[e].id
      /\ Puts(e, f.id, [ctx[e][f.id] EXCEPT !.send = @ + f.len])
      /\ call'[e] = IF f.flag = "ack" THEN Idle ELSE call[e]
  BY <1>1, OpenWindowTypes
<1>3. /\ sync' = sync /\ closed' = closed /\ shut' = shut /\ opens' = opens /\ pings' = pings
      /\ pending' = pending /\ accepted' = accepted /\ written' = written
  BY DEF OpenWindow, session, bytes
<1>4. ctx[e][f.id].open
  BY <1>1, <1>2 DEF CallOK
<1>5. /\ CreditOK(e, f.id)' /\ CreditOK(o, f.id)'
      /\ ctx'[e][f.id].open = ctx[e][f.id].open /\ ctx'[e][f.id].recv = ctx[e][f.id].recv
  BY <1>1, <1>2, <1>4, CreditArrives
<1>6. \A j \in Id : j # f.id => ctx'[e][j] = ctx[e][j]
  BY <1>2 DEF Puts
<1>7. CallOK(e)'
  <2>1. CASE f.flag = "ack"
    BY <1>1, <1>2, <1>3, <2>1, IdleCall DEF CallOK
  <2>2. CASE f.flag # "ack"
    BY <1>1, <1>2, <1>3, <1>5, <2>2 DEF CallOK, Opened
  <2> QED
    BY <2>1, <2>2
<1>8. f.flag = "ack" => Known(o, f.id)
  BY <1>1 DEF IInv, Frames, FrameOK, WindowOK
<1> QED
  BY <1>1, <1>2, <1>3, <1>5, <1>6, <1>7, <1>8, Nothing, FlowStep

\* A window frame comes while a stream is read.
LEMMA ReadWindowStep ==
  ASSUME IInv, NEW e \in End, NEW f \in FrameType, Next1(e, "read", f), ReadWindow(e, f)
  PROVE  IInv'
<1> DEFINE o == Other(e)
<1>1. /\ Types /\ CallOK(e) /\ wire[e] # <<>> /\ f \in ToSet(wire[e]) /\ f = Head(wire[e])
      /\ call[e].op = "read" /\ f.type = "window"
  BY FirstFrame DEF IInv, ReadWindow
<1>2. /\ Shape(e, <<>>) /\ Took(e)
      /\ IF f.id = call[e].id
         THEN f.id \in Id /\ Puts(e, f.id, [ctx[e][f.id] EXCEPT !.send = @ + f.len])
         ELSE ctx' = ctx
  BY <1>1, ReadWindowTypes
<1>3. /\ sync' = sync /\ closed' = closed /\ shut' = shut /\ opens' = opens /\ pings' = pings
      /\ pending' = pending /\ accepted' = accepted /\ written' = written /\ call' = call
  BY DEF ReadWindow, session, bytes
<1>4. CASE f.id = call[e].id
  <2>1. ctx[e][f.id].open /\ f.id \in Id
    BY <1>1, <1>2, <1>4 DEF CallOK
  <2>2. /\ CreditOK(e, f.id)' /\ CreditOK(o, f.id)'
        /\ ctx'[e][f.id].open = ctx[e][f.id].open /\ ctx'[e][f.id].recv = ctx[e][f.id].recv
    BY <1>1, <1>2, <1>4, <2>1, CreditArrives
  <2>3. \A j \in Id : j # f.id => ctx'[e][j] = ctx[e][j]
    BY <1>2, <1>4 DEF Puts
  <2>4. CallOK(e)'
    BY <1>1, <1>3, <1>4, <2>1, <2>2 DEF CallOK
  <2> QED
    BY <1>1, <1>2, <1>3, <2>1, <2>2, <2>3, <2>4, Nothing, FlowStep
<1>5. CASE f.id # call[e].id
  <2>1. ctx' = ctx
    BY <1>2, <1>5
  <2>2. Quiet(e, <<>>)
    BY <1>1, <1>2, <1>3, <2>1, Counts, Nothing DEF Quiet
  <2>3. CallOK(e)'
    BY <1>1, <1>3, <2>1 DEF CallOK, Opened
  <2> QED
    BY <1>3, <2>2, <2>3, Nothing, QuietStep
<1> QED
  BY <1>4, <1>5

\* What is sent has been taken off s.
LEMMA Spent ==
  ASSUME NEW s \in Nat, NEW d \in Nat, NEW w \in Nat, NEW r \in Nat, s + d + w <= r,
         NEW n \in Nat, n <= s, NEW k \in Nat, k <= d + n
  PROVE  (s - n) + k + w <= r
OBVIOUS

\* What has arrived has left the wire, and as much is given back, or less room than that is left.
LEMMA GivenBack ==
  ASSUME NEW s \in Nat, NEW d \in Nat, NEW w \in Nat, NEW r \in Nat, s + d + w <= r,
         NEW k \in Nat, NEW n \in Nat, d = k + n, NEW i \in Nat, NEW x \in Nat, x <= w + i
  PROVE  n <= r /\ s + k + x <= (r - n) + i
OBVIOUS

\* A write: what goes on the wire is taken off the window.
LEMMA WriteStep ==
  ASSUME IInv, NEW e \in End, NEW id \in Id, NEW n \in 1..MaxBytes, Write(e, id, n)
  PROVE  IInv'
<1>1. /\ Types /\ CallOK(e) /\ call[e] = Idle /\ call[e].op = "idle" /\ ctx[e][id].open
  BY DEF IInv, Write, Usable, Idle
<1>2. PICK count \in Nat \ {0} :
        /\ count <= ctx[e][id].send
        /\ Shape(e, <<Data(id, Chunk(e, id, count))>>) /\ wire'[e] = wire[e]
        /\ Data(id, Chunk(e, id, count)).len = count
        /\ Len(Chunk(e, id, count)) = count
        /\ Puts(e, id, [ctx[e][id] EXCEPT !.send = @ - count])
        /\ written'[e][id] = written[e][id] + count
        /\ \A j \in Id : j # id => written'[e][j] = written[e][j]
  BY <1>1, WriteTypes
<1>3. PICK g : g = Data(id, Chunk(e, id, count))
  OBVIOUS
<1> DEFINE o == Other(e)
           de == InFlight(e, "data", id)
           do == InFlight(o, "data", id)
           we == InFlight(e, "window", id)
           wo == InFlight(o, "window", id)
<1>4. /\ Shape(e, <<g>>) /\ g.type = "data" /\ g.flag = "none" /\ g.id = id /\ g.len = count
      /\ Len(g.data) = count /\ ToSet(<<g>>) = {g}
  BY <1>2, <1>3, Single DEF Data
<1>5. o \in End /\ Other(o) = e /\ ctx'[o] = ctx[o] /\ Moves(e, <<g>>)
  BY <1>4, Ends DEF Shape, Local
<1>6. /\ sync' = sync /\ closed' = closed /\ shut' = shut /\ opens' = opens /\ pings' = pings
      /\ pending' = pending /\ accepted' = accepted /\ call' = call
  BY DEF Write, session
<1>7. written'[e][id] > 0 /\ count > 0 /\ count \in Nat
  BY <1>1, <1>2, V2Assumption DEF Types
<1>8. FrameOK(o, g)'
  BY <1>4, <1>5, <1>7 DEF FrameOK, WindowOK, DataOK, PingOK
<1>9. Plain(<<g>>) /\ \A j \in Id : j # id => Mute(<<g>>, j)
  BY <1>4 DEF Plain, Mute, Worth
<1>10. Worth(g, "data", id) = count /\ Worth(g, "window", id) = 0
  BY <1>4 DEF Worth
<1>11. /\ de \in Nat /\ do \in Nat /\ we \in Nat /\ wo \in Nat /\ do' \in Nat
       /\ de' = de /\ we' = we /\ wo' = wo /\ do' <= do + count
  BY <1>1, <1>2, <1>4, <1>5, <1>10, FlowTaken, FlowSent
<1>12. /\ ctx[e][id] \in StreamType /\ ctx[e][id].send \in Nat /\ ctx[o][id].send \in Nat
       /\ ctx[e][id].recv \in 0..Window /\ ctx[o][id].recv \in 0..Window /\ Window \in Nat
  BY <1>1, <1>5, StreamFields, V2Assumption
<1>13. /\ ctx'[e][id].open = ctx[e][id].open /\ ctx'[e][id].recv = ctx[e][id].recv
       /\ ctx'[e][id].send = ctx[e][id].send - count
       /\ \A j \in Id : j # id => ctx'[e][j] = ctx[e][j]
  BY <1>2, <1>12 DEF Puts, StreamType
<1>14. CreditOK(e, id) /\ CreditOK(o, id)
  BY <1>5 DEF IInv
<1> HIDE DEF de, do, we, wo
<1>15. /\ Room(o, id)' = Room(o, id) /\ Room(e, id)' = Room(e, id)
       /\ Room(o, id) \in Nat /\ Room(e, id) \in Nat
  BY <1>5, <1>12, <1>13 DEF Room
<1>16. CreditOK(e, id)'
  <2>1. ctx[e][id].send + do + we <= Room(o, id)
    BY <1>1, <1>14 DEF CreditOK, do, we
  <2>2. ctx'[e][id].send + do' + we' <= Room(o, id)'
    <3> HIDE DEF o
    <3>1. (ctx[e][id].send - count) + do' + we <= Room(o, id)
      BY <1>2, <1>7, <1>11, <1>12, <1>15, <2>1, Spent
    <3> QED
      BY <1>11, <1>13, <1>15, <3>1
  <2> QED
    BY <1>1, <1>5, <1>13, <2>2 DEF CreditOK, do, we
<1>17. CreditOK(o, id)'
  BY <1>5, <1>11, <1>14, <1>15 DEF CreditOK, de, wo
<1>18. CallOK(e)'
  BY <1>1, <1>6, IdleCall DEF CallOK
<1>19. \A j \in Id : j # id => /\ ctx'[e][j] = ctx[e][j] /\ written'[e][j] = written[e][j]
                              /\ Mute(<<g>>, j)
  BY <1>2, <1>9, <1>13
<1>20. /\ \A h \in ToSet(<<g>>) : FrameOK(o, h)'
       /\ call'[e] = call[e] /\ Shape(e, <<g>>) /\ Plain(<<g>>) /\ pending'[e] = pending[e]
  BY <1>4, <1>6, <1>8, <1>9
<1>21. /\ ctx'[e][id].open = ctx[e][id].open /\ ctx'[e][id].recv = ctx[e][id].recv
       /\ written'[e][id] > 0 /\ ctx[e][id].open
  BY <1>1, <1>7, <1>13
<1> QED
  BY <1>6, <1>16, <1>17, <1>18, <1>19, <1>20, <1>21, FlowStep

\* Data for a waiting stream is kept, and as much credit given back as it has used.
LEMMA ReadPendingStep ==
  ASSUME IInv, NEW e \in End, NEW f \in FrameType, Next1(e, "read", f), ReadPending(e, f)
  PROVE  IInv'
<1>1. /\ Types /\ CallOK(e) /\ wire[e] # <<>> /\ f \in ToSet(wire[e]) /\ f = Head(wire[e])
      /\ call[e].op = "read" /\ f.type = "data" /\ f.len > 0 /\ f.len \in Nat
  BY FirstFrame DEF IInv, ReadPending, FrameType
<1>2. PICK id : id = f.id
  OBVIOUS
<1> DEFINE o == Other(e)
           g == Frame("window", "none", id, f.len)
           de == InFlight(e, "data", id)
           do == InFlight(o, "data", id)
           we == InFlight(e, "window", id)
           wo == InFlight(o, "window", id)
<1>3. Shape(e, <<g>>) /\ Took(e)
  BY <1>1, <1>2, ReadPendingTypes
<1>4. /\ g.type = "window" /\ g.flag = "none" /\ g.id = id /\ g.len = f.len /\ ToSet(<<g>>) = {g}
  BY Single DEF Frame
<1> HIDE DEF g
<1>5. o \in End /\ Other(o) = e /\ ctx'[o] = ctx[o] /\ Moves(e, <<g>>) /\ written'[o] = written[o]
  BY <1>3, Ends DEF Shape, Local
<1>6. /\ sync' = sync /\ closed' = closed /\ shut' = shut /\ opens' = opens /\ pings' = pings
      /\ ctx' = ctx /\ accepted' = accepted /\ call' = call /\ written' = written
  BY DEF ReadPending, session, bytes
<1>7. /\ DOMAIN pending'[e] = DOMAIN pending[e]
      /\ \A i \in DOMAIN pending[e] : pending'[e][i].id = pending[e][i].id
  BY <1>1, KeptTypes DEF ReadPending
<1>8. id \in Id /\ written[o][id] > 0
  BY <1>1, <1>2 DEF IInv, Frames, FrameOK, DataOK
<1>9. FrameOK(o, g)'
  BY <1>4, <1>5, <1>8 DEF FrameOK, WindowOK, DataOK, PingOK
<1>10. Plain(<<g>>) /\ \A j \in Id : j # id => Mute(<<g>>, j)
  BY <1>4 DEF Plain, Mute, Worth
<1>11. /\ Worth(g, "data", id) = 0 /\ Worth(g, "window", id) = f.len
       /\ Worth(f, "data", id) = f.len
  BY <1>1, <1>2, <1>4 DEF Worth
<1>12. /\ de \in Nat /\ do \in Nat /\ we \in Nat /\ wo \in Nat
       /\ de' \in Nat /\ we' \in Nat /\ wo' \in Nat
       /\ de = de' + f.len /\ we' <= we /\ do' = do /\ wo' <= wo + f.len
  BY <1>1, <1>3, <1>4, <1>5, <1>11, FlowTaken, FlowSent
<1>13. /\ ctx[e][id].send \in Nat /\ ctx[o][id].send \in Nat
       /\ ctx[e][id].recv \in 0..Window /\ ctx[o][id].recv \in 0..Window /\ Window \in Nat
  BY <1>1, <1>5, <1>8, StreamFields, V2Assumption
<1>14. CreditOK(e, id) /\ CreditOK(o, id)
  BY <1>5, <1>8 DEF IInv
<1> HIDE DEF de, do, we, wo
<1>15. /\ Room(o, id)' = Room(o, id) /\ Room(e, id)' = Room(e, id)
       /\ Room(o, id) \in Nat /\ Room(e, id) \in Nat
  BY <1>6, <1>13 DEF Room
<1>16. CreditOK(e, id)'
  <2>1. ASSUME ctx[e][id].open PROVE ctx[e][id].send + do' + we' <= Room(o, id)'
    <3>1. ctx[e][id].send + do + we <= Room(o, id)
      BY <1>14, <2>1 DEF CreditOK, do, we
    <3>2. ctx[e][id].send + we + do <= Room(o, id)
      BY <1>12, <1>13, <3>1
    <3>3. ctx[e][id].send + we' + do <= Room(o, id)
      BY <1>12, <1>13, <1>15, <3>2, Fewer
    <3>4. ctx[e][id].send + do + we' <= Room(o, id)
      BY <1>12, <1>13, <3>3
    <3> QED
      BY <1>12, <1>15, <3>4
  <2> QED
    BY <1>6, <1>14, <2>1 DEF CreditOK, do, we
<1>17. CreditOK(o, id)'
  <2>1. ASSUME ctx[o][id].open PROVE ctx[o][id].send + de' + wo' <= Room(e, id)'
    <3>1. ctx[o][id].send + de + wo <= Room(e, id)
      BY <1>5, <1>14, <2>1 DEF CreditOK, de, wo
    <3>2. f.len <= Room(e, id) /\ ctx[o][id].send + de' + wo' <= (Room(e, id) - f.len) + f.len
      <4>1. PICK s, d, w, r, k, x : /\ s = ctx[o][id].send /\ d = de /\ w = wo /\ r = Room(e, id)
                                    /\ k = de' /\ x = wo'
        OBVIOUS
      <4>2. /\ s \in Nat /\ d \in Nat /\ w \in Nat /\ r \in Nat /\ k \in Nat /\ x \in Nat
            /\ f.len \in Nat /\ s + d + w <= r /\ d = k + f.len /\ x <= w + f.len
        BY <1>1, <1>12, <1>13, <1>15, <3>1, <4>1
      <4>3. f.len <= r /\ s + k + x <= (r - f.len) + f.len
        BY <4>2, GivenBack
      <4> QED
        BY <4>1, <4>3
    <3>3. (Room(e, id) - f.len) + f.len = Room(e, id)
      BY <1>1, <1>15
    <3> QED
      BY <1>15, <3>2, <3>3
  <2> QED
    BY <1>5, <1>6, <1>14, <2>1 DEF CreditOK, de, wo
<1>18. CallOK(e)'
  BY <1>1, <1>6 DEF CallOK, Opened
<1> QED
  BY <1>1, <1>3, <1>4, <1>6, <1>7, <1>8, <1>9, <1>10, <1>16, <1>17, <1>18, FlowStep

\* Data is delivered: the room it took is given back now or kept off the window.
LEMMA ReadDataStep ==
  ASSUME IInv, NEW e \in End, NEW f \in FrameType, Next1(e, "read", f), ReadData(e, f)
  PROVE  IInv'
<1>1. /\ Types /\ CallOK(e) /\ wire[e] # <<>> /\ f \in ToSet(wire[e]) /\ f = Head(wire[e])
      /\ call[e].op = "read" /\ f.type = "data" /\ f.len \in Nat /\ f.id = call[e].id /\ f.flag # "fin"
  BY FirstFrame DEF IInv, ReadData, FrameType
<1>2. DataOK(e, f)
  BY <1>1 DEF IInv, Frames, FrameOK
<1>3. PICK id : id = f.id
  OBVIOUS
<1>4. PICK inc, left : inc = Increment(ctx[e][id].recv, f.len) /\ left = Left(ctx[e][id].recv, f.len)
  OBVIOUS
<1> DEFINE o == Other(e)
           g == Frame("window", "none", id, inc)
           sent == IF inc > 0 THEN <<g>> ELSE <<>>
           de == InFlight(e, "data", id)
           do == InFlight(o, "data", id)
           we == InFlight(e, "window", id)
           wo == InFlight(o, "window", id)
<1>5. /\ Shape(e, sent) /\ Took(e) /\ call'[e] = Idle /\ id \in Id
      /\ \E b : Puts(e, id, [ctx[e][id] EXCEPT !.recv = left + inc, !.buffer = b])
  BY <1>1, <1>2, <1>3, <1>4, ReadDataTypes
<1>6. /\ g.type = "window" /\ g.flag = "none" /\ g.id = id /\ g.len = inc
      /\ (\A h \in ToSet(sent) : h = g) /\ (inc > 0 => sent = <<g>>) /\ (~(inc > 0) => ToSet(sent) = {})
  BY Single, Nothing DEF Frame
<1> HIDE DEF g, sent
<1>7. o \in End /\ Other(o) = e /\ ctx'[o] = ctx[o] /\ Moves(e, sent) /\ written'[o] = written[o]
  BY <1>5, Ends DEF Shape, Local
<1>8. /\ sync' = sync /\ closed' = closed /\ shut' = shut /\ opens' = opens /\ pings' = pings
      /\ pending' = pending /\ accepted' = accepted /\ written' = written
  BY DEF ReadData, session
<1>9. f.len > 0 /\ written[o][id] > 0
  BY <1>1, <1>2, <1>3 DEF DataOK
<1>10. ctx[e][id].open
  BY <1>1, <1>3 DEF CallOK
<1>11. /\ ctx[e][id] \in StreamType /\ ctx[e][id].send \in Nat /\ ctx[o][id].send \in Nat
       /\ ctx[e][id].recv \in 0..Window /\ ctx[o][id].recv \in 0..Window /\ Window \in Nat
       /\ ctx[e][id].recv \in Nat
  <2>1. Window \in Nat
    BY V2Assumption
  <2> QED
    BY <1>1, <1>5, <1>7, <2>1, StreamFields
<1>12. /\ left \in 0..Window /\ inc \in Nat /\ left + inc \in 0..Window
       /\ f.len <= ctx[e][id].recv => left = ctx[e][id].recv - f.len
  BY <1>1, <1>4, <1>11, WindowArithmetic
<1>13. /\ ctx'[e][id].open = ctx[e][id].open /\ ctx'[e][id].recv = left + inc
       /\ ctx'[e][id].send = ctx[e][id].send
       /\ \A j \in Id : j # id => ctx'[e][j] = ctx[e][j]
  BY <1>5, <1>11 DEF Puts, StreamType
<1>14. FrameOK(o, g)'
  BY <1>5, <1>6, <1>7, <1>9 DEF FrameOK, WindowOK, DataOK, PingOK
<1>15. Plain(sent) /\ \A j \in Id : j # id => Mute(sent, j)
  BY <1>6 DEF Plain, Mute, Worth
<1>16. /\ Worth(g, "data", id) = 0 /\ Worth(g, "window", id) = inc
       /\ Worth(f, "data", id) = f.len
  BY <1>1, <1>3, <1>6 DEF Worth
<1>17. /\ de \in Nat /\ do \in Nat /\ we \in Nat /\ wo \in Nat
       /\ de' \in Nat /\ we' \in Nat /\ wo' \in Nat
       /\ de = de' + f.len /\ we' <= we /\ do' = do
  BY <1>1, <1>5, <1>6, <1>7, <1>16, FlowTaken, FlowSent
<1>18. wo' <= wo + inc
  <2>1. CASE inc > 0
    <3>1. sent = <<g>>
      BY <1>6, <2>1
    <3> QED
      BY <1>1, <1>7, <1>16, <3>1, FlowSent
  <2>2. CASE ~(inc > 0)
    <3>1. wo' = wo
      BY <1>1, <1>6, <1>7, <2>2, FlowSent
    <3> QED
      BY <1>12, <1>17, <3>1
  <2> QED
    BY <2>1, <2>2
<1>19. CreditOK(e, id) /\ CreditOK(o, id)
  BY <1>5, <1>7 DEF IInv
<1> HIDE DEF de, do, we, wo
<1>20. /\ Room(o, id)' = Room(o, id) /\ Room(o, id) \in Nat
       /\ Room(e, id) = ctx[e][id].recv /\ Room(e, id)' = left + inc
  BY <1>7, <1>10, <1>11, <1>13 DEF Room
<1>21. CreditOK(e, id)'
  <2>1. ctx[e][id].send + do + we <= Room(o, id)
    BY <1>10, <1>19 DEF CreditOK, do, we
  <2>2. ctx[e][id].send + we + do <= Room(o, id)
    BY <1>11, <1>17, <2>1
  <2>3. ctx[e][id].send + we' + do <= Room(o, id)
    BY <1>11, <1>17, <1>20, <2>2, Fewer
  <2>4. ctx[e][id].send + do + we' <= Room(o, id)
    BY <1>11, <1>17, <2>3
  <2>5. ctx'[e][id].send + do' + we' <= Room(o, id)'
    BY <1>13, <1>17, <1>20, <2>4
  <2> QED
    BY <1>10, <1>13, <2>5 DEF CreditOK, do, we
<1>22. CreditOK(o, id)'
  <2>1. ASSUME ctx[o][id].open PROVE ctx[o][id].send + de' + wo' <= Room(e, id)'
    <3>1. ctx[o][id].send + de + wo <= ctx[e][id].recv
      BY <1>7, <1>19, <1>20, <2>1 DEF CreditOK, de, wo
    <3>2. /\ f.len <= ctx[e][id].recv
          /\ ctx[o][id].send + de' + wo' <= (ctx[e][id].recv - f.len) + inc
      <4>1. PICK s, d, w, r, k, x : /\ s = ctx[o][id].send /\ d = de /\ w = wo /\ r = ctx[e][id].recv
                                    /\ k = de' /\ x = wo'
        OBVIOUS
      <4>2. /\ s \in Nat /\ d \in Nat /\ w \in Nat /\ r \in Nat /\ k \in Nat /\ x \in Nat
            /\ inc \in Nat /\ f.len \in Nat /\ s + d + w <= r /\ d = k + f.len /\ x <= w + inc
        BY <1>1, <1>11, <1>12, <1>17, <1>18, <3>1, <4>1
      <4>3. f.len <= r /\ s + k + x <= (r - f.len) + inc
        BY <4>2, GivenBack
      <4> QED
        BY <4>1, <4>3
    <3> QED
      BY <1>12, <1>20, <3>2
  <2> QED
    BY <1>7, <1>19, <2>1 DEF CreditOK, de, wo
<1>23. CallOK(e)'
  BY <1>1, <1>5, <1>8, IdleCall DEF CallOK
<1> QED
  BY <1>1, <1>5, <1>6, <1>8, <1>9, <1>13, <1>14, <1>15, <1>21, <1>22, <1>23, FlowStep

(***************************************************************************)
(* Theorems                                                                *)
(***************************************************************************)
\* The initial state.
LEMMA InitHolds == Init => IInv
<1> SUFFICES ASSUME Init PROVE IInv
  OBVIOUS
<1>1. \A e \in End : Other(e) \in End
  BY Ends
<1>2. /\ 0 \in 0..MaxOpens /\ 0 \in 0..MaxPings /\ 0 \in 0..MaxBytes /\ ~(0 > 0)
      /\ <<>> \in Seq(FrameType) /\ <<>> \in Seq(PendingType) /\ <<>> \in Seq(1..MaxBytes)
  BY V2Assumption
<1>3. Types
  BY <1>2, StreamTypes DEF Init, Types
<1>4. \A e \in End : wire[e] = <<>> /\ pending[e] = <<>> /\ sync[e]
  BY DEF Init
<1>5. \A e \in End : ToSet(wire[e]) = {} /\ DOMAIN wire[e] = {} /\ DOMAIN pending[e] = {}
  BY <1>4, Nothing
<1>6. Frames /\ Wires
  BY <1>1, <1>5 DEF Frames, Wires, Distinct, Apart
<1>7. FramingLost
  BY <1>4 DEF FramingLost
<1>8. ASSUME NEW e \in End PROVE PingsOK(e) /\ CallOK(e) /\ PendingOK(e)
  <2>1. call[e] = Idle /\ call[e].op = "idle" /\ shut[e] = FALSE /\ closed[e] = FALSE
    BY DEF Init, Idle
  <2>2. PingsOK(e)
    BY <1>1, <1>5 DEF PingsOK
  <2>3. PendingOK(e)
    BY <1>5 DEF PendingOK, PendingIds
  <2> QED
    BY <2>1, <2>2, <2>3 DEF CallOK
<1>9. ASSUME NEW e \in End, NEW id \in Id PROVE StreamOK(e, id) /\ CreditOK(e, id)
  <2>1. ctx[e][id] = NoStream /\ ctx[e][id].open = FALSE /\ ctx[e][id].send = 0
    BY DEF Init, NoStream
  <2>2. accepted[e][id] = 0 /\ written[e][id] = 0 /\ 0 <= 1
    BY DEF Init
  <2> QED
    BY <1>2, <2>1, <2>2 DEF StreamOK, CreditOK
<1> QED
  BY <1>3, <1>6, <1>7, <1>8, <1>9 DEF IInv

\* A frame that is read has the type of a frame.
LEMMA Incoming ==
  ASSUME Types, NEW e \in End
  PROVE  \A f \in ToSet(wire[e]) : f \in FrameType
BY Elements DEF Types

\* A step of a call that waits for an ACK or a SYN.
LEMMA WaitingSteps ==
  ASSUME IInv, NEW e \in End, OpenStep(e) \/ AcceptStep(e)
  PROVE  IInv'
<1>1. Types
  BY DEF IInv
<1>2. CASE OpenStep(e)
  <2>1. PICK f \in ToSet(wire[e]) :
          /\ Next1(e, "open", f)
          /\ \/ GoAwayReceived(e, f) \/ Control(e, f)
             \/ OpenWindow(e, f) \/ OpenSyn(e, f) \/ OpenData(e, f) \/ OpenOther(e, f)
    BY <1>2 DEF OpenStep
  <2>2. f \in FrameType /\ wire[e] # <<>> /\ "open" # "idle"
    BY <1>1, <2>1, Incoming DEF Next1
  <2> QED
    BY <2>1, <2>2, GoAwayStep, ControlStep, OpenWindowStep, OpenSynStep, OpenDataStep, DropsStep
    DEF Drops
<1>3. CASE AcceptStep(e)
  <2>1. PICK f \in ToSet(wire[e]) :
          /\ Next1(e, "accept", f)
          /\ GoAwayReceived(e, f) \/ Control(e, f) \/ AcceptSyn(e, f) \/ AcceptOther(e, f)
    BY <1>3 DEF AcceptStep
  <2>2. f \in FrameType /\ wire[e] # <<>> /\ "accept" # "idle"
    BY <1>1, <2>1, Incoming DEF Next1
  <2> QED
    BY <2>1, <2>2, GoAwayStep, ControlStep, AcceptSynStep, DropsStep DEF Drops
<1> QED
  BY <1>2, <1>3

\* A step of a call that waits for data or for the answer to a ping.
LEMMA ReadingSteps ==
  ASSUME IInv, NEW e \in End, ReadStep(e) \/ PingStep(e)
  PROVE  IInv'
<1>1. Types
  BY DEF IInv
<1>2. CASE ReadStep(e)
  <2>1. PICK f \in ToSet(wire[e]) :
          /\ Next1(e, "read", f)
          /\ \/ GoAwayReceived(e, f) \/ Control(e, f) \/ ReadWindow(e, f) \/ ReadPending(e, f)
             \/ ReadOther(e, f) \/ ReadFin(e, f) \/ ReadData(e, f)
    BY <1>2 DEF ReadStep
  <2>2. f \in FrameType /\ wire[e] # <<>> /\ "read" # "idle"
    BY <1>1, <2>1, Incoming DEF Next1
  <2>3. CASE GoAwayReceived(e, f) \/ Control(e, f) \/ ReadOther(e, f) \/ ReadFin(e, f)
    BY <2>1, <2>2, <2>3, GoAwayStep, ControlStep, DropsStep, ReadFinStep DEF Drops
  <2>4. CASE ReadWindow(e, f) \/ ReadPending(e, f) \/ ReadData(e, f)
    BY <2>1, <2>2, <2>4, ReadWindowStep, ReadPendingStep, ReadDataStep
  <2> QED
    BY <2>1, <2>3, <2>4
<1>3. CASE PingStep(e)
  <2>1. PICK f \in ToSet(wire[e]) :
          /\ Next1(e, "ping", f)
          /\ GoAwayReceived(e, f) \/ Pong(e, f) \/ PingOther(e, f)
    BY <1>3 DEF PingStep
  <2>2. f \in FrameType /\ wire[e] # <<>>
    BY <1>1, <2>1, Incoming DEF Next1
  <2> QED
    BY <2>1, <2>2, GoAwayStep, PongStep, PingOtherStep
<1> QED
  BY <1>2, <1>3

\* Every step keeps the invariant.
LEMMA StepHolds == IInv /\ [Next]_vars => IInv'
<1> SUFFICES ASSUME IInv, [Next]_vars PROVE IInv'
  OBVIOUS
<1>1. CASE Next
  <2>1. PICK e \in End :
          \/ Open(e) \/ OpenStep(e) \/ AcceptPending(e) \/ Accept(e) \/ AcceptStep(e)
          \/ \E id \in Id : Read(e, id, 1) \/ \E n \in 1..MaxBytes : Write(e, id, n)
          \/ ReadStep(e)
          \/ \E id \in Id : CloseStream(e, id)
          \/ libp2p_yamux_session_ping(e) \/ PingStep(e)
          \/ libp2p_yamux_session_goaway(e) \/ libp2p_yamux_session_free(e)
          \/ ReadFails(e) \/ AnswerFails(e) \/ FirstWriteFails(e)
    BY <1>1 DEF Next
  <2>2. CASE Open(e) \/ OpenStep(e) \/ AcceptPending(e) \/ Accept(e) \/ AcceptStep(e)
    BY <2>2, OpenStep1, WaitingSteps, AcceptPendingStep, AcceptStep1
  <2>3. CASE \E id \in Id : Read(e, id, 1) \/ \E n \in 1..MaxBytes : Write(e, id, n)
    BY <2>3, ReadStep1, WriteStep
  <2>4. CASE ReadStep(e) \/ PingStep(e) \/ \E id \in Id : CloseStream(e, id)
    BY <2>4, ReadingSteps, CloseStep
  <2>5. CASE \/ libp2p_yamux_session_ping(e) \/ libp2p_yamux_session_goaway(e)
             \/ libp2p_yamux_session_free(e)
    BY <2>5, PingStep1, GoodbyeStep, FreeStep
  <2>6. CASE ReadFails(e) \/ AnswerFails(e) \/ FirstWriteFails(e)
    BY <2>6, ReadFailsStep, AnswerFailsStep, FirstWriteStep
  <2> QED
    BY <2>1, <2>2, <2>3, <2>4, <2>5, <2>6
<1>2. CASE UNCHANGED vars
  <2>1. /\ wire' = wire /\ sync' = sync /\ closed' = closed /\ shut' = shut /\ opens' = opens
        /\ pings' = pings /\ pending' = pending /\ ctx' = ctx /\ call' = call /\ accepted' = accepted
        /\ written' = written /\ got' = got /\ dropped' = dropped
    BY <1>2 DEF vars, session, stream, bytes
  <2>2. Types' /\ Frames' /\ Wires' /\ FramingLost'
    BY <2>1 DEF IInv, Types, Frames, FrameOK, WindowOK, DataOK, PingOK, Opened, Unheard, Known,
                PendingIds, Wires, FramingLost
  <2>3. \A e \in End : PingsOK(e)' /\ CallOK(e)' /\ PendingOK(e)'
    BY <2>1 DEF IInv, PingsOK, Pinging, CallOK, PendingOK, Opened, PendingIds
  <2>4. \A e \in End, id \in Id : StreamOK(e, id)' /\ CreditOK(e, id)'
    BY <2>1 DEF IInv, StreamOK, Known, Opened, PendingIds, CreditOK, InFlight, Room
  <2> QED
    BY <2>2, <2>3, <2>4 DEF IInv
<1> QED
  BY <1>1, <1>2

\* The inductive invariant holds in every state of the two sessions of v2/src/conn/yamux.c.
THEOREM InvariantHolds == Spec => []IInv
<1>1. Init => IInv
  BY InitHolds
<1>2. IInv /\ [Next]_vars => IInv'
  BY StepHolds
<1> QED
  BY <1>1, <1>2, PTL DEF Spec

\* Every variable keeps its type, and no window, of the sender or of the receiver, ever grows past
\* YAMUX_INITIAL_WINDOW_SIZE: the unsigned subtraction in yamux_stream_read stays in range.
THEOREM TypeCorrect == Spec => []TypeOK
<1>1. IInv => TypeOK
  <2> SUFFICES ASSUME IInv PROVE TypeOK
    OBVIOUS
  <2>1. Types
    BY DEF IInv
  <2>2. ASSUME NEW e \in End, NEW id \in Id
        PROVE  ctx[e][id] \in [open : BOOLEAN, send : 0..Window, recv : 0..Window,
                               closed : BOOLEAN, buffer : Seq(1..MaxBytes)]
    <3> DEFINE o == Other(e)
               do == InFlight(o, "data", id)
               we == InFlight(e, "window", id)
    <3>1. o \in End
      BY Ends
    <3>2. do \in Nat /\ we \in Nat
      BY <2>1, <3>1, UnitsFinite DEF InFlight, Amount, Types
    <3>3. CreditOK(e, id) /\ ctx[e][id] \in StreamType /\ ctx[e][id].send \in Nat /\ Window \in Nat
      BY <2>1, StreamFields, V2Assumption DEF IInv
    <3>4. Room(o, id) \in Nat /\ Room(o, id) <= Window
      <4>1. ctx[o][id].recv \in 0..Window
        BY <2>1, <3>1, StreamFields
      <4> QED
        BY <3>3, <4>1 DEF Room
    <3>5. CASE ctx[e][id].open
      <4>1. ctx[e][id].send + do + we <= Room(o, id)
        BY <3>3, <3>5 DEF CreditOK
      <4> HIDE DEF do, we, o
      <4>2. ctx[e][id].send \in 0..Window
        BY <3>2, <3>3, <3>4, <4>1
      <4> QED
        BY <3>3, <4>2 DEF StreamType
    <3>6. CASE ~ctx[e][id].open
      <4>1. ctx[e][id].send \in 0..Window
        BY <3>3, <3>6 DEF CreditOK
      <4> QED
        BY <3>3, <4>1 DEF StreamType
    <3> QED
      BY <3>5, <3>6
  <2>3. ctx \in [End -> [Id -> [open : BOOLEAN, send : 0..Window, recv : 0..Window,
                                closed : BOOLEAN, buffer : Seq(1..MaxBytes)]]]
    BY <2>1, <2>2 DEF Types
  <2> QED
    BY <2>1, <2>3 DEF TypeOK, Types, PendingType, CallType
<1> QED
  BY <1>1, InvariantHolds, PTL

\* A stream that libp2p_yamux_stream_open has returned is known to the other end, accepted or
\* pending, unless a session has ended since; and libp2p_yamux_stream_accept returns none twice.
THEOREM OpenAnswered == Spec => []OpenIsAnswered
<1>1. IInv => OpenIsAnswered
  BY DEF IInv, StreamOK, Known, OpenIsAnswered
<1> QED
  BY <1>1, InvariantHolds, PTL

\* yamux_discard_payload leaves the frame boundaries only when both ends ping, or when an end
\* that has written waits for something else while its credit comes back.
THEOREM FramesLostOnlyWhen == Spec => []FramingLost
<1>1. IInv => FramingLost
  BY DEF IInv
<1> QED
  BY <1>1, InvariantHolds, PTL

\* What yamux_stream_write may still send, with what is on its way and what it is about to be
\* allowed, always fits the window the other end keeps for the stream.
THEOREM CreditFits == Spec => []CreditBounded
<1>1. IInv => CreditBounded
  BY DEF IInv, CreditOK, Room, CreditBounded
<1> QED
  BY <1>1, InvariantHolds, PTL

(***************************************************************************)
(* Bytes                                                                   *)
(***************************************************************************)
\* What holds of the bytes of a stream: those held and those on a wire are in order, none is among
\* those thrown away, and all of them have been written.
BytesIn(h, w, D, n, id) ==
  /\ InOrder(h, w, id)
  /\ AllOf(h, w, id) \cap D = {}
  /\ AllOf(h, w, id) \cup D \subseteq 1..n

\* Two sequences, one after the other.
LEMMA Joined ==
  ASSUME NEW s \in Seq(Nat), NEW t \in Seq(Nat)
  PROVE  /\ s \o t \in Seq(Nat) /\ ToSet(s \o t) = ToSet(s) \cup ToSet(t)
         /\ Increasing(s \o t) <=> Increasing(s) /\ Increasing(t) /\ Before(s, t)
<1> DEFINE v == s \o t
           k == Len(s)
           l == Len(t)
<1>1. /\ v \in Seq(Nat) /\ k \in Nat /\ l \in Nat
      /\ DOMAIN s = 1..k /\ DOMAIN t = 1..l /\ DOMAIN v = 1..(k + l)
  OBVIOUS
<1>2. (\A i \in 1..k : v[i] = s[i]) /\ \A i \in 1..l : v[k + i] = t[i]
  OBVIOUS
<1> HIDE DEF v, k, l
<1>3. ASSUME NEW i \in 1..(k + l) PROVE i \in 1..k \/ \E j \in 1..l : i = k + j
  <2>1. CASE i <= k
    BY <1>1, <2>1
  <2>2. CASE ~(i <= k)
    <3>1. i - k \in 1..l /\ i = k + (i - k)
      BY <1>1, <2>2
    <3> QED
      BY <3>1
  <2> QED
    BY <2>1, <2>2
<1>4. (\A i \in 1..k : i \in 1..(k + l)) /\ \A i \in 1..l : k + i \in 1..(k + l)
  BY <1>1
<1>5. ToSet(v) = ToSet(s) \cup ToSet(t)
  <2>1. ASSUME NEW x PROVE x \in ToSet(v) <=> x \in ToSet(s) \/ x \in ToSet(t)
    <3>1. x \in ToSet(v) <=> \E i \in 1..(k + l) : v[i] = x
      BY <1>1 DEF ToSet
    <3>2. x \in ToSet(s) <=> \E i \in 1..k : s[i] = x
      BY <1>1 DEF ToSet
    <3>3. x \in ToSet(t) <=> \E i \in 1..l : t[i] = x
      BY <1>1 DEF ToSet
    <3> QED
      BY <1>2, <1>3, <1>4, <3>1, <3>2, <3>3
  <2> QED
    BY <2>1
<1>6. ASSUME Increasing(v) PROVE Increasing(s) /\ Increasing(t) /\ Before(s, t)
  <2>1. \A i, j \in 1..(k + l) : i < j => v[i] < v[j]
    BY <1>1, <1>6 DEF Increasing
  <2>2. \A i, j \in 1..k : i < j => s[i] < s[j]
    BY <1>2, <1>4, <2>1
  <2>3. ASSUME NEW i \in 1..l, NEW j \in 1..l, i < j PROVE t[i] < t[j]
    <3>1. k + i \in 1..(k + l) /\ k + j \in 1..(k + l) /\ k + i < k + j
      BY <1>1, <2>3
    <3> QED
      BY <1>2, <2>1, <3>1
  <2>4. ASSUME NEW i \in 1..k, NEW j \in 1..l PROVE s[i] < t[j]
    <3>1. i \in 1..(k + l) /\ k + j \in 1..(k + l) /\ i < k + j
      BY <1>1
    <3> QED
      BY <1>2, <2>1, <3>1
  <2>5. Before(s, t)
    <3> SUFFICES ASSUME NEW x \in ToSet(s), NEW y \in ToSet(t) PROVE x < y
      BY DEF Before
    <3>1. PICK i \in 1..k : x = s[i]
      BY <1>1 DEF ToSet
    <3>2. PICK j \in 1..l : y = t[j]
      BY <1>1 DEF ToSet
    <3> QED
      BY <2>4, <3>1, <3>2
  <2> QED
    BY <1>1, <2>2, <2>3, <2>5 DEF Increasing
<1>7. ASSUME Increasing(s), Increasing(t), Before(s, t) PROVE Increasing(v)
  <2>1. \A i, j \in 1..k : i < j => s[i] < s[j]
    BY <1>1, <1>7 DEF Increasing
  <2>2. \A i, j \in 1..l : i < j => t[i] < t[j]
    BY <1>1, <1>7 DEF Increasing
  <2>3. \A i \in 1..k, j \in 1..l : s[i] < t[j]
    BY <1>1, <1>7 DEF Before, ToSet
  <2>4. ASSUME NEW i \in 1..(k + l), NEW j \in 1..(k + l), i < j PROVE v[i] < v[j]
    <3>1. CASE i \in 1..k /\ j \in 1..k
      BY <1>2, <2>1, <2>4, <3>1
    <3>2. CASE i \in 1..k /\ j \notin 1..k
      BY <1>2, <1>3, <2>3, <3>2
    <3>3. CASE i \notin 1..k
      <4>1. PICK a \in 1..l : i = k + a
        BY <1>3, <3>3
      <4>2. j \notin 1..k
        BY <1>1, <2>4, <3>3
      <4>3. PICK b \in 1..l : j = k + b
        BY <1>3, <4>2
      <4>4. a < b
        BY <1>1, <2>4, <4>1, <4>3
      <4> QED
        BY <1>2, <2>2, <4>1, <4>3, <4>4
    <3> QED
      BY <3>1, <3>2, <3>3
  <2> QED
    BY <1>1, <2>4 DEF Increasing
<1> QED
  BY <1>1, <1>5, <1>6, <1>7 DEF v

\* Bytes are numbers.
LEMMA Numbers ==
  ASSUME NEW s \in Seq(1..MaxBytes)
  PROVE  s \in Seq(Nat)
<1>1. Len(s) \in Nat /\ s = [i \in 1..Len(s) |-> s[i]]
  OBVIOUS
<1>2. \A i \in 1..Len(s) : s[i] \in ToSet(s)
  BY DEF ToSet
<1>3. \A i \in 1..Len(s) : s[i] \in Nat
  <2>1. ToSet(s) \subseteq 1..MaxBytes
    BY Elements
  <2> QED
    BY <1>2, <2>1, V2Assumption
<1> QED
  BY <1>1, <1>3, Listed

\* The bytes of a frame are numbers.
LEMMA PayloadType ==
  ASSUME NEW f \in FrameType, NEW id
  PROVE  Payload(f, id) \in Seq(1..MaxBytes) /\ Payload(f, id) \in Seq(Nat)
<1>1. f.data \in Seq(1..MaxBytes) /\ <<>> \in Seq(1..MaxBytes)
  BY DEF FrameType
<1>2. Payload(f, id) \in Seq(1..MaxBytes)
  BY <1>1 DEF Payload
<1> QED
  BY <1>2, Numbers

\* Where a byte is.
LEMMA AllOfIs ==
  ASSUME NEW h, NEW w, NEW id
  PROVE  \A x : x \in AllOf(h, w, id) <=> x \in ToSet(h) \/ \E i \in DOMAIN w : x \in ToSet(Payload(w[i], id))
BY DEF AllOf

\* The bytes of the first frame are held now.
LEMMA BytesTaken ==
  ASSUME NEW h \in Seq(Nat), NEW w \in Seq(FrameType), w # <<>>, NEW id, NEW D, NEW n, BytesIn(h, w, D, n, id)
  PROVE  /\ BytesIn(h \o Payload(Head(w), id), Tail(w), D, n, id)
         /\ AllOf(h \o Payload(Head(w), id), Tail(w), id) = AllOf(h, w, id)
<1> DEFINE v == Tail(w)
           p == Payload(Head(w), id)
           P(i) == Payload(w[i], id)
           Q(i) == Payload(v[i], id)
           g == h \o p
<1>1. /\ \A i \in DOMAIN v : i \in Nat /\ i + 1 \in DOMAIN w /\ v[i] = w[i + 1]
      /\ 1 \in DOMAIN w /\ Head(w) = w[1] /\ Head(w) \in FrameType
  BY Shorter
<1>2. \A i \in DOMAIN w : i = 1 \/ i - 1 \in DOMAIN v
  <2>1. DOMAIN w = 1..Len(w) /\ DOMAIN v = 1..(Len(w) - 1) /\ Len(w) \in Nat
    BY Shorter
  <2> QED
    BY <2>1
<1>3. p = P(1) /\ (\A i \in DOMAIN v : Q(i) = P(i + 1) /\ i + 1 \in DOMAIN w /\ 1 < i + 1) /\ 1 \in DOMAIN w
  <2>1. \A i \in DOMAIN v : i > 0
    BY Shorter
  <2>2. \A i \in DOMAIN v : 1 < i + 1
    BY <1>1, <2>1
  <2> QED
    BY <1>1, <2>2
<1>4. \A i \in DOMAIN w : i = 1 \/ \E j \in DOMAIN v : P(i) = Q(j)
  <2>1. ASSUME NEW i \in DOMAIN w, i # 1 PROVE \E j \in DOMAIN v : P(i) = Q(j)
    <3>1. i - 1 \in DOMAIN v /\ (i - 1) + 1 = i
      BY <1>2, <2>1
    <3> QED
      BY <1>1, <3>1
  <2> QED
    BY <2>1
<1>5. p \in Seq(Nat)
  BY <1>1, PayloadType
<1>6. InOrder(h, w, id)
  BY DEF BytesIn
<1>7. /\ Increasing(h) /\ \A i \in DOMAIN w : Increasing(P(i)) /\ Before(h, P(i))
      /\ \A i, j \in DOMAIN w : i < j => Before(P(i), P(j))
  BY <1>6 DEF InOrder
<1>8. \A x : x \in AllOf(h, w, id) <=> x \in ToSet(h) \/ \E i \in DOMAIN w : x \in ToSet(P(i))
  BY AllOfIs
<1>9. \A x : x \in AllOf(g, v, id) <=> x \in ToSet(g) \/ \E i \in DOMAIN v : x \in ToSet(Q(i))
  BY AllOfIs
<1>10. /\ ToSet(g) = ToSet(h) \cup ToSet(p)
       /\ Increasing(g) <=> Increasing(h) /\ Increasing(p) /\ Before(h, p)
  BY <1>5, Joined
<1>11. \A i, j \in DOMAIN v : i < j => i + 1 < j + 1
  BY <1>1
<1> HIDE DEF v, p, P, Q, g
<1>12. AllOf(g, v, id) = AllOf(h, w, id)
  <2>1. ASSUME NEW x PROVE x \in AllOf(g, v, id) <=> x \in AllOf(h, w, id)
    BY <1>3, <1>4, <1>8, <1>9, <1>10
  <2> QED
    BY <2>1
<1>13. Increasing(g)
  BY <1>3, <1>7, <1>10
<1>14. ASSUME NEW i \in DOMAIN v PROVE Increasing(Q(i)) /\ Before(g, Q(i))
  <2>1. Increasing(Q(i)) /\ Before(h, Q(i)) /\ Before(p, Q(i))
    BY <1>3, <1>7
  <2> QED
    BY <1>10, <2>1 DEF Before
<1>15. ASSUME NEW i \in DOMAIN v, NEW j \in DOMAIN v, i < j PROVE Before(Q(i), Q(j))
  BY <1>3, <1>7, <1>11, <1>15
<1>16. InOrder(g, v, id)
  BY <1>13, <1>14, <1>15 DEF InOrder, Q
<1>17. BytesIn(g, v, D, n, id)
  BY <1>12, <1>16 DEF BytesIn
<1> QED
  BY <1>12, <1>17 DEF g, v, p

\* Less is held.
LEMMA BytesCut ==
  ASSUME NEW h \in Seq(Nat), NEW t \in Seq(Nat), NEW w, NEW id, NEW D, NEW n, BytesIn(h \o t, w, D, n, id)
  PROVE  BytesIn(h, w, D, n, id)
<1> DEFINE g == h \o t
<1>1. /\ ToSet(g) = ToSet(h) \cup ToSet(t)
      /\ Increasing(g) <=> Increasing(h) /\ Increasing(t) /\ Before(h, t)
  BY Joined
<1>2. BytesIn(g, w, D, n, id)
  OBVIOUS
<1> HIDE DEF g
<1>3. InOrder(h, w, id)
  BY <1>1, <1>2 DEF BytesIn, InOrder, Before
<1>4. AllOf(h, w, id) \subseteq AllOf(g, w, id)
  BY <1>1, AllOfIs
<1> QED
  BY <1>2, <1>3, <1>4 DEF BytesIn

\* The bytes of the first frame are among those thrown away.
ThrownAway(h, w, D, n, id) ==
  LET p == ToSet(Payload(Head(w), id))
  IN  /\ BytesIn(h, Tail(w), D \cup p, n, id)
      /\ AllOf(h, Tail(w), id) \cup (D \cup p) = AllOf(h, w, id) \cup D

\* They may be thrown away.
LEMMA BytesLost ==
  ASSUME NEW h \in Seq(Nat), NEW w \in Seq(FrameType), w # <<>>, NEW id, NEW D, NEW n, BytesIn(h, w, D, n, id)
  PROVE  ThrownAway(h, w, D, n, id)
<1> DEFINE v == Tail(w)
           q == Payload(Head(w), id)
           g == h \o q
           Q(i) == Payload(v[i], id)
<1>1. q \in Seq(Nat)
  BY Shorter, PayloadType
<1>2. BytesIn(g, v, D, n, id) /\ AllOf(g, v, id) = AllOf(h, w, id)
  BY BytesTaken
<1>3. ToSet(g) = ToSet(h) \cup ToSet(q) /\ (Increasing(g) => Before(h, q))
  BY <1>1, Joined
<1>4. BytesIn(h, v, D, n, id)
  <2> HIDE DEF q
  <2> QED
    BY <1>1, <1>2, BytesCut
<1>5. \A x : x \in AllOf(h, v, id) <=> x \in ToSet(h) \/ \E i \in DOMAIN v : x \in ToSet(Q(i))
  BY AllOfIs
<1>6. \A x : x \in AllOf(g, v, id) <=> x \in ToSet(g) \/ \E i \in DOMAIN v : x \in ToSet(Q(i))
  BY AllOfIs
<1>7. Increasing(g) /\ \A i \in DOMAIN v : Before(g, Q(i))
  BY <1>2 DEF BytesIn, InOrder
<1>8. \A i \in DOMAIN v : Q(i) \in Seq(Nat)
  <2>1. v \in Seq(FrameType)
    BY Shorter
  <2>2. \A i \in DOMAIN v : v[i] \in FrameType
    BY <2>1
  <2> QED
    BY <2>2, PayloadType
<1>9. ToSet(q) \subseteq Nat
  BY <1>1, Elements
<1> HIDE DEF v, q, g, Q
<1>10. AllOf(h, v, id) \cap ToSet(q) = {}
  <2> SUFFICES ASSUME NEW x \in AllOf(h, v, id), x \in ToSet(q) PROVE FALSE
    OBVIOUS
  <2>1. x \in Nat /\ ~(x < x)
    BY <1>9
  <2>2. CASE x \in ToSet(h)
    BY <1>3, <1>7, <2>1, <2>2 DEF Before
  <2>3. CASE \E i \in DOMAIN v : x \in ToSet(Q(i))
    BY <1>3, <1>7, <2>1, <2>3 DEF Before
  <2> QED
    BY <1>5, <2>2, <2>3
<1>11. AllOf(g, v, id) = AllOf(h, v, id) \cup ToSet(q)
  <2>1. \A x : x \in AllOf(g, v, id) <=> x \in AllOf(h, v, id) \/ x \in ToSet(q)
    BY <1>3, <1>5, <1>6
  <2> QED
    BY <2>1
<1>12. BytesIn(h, v, D \cup ToSet(q), n, id)
  BY <1>2, <1>4, <1>10, <1>11 DEF BytesIn
<1>13. AllOf(h, v, id) \cup (D \cup ToSet(q)) = AllOf(h, w, id) \cup D
  BY <1>2, <1>11
<1> QED
  BY <1>12, <1>13 DEF v, q, ThrownAway

\* A frame follows, with the bytes written last.
LEMMA BytesSent ==
  ASSUME NEW h \in Seq(Nat), NEW w \in Seq(FrameType), NEW g \in FrameType, NEW id, NEW D,
         NEW n \in Nat, NEW m \in Nat, n <= m, BytesIn(h, w, D, n, id),
         Increasing(Payload(g, id)), ToSet(Payload(g, id)) = (n + 1)..m
  PROVE  /\ BytesIn(h, w \o <<g>>, D, m, id)
         /\ AllOf(h, w \o <<g>>, id) = AllOf(h, w, id) \cup ((n + 1)..m)
<1> DEFINE v == w \o <<g>>
           q == Payload(g, id)
           l == Len(w) + 1
           P(i) == Payload(w[i], id)
           Q(i) == Payload(v[i], id)
<1>1. /\ DOMAIN w = 1..Len(w) /\ DOMAIN v = 1..l /\ Len(w) \in Nat
      /\ \A i \in DOMAIN w : v[i] = w[i]
      /\ v[l] = g
  BY Longer
<1>2. \A i : i \in DOMAIN v <=> i \in DOMAIN w \/ i = l
  BY <1>1
<1>3. \A i \in DOMAIN w : i < l /\ ~(l < i) /\ ~(l < l)
  BY <1>1
<1>4. Q(l) = q /\ \A i \in DOMAIN w : Q(i) = P(i)
  BY <1>1
<1>5. /\ Increasing(h) /\ \A i \in DOMAIN w : Increasing(P(i)) /\ Before(h, P(i))
      /\ \A i, j \in DOMAIN w : i < j => Before(P(i), P(j))
  BY DEF BytesIn, InOrder
<1>6. \A x : x \in AllOf(h, w, id) <=> x \in ToSet(h) \/ \E i \in DOMAIN w : x \in ToSet(P(i))
  BY AllOfIs
<1>7. \A x : x \in AllOf(h, v, id) <=> x \in ToSet(h) \/ \E i \in DOMAIN v : x \in ToSet(Q(i))
  BY AllOfIs
<1>8. ~(l < l)
  BY <1>1
<1>9. Increasing(q) /\ ToSet(q) = (n + 1)..m
  OBVIOUS
<1> HIDE DEF v, q, l, P, Q
<1>10. AllOf(h, v, id) = AllOf(h, w, id) \cup ((n + 1)..m)
  <2>1. ASSUME NEW x PROVE x \in AllOf(h, v, id) <=> x \in AllOf(h, w, id) \/ x \in ToSet(q)
    BY <1>2, <1>4, <1>6, <1>7
  <2> QED
    BY <1>9, <2>1
<1>11. \A x \in AllOf(h, w, id), y \in ToSet(q) : x < y
  <2>1. \A x \in AllOf(h, w, id) : x \in 1..n
    BY DEF BytesIn
  <2>2. \A x \in 1..n, y \in (n + 1)..m : x < y
    OBVIOUS
  <2> QED
    BY <1>9, <2>1, <2>2
<1>12. Before(h, q) /\ \A i \in DOMAIN w : Before(P(i), q)
  BY <1>6, <1>11 DEF Before
<1>13. \A i \in DOMAIN v : Increasing(Q(i)) /\ Before(h, Q(i))
  BY <1>2, <1>4, <1>5, <1>9, <1>12
<1>14. ASSUME NEW i \in DOMAIN v, NEW j \in DOMAIN v, i < j PROVE Before(Q(i), Q(j))
  <2>1. CASE i \in DOMAIN w /\ j \in DOMAIN w
    BY <1>4, <1>5, <1>14, <2>1
  <2>2. CASE i \in DOMAIN w /\ j = l
    BY <1>4, <1>12, <2>2
  <2>3. CASE i = l
    BY <1>2, <1>3, <1>8, <1>14, <2>3
  <2> QED
    BY <1>2, <2>1, <2>2, <2>3
<1>15. InOrder(h, v, id)
  BY <1>5, <1>13, <1>14 DEF InOrder, Q
<1>16. D \subseteq 1..n /\ AllOf(h, w, id) \subseteq 1..n /\ AllOf(h, w, id) \cap D = {}
  BY DEF BytesIn
<1>17. 1..n \subseteq 1..m /\ (n + 1)..m \subseteq 1..m /\ (1..n) \cap ((n + 1)..m) = {}
  OBVIOUS
<1>18. BytesIn(h, v, D, m, id)
  <2>1. AllOf(h, v, id) \cap D = {}
    BY <1>10, <1>16, <1>17
  <2>2. AllOf(h, v, id) \cup D \subseteq 1..m
    BY <1>10, <1>16, <1>17
  <2> QED
    BY <1>15, <2>1, <2>2 DEF BytesIn
<1> QED
  BY <1>10, <1>18 DEF v

\* What e has delivered and keeps of a stream.
Held(e, id) == got[e][id] \o Kept(e, id)

\* A stream that e has not given up: it is open, waits to be accepted, or its SYN is on its way.
Live(e, id) ==
  ctx[e][id].open \/ id \in PendingIds(e) \/ \E f \in ToSet(wire[e]) : f.flag = "syn" /\ f.id = id

Complete(e, id) ==
  AllOf(Held(e, id), wire[e], id) \cup dropped[e][id] = 1..written[Other(e)][id]

BytesOK(e, id) ==
  /\ ~ctx[e][id].open => ctx[e][id].buffer = <<>>
  /\ call[e].op = "read" /\ call[e].id = id => ctx[e][id].buffer = <<>>
  /\ sync[e] => BytesIn(Held(e, id), wire[e], dropped[e][id], written[Other(e)][id], id)
  /\ sync[e] /\ Live(e, id) /\ ~shut[e] => Complete(e, id)

\* Only DATA frames without a FIN have a payload.
Bare(w) == \A f \in ToSet(w) : f.type # "data" \/ f.flag = "fin" => f.data = <<>>

BInv ==
  /\ \A e \in End : Bare(wire[e])
  /\ \A e \in End, id \in Id : BytesOK(e, id)

\* What is kept with a waiting stream, or in a buffer.
LEMMA KeptIs ==
  ASSUME Types, NEW e \in End, NEW id \in Id
  PROVE  /\ Kept(e, id) \in Seq(Nat) /\ got[e][id] \in Seq(Nat) /\ Held(e, id) \in Seq(Nat)
         /\ id \notin PendingIds(e) => Kept(e, id) = ctx[e][id].buffer
         /\ PendingOK(e) => \A i \in DOMAIN pending[e] : pending[e][i].id = id => Kept(e, id) = pending[e][i].data
<1> DEFINE D == DOMAIN pending[e]
           k == CHOOSE i \in D : pending[e][i].id = id
<1>1. id \in PendingIds(e) => k \in D /\ pending[e][k].id = id /\ Kept(e, id) = pending[e][k].data
  BY DEF PendingIds, Kept
<1>2. id \notin PendingIds(e) => Kept(e, id) = ctx[e][id].buffer
  BY DEF Kept
<1>3. got[e][id] \in Seq(Nat)
  BY Numbers DEF Types
<1>4. Kept(e, id) \in Seq(Nat)
  <2>1. ctx[e][id].buffer \in Seq(1..MaxBytes)
    BY StreamFields
  <2>2. \A i \in D : pending[e][i].data \in Seq(1..MaxBytes)
    <3>1. pending[e] \in Seq(PendingType)
      BY DEF Types
    <3>2. \A i \in D : pending[e][i] \in PendingType
      BY <3>1
    <3> QED
      BY <3>2 DEF PendingType
  <2> HIDE DEF D, k
  <2> QED
    BY <1>1, <1>2, <2>1, <2>2, Numbers
<1>5. ASSUME PendingOK(e), NEW i \in D, pending[e][i].id = id PROVE Kept(e, id) = pending[e][i].data
  <2>1. id \in PendingIds(e)
    BY <1>5 DEF PendingIds
  <2> HIDE DEF k
  <2>2. k = i
    BY <1>1, <1>5, <2>1 DEF PendingOK
  <2> QED
    BY <1>1, <2>1, <2>2
<1>6. Held(e, id) \in Seq(Nat)
  BY <1>3, <1>4, Joined DEF Held
<1> QED
  BY <1>2, <1>3, <1>4, <1>5, <1>6

\* A step of e brings nothing of a stream.
Calm(e, id) == wire'[e] = wire[e] \/ (Took(e) /\ Payload(Head(wire[e]), id) = <<>>)

\* What a step of e does to the bytes of a stream it receives: it leaves them, keeps the next frame's
\* or throws them away, or gives up the stream.
Fate(e, id) ==
  \/ /\ Calm(e, id) /\ Held(e, id)' = Held(e, id) /\ dropped'[e][id] = dropped[e][id]
     /\ Live(e, id)' => Live(e, id) \/ written[Other(e)][id] = 0
  \/ /\ Took(e) /\ Held(e, id)' = Held(e, id) \o Payload(Head(wire[e]), id)
     /\ dropped'[e][id] = dropped[e][id] /\ (Live(e, id)' => Live(e, id))
  \/ /\ Took(e) /\ Held(e, id)' = Held(e, id) /\ (Live(e, id)' => Live(e, id))
     /\ dropped'[e][id] = dropped[e][id] \cup ToSet(Payload(Head(wire[e]), id))
  \/ /\ Calm(e, id) /\ dropped'[e][id] = dropped[e][id] /\ (Live(e, id)' => shut'[e])
     /\ \E s, t \in Seq(Nat) : Held(e, id) = s \o t /\ Held(e, id)' = s

\* The first frame has no byte of a stream.
LEMMA BytesCalm ==
  ASSUME Types, NEW e \in End, NEW id \in Id, Calm(e, id), NEW D, NEW n,
         BytesIn(Held(e, id), wire[e], D, n, id)
  PROVE  /\ BytesIn(Held(e, id), wire'[e], D, n, id)
         /\ AllOf(Held(e, id), wire'[e], id) = AllOf(Held(e, id), wire[e], id)
<1> DEFINE h == Held(e, id)
<1>1. h \in Seq(Nat) /\ h \o <<>> = h /\ wire[e] \in Seq(FrameType)
  BY KeptIs DEF Types
<1> HIDE DEF h
<1>2. CASE wire'[e] = wire[e]
  BY <1>2
<1>3. CASE Took(e) /\ Payload(Head(wire[e]), id) = <<>>
  <2>1. BytesIn(h, wire[e], D, n, id)
    BY DEF h
  <2>2. /\ BytesIn(h \o Payload(Head(wire[e]), id), Tail(wire[e]), D, n, id)
        /\ AllOf(h \o Payload(Head(wire[e]), id), Tail(wire[e]), id) = AllOf(h, wire[e], id)
    BY <1>1, <1>3, <2>1, BytesTaken DEF Took
  <2>3. BytesIn(h, wire'[e], D, n, id) /\ AllOf(h, wire'[e], id) = AllOf(h, wire[e], id)
    BY <1>1, <1>3, <2>2 DEF Took
  <2> QED
    BY <2>3 DEF h
<1> QED
  BY <1>2, <1>3 DEF Calm

\* What such a step keeps.
LEMMA BytesOwn ==
  ASSUME Types, Types', NEW e \in End, NEW id \in Id, BytesOK(e, id), Fate(e, id),
         ~ctx'[e][id].open => ctx'[e][id].buffer = <<>>,
         call'[e].op = "read" /\ call'[e].id = id => ctx'[e][id].buffer = <<>>,
         written'[Other(e)][id] = written[Other(e)][id],
         sync'[e] => sync[e], shut[e] => shut'[e]
  PROVE  BytesOK(e, id)'
<1> DEFINE h == Held(e, id)
           n == written[Other(e)][id]
           D == dropped[e][id]
           p == Payload(Head(wire[e]), id)
           W == wire'[e]
           G == Held(e, id)'
           E == dropped'[e][id]
<1>1. SUFFICES ASSUME sync'[e]
               PROVE  /\ BytesIn(G, W, E, n, id)
                      /\ Live(e, id)' /\ ~shut'[e] => AllOf(G, W, id) \cup E = 1..n
  BY DEF BytesOK, Complete
<1>2. /\ BytesIn(h, wire[e], D, n, id)
      /\ Live(e, id) /\ ~shut[e] => AllOf(h, wire[e], id) \cup D = 1..n
  BY <1>1 DEF BytesOK, Complete
<1>3. h \in Seq(Nat) /\ wire[e] \in Seq(FrameType)
  BY KeptIs DEF Types
<1>4. CASE /\ Calm(e, id) /\ G = h /\ E = D
           /\ Live(e, id)' => Live(e, id) \/ n = 0
  <2>1. BytesIn(h, W, D, n, id) /\ AllOf(h, W, id) = AllOf(h, wire[e], id)
    BY <1>2, <1>4, BytesCalm
  <2>2. n = 0 => AllOf(h, W, id) \cup D = 1..n
    <3>1. AllOf(h, W, id) \cup D \subseteq 1..n /\ 1..0 = {}
      BY <2>1 DEF BytesIn
    <3> QED
      BY <3>1
  <2> HIDE DEF h, n, D, W, G, E
  <2> QED
    BY <1>2, <1>4, <2>1, <2>2
<1>5. CASE Took(e) /\ G = h \o p /\ E = D /\ (Live(e, id)' => Live(e, id))
  <2>1. BytesIn(h \o p, Tail(wire[e]), D, n, id) /\ AllOf(h \o p, Tail(wire[e]), id) = AllOf(h, wire[e], id)
    BY <1>2, <1>3, <1>5, BytesTaken DEF Took
  <2>2. W = Tail(wire[e])
    BY <1>5 DEF Took
  <2> HIDE DEF h, n, D, W, G, E, p
  <2> QED
    BY <1>2, <1>5, <2>1, <2>2
<1>6. CASE Took(e) /\ G = h /\ E = D \cup ToSet(p) /\ (Live(e, id)' => Live(e, id))
  <2>1. /\ BytesIn(h, Tail(wire[e]), D \cup ToSet(p), n, id)
        /\ AllOf(h, Tail(wire[e]), id) \cup (D \cup ToSet(p)) = AllOf(h, wire[e], id) \cup D
    <3>1. wire[e] # <<>> /\ BytesIn(h, wire[e], D, n, id)
      BY <1>2, <1>6 DEF Took
    <3> HIDE DEF h, n, D
    <3>2. ThrownAway(h, wire[e], D, n, id)
      BY <1>3, <3>1, BytesLost
    <3> QED
      BY <3>2 DEF ThrownAway
  <2>2. W = Tail(wire[e])
    BY <1>6 DEF Took
  <2> HIDE DEF h, n, D, W, G, E, p
  <2> QED
    BY <1>2, <1>6, <2>1, <2>2
<1>7. CASE /\ Calm(e, id) /\ E = D /\ (Live(e, id)' => shut'[e])
           /\ \E s, t \in Seq(Nat) : h = s \o t /\ G = s
  <2>1. BytesIn(h, W, D, n, id)
    BY <1>2, <1>7, BytesCalm
  <2> HIDE DEF h, n, D, W, G, E
  <2>2. PICK s \in Seq(Nat), t \in Seq(Nat) : h = s \o t /\ G = s
    BY <1>7
  <2>3. BytesIn(s \o t, W, D, n, id)
    BY <2>1, <2>2
  <2>4. BytesIn(s, W, D, n, id)
    BY <2>3, BytesCut
  <2> QED
    BY <1>7, <2>2, <2>4
<1> QED
  BY <1>4, <1>5, <1>6, <1>7 DEF Fate

\* What e has to do with the bytes it sends: a frame brings what is new.
Brings(e, sent, id) ==
  LET n == written[e][id]
      m == written'[e][id]
  IN  /\ n <= m /\ (sent = <<>> => m = n)
      /\ \A g \in ToSet(sent) : /\ Increasing(Payload(g, id)) /\ ToSet(Payload(g, id)) = (n + 1)..m
                                /\ g.flag = "syn" /\ g.id = id => m = 0

\* The end that receives them.
LEMMA BytesOther ==
  ASSUME Types, NEW e \in End, NEW sent, Shape(e, sent), NEW id \in Id, BytesOK(Other(e), id),
         got'[Other(e)] = got[Other(e)], dropped'[Other(e)] = dropped[Other(e)], Brings(e, sent, id)
  PROVE  BytesOK(Other(e), id)'
<1> DEFINE o == Other(e)
           h == Held(o, id)
           D == dropped[o][id]
           n == written[e][id]
           m == written'[e][id]
           w == wire[o]
           W == wire'[o]
<1>1. o \in End /\ Other(o) = e /\ Types' /\ Local(e) /\ Moves(e, sent)
  BY Ends DEF Shape
<1>2. n \in Nat /\ m \in Nat /\ w \in Seq(FrameType) /\ h \in Seq(Nat) /\ n <= m
  <2>1. h \in Seq(Nat)
    BY <1>1, KeptIs
  <2>2. n \in 0..MaxBytes /\ m \in 0..MaxBytes /\ w \in Seq(FrameType)
    BY <1>1 DEF Types
  <2> QED
    BY <2>1, <2>2 DEF Brings
<1>3. /\ Held(o, id)' = h /\ dropped'[o][id] = D /\ PendingIds(o)' = PendingIds(o)
      /\ ctx'[o] = ctx[o] /\ call'[o] = call[o] /\ sync'[o] = sync[o] /\ shut'[o] = shut[o]
  BY <1>1 DEF Local, Held, Kept, PendingIds
<1>4. SUFFICES ASSUME sync[o]
               PROVE  /\ BytesIn(h, W, D, m, id)
                      /\ Live(o, id)' /\ ~shut[o] => AllOf(h, W, id) \cup D = 1..m
  BY <1>1, <1>3 DEF BytesOK, Complete
<1>5. /\ BytesIn(h, w, D, n, id)
      /\ Live(o, id) /\ ~shut[o] => AllOf(h, w, id) \cup D = 1..n
  BY <1>1, <1>4 DEF BytesOK, Complete
<1>6. CASE sent = <<>>
  <2>1. W = w /\ m = n
    BY <1>1, <1>6 DEF Moves, Gets, Brings
  <2>2. Live(o, id)' => Live(o, id)
    BY <1>3, <2>1 DEF Live
  <2> HIDE DEF h, D, n, m, w, W
  <2> QED
    BY <1>5, <2>1, <2>2
<1>7. CASE shut[o]
  <2>1. W = w
    BY <1>1, <1>7 DEF Moves, Gets
  <2> HIDE DEF h, D, n, m, w, W
  <2>2. 1..n \subseteq 1..m
    BY <1>2
  <2>3. BytesIn(h, W, D, m, id)
    BY <1>5, <2>1, <2>2 DEF BytesIn
  <2> QED
    BY <1>7, <2>3
<1>8. CASE sent # <<>> /\ ~shut[o]
  <2>1. PICK g \in FrameType : sent = <<g>>
    BY <1>1, <1>8 DEF Moves, Sent
  <2>2. W = w \o <<g>> /\ ToSet(sent) = {g}
    BY <1>1, <1>8, <2>1, Single DEF Moves, Gets
  <2>3. /\ Increasing(Payload(g, id)) /\ ToSet(Payload(g, id)) = (n + 1)..m
        /\ g.flag = "syn" /\ g.id = id => m = 0
    BY <2>2 DEF Brings
  <2>4. ToSet(W) = ToSet(w) \cup {g}
    BY <1>2, <2>2, Longer
  <2>5. Live(o, id)' => Live(o, id) \/ m = 0
    BY <1>3, <2>3, <2>4 DEF Live
  <2> HIDE DEF h, D, n, m, w, W
  <2>6. BytesIn(h, W, D, m, id) /\ AllOf(h, W, id) = AllOf(h, w, id) \cup ((n + 1)..m)
    BY <1>2, <1>5, <2>2, <2>3, BytesSent
  <2>7. 1..m = 1..n \cup ((n + 1)..m)
    BY <1>2
  <2>8. m = 0 => AllOf(h, W, id) \cup D = 1..m
    <3>1. AllOf(h, W, id) \cup D \subseteq 1..m /\ 1..0 = {}
      BY <2>6 DEF BytesIn
    <3> QED
      BY <3>1
  <2> QED
    BY <1>5, <1>8, <2>5, <2>6, <2>7, <2>8
<1> QED
  BY <1>6, <1>7, <1>8

\* A stream is open, waits to be accepted, or has its SYN under way.
LEMMA OneRole ==
  ASSUME IInv, NEW e \in End, NEW id \in Id
  PROVE  /\ ctx[e][id].open => id \notin PendingIds(e) /\ \A f \in ToSet(wire[e]) : f.flag = "syn" => f.id # id
         /\ id \in PendingIds(e) => \A f \in ToSet(wire[e]) : f.flag = "syn" => f.id # id
<1>1. StreamOK(e, id) /\ PendingOK(e) /\ Types /\ Other(e) \in End
  BY Ends DEF IInv
<1>2. Opened(e) \subseteq Mine(e) /\ Opened(Other(e)) \subseteq Mine(Other(e)) /\ Mine(e) \cap Mine(Other(e)) = {}
  BY <1>1, Fresh, Ids
<1>3. ctx[e][id].open => id \notin PendingIds(e)
  BY <1>1, <1>2 DEF StreamOK, PendingOK
<1>4. ASSUME NEW f \in ToSet(wire[e]), f.flag = "syn", f.id = id
      PROVE  ~ctx[e][id].open /\ id \notin PendingIds(e)
  <2>1. id \in Opened(Other(e)) /\ accepted[e][id] = 0 /\ id \notin PendingIds(e)
    BY <1>4, SynUnheard DEF Unheard
  <2>2. accepted[e][id] # 1
    BY <2>1
  <2> QED
    BY <1>1, <1>2, <2>1, <2>2 DEF StreamOK
<1> QED
  BY <1>3, <1>4

\* The buffer of a stream that is not open, or is being read, is empty.
Buffers(e, id) ==
  /\ ~ctx'[e][id].open => ctx'[e][id].buffer = <<>>
  /\ call'[e].op = "read" /\ call'[e].id = id => ctx'[e][id].buffer = <<>>

\* What is sent is no data, and a SYN is for a stream that is new.
Dataless(e, sent) ==
  \A g \in ToSet(sent) : g.data = <<>> /\ (g.flag = "syn" => g.id \in Id /\ written[e][g.id] = 0)

\* A step that writes nothing.
LEMMA BytesStep ==
  ASSUME IInv, BInv, NEW e \in End, NEW sent, Shape(e, sent), Dataless(e, sent),
         got'[Other(e)] = got[Other(e)], dropped'[Other(e)] = dropped[Other(e)], written' = written,
         sync'[e] => sync[e], shut[e] => shut'[e], \A id \in Id : Fate(e, id) /\ Buffers(e, id)
  PROVE  BInv'
<1>1. /\ Types /\ Types' /\ Other(e) \in End /\ Moves(e, sent)
      /\ \A d \in End : Bare(wire[d]) /\ \A id \in Id : BytesOK(d, id)
  BY Ends DEF IInv, BInv, Shape
<1>2. ASSUME NEW id \in Id PROVE BytesOK(e, id)'
  BY <1>1, BytesOwn DEF Buffers
<1>3. ASSUME NEW id \in Id PROVE BytesOK(Other(e), id)'
  <2> DEFINE n == written[e][id]
  <2>1. n \in 0..MaxBytes
    BY <1>1 DEF Types
  <2>2. n \in Nat /\ n <= n /\ (n + 1)..n = {}
    BY <2>1
  <2>3. ToSet(<<>>) = {} /\ Increasing(<<>>)
    BY Nothing DEF Increasing
  <2>4. ASSUME NEW g \in ToSet(sent) PROVE Payload(g, id) = <<>> /\ (g.flag = "syn" /\ g.id = id => n = 0)
    BY DEF Dataless, Payload
  <2>5. Brings(e, sent, id)
    BY <2>2, <2>3, <2>4 DEF Brings
  <2> QED
    BY <1>1, <2>5, BytesOther
<1>4. /\ ToSet(wire'[e]) \subseteq ToSet(wire[e])
      /\ ToSet(wire'[Other(e)]) \subseteq ToSet(wire[Other(e)]) \cup ToSet(sent)
  BY <1>1, MovedFrames
<1>5. Bare(wire'[e]) /\ Bare(wire'[Other(e)])
  BY <1>1, <1>4 DEF Bare, Dataless
<1> QED
  BY <1>2, <1>3, <1>5, Ends DEF BInv

\* A frame without data brings nothing.
LEMMA CalmFrame ==
  ASSUME NEW e \in End, Took(e), Head(wire[e]).data = <<>>, NEW id \in Id
  PROVE  Calm(e, id)
BY DEF Calm, Payload

\* The first frame is bare.
LEMMA BareFirst ==
  ASSUME IInv, BInv, NEW e \in End, wire[e] # <<>>,
         Head(wire[e]).type # "data" \/ Head(wire[e]).flag = "fin"
  PROVE  Head(wire[e]).data = <<>>
<1>1. Head(wire[e]) \in ToSet(wire[e])
  BY Shorter DEF IInv, Types
<1> QED
  BY <1>1 DEF BInv, Bare

\* No SYN comes to the wire of e by a step of e.
LEMMA LiveKept ==
  ASSUME IInv, NEW e \in End, NEW sent, Shape(e, sent), NEW id \in Id,
         ctx'[e][id].open => Live(e, id), id \in PendingIds(e)' => Live(e, id)
  PROVE  Live(e, id)' => Live(e, id)
<1>1. ToSet(wire'[e]) \subseteq ToSet(wire[e])
  BY MovedFrames DEF IInv, Shape
<1> QED
  BY <1>1 DEF Live

\* A stream that is left as it is.
LEMMA Untouched ==
  ASSUME IInv, BInv, NEW e \in End, NEW sent, Shape(e, sent), NEW id \in Id, Calm(e, id),
         ctx'[e][id].open = ctx[e][id].open, ctx'[e][id].buffer = ctx[e][id].buffer,
         pending'[e] = pending[e], got'[e][id] = got[e][id], dropped'[e][id] = dropped[e][id],
         call'[e].op # "read" \/ call'[e] = call[e]
  PROVE  Fate(e, id) /\ Buffers(e, id)
<1>1. PendingIds(e)' = PendingIds(e)
  BY DEF PendingIds
<1>2. Held(e, id)' = Held(e, id)
  BY <1>1 DEF Held, Kept
<1>3. Live(e, id)' => Live(e, id)
  <2>1. (ctx'[e][id].open => Live(e, id)) /\ (id \in PendingIds(e)' => Live(e, id))
    BY <1>1 DEF Live
  <2> QED
    BY <2>1, LiveKept
<1>4. Buffers(e, id)
  BY DEF BInv, BytesOK, Buffers
<1> QED
  BY <1>2, <1>3, <1>4 DEF Fate

\* A step that leaves all streams as they are.
LEMMA PlainBytes ==
  ASSUME IInv, BInv, NEW e \in End, NEW sent, Shape(e, sent), Dataless(e, sent),
         got' = got, dropped' = dropped, written' = written, pending' = pending,
         wire'[e] = wire[e] \/ (Took(e) /\ Head(wire[e]).data = <<>>),
         \A id \in Id : ctx'[e][id].open = ctx[e][id].open /\ ctx'[e][id].buffer = ctx[e][id].buffer,
         call'[e].op # "read" \/ call'[e] = call[e],
         sync'[e] => sync[e], shut[e] => shut'[e]
  PROVE  BInv'
<1>1. ASSUME NEW id \in Id PROVE Fate(e, id) /\ Buffers(e, id)
  <2>1. Calm(e, id)
    BY CalmFrame DEF Calm
  <2> QED
    BY <2>1, Untouched
<1> QED
  BY <1>1, BytesStep

\* What is answered, granted or closed is without data.
LEMMA NoData ==
  ASSUME NEW e \in End, NEW type, NEW flag, NEW id, NEW len, flag # "syn"
  PROVE  Dataless(e, <<Frame(type, flag, id, len)>>) /\ Dataless(e, <<>>)
BY Single, Nothing DEF Dataless, Frame

\* A ping is answered, or an answer skipped.
LEMMA ControlBytes ==
  ASSUME IInv, BInv, NEW e \in End, NEW f \in FrameType, wire[e] # <<>>, f = Head(wire[e]), Control(e, f)
  PROVE  BInv'
<1> DEFINE sent == IF f.flag = "ack" THEN <<>> ELSE <<Frame("ping", "ack", 0, f.len)>>
<1>1. Types /\ f.type = "ping"
  BY DEF IInv, Control, yamux_handle_control_frame
<1>2. Shape(e, sent) /\ Took(e)
  BY <1>1, ControlTypes
<1>3. Dataless(e, sent)
  BY NoData
<1>4. /\ got' = got /\ dropped' = dropped /\ written' = written /\ pending' = pending /\ ctx' = ctx
      /\ call' = call /\ sync' = sync /\ shut' = shut
  BY DEF Control, session, stream, bytes
<1>5. Head(wire[e]).data = <<>>
  BY <1>1, BareFirst
<1> HIDE DEF sent
<1> QED
  BY <1>2, <1>3, <1>4, <1>5, PlainBytes

\* A window grows.
LEMMA OpenWindowBytes ==
  ASSUME IInv, BInv, NEW e \in End, NEW f \in FrameType, Next1(e, "open", f), OpenWindow(e, f)
  PROVE  BInv'
<1>1. Types /\ CallOK(e) /\ f.type = "window" /\ wire[e] # <<>> /\ f = Head(wire[e])
  BY DEF IInv, OpenWindow, Next1
<1>2. /\ Shape(e, <<>>) /\ Took(e) /\ f.id \in Id
      /\ Puts(e, f.id, [ctx[e][f.id] EXCEPT !.send = @ + f.len])
      /\ call'[e] = IF f.flag = "ack" THEN Idle ELSE call[e]
  BY <1>1, OpenWindowTypes
<1>3. Dataless(e, <<>>)
  BY Nothing DEF Dataless
<1>4. /\ got' = got /\ dropped' = dropped /\ written' = written /\ pending' = pending
      /\ sync' = sync /\ shut' = shut
  BY DEF OpenWindow, session, bytes
<1>5. Head(wire[e]).data = <<>>
  BY <1>1, BareFirst
<1>6. call'[e].op # "read" \/ call'[e] = call[e]
  BY <1>2 DEF Idle
<1>7. ASSUME NEW id \in Id PROVE ctx'[e][id].open = ctx[e][id].open /\ ctx'[e][id].buffer = ctx[e][id].buffer
  <2>1. ctx[e][f.id] \in StreamType
    BY <1>1, <1>2, StreamFields
  <2> QED
    BY <1>2, <2>1 DEF Puts, StreamType
<1> QED
  BY <1>2, <1>3, <1>4, <1>5, <1>6, <1>7, PlainBytes

\* An accept waits.
LEMMA AcceptBytes ==
  ASSUME IInv, BInv, NEW e \in End, Accept(e)
  PROVE  BInv'
<1>1. Types
  BY DEF IInv
<1>2. Shape(e, <<>>) /\ wire' = wire /\ call'[e].op # "read"
  BY <1>1, AcceptTypes
<1>3. Dataless(e, <<>>)
  BY Nothing DEF Dataless
<1>4. /\ got' = got /\ dropped' = dropped /\ written' = written /\ pending' = pending /\ ctx' = ctx
      /\ sync' = sync /\ shut' = shut
  BY DEF Accept, session, stream, bytes
<1> QED
  BY <1>2, <1>3, <1>4, PlainBytes

\* A window frame for whoever reads.
LEMMA ReadWindowBytes ==
  ASSUME IInv, BInv, NEW e \in End, NEW f \in FrameType, Next1(e, "read", f), ReadWindow(e, f)
  PROVE  BInv'
<1>1. Types /\ CallOK(e) /\ f.type = "window" /\ wire[e] # <<>> /\ f = Head(wire[e])
  BY DEF IInv, ReadWindow, Next1
<1>2. /\ Shape(e, <<>>) /\ Took(e)
      /\ IF f.id = call[e].id
         THEN f.id \in Id /\ Puts(e, f.id, [ctx[e][f.id] EXCEPT !.send = @ + f.len])
         ELSE ctx' = ctx
  BY <1>1, ReadWindowTypes
<1>3. Dataless(e, <<>>)
  BY Nothing DEF Dataless
<1>4. /\ got' = got /\ dropped' = dropped /\ written' = written /\ pending' = pending
      /\ sync' = sync /\ shut' = shut /\ call' = call
  BY DEF ReadWindow, session, bytes
<1>5. Head(wire[e]).data = <<>>
  BY <1>1, BareFirst
<1>6. ASSUME NEW id \in Id PROVE ctx'[e][id].open = ctx[e][id].open /\ ctx'[e][id].buffer = ctx[e][id].buffer
  <2>1. f.id \in Id => ctx[e][f.id] \in StreamType
    BY <1>1, StreamFields
  <2> QED
    BY <1>2, <2>1 DEF Puts, StreamType
<1> QED
  BY <1>2, <1>3, <1>4, <1>5, <1>6, PlainBytes

\* A FIN for whoever reads.
LEMMA ReadFinBytes ==
  ASSUME IInv, BInv, NEW e \in End, NEW f \in FrameType, Next1(e, "read", f), ReadFin(e, f)
  PROVE  BInv'
<1>1. Types /\ CallOK(e) /\ f.flag = "fin" /\ wire[e] # <<>> /\ f = Head(wire[e])
  BY DEF IInv, ReadFin, Next1
<1>2. /\ Shape(e, <<>>) /\ Took(e) /\ call'[e] = Idle /\ f.id \in Id
      /\ Puts(e, f.id, [ctx[e][f.id] EXCEPT !.closed = TRUE])
  BY <1>1, ReadFinTypes
<1>3. Dataless(e, <<>>)
  BY Nothing DEF Dataless
<1>4. /\ got' = got /\ dropped' = dropped /\ written' = written /\ pending' = pending
      /\ sync' = sync /\ shut' = shut
  BY DEF ReadFin, session, bytes
<1>5. Head(wire[e]).data = <<>>
  BY <1>1, BareFirst
<1>6. call'[e].op # "read"
  BY <1>2 DEF Idle
<1>7. ASSUME NEW id \in Id PROVE ctx'[e][id].open = ctx[e][id].open /\ ctx'[e][id].buffer = ctx[e][id].buffer
  <2>1. ctx[e][f.id] \in StreamType
    BY <1>1, <1>2, StreamFields
  <2> QED
    BY <1>2, <2>1 DEF Puts, StreamType
<1> QED
  BY <1>2, <1>3, <1>4, <1>5, <1>6, <1>7, PlainBytes

\* A ping begins.
LEMMA PingBytes ==
  ASSUME IInv, BInv, NEW e \in End, libp2p_yamux_session_ping(e)
  PROVE  BInv'
<1> DEFINE sent == <<Frame("ping", "none", 0, pings[e] + 1)>>
<1>1. Types
  BY DEF IInv
<1>2. Shape(e, sent) /\ wire'[e] = wire[e] /\ call'[e] = [op |-> "ping", id |-> 0, value |-> pings[e] + 1]
  BY <1>1, PingTypes
<1>3. Dataless(e, sent) /\ call'[e].op # "read"
  BY <1>2, NoData
<1>4. /\ got' = got /\ dropped' = dropped /\ written' = written /\ pending' = pending /\ ctx' = ctx
      /\ sync' = sync /\ shut' = shut
  BY DEF libp2p_yamux_session_ping, stream, bytes
<1> HIDE DEF sent
<1> QED
  BY <1>2, <1>3, <1>4, PlainBytes

\* The answer comes.
LEMMA PongBytes ==
  ASSUME IInv, BInv, NEW e \in End, NEW f \in FrameType, wire[e] # <<>>, f = Head(wire[e]), Pong(e, f)
  PROVE  BInv'
<1>1. Types /\ f.type = "ping"
  BY DEF IInv, Pong, IsPong
<1>2. Shape(e, <<>>) /\ Took(e) /\ call'[e] = Idle
  BY <1>1, PongTypes
<1>3. Dataless(e, <<>>) /\ call'[e].op # "read"
  BY <1>2, Nothing DEF Dataless, Idle
<1>4. /\ got' = got /\ dropped' = dropped /\ written' = written /\ pending' = pending /\ ctx' = ctx
      /\ sync' = sync /\ shut' = shut
  BY DEF Pong, session, stream, bytes
<1>5. Head(wire[e]).data = <<>>
  BY <1>1, BareFirst
<1> QED
  BY <1>2, <1>3, <1>4, <1>5, PlainBytes

\* A session says goodbye.
LEMMA GoodbyeBytes ==
  ASSUME IInv, BInv, NEW e \in End, libp2p_yamux_session_goaway(e)
  PROVE  BInv'
<1> DEFINE sent == <<Frame("go_away", "none", 0, 0)>>
<1>1. Types
  BY DEF IInv
<1>2. Shape(e, sent) /\ wire'[e] = wire[e] /\ shut'[e]
  BY <1>1, GoodbyeTypes
<1>3. Dataless(e, sent)
  BY NoData
<1>4. /\ got' = got /\ dropped' = dropped /\ written' = written /\ pending' = pending /\ ctx' = ctx
      /\ sync' = sync /\ call' = call
  BY DEF libp2p_yamux_session_goaway, stream, bytes
<1> HIDE DEF sent
<1> QED
  BY <1>2, <1>3, <1>4, PlainBytes

\* What is thrown away.
LEMMA DroppedBytes ==
  ASSUME IInv, BInv, NEW e \in End, NEW f \in FrameType, f = Head(wire[e]), NEW sent, Shape(e, sent), Took(e),
         Dataless(e, sent), Discard(e, f), sync[e],
         got' = got, written' = written, pending' = pending, ctx' = ctx, call' = call, shut' = shut
  PROVE  BInv'
<1>1. Types /\ Other(e) \in End /\ Other(e) # e
  BY Ends DEF IInv
<1>2. /\ dropped'[Other(e)] = dropped[Other(e)]
      /\ \A id \in Id : dropped'[e][id] = IF id = f.id THEN dropped[e][id] \cup ToSet(f.data) ELSE dropped[e][id]
  <2>1. dropped \in [End -> [Id -> SUBSET (1..MaxBytes)]]
    BY <1>1 DEF Types
  <2>2. dropped' = [dropped EXCEPT ![e] =
                     [i \in Id |-> IF i = f.id THEN dropped[e][i] \cup ToSet(f.data) ELSE dropped[e][i]]]
    BY <2>1 DEF Discard
  <2> QED
    BY <1>1, <2>1, <2>2
<1>3. ASSUME NEW id \in Id PROVE Fate(e, id) /\ Buffers(e, id)
  <2>1. dropped'[e][id] = dropped[e][id] \cup ToSet(Payload(Head(wire[e]), id))
    BY <1>2, Nothing DEF Payload
  <2>2. Held(e, id)' = Held(e, id) /\ PendingIds(e)' = PendingIds(e)
    BY DEF Held, Kept, PendingIds
  <2>3. (ctx'[e][id].open => Live(e, id)) /\ (id \in PendingIds(e)' => Live(e, id))
    BY <2>2 DEF Live
  <2>4. Live(e, id)' => Live(e, id)
    BY <2>3, LiveKept
  <2>5. Fate(e, id)
    BY <2>1, <2>2, <2>4 DEF Fate
  <2> QED
    BY <2>5 DEF Buffers, BInv, BytesOK
<1> QED
  BY <1>2, <1>3, BytesStep

\* A call throws away a frame it does not wait for.
LEMMA DropsBytes ==
  ASSUME IInv, BInv, NEW e \in End, NEW f \in FrameType, NEW op, Next1(e, op, f), Drops(e, f)
  PROVE  BInv'
<1>1. Types /\ f = Head(wire[e]) /\ wire[e] # <<>> /\ sync[e]
  BY DEF IInv, Next1
<1>2. Shape(e, <<>>) /\ Took(e)
  BY <1>1, DropsTypes
<1>3. Dataless(e, <<>>)
  BY Nothing DEF Dataless
<1>4. /\ Discard(e, f) /\ got' = got /\ written' = written /\ pending' = pending /\ ctx' = ctx
      /\ call' = call /\ shut' = shut
  BY DEF Drops, OpenOther, AcceptOther, ReadOther, session, stream
<1> QED
  BY <1>1, <1>2, <1>3, <1>4, DroppedBytes

\* Whoever waits for a ping throws away every other frame.
LEMMA PingOtherBytes ==
  ASSUME IInv, BInv, NEW e \in End, NEW f \in FrameType, NEW op, Next1(e, op, f), PingOther(e, f)
  PROVE  BInv'
<1> DEFINE sent == IF f.type = "ping" /\ f.flag # "ack" THEN <<Frame("ping", "ack", 0, f.len)>> ELSE <<>>
<1>1. Types /\ f = Head(wire[e]) /\ wire[e] # <<>> /\ sync[e]
  BY DEF IInv, Next1
<1>2. Shape(e, sent) /\ Took(e)
  BY <1>1, PingOtherTypes
<1>3. Dataless(e, sent)
  BY NoData
<1>4. /\ Discard(e, f) /\ got' = got /\ written' = written /\ pending' = pending /\ ctx' = ctx
      /\ call' = call /\ shut' = shut
  BY DEF PingOther, session, stream
<1> HIDE DEF sent
<1> QED
  BY <1>1, <1>2, <1>3, <1>4, DroppedBytes

\* What is kept in list p of waiting streams, or else in a buffer b.
KeptIn(p, b, id) ==
  IF id \in {p[i].id : i \in DOMAIN p} THEN p[CHOOSE i \in DOMAIN p : p[i].id = id].data ELSE b

\* That is what an end keeps, before a step and after it.
LEMMA KeptThen ==
  ASSUME NEW e \in End, NEW id \in Id
  PROVE  /\ Kept(e, id) = KeptIn(pending[e], ctx[e][id].buffer, id)
         /\ Kept(e, id)' = KeptIn(pending'[e], ctx'[e][id].buffer, id)
         /\ PendingIds(e) = {pending[e][i].id : i \in DOMAIN pending[e]}
         /\ PendingIds(e)' = {pending'[e][i].id : i \in DOMAIN pending'[e]}
         /\ Held(e, id)' = got'[e][id] \o Kept(e, id)'
BY DEF Kept, KeptIn, PendingIds, Held

\* Three sequences, one after the other.
LEMMA Thrice ==
  ASSUME NEW s \in Seq(Nat), NEW t \in Seq(Nat), NEW u \in Seq(Nat)
  PROVE  s \o (t \o u) = (s \o t) \o u
BY ConcatAssociative

\* A sequence is cut in two.
LEMMA Halves ==
  ASSUME NEW b \in Seq(Nat), NEW k \in 0..Len(b)
  PROVE  /\ SubSeq(b, 1, k) \in Seq(Nat) /\ SubSeq(b, k + 1, Len(b)) \in Seq(Nat)
         /\ SubSeq(b, 1, k) \o SubSeq(b, k + 1, Len(b)) = b
<1>1. /\ 1 \in 1..(Len(b) + 1) /\ k \in 0..Len(b) /\ Len(b) \in k..Len(b) /\ 0 = 1 - 1
      /\ k + 1 \in 1..(Len(b) + 1) /\ Len(b) \in 0..Len(b)
  OBVIOUS
<1>2. SubSeq(b, 1, k) \o SubSeq(b, k + 1, Len(b)) = SubSeq(b, 1, Len(b))
  BY <1>1, ConcatAdjacentSubSeq
<1>3. SubSeq(b, 1, Len(b)) = b
  OBVIOUS
<1> QED
  BY <1>1, <1>2, <1>3, Part

\* No list has a stream twice.
Once(p) == \A i, j \in DOMAIN p : i # j => p[i].id # p[j].id

\* The one entry of a stream.
LEMMA KeptEntry ==
  ASSUME NEW p, NEW b, NEW id
  PROVE  /\ id \notin {p[i].id : i \in DOMAIN p} => KeptIn(p, b, id) = b
         /\ Once(p) => \A i \in DOMAIN p : p[i].id = id => KeptIn(p, b, id) = p[i].data
<1>1. id \notin {p[i].id : i \in DOMAIN p} => KeptIn(p, b, id) = b
  BY DEF KeptIn
<1>2. ASSUME Once(p), NEW i \in DOMAIN p, p[i].id = id PROVE KeptIn(p, b, id) = p[i].data
  <2> DEFINE k == CHOOSE j \in DOMAIN p : p[j].id = id
  <2>1. k \in DOMAIN p /\ p[k].id = id
    BY <1>2
  <2>2. KeptIn(p, b, id) = p[k].data
    BY <1>2 DEF KeptIn
  <2> HIDE DEF k
  <2>3. k = i
    BY <1>2, <2>1 DEF Once
  <2> QED
    BY <2>2, <2>3
<1> QED
  BY <1>1, <1>2

\* Data for a stream that waits is kept after what is kept of it.
LEMMA KeptBytes ==
  ASSUME IInv, BInv, NEW e \in End, NEW f \in FrameType, f = Head(wire[e]), NEW sent, Shape(e, sent), Took(e),
         Dataless(e, sent), Keep(e, f), f.id \in PendingIds(e), f.type = "data", sync' = sync,
         got' = got, dropped' = dropped, written' = written, ctx' = ctx, call' = call, shut' = shut
  PROVE  BInv'
<1> DEFINE p == pending[e]
           q == pending'[e]
<1>1. Types /\ PendingOK(e) /\ Local(e) /\ p \in Seq(PendingType) /\ f.data \in Seq(1..MaxBytes)
  BY DEF IInv, Shape, Types, FrameType
<1>2. q = [i \in DOMAIN p |-> Extended(p[i], f)]
  BY <1>1 DEF Keep, Types
<1>3. DOMAIN q = DOMAIN p /\ \A i \in DOMAIN p : q[i] = Extended(p[i], f) /\ p[i] \in PendingType
  BY <1>1, <1>2
<1>4. \A i \in DOMAIN p : q[i].id = p[i].id /\ q[i].data = IF p[i].id = f.id THEN p[i].data \o f.data ELSE p[i].data
  <2>1. ASSUME NEW r \in PendingType
        PROVE  /\ Extended(r, f).id = r.id
               /\ Extended(r, f).data = IF r.id = f.id THEN r.data \o f.data ELSE r.data
    BY DEF Extended, PendingType
  <2> QED
    BY <1>3, <2>1
<1>5. Once(p) /\ Once(q)
  BY <1>1, <1>3, <1>4 DEF Once, PendingOK
<1>6. PendingIds(e)' = PendingIds(e)
  BY <1>3, <1>4 DEF PendingIds
<1> HIDE DEF p, q
<1>7. ASSUME NEW id \in Id PROVE Fate(e, id) /\ Buffers(e, id)
  <2> DEFINE b == ctx[e][id].buffer
  <2>1. /\ Kept(e, id) = KeptIn(p, b, id) /\ Kept(e, id)' = KeptIn(q, b, id)
        /\ PendingIds(e) = {p[i].id : i \in DOMAIN p} /\ PendingIds(e)' = {q[i].id : i \in DOMAIN q}
        /\ Held(e, id)' = got[e][id] \o Kept(e, id)'
    BY KeptThen DEF p, q
  <2> HIDE DEF b
  <2>2. /\ id \notin PendingIds(e) => Kept(e, id)' = Kept(e, id)
        /\ \A i \in DOMAIN p : p[i].id = id => Kept(e, id) = p[i].data /\ Kept(e, id)' = q[i].data
    BY <1>3, <1>4, <1>5, <1>6, <2>1, KeptEntry
  <2>3. got[e][id] \in Seq(Nat) /\ Kept(e, id) \in Seq(Nat) /\ f.data \in Seq(Nat)
    BY <1>1, KeptIs, Numbers
  <2>4. Held(e, id)' = Held(e, id) \o Payload(f, id)
    <3>1. CASE f.id = id
      <4>1. PICK i \in DOMAIN p : p[i].id = id
        BY <2>1, <3>1
      <4>2. Kept(e, id)' = Kept(e, id) \o f.data
        BY <1>4, <2>2, <3>1, <4>1
      <4>3. got[e][id] \o (Kept(e, id) \o f.data) = (got[e][id] \o Kept(e, id)) \o f.data
        BY <2>3, Thrice
      <4> QED
        BY <2>1, <3>1, <4>2, <4>3 DEF Held, Payload
    <3>2. CASE f.id # id
      <4>1. Kept(e, id)' = Kept(e, id)
        BY <1>4, <2>1, <2>2, <3>2
      <4>2. Held(e, id)' = Held(e, id)
        BY <2>1, <4>1 DEF Held
      <4>3. Held(e, id) \in Seq(Nat)
        BY <1>1, KeptIs
      <4>4. Held(e, id) \o <<>> = Held(e, id)
        BY <4>3
      <4> QED
        BY <3>2, <4>2, <4>4 DEF Payload
    <3> QED
      BY <3>1, <3>2
  <2>5. (ctx'[e][id].open => Live(e, id)) /\ (id \in PendingIds(e)' => Live(e, id))
    BY <1>6 DEF Live
  <2>6. Live(e, id)' => Live(e, id)
    BY <2>5, LiveKept
  <2>7. Fate(e, id)
    BY <2>4, <2>6 DEF Fate
  <2> QED
    BY <2>7 DEF Buffers, BInv, BytesOK
<1> QED
  BY <1>7, BytesStep

\* Whoever opens a stream keeps data for one that waits.
LEMMA OpenDataBytes ==
  ASSUME IInv, BInv, NEW e \in End, NEW f \in FrameType, wire[e] # <<>>, f = Head(wire[e]), OpenData(e, f)
  PROVE  BInv'
<1>1. Types
  BY DEF IInv
<1>2. Shape(e, <<>>) /\ Took(e)
  BY <1>1, OpenDataTypes
<1>3. Dataless(e, <<>>)
  BY Nothing DEF Dataless
<1>4. /\ Keep(e, f) /\ f.id \in PendingIds(e) /\ f.type = "data" /\ got' = got /\ dropped' = dropped
      /\ written' = written /\ ctx' = ctx /\ call' = call /\ shut' = shut /\ sync' = sync
  BY DEF OpenData, session, bytes
<1> QED
  BY <1>2, <1>3, <1>4, KeptBytes

\* So does whoever reads.
LEMMA ReadPendingBytes ==
  ASSUME IInv, BInv, NEW e \in End, NEW f \in FrameType, wire[e] # <<>>, f = Head(wire[e]), ReadPending(e, f)
  PROVE  BInv'
<1> DEFINE sent == <<Frame("window", "none", f.id, f.len)>>
<1>1. Types
  BY DEF IInv
<1>2. Shape(e, sent) /\ Took(e)
  BY <1>1, ReadPendingTypes
<1>3. Dataless(e, sent)
  BY NoData
<1>4. /\ Keep(e, f) /\ f.id \in PendingIds(e) /\ f.type = "data" /\ got' = got /\ dropped' = dropped
      /\ written' = written /\ ctx' = ctx /\ call' = call /\ shut' = shut /\ sync' = sync
  BY DEF ReadPending, session, bytes
<1> HIDE DEF sent
<1> QED
  BY <1>2, <1>3, <1>4, KeptBytes

\* A stream is taken back or closed: what was buffered is gone with it.
LEMMA GivenUp ==
  ASSUME IInv, BInv, NEW e \in End, NEW sent, Shape(e, sent), NEW id \in Id, Calm(e, id),
         ctx'[e][id] = NoStream, pending'[e] = pending[e], got'[e][id] = got[e][id],
         dropped'[e][id] = dropped[e][id], call'[e].op # "read" \/ call'[e] = call[e]
  PROVE  Fate(e, id) /\ Buffers(e, id)
<1>1. /\ ctx'[e][id].open = FALSE /\ ctx'[e][id].buffer = <<>> /\ Types
      /\ (~ctx[e][id].open => ctx[e][id].buffer = <<>>) /\ ctx[e][id].open \in BOOLEAN
  <2>1. Types /\ BytesOK(e, id)
    BY DEF IInv, BInv
  <2> QED
    BY <2>1, StreamFields DEF NoStream, BytesOK
<1>2. CASE ~ctx[e][id].open
  <2>1. ctx'[e][id].open = ctx[e][id].open /\ ctx'[e][id].buffer = ctx[e][id].buffer
    BY <1>1, <1>2
  <2> QED
    BY <2>1, Untouched
<1>3. CASE ctx[e][id].open
  <2>1. id \notin PendingIds(e) /\ \A f \in ToSet(wire[e]) : f.flag = "syn" => f.id # id
    BY <1>3, OneRole
  <2>2. PendingIds(e)' = PendingIds(e) /\ ToSet(wire'[e]) \subseteq ToSet(wire[e])
    BY <1>1, MovedFrames DEF PendingIds, Shape
  <2>3. ~Live(e, id)'
    BY <1>1, <2>1, <2>2 DEF Live
  <2>4. got[e][id] \in Seq(Nat) /\ Kept(e, id) \in Seq(Nat) /\ Held(e, id) = got[e][id] \o Kept(e, id)
    BY <1>1, KeptIs DEF Held
  <2>5. Kept(e, id)' = <<>>
    BY <1>1, <2>1, <2>2 DEF Kept
  <2>6. Held(e, id)' = got[e][id]
    <3>1. Held(e, id)' = got[e][id] \o <<>>
      BY <2>5, KeptThen
    <3> QED
      BY <2>4, <3>1
  <2>7. \E s, t \in Seq(Nat) : Held(e, id) = s \o t /\ Held(e, id)' = s
    BY <2>4, <2>6
  <2>8. Fate(e, id)
    BY <2>3, <2>7 DEF Fate
  <2> QED
    BY <1>1, <2>8 DEF Buffers
<1> QED
  BY <1>2, <1>3

\* A step that gives up some streams and leaves the others as they are.
LEMMA GiveUpBytes ==
  ASSUME IInv, BInv, NEW e \in End, NEW sent, Shape(e, sent), Dataless(e, sent),
         got' = got, dropped' = dropped, written' = written, pending' = pending,
         wire'[e] = wire[e] \/ (Took(e) /\ Head(wire[e]).data = <<>>),
         \A id \in Id : ctx'[e][id] = ctx[e][id] \/ ctx'[e][id] = NoStream,
         call'[e].op # "read" \/ call'[e] = call[e],
         sync'[e] => sync[e], shut[e] => shut'[e]
  PROVE  BInv'
<1>1. ASSUME NEW id \in Id PROVE Fate(e, id) /\ Buffers(e, id)
  <2>1. Calm(e, id)
    BY CalmFrame DEF Calm
  <2>2. CASE ctx'[e][id] = ctx[e][id]
    BY <2>1, <2>2, Untouched
  <2>3. CASE ctx'[e][id] = NoStream
    BY <2>1, <2>3, GivenUp
  <2> QED
    BY <2>2, <2>3
<1> QED
  BY <1>1, BytesStep

\* A go away ends the session.
LEMMA GoAwayBytes ==
  ASSUME IInv, BInv, NEW e \in End, NEW f, wire[e] # <<>>, f = Head(wire[e]), GoAwayReceived(e, f)
  PROVE  BInv'
<1>1. Types /\ CallOK(e) /\ f.type = "go_away"
  BY DEF IInv, GoAwayReceived
<1>2. /\ Shape(e, <<>>) /\ Took(e)
      /\ \A id \in Id : ctx'[e][id] = ctx[e][id] \/ ctx'[e][id] = NoStream
  BY <1>1, GoAwayTypes
<1>3. Dataless(e, <<>>)
  BY Nothing DEF Dataless
<1>4. /\ got' = got /\ dropped' = dropped /\ written' = written /\ pending' = pending
      /\ sync' = sync /\ shut'[e]
  BY <1>1 DEF GoAwayReceived, bytes, Types
<1>5. call'[e] = Idle
  BY <1>1, Returned DEF GoAwayReceived
<1>6. Head(wire[e]).data = <<>> /\ call'[e].op # "read"
  BY <1>1, <1>5, BareFirst DEF Idle
<1> QED
  BY <1>2, <1>3, <1>4, <1>6, GiveUpBytes

\* A read fails.
LEMMA ReadFailsBytes ==
  ASSUME IInv, BInv, NEW e \in End, ReadFails(e)
  PROVE  BInv'
<1>1. Types /\ CallOK(e)
  BY DEF IInv
<1>2. Shape(e, <<>>) /\ wire' = wire
  BY <1>1, ReadFailsTypes
<1>3. Dataless(e, <<>>)
  BY Nothing DEF Dataless
<1>4. /\ Fails(e) /\ got' = got /\ dropped' = dropped /\ written' = written /\ pending' = pending
      /\ sync' = sync /\ shut' = shut
  BY DEF ReadFails, session, bytes
<1>5. call'[e] = Idle /\ \A id \in Id : ctx'[e][id] = ctx[e][id] \/ ctx'[e][id] = NoStream
  BY <1>1, <1>4, FailedTypes
<1>6. call'[e].op # "read"
  BY <1>5 DEF Idle
<1> QED
  BY <1>2, <1>3, <1>4, <1>5, <1>6, GiveUpBytes

\* An answer cannot be written.
LEMMA AnswerFailsBytes ==
  ASSUME IInv, BInv, NEW e \in End, AnswerFails(e)
  PROVE  BInv'
<1> DEFINE f == Head(wire[e])
<1>1. Types /\ CallOK(e) /\ wire[e] # <<>> /\ (f.type = "ping" \/ f.flag = "syn")
  BY DEF IInv, AnswerFails
<1>2. Shape(e, <<>>) /\ Took(e)
  BY <1>1, AnswerFailsTypes
<1>3. Dataless(e, <<>>)
  BY Nothing DEF Dataless
<1>4. /\ Fails(e) /\ got' = got /\ dropped' = dropped /\ written' = written /\ pending' = pending
      /\ sync' = sync /\ shut' = shut
  BY DEF AnswerFails, session, bytes
<1>5. call'[e] = Idle /\ \A id \in Id : ctx'[e][id] = ctx[e][id] \/ ctx'[e][id] = NoStream
  BY <1>1, <1>4, FailedTypes
<1>6. call'[e].op # "read"
  BY <1>5 DEF Idle
<1>7. f \in ToSet(wire[e])
  BY <1>1, Shorter DEF Types
<1>8. f.data = <<>>
  BY <1>1, <1>7, BareFirst, SynUnheard
<1> QED
  BY <1>2, <1>3, <1>4, <1>5, <1>6, <1>8, GiveUpBytes

\* A stream is closed.
LEMMA CloseBytes ==
  ASSUME IInv, BInv, NEW e \in End, NEW id \in Id, CloseStream(e, id)
  PROVE  BInv'
<1> DEFINE sent == IF ctx[e][id].closed \/ closed[e] THEN <<>> ELSE <<Frame("data", "fin", id, 0)>>
<1>1. Types
  BY DEF IInv
<1>2. Shape(e, sent) /\ wire'[e] = wire[e] /\ Puts(e, id, NoStream)
  BY <1>1, CloseTypes
<1>3. Dataless(e, sent)
  BY NoData
<1>4. /\ got' = got /\ dropped' = dropped /\ written' = written /\ pending' = pending
      /\ sync' = sync /\ shut' = shut /\ call' = call
  BY DEF CloseStream, session, bytes
<1>5. \A j \in Id : ctx'[e][j] = ctx[e][j] \/ ctx'[e][j] = NoStream
  BY <1>2 DEF Puts
<1> HIDE DEF sent
<1> QED
  BY <1>2, <1>3, <1>4, <1>5, GiveUpBytes

\* What list q of waiting streams has of a stream, p has too.
Sublist(q, p, id) == \A i \in DOMAIN q : q[i].id = id => \E j \in DOMAIN p : q[i] = p[j]

\* A stream keeps its entry, or has none.
LEMMA EntryKept ==
  ASSUME Types, NEW e \in End, PendingOK(e), PendingOK(e)', NEW id \in Id, Sublist(pending'[e], pending[e], id),
         id \in PendingIds(e)' \/ id \notin PendingIds(e), ctx'[e][id].buffer = ctx[e][id].buffer
  PROVE  Kept(e, id)' = Kept(e, id)
<1> DEFINE p == pending[e]
           q == pending'[e]
           b == ctx[e][id].buffer
<1>1. /\ Kept(e, id) = KeptIn(p, b, id) /\ Kept(e, id)' = KeptIn(q, b, id)
      /\ PendingIds(e) = {p[i].id : i \in DOMAIN p} /\ PendingIds(e)' = {q[i].id : i \in DOMAIN q}
  BY KeptThen
<1>2. Once(p) /\ Once(q)
  BY DEF Once, PendingOK
<1> HIDE DEF p, q, b
<1>3. Sublist(q, p, id) /\ (id \in PendingIds(e)' \/ id \notin PendingIds(e))
  BY DEF p, q
<1>4. CASE id \in PendingIds(e)'
  <2>1. PICK i \in DOMAIN q : q[i].id = id
    BY <1>1, <1>4
  <2>2. PICK j \in DOMAIN p : q[i] = p[j]
    BY <1>3, <2>1 DEF Sublist
  <2>3. KeptIn(p, b, id) = p[j].data /\ KeptIn(q, b, id) = q[i].data
    BY <1>2, <2>1, <2>2, KeptEntry
  <2> QED
    BY <1>1, <2>2, <2>3
<1>5. CASE id \notin PendingIds(e)'
  <2>1. id \notin PendingIds(e)
    BY <1>3, <1>5
  <2> QED
    BY <1>1, <1>5, <2>1, KeptEntry
<1> QED
  BY <1>4, <1>5

\* Streams that wait are lost.
LEMMA LostBytes ==
  ASSUME IInv, IInv', BInv, NEW e \in End, Shape(e, <<>>), wire' = wire,
         \A id \in Id : Sublist(pending'[e], pending[e], id), ctx' = ctx, call' = call, sync' = sync, shut[e] => shut'[e],
         got' = got, dropped' = dropped, written' = written
  PROVE  BInv'
<1>1. Types /\ PendingOK(e) /\ PendingOK(e)'
  BY DEF IInv
<1>2. \A id \in Id : id \in PendingIds(e)' => id \in PendingIds(e)
  BY DEF PendingIds, Sublist
<1>3. ASSUME NEW id \in Id PROVE Fate(e, id) /\ Buffers(e, id)
  <2>1. Calm(e, id) /\ Held(e, id)' = got[e][id] \o Kept(e, id)' /\ Held(e, id) = got[e][id] \o Kept(e, id)
    BY KeptThen DEF Calm, Held
  <2>2. Buffers(e, id)
    BY DEF Buffers, BInv, BytesOK
  <2>3. CASE id \in PendingIds(e)' \/ id \notin PendingIds(e)
    <3>1. Kept(e, id)' = Kept(e, id)
      BY <1>1, <2>3, EntryKept
    <3>2. Live(e, id)' => Live(e, id)
      <4>1. (ctx'[e][id].open => Live(e, id)) /\ (id \in PendingIds(e)' => Live(e, id))
        BY <1>2 DEF Live
      <4> QED
        BY <4>1, LiveKept
    <3>3. Fate(e, id)
      BY <2>1, <3>1, <3>2 DEF Fate
    <3> QED
      BY <2>2, <3>3
  <2>4. CASE id \notin PendingIds(e)' /\ id \in PendingIds(e)
    <3>1. ~ctx[e][id].open /\ \A f \in ToSet(wire[e]) : f.flag = "syn" => f.id # id
      BY <2>4, OneRole
    <3>2. ~Live(e, id)'
      BY <2>4, <3>1 DEF Live
    <3>3. Kept(e, id)' = <<>>
      <4>1. ctx[e][id].buffer = <<>>
        BY <3>1 DEF BInv, BytesOK
      <4> QED
        BY <2>4, <4>1 DEF Kept
    <3>4. got[e][id] \in Seq(Nat) /\ Kept(e, id) \in Seq(Nat)
      BY <1>1, KeptIs
    <3>5. Held(e, id)' = got[e][id]
      BY <2>1, <3>3, <3>4
    <3>6. \E s, t \in Seq(Nat) : Held(e, id) = s \o t /\ Held(e, id)' = s
      BY <2>1, <3>4, <3>5
    <3>7. Fate(e, id)
      BY <2>1, <3>2, <3>6 DEF Fate
    <3> QED
      BY <2>2, <3>7
  <2> QED
    BY <2>3, <2>4
<1>4. Dataless(e, <<>>)
  BY Nothing DEF Dataless
<1> QED
  BY <1>3, <1>4, BytesStep

\* Without its first entry a list is shorter.
LEMMA TailSublist ==
  ASSUME Types, NEW e \in End, pending[e] # <<>>
  PROVE  \A id : Sublist(Tail(pending[e]), pending[e], id)
<1>1. pending[e] \in Seq(PendingType)
  BY DEF Types
<1>2. \A i \in DOMAIN Tail(pending[e]) : i + 1 \in DOMAIN pending[e] /\ Tail(pending[e])[i] = pending[e][i + 1]
  BY <1>1, Shorter
<1> QED
  BY <1>2 DEF Sublist

\* A session is freed.
LEMMA FreeBytes ==
  ASSUME IInv, IInv', BInv, NEW e \in End, libp2p_yamux_session_free(e)
  PROVE  BInv'
<1>1. Types
  BY DEF IInv
<1>2. Shape(e, <<>>) /\ wire' = wire /\ pending'[e] = <<>> /\ shut'[e]
  BY <1>1, FreeTypes
<1>3. \A id \in Id : Sublist(pending'[e], pending[e], id)
  BY <1>2 DEF Sublist
<1>4. /\ got' = got /\ dropped' = dropped /\ written' = written /\ ctx' = ctx
      /\ sync' = sync /\ call' = call
  BY DEF libp2p_yamux_session_free, bytes
<1> QED
  BY <1>2, <1>3, <1>4, LostBytes

\* The first frame of a call cannot be written.
LEMMA FirstWriteBytes ==
  ASSUME IInv, IInv', BInv, NEW e \in End, FirstWriteFails(e)
  PROVE  BInv'
<1>1. Types
  BY DEF IInv
<1>2. Shape(e, <<>>) /\ wire' = wire
  BY <1>1, FirstWriteTypes
<1>3. pending' = pending \/ (pending[e] # <<>> /\ pending'[e] = Tail(pending[e]))
  BY <1>1 DEF FirstWriteFails, Types
<1>4. \A id \in Id : Sublist(pending'[e], pending[e], id)
  <2>1. pending' = pending => \A id \in Id : Sublist(pending'[e], pending[e], id)
    BY DEF Sublist
  <2> QED
    BY <1>1, <1>3, <2>1, TailSublist
<1>5. /\ got' = got /\ dropped' = dropped /\ written' = written /\ ctx' = ctx
      /\ sync' = sync /\ call' = call /\ shut' = shut
  BY DEF FirstWriteFails, bytes
<1> QED
  BY <1>2, <1>4, <1>5, LostBytes

\* An open uses an id that nothing was written on.
LEMMA OpenBytes ==
  ASSUME IInv, BInv, NEW e \in End, Open(e)
  PROVE  BInv'
<1> DEFINE o == Other(e)
           id == e + 2 * opens[e] + 1
           sent == <<Frame("window", "syn", id, 0)>>
<1>1. Types /\ o \in End /\ Other(o) = e /\ opens[e] < MaxOpens
  BY Ends DEF IInv, Open
<1>2. /\ Shape(e, sent) /\ wire'[e] = wire[e] /\ Puts(e, id, NewStream(<<>>))
      /\ id \in Mine(e) /\ id \in Id
  BY <1>1, OpenTypes
<1>3. id \notin Opened(e) /\ id \notin Opened(o)
  <2>1. id \notin Opened(e) /\ Opened(o) \subseteq Mine(o) /\ Mine(e) \cap Mine(o) = {}
    BY <1>1, Fresh, Ids
  <2> QED
    BY <1>2, <2>1
<1>4. Other(e) \in End /\ Other(Other(e)) = e
  BY <1>1
<1> HIDE DEF id, o
<1>5. accepted[e][id] # 1 /\ accepted[o][id] # 1
  <2>1. StreamOK(e, id) /\ StreamOK(o, id)
    BY <1>1, <1>2 DEF IInv
  <2> QED
    BY <1>1, <1>3, <2>1 DEF StreamOK, o
<1>6. ~ctx[e][id].open /\ written[e][id] = 0 /\ written[o][id] = 0
  BY <1>1, <1>2, <1>3, <1>5, Unused
<1>7. /\ got' = got /\ dropped' = dropped /\ written' = written /\ pending' = pending
      /\ sync' = sync /\ shut' = shut /\ call'[e].op = "open"
  <2>1. call' = [call EXCEPT ![e] = [op |-> "open", id |-> id, value |-> 0]]
    BY DEF Open, Calls, id
  <2> QED
    BY <1>1, <2>1 DEF Open, bytes, Types
<1>8. Dataless(e, sent)
  BY <1>2, <1>6, Single DEF Dataless, Frame
<1> HIDE DEF sent
<1>9. ASSUME NEW j \in Id PROVE Fate(e, j) /\ Buffers(e, j)
  <2>1. Calm(e, j)
    BY <1>2 DEF Calm
  <2>2. CASE j # id
    <3>1. ctx'[e][j] = ctx[e][j]
      BY <1>2, <2>2 DEF Puts
    <3> QED
      BY <1>2, <1>7, <2>1, <3>1, Untouched
  <2>3. CASE j = id
    <3>1. ctx'[e][j].buffer = <<>> /\ ctx[e][j].buffer = <<>>
      <4>1. BytesOK(e, j)
        BY DEF BInv
      <4> QED
        BY <1>2, <1>6, <2>3, <4>1 DEF Puts, NewStream, BytesOK
    <3>2. Held(e, j)' = Held(e, j)
      BY <1>7, <3>1 DEF Held, Kept, PendingIds
    <3>3. Fate(e, j)
      BY <1>6, <1>7, <2>1, <2>3, <3>2 DEF Fate, o
    <3> QED
      BY <3>1, <3>3 DEF Buffers
  <2> QED
    BY <2>2, <2>3
<1> QED
  BY <1>2, <1>7, <1>8, <1>9, BytesStep

\* A stream that e has yet to hear of has nothing kept.
LEMMA NothingKept ==
  ASSUME IInv, BInv, NEW e \in End, NEW f \in ToSet(wire[e]), f.flag = "syn"
  PROVE  /\ f.id \in Id /\ f.data = <<>> /\ f.id \notin PendingIds(e) /\ Live(e, f.id)
         /\ Kept(e, f.id) = <<>> /\ ctx[e][f.id].buffer = <<>> /\ ~ctx[e][f.id].open
<1>1. Types /\ f.id \in Id /\ f.data = <<>> /\ f.id \notin PendingIds(e)
  BY SynUnheard DEF Unheard, IInv
<1>2. ~ctx[e][f.id].open
  BY <1>1, OneRole
<1>3. BytesOK(e, f.id)
  BY <1>1 DEF BInv
<1>4. ctx[e][f.id].buffer = <<>>
  BY <1>2, <1>3 DEF BytesOK
<1> QED
  BY <1>1, <1>2, <1>4 DEF Kept, Live

\* Another stream's SYN, while a stream is opened.
LEMMA OpenSynBytes ==
  ASSUME IInv, IInv', BInv, NEW e \in End, NEW f \in FrameType, wire[e] # <<>>, f = Head(wire[e]), OpenSyn(e, f)
  PROVE  BInv'
<1> DEFINE sent == <<Frame("window", "ack", f.id, 0)>>
           x == [id |-> f.id, data |-> <<>>]
           p == pending[e]
           q == pending'[e]
<1>1. Types /\ PendingOK(e) /\ PendingOK(e)' /\ f \in ToSet(wire[e]) /\ f.flag = "syn"
  <2>1. wire[e] \in Seq(FrameType)
    BY DEF IInv, Types
  <2> QED
    BY <2>1, Shorter DEF IInv, OpenSyn
<1>2. /\ f.id \in Id /\ f.data = <<>> /\ f.id \notin PendingIds(e) /\ Live(e, f.id)
      /\ Kept(e, f.id) = <<>> /\ ctx[e][f.id].buffer = <<>>
  BY <1>1, NothingKept
<1>3. Shape(e, sent) /\ Took(e) /\ q = <<x>> \o p
  BY <1>1, <1>2, OpenSynTypes
<1>4. /\ got' = got /\ dropped' = dropped /\ written' = written /\ ctx' = ctx /\ call' = call
      /\ sync' = sync /\ shut' = shut
  BY DEF OpenSyn, session, bytes
<1>5. Dataless(e, sent)
  BY NoData
<1>6. /\ 1 \in DOMAIN q /\ q[1] = x
      /\ \A i \in DOMAIN q : i # 1 => \E j \in DOMAIN p : q[i] = p[j]
      /\ \A i \in DOMAIN p : \E j \in DOMAIN q : q[j] = p[i]
  <2>1. <<>> \in Seq(1..MaxBytes)
    OBVIOUS
  <2>2. p \in Seq(PendingType) /\ x \in PendingType
    BY <1>1, <1>2, <2>1 DEF Types, PendingType
  <2> HIDE DEF p, q, x
  <2>3. /\ DOMAIN p = 1..Len(p) /\ Len(p) \in Nat /\ DOMAIN q = 1..(Len(p) + 1)
        /\ q[1] = x /\ \A i \in 2..(Len(p) + 1) : i - 1 \in 1..Len(p) /\ q[i] = p[i - 1]
    BY <1>3, <2>2, InFront
  <2>4. 1 \in DOMAIN q /\ \A i \in DOMAIN q : i # 1 => i \in 2..(Len(p) + 1)
    BY <2>3
  <2>5. \A i \in DOMAIN p : i + 1 \in 2..(Len(p) + 1) /\ i + 1 \in DOMAIN q /\ (i + 1) - 1 = i
    BY <2>3
  <2> QED
    BY <2>3, <2>4, <2>5
<1>7. x.id = f.id /\ x.data = <<>>
  OBVIOUS
<1>8. ASSUME NEW id \in Id PROVE Kept(e, id)' = Kept(e, id)
  <2> DEFINE b == ctx'[e][id].buffer
  <2>1. Kept(e, id)' = KeptIn(q, b, id) /\ PendingIds(e)' = {q[i].id : i \in DOMAIN q} /\ Once(q)
    BY <1>1, KeptThen DEF PendingOK, Once
  <2> HIDE DEF b, p, q, x
  <2>2. CASE id = f.id
    <3>1. KeptIn(q, b, id) = q[1].data
      BY <1>6, <1>7, <2>1, <2>2, KeptEntry
    <3> QED
      BY <1>2, <1>6, <1>7, <2>1, <2>2, <3>1
  <2>3. CASE id # f.id
    <3>1. Sublist(q, p, id)
      BY <1>6, <1>7, <2>3 DEF Sublist
    <3>2. id \in PendingIds(e)' \/ id \notin PendingIds(e)
      <4>1. PendingIds(e) = {p[i].id : i \in DOMAIN p}
        BY DEF PendingIds, p
      <4> QED
        BY <1>6, <2>1, <4>1
    <3> QED
      BY <1>1, <1>4, <3>1, <3>2, EntryKept DEF p, q
  <2> QED
    BY <2>2, <2>3
<1>9. \A id \in Id : id \in PendingIds(e)' => id = f.id \/ id \in PendingIds(e)
  BY <1>6, <1>7 DEF PendingIds
<1> HIDE DEF sent, p, q, x
<1>10. ASSUME NEW id \in Id PROVE Fate(e, id) /\ Buffers(e, id)
  <2>1. Calm(e, id)
    BY <1>2, <1>3, CalmFrame
  <2>2. Held(e, id)' = Held(e, id)
    BY <1>4, <1>8, KeptThen DEF Held
  <2>3. Live(e, id)' => Live(e, id)
    <3>1. (ctx'[e][id].open => Live(e, id)) /\ (id \in PendingIds(e)' => Live(e, id))
      BY <1>2, <1>4, <1>9 DEF Live
    <3> QED
      BY <1>3, <3>1, LiveKept
  <2>4. Fate(e, id)
    BY <1>4, <2>1, <2>2, <2>3 DEF Fate
  <2> QED
    BY <1>4, <2>4 DEF Buffers, BInv, BytesOK
<1> QED
  BY <1>3, <1>4, <1>5, <1>10, BytesStep

\* A stream is accepted with what was kept of it.
LEMMA AcceptedBytes ==
  ASSUME IInv, IInv', BInv, NEW e \in End, NEW id \in Id, NEW sent, Shape(e, sent), Dataless(e, sent),
         wire'[e] = wire[e] \/ (Took(e) /\ Head(wire[e]).data = <<>>),
         Puts(e, id, NewStream(Kept(e, id))), Live(e, id), id \notin PendingIds(e)',
         \A j \in Id : Sublist(pending'[e], pending[e], j),
         \A j \in Id : j # id => (j \in PendingIds(e)' <=> j \in PendingIds(e)),
         call'[e].op # "read", got' = got, dropped' = dropped, written' = written, sync' = sync, shut' = shut
  PROVE  BInv'
<1>1. Types /\ PendingOK(e) /\ PendingOK(e)'
  BY DEF IInv
<1>2. ASSUME NEW j \in Id PROVE Fate(e, j) /\ Buffers(e, j)
  <2>1. Calm(e, j)
    BY CalmFrame DEF Calm
  <2>2. /\ Held(e, j)' = got[e][j] \o Kept(e, j)' /\ Held(e, j) = got[e][j] \o Kept(e, j)
        /\ j \notin PendingIds(e)' => Kept(e, j)' = ctx'[e][j].buffer
    BY KeptThen, KeptEntry DEF Held
  <2>3. CASE j = id
    <3>1. ctx'[e][j].open = TRUE /\ ctx'[e][j].buffer = Kept(e, j)
      BY <2>3 DEF Puts, NewStream
    <3>2. Fate(e, j)
      BY <2>1, <2>2, <2>3, <3>1 DEF Fate
    <3> QED
      BY <3>1, <3>2 DEF Buffers
  <2>4. CASE j # id
    <3>1. ctx'[e][j] = ctx[e][j]
      BY <2>4 DEF Puts
    <3>2. Kept(e, j)' = Kept(e, j)
      BY <1>1, <2>4, <3>1, EntryKept
    <3>3. Live(e, j)' => Live(e, j)
      <4>1. (ctx'[e][j].open => Live(e, j)) /\ (j \in PendingIds(e)' => Live(e, j))
        BY <2>4, <3>1 DEF Live
      <4> QED
        BY <4>1, LiveKept
    <3>4. Fate(e, j)
      BY <2>1, <2>2, <3>2, <3>3 DEF Fate
    <3> QED
      BY <3>1, <3>4 DEF Buffers, BInv, BytesOK
  <2> QED
    BY <2>3, <2>4
<1> QED
  BY <1>2, BytesStep

\* A stream that waits is accepted.
LEMMA AcceptPendingBytes ==
  ASSUME IInv, IInv', BInv, NEW e \in End, AcceptPending(e)
  PROVE  BInv'
<1> DEFINE x == Head(pending[e])
           id == x.id
           sent == <<Frame("window", "ack", id, 0)>>
<1>1. Types /\ PendingOK(e) /\ pending[e] # <<>> /\ call[e] = Idle
  BY DEF IInv, AcceptPending
<1>2. /\ id \in Id /\ Shape(e, sent) /\ wire'[e] = wire[e]
      /\ Puts(e, id, NewStream(x.data)) /\ pending'[e] = Tail(pending[e])
  BY <1>1, AcceptPendingTypes
<1>3. /\ PendingIds(e)' \subseteq PendingIds(e) /\ id \in PendingIds(e) /\ id \notin PendingIds(e)'
      /\ PendingIds(e) \subseteq PendingIds(e)' \cup {id}
  BY <1>1, <1>2, PendingTaken DEF Shape
<1>4. Kept(e, id) = x.data
  <2>1. pending[e] \in Seq(PendingType)
    BY <1>1 DEF Types
  <2>2. 1 \in DOMAIN pending[e] /\ x = pending[e][1]
    BY <1>1, <2>1, Shorter
  <2> HIDE DEF x
  <2> QED
    BY <1>1, <1>2, <2>2, KeptIs
<1>5. /\ got' = got /\ dropped' = dropped /\ written' = written /\ call' = call
      /\ sync' = sync /\ shut' = shut
  BY DEF AcceptPending, session, bytes
<1>6. Dataless(e, sent) /\ call'[e].op # "read" /\ Live(e, id)
  BY <1>1, <1>3, <1>5, NoData DEF Idle, Live
<1>7. \A j \in Id : Sublist(pending'[e], pending[e], j)
  BY <1>1, <1>2, TailSublist
<1> HIDE DEF x, id, sent
<1>8. \A j \in Id : j # id => (j \in PendingIds(e)' <=> j \in PendingIds(e))
  BY <1>3
<1> QED
  BY <1>2, <1>3, <1>4, <1>5, <1>6, <1>7, <1>8, AcceptedBytes

\* A SYN is accepted.
LEMMA AcceptSynBytes ==
  ASSUME IInv, IInv', BInv, NEW e \in End, NEW f \in FrameType, wire[e] # <<>>, f = Head(wire[e]), AcceptSyn(e, f)
  PROVE  BInv'
<1> DEFINE sent == <<Frame("window", "ack", f.id, 0)>>
<1>1. Types /\ f \in ToSet(wire[e]) /\ f.flag = "syn"
  <2>1. wire[e] \in Seq(FrameType)
    BY DEF IInv, Types
  <2> QED
    BY <2>1, Shorter DEF IInv, AcceptSyn
<1>2. /\ f.id \in Id /\ f.data = <<>> /\ f.id \notin PendingIds(e) /\ Live(e, f.id)
      /\ Kept(e, f.id) = <<>>
  BY <1>1, NothingKept
<1>3. Shape(e, sent) /\ Took(e) /\ call'[e] = Idle /\ Puts(e, f.id, NewStream(f.data))
  BY <1>1, <1>2, AcceptSynTypes
<1>4. /\ got' = got /\ dropped' = dropped /\ written' = written /\ pending' = pending
      /\ sync' = sync /\ shut' = shut
  BY DEF AcceptSyn, session, bytes
<1>5. Dataless(e, sent) /\ call'[e].op # "read"
  BY <1>3, NoData DEF Idle
<1>6. PendingIds(e)' = PendingIds(e) /\ \A j \in Id : Sublist(pending'[e], pending[e], j)
  BY <1>4 DEF PendingIds, Sublist
<1>7. Puts(e, f.id, NewStream(Kept(e, f.id))) /\ f.id \notin PendingIds(e)'
  BY <1>2, <1>3, <1>6
<1> HIDE DEF sent
<1> QED
  BY <1>2, <1>3, <1>4, <1>5, <1>6, <1>7, AcceptedBytes

\* What was buffered is delivered, or a read begins.
LEMMA ReadBytes ==
  ASSUME IInv, BInv, NEW e \in End, NEW id \in Id, Read(e, id, 1)
  PROVE  BInv'
<1> DEFINE b == ctx[e][id].buffer
           k == Least(1, Len(b))
           s == SubSeq(b, 1, k)
           t == SubSeq(b, k + 1, Len(b))
<1>1. Types /\ ctx[e][id].open /\ call[e] = Idle
  BY DEF IInv, Read, Usable
<1>2. Shape(e, <<>>) /\ wire' = wire
  BY <1>1, ReadTypes
<1>3. /\ sync' = sync /\ shut' = shut /\ pending' = pending /\ written' = written /\ dropped' = dropped
      /\ PendingIds(e)' = PendingIds(e)
  BY DEF Read, session, PendingIds
<1>4. Dataless(e, <<>>)
  BY Nothing DEF Dataless
<1>5. CASE b = <<>>
  <2>1. ctx' = ctx /\ got' = got /\ call'[e] = [op |-> "read", id |-> id, value |-> 1]
    BY <1>1, <1>5 DEF Read, Calls, Types
  <2>2. ASSUME NEW j \in Id PROVE Fate(e, j) /\ Buffers(e, j)
    <3>1. Calm(e, j) /\ Held(e, j)' = Held(e, j) /\ Live(e, j)' = Live(e, j)
      BY <1>2, <1>3, <2>1 DEF Calm, Held, Kept, PendingIds, Live
    <3>2. Fate(e, j)
      BY <1>3, <3>1 DEF Fate
    <3>3. Buffers(e, j)
      BY <1>5, <2>1 DEF Buffers, BInv, BytesOK
    <3> QED
      BY <3>2, <3>3
  <2> QED
    BY <1>2, <1>3, <1>4, <2>1, <2>2, BytesStep
<1>6. CASE b # <<>>
  <2>1. b \in Seq(1..MaxBytes) /\ b \in Seq(Nat) /\ Len(b) \in Nat /\ ctx[e][id] \in StreamType
    BY <1>1, StreamFields, Numbers
  <2>2. k \in 0..Len(b) /\ k + 1 \in 1..(Len(b) + 1) /\ 1 \in 1..(Len(b) + 1) /\ Len(b) \in 0..Len(b)
    BY <2>1 DEF Least
  <2>3. /\ got' = [got EXCEPT ![e][id] = @ \o s] /\ ctx' = [ctx EXCEPT ![e][id].buffer = t]
        /\ call' = call
    BY <1>6 DEF Read
  <2> HIDE DEF b, k
  <2>4. s \in Seq(Nat) /\ t \in Seq(Nat) /\ s \o t = b
    BY <2>1, <2>2, Halves
  <2>5. t \in Seq(1..MaxBytes)
    BY <2>1, <2>2, Part
  <2> HIDE DEF s, t
  <2>6. Puts(e, id, [ctx[e][id] EXCEPT !.buffer = t])
    BY <1>1, <2>3, <2>5, PutBuffer
  <2>7. /\ got'[e][id] = got[e][id] \o s /\ got'[Other(e)] = got[Other(e)]
        /\ \A j \in Id : j # id => got'[e][j] = got[e][j]
    <3>1. got \in [End -> [Id -> Seq(1..MaxBytes)]] /\ Other(e) \in End /\ Other(e) # e
      BY <1>1, Ends DEF Types
    <3> QED
      BY <2>3, <3>1
  <2>8. ctx'[e][id].open = ctx[e][id].open /\ ctx'[e][id].buffer = t
    BY <2>1, <2>6 DEF Puts, StreamType
  <2>9. call'[e].op # "read"
    BY <1>1, <2>3 DEF Idle
  <2>10. ASSUME NEW j \in Id PROVE Fate(e, j) /\ Buffers(e, j)
    <3>1. Calm(e, j)
      BY <1>2 DEF Calm
    <3>2. CASE j # id
      <4>1. ctx'[e][j] = ctx[e][j] /\ got'[e][j] = got[e][j]
        BY <2>6, <2>7, <3>2 DEF Puts
      <4> QED
        BY <1>2, <1>3, <2>9, <3>1, <4>1, Untouched
    <3>3. CASE j = id
      <4>1. id \notin PendingIds(e)
        BY <1>1, OneRole
      <4>2. Kept(e, id) = b /\ Kept(e, id)' = t
        BY <1>3, <2>8, <4>1 DEF Kept, b
      <4>3. got[e][id] \in Seq(Nat)
        BY <1>1, KeptIs
      <4>4. got[e][id] \o (s \o t) = (got[e][id] \o s) \o t
        BY <2>4, <4>3, Thrice
      <4>5. Held(e, id)' = Held(e, id)
        BY <2>4, <2>7, <4>2, <4>4, KeptThen DEF Held
      <4>6. Live(e, id)' => Live(e, id)
        BY <1>1 DEF Live
      <4>7. Fate(e, id)
        BY <1>3, <3>1, <3>3, <4>5, <4>6 DEF Fate
      <4> QED
        BY <1>1, <2>8, <2>9, <3>3, <4>7 DEF Buffers
    <3> QED
      BY <3>2, <3>3
  <2> QED
    BY <1>2, <1>3, <1>4, <2>7, <2>10, BytesStep
<1> QED
  BY <1>5, <1>6

\* A frame's data is delivered, and what is too much of it buffered: nothing was before.
LEMMA ReadDataBytes ==
  ASSUME IInv, BInv, NEW e \in End, NEW f \in FrameType, Next1(e, "read", f), ReadData(e, f)
  PROVE  BInv'
<1> DEFINE id == f.id
           d == f.data
           inc == Increment(ctx[e][id].recv, f.len)
           sent == IF inc > 0 THEN <<Frame("window", "none", id, inc)>> ELSE <<>>
           k == Least(call[e].value, f.len)
           s == SubSeq(d, 1, k)
           t == SubSeq(d, k + 1, f.len)
<1>1. /\ Types /\ CallOK(e) /\ call[e].op = "read" /\ wire[e] # <<>> /\ f = Head(wire[e])
      /\ f \in ToSet(wire[e]) /\ f.type = "data" /\ id = call[e].id /\ f.flag # "fin"
  <2>1. Types
    BY DEF IInv
  <2> QED
    BY <2>1, FirstFrame DEF IInv, ReadData
<1>2. DataOK(e, f)
  BY <1>1 DEF IInv, Frames, FrameOK
<1>3. /\ Shape(e, sent) /\ Took(e) /\ call'[e] = Idle /\ id \in Id
      /\ \E b : Puts(e, id, [ctx[e][id] EXCEPT !.recv = Left(ctx[e][id].recv, f.len) + inc, !.buffer = b])
  BY <1>1, <1>2, ReadDataTypes
<1>4. /\ got' = [got EXCEPT ![e][id] = @ \o s]
      /\ ctx' = [ctx EXCEPT ![e][id].recv = Left(ctx[e][id].recv, f.len) + inc, ![e][id].buffer = t]
      /\ sync' = sync /\ shut' = shut /\ pending' = pending /\ written' = written /\ dropped' = dropped
  BY DEF ReadData, session
<1>5. d \in Seq(1..MaxBytes) /\ d \in Seq(Nat) /\ f.len = Len(d) /\ Len(d) \in Nat /\ call[e].value \in Nat
  <2>1. d \in Seq(1..MaxBytes) /\ f.len = Len(d) /\ call[e].value \in Nat
    BY <1>1, <1>2 DEF FrameType, DataOK, Types, CallType
  <2> QED
    BY <2>1, Numbers
<1>6. k \in 0..Len(d)
  BY <1>5 DEF Least
<1>7. Dataless(e, sent)
  BY NoData
<1>8. ctx[e][id].open /\ ctx[e][id].buffer = <<>> /\ id \notin PendingIds(e) /\ ctx[e][id] \in StreamType
  <2>1. ctx[e][id].open
    BY <1>1 DEF CallOK
  <2>2. BytesOK(e, id)
    BY <1>3 DEF BInv
  <2> QED
    BY <1>1, <1>3, <2>1, <2>2, OneRole, StreamFields DEF BytesOK
<1>9. got' = [got EXCEPT ![e][id] = got[e][id] \o s]
  BY <1>1, <1>4 DEF Types
<1>10. ctx'[e][id].open /\ ctx'[e][id].buffer = t /\ \A j \in Id : j # id => ctx'[e][j] = ctx[e][j]
  <2> HIDE DEF t, inc, id, sent
  <2>1. ctx \in [End -> [Id -> StreamType]]
    BY <1>1 DEF Types
  <2> QED
    BY <1>3, <1>4, <1>8, <2>1 DEF StreamType
<1> HIDE DEF sent, inc, k, id, d
<1>11. s \in Seq(Nat) /\ t \in Seq(Nat) /\ s \o t = d
  BY <1>5, <1>6, Halves
<1> HIDE DEF s, t
<1>12. /\ got'[e][id] = got[e][id] \o s /\ got'[Other(e)] = got[Other(e)]
       /\ \A j \in Id : j # id => got'[e][j] = got[e][j]
  <2>1. got \in [End -> [Id -> Seq(1..MaxBytes)]] /\ Other(e) \in End /\ Other(e) # e
    BY <1>1, Ends DEF Types
  <2> QED
    BY <1>3, <1>9, <2>1
<1>13. call'[e].op # "read" /\ PendingIds(e)' = PendingIds(e)
  BY <1>3, <1>4 DEF Idle, PendingIds
<1>14. ASSUME NEW j \in Id PROVE Fate(e, j) /\ Buffers(e, j)
  <2>1. CASE j # id
    <3>1. Calm(e, j)
      BY <1>1, <1>3, <2>1 DEF Calm, Payload, id
    <3> QED
      BY <1>3, <1>4, <1>10, <1>12, <1>13, <2>1, <3>1, Untouched
  <2>2. CASE j = id
    <3>1. Kept(e, id) = <<>> /\ Kept(e, id)' = t
      BY <1>8, <1>10, <1>13 DEF Kept
    <3>2. got[e][id] \in Seq(Nat)
      BY <1>1, <1>3, KeptIs
    <3>3. Held(e, id) = got[e][id]
      BY <3>1, <3>2 DEF Held
    <3>4. got[e][id] \o (s \o t) = (got[e][id] \o s) \o t
      BY <1>11, <3>2, Thrice
    <3>5. Held(e, id)' = Held(e, id) \o d
      BY <1>3, <1>11, <1>12, <3>1, <3>3, <3>4, KeptThen
    <3>6. Payload(f, id) = d
      BY DEF Payload, id, d
    <3>7. Live(e, id)' => Live(e, id)
      BY <1>8 DEF Live
    <3>8. Fate(e, id)
      BY <1>1, <1>3, <1>4, <3>5, <3>6, <3>7 DEF Fate
    <3> QED
      BY <1>10, <1>13, <2>2, <3>8 DEF Buffers
  <2> QED
    BY <2>1, <2>2
<1> QED
  BY <1>3, <1>4, <1>7, <1>12, <1>14, BytesStep

\* A write: its bytes are the next ones of the stream.
LEMMA WriteBytes ==
  ASSUME IInv, BInv, NEW e \in End, NEW id \in Id, NEW n \in 1..MaxBytes, Write(e, id, n)
  PROVE  BInv'
<1>1. Types /\ Other(e) \in End /\ Other(e) # e /\ call[e] = Idle
  BY Ends DEF IInv, Write, Usable
<1>2. PICK count \in Nat \ {0} :
           /\ Shape(e, <<Data(id, Chunk(e, id, count))>>) /\ wire'[e] = wire[e]
           /\ Puts(e, id, [ctx[e][id] EXCEPT !.send = @ - count])
           /\ written'[e][id] = written[e][id] + count
           /\ \A j \in Id : j # id => written'[e][j] = written[e][j]
  BY <1>1, WriteTypes
<1> DEFINE g == Data(id, Chunk(e, id, count))
           sent == <<g>>
<1>3. /\ call' = call /\ pending' = pending /\ got' = got /\ dropped' = dropped /\ sync' = sync /\ shut' = shut
  BY DEF Write, session
<1>4. g.id = id /\ g.data = Chunk(e, id, count) /\ g.flag = "none" /\ g.type = "data" /\ ToSet(sent) = {g}
  BY Single DEF Data
<1>5. Shape(e, sent) /\ Moves(e, sent) /\ Types' /\ Local(e)
  BY <1>2 DEF Shape
<1>6. ASSUME NEW j \in Id PROVE Brings(e, sent, j)
  <2> DEFINE w == written[e][j]
  <2>1. w \in Nat
    BY <1>1 DEF Types
  <2>2. CASE j = id
    <3> DEFINE d == Chunk(e, id, count)
    <3>1. DOMAIN d = 1..count /\ \A i \in 1..count : d[i] = w + i
      BY <2>2 DEF Chunk
    <3> HIDE DEF d, w
    <3>2. Increasing(d)
      BY <2>1, <3>1 DEF Increasing
    <3>3. ToSet(d) = (w + 1)..(w + count)
      <4>1. \A x : x \in ToSet(d) <=> \E i \in 1..count : x = w + i
        BY <3>1 DEF ToSet
      <4>2. ASSUME NEW x PROVE (\E i \in 1..count : x = w + i) <=> x \in (w + 1)..(w + count)
        <5>1. ASSUME x \in (w + 1)..(w + count) PROVE \E i \in 1..count : x = w + i
          <6>1. x - w \in 1..count /\ x = w + (x - w)
            BY <2>1, <5>1
          <6> QED
            BY <6>1
        <5>2. ASSUME NEW i \in 1..count, x = w + i PROVE x \in (w + 1)..(w + count)
          BY <2>1, <5>2
        <5> QED
          BY <5>1, <5>2
      <4> QED
        BY <4>1, <4>2
    <3>4. w <= w + count /\ written'[e][j] = w + count
      BY <1>2, <2>1, <2>2 DEF w
    <3>5. Payload(g, j) = d
      BY <1>4, <2>2 DEF Payload, d
    <3> HIDE DEF g
    <3>6. sent # <<>>
      OBVIOUS
    <3> HIDE DEF sent
    <3> QED
      BY <1>4, <3>2, <3>3, <3>4, <3>5, <3>6 DEF Brings, w
  <2>3. CASE j # id
    <3>1. Payload(g, j) = <<>> /\ written'[e][j] = w
      BY <1>2, <1>4, <2>3 DEF Payload
    <3>2. ToSet(<<>>) = {} /\ Increasing(<<>>)
      BY Nothing DEF Increasing
    <3> HIDE DEF g, sent
    <3>3. w <= w /\ (w + 1)..w = {}
      BY <2>1
    <3> QED
      BY <1>4, <3>1, <3>2, <3>3 DEF Brings
  <2> QED
    BY <2>2, <2>3
<1> HIDE DEF g, sent
<1>7. ASSUME NEW j \in Id PROVE BytesOK(Other(e), j)'
  <2>1. BytesOK(Other(e), j)
    BY <1>1 DEF BInv
  <2> QED
    BY <1>1, <1>3, <1>5, <1>6, <2>1, BytesOther
<1>8. ASSUME NEW j \in Id PROVE BytesOK(e, j)'
  <2>1. Calm(e, j)
    BY <1>2 DEF Calm
  <2>2. ctx'[e][j].open = ctx[e][j].open /\ ctx'[e][j].buffer = ctx[e][j].buffer
    <3>1. ctx[e][id] \in StreamType
      BY <1>1, StreamFields
    <3> QED
      BY <1>2, <3>1 DEF Puts, StreamType
  <2>3. Fate(e, j) /\ Buffers(e, j)
    BY <1>3, <1>5, <2>1, <2>2, Untouched
  <2>4. BytesOK(e, j) /\ written'[Other(e)][j] = written[Other(e)][j]
    BY <1>5 DEF BInv, Local
  <2> QED
    BY <1>1, <1>3, <1>5, <2>3, <2>4, BytesOwn DEF Buffers
<1>9. Bare(wire'[e]) /\ Bare(wire'[Other(e)])
  <2>1. /\ ToSet(wire'[e]) \subseteq ToSet(wire[e])
        /\ ToSet(wire'[Other(e)]) \subseteq ToSet(wire[Other(e)]) \cup ToSet(sent)
    BY <1>1, <1>5, MovedFrames
  <2> QED
    BY <1>1, <1>4, <2>1 DEF BInv, Bare
<1> QED
  BY <1>7, <1>8, <1>9, Ends DEF BInv

\* At first nothing is held, kept or written.
LEMMA BytesAtFirst == Init => BInv
<1> SUFFICES ASSUME Init PROVE BInv
  OBVIOUS
<1>1. \A e \in End : Other(e) \in End /\ wire[e] = <<>> /\ pending[e] = <<>> /\ call[e] = Idle
  BY Ends DEF Init
<1>2. ToSet(<<>>) = {} /\ Increasing(<<>>) /\ DOMAIN <<>> = {} /\ <<>> \o <<>> = <<>> /\ 1..0 = {}
  BY Nothing DEF Increasing
<1>3. \A e \in End : Bare(wire[e])
  BY <1>1, <1>2 DEF Bare
<1>4. ASSUME NEW e \in End, NEW id \in Id PROVE BytesOK(e, id)
  <2>1. /\ ctx[e][id].open = FALSE /\ ctx[e][id].buffer = <<>> /\ got[e][id] = <<>>
        /\ dropped[e][id] = {} /\ written[Other(e)][id] = 0
    BY <1>1 DEF Init, NoStream
  <2>2. PendingIds(e) = {}
    BY <1>1 DEF PendingIds
  <2>3. Held(e, id) = <<>>
    BY <1>2, <2>1, <2>2 DEF Held, Kept
  <2>4. AllOf(<<>>, <<>>, id) = {}
    BY <1>2, AllOfIs
  <2>5. InOrder(<<>>, <<>>, id)
    BY <1>2 DEF InOrder
  <2>6. BytesIn(Held(e, id), wire[e], dropped[e][id], written[Other(e)][id], id) /\ Complete(e, id)
    BY <1>1, <1>2, <2>1, <2>3, <2>4, <2>5 DEF BytesIn, Complete
  <2> QED
    BY <2>1, <2>6 DEF BytesOK
<1> QED
  BY <1>3, <1>4 DEF BInv

\* A step of a call that waits for an ACK or a SYN.
LEMMA WaitingBytes ==
  ASSUME IInv, IInv', BInv, NEW e \in End, OpenStep(e) \/ AcceptStep(e)
  PROVE  BInv'
<1>1. Types
  BY DEF IInv
<1>2. CASE OpenStep(e)
  <2>1. PICK f \in ToSet(wire[e]) :
          /\ Next1(e, "open", f)
          /\ \/ GoAwayReceived(e, f) \/ Control(e, f)
             \/ OpenWindow(e, f) \/ OpenSyn(e, f) \/ OpenData(e, f) \/ OpenOther(e, f)
    BY <1>2 DEF OpenStep
  <2>2. f \in FrameType /\ wire[e] # <<>> /\ f = Head(wire[e])
    BY <1>1, <2>1, Incoming DEF Next1
  <2> QED
    BY <2>1, <2>2, GoAwayBytes, ControlBytes, OpenWindowBytes, OpenSynBytes, OpenDataBytes, DropsBytes
    DEF Drops
<1>3. CASE AcceptStep(e)
  <2>1. PICK f \in ToSet(wire[e]) :
          /\ Next1(e, "accept", f)
          /\ GoAwayReceived(e, f) \/ Control(e, f) \/ AcceptSyn(e, f) \/ AcceptOther(e, f)
    BY <1>3 DEF AcceptStep
  <2>2. f \in FrameType /\ wire[e] # <<>> /\ f = Head(wire[e])
    BY <1>1, <2>1, Incoming DEF Next1
  <2> QED
    BY <2>1, <2>2, GoAwayBytes, ControlBytes, AcceptSynBytes, DropsBytes DEF Drops
<1> QED
  BY <1>2, <1>3

\* A step of a call that waits for data or for the answer to a ping.
LEMMA ReadingBytes ==
  ASSUME IInv, IInv', BInv, NEW e \in End, ReadStep(e) \/ PingStep(e)
  PROVE  BInv'
<1>1. Types
  BY DEF IInv
<1>2. CASE ReadStep(e)
  <2>1. PICK f \in ToSet(wire[e]) :
          /\ Next1(e, "read", f)
          /\ \/ GoAwayReceived(e, f) \/ Control(e, f) \/ ReadWindow(e, f) \/ ReadPending(e, f)
             \/ ReadOther(e, f) \/ ReadFin(e, f) \/ ReadData(e, f)
    BY <1>2 DEF ReadStep
  <2>2. f \in FrameType /\ wire[e] # <<>> /\ f = Head(wire[e])
    BY <1>1, <2>1, Incoming DEF Next1
  <2>3. CASE GoAwayReceived(e, f) \/ Control(e, f) \/ ReadOther(e, f) \/ ReadFin(e, f)
    BY <2>1, <2>2, <2>3, GoAwayBytes, ControlBytes, DropsBytes, ReadFinBytes DEF Drops
  <2>4. CASE ReadWindow(e, f) \/ ReadPending(e, f) \/ ReadData(e, f)
    BY <2>1, <2>2, <2>4, ReadWindowBytes, ReadPendingBytes, ReadDataBytes
  <2> QED
    BY <2>1, <2>3, <2>4
<1>3. CASE PingStep(e)
  <2>1. PICK f \in ToSet(wire[e]) :
          /\ Next1(e, "ping", f)
          /\ GoAwayReceived(e, f) \/ Pong(e, f) \/ PingOther(e, f)
    BY <1>3 DEF PingStep
  <2>2. f \in FrameType /\ wire[e] # <<>> /\ f = Head(wire[e])
    BY <1>1, <2>1, Incoming DEF Next1
  <2> QED
    BY <2>1, <2>2, GoAwayBytes, PongBytes, PingOtherBytes
<1> QED
  BY <1>2, <1>3

\* Every step keeps what holds of the bytes.
LEMMA BytesHold == IInv /\ IInv' /\ BInv /\ [Next]_vars => BInv'
<1> SUFFICES ASSUME IInv, IInv', BInv, [Next]_vars PROVE BInv'
  OBVIOUS
<1>1. CASE Next
  <2>1. PICK e \in End :
          \/ Open(e) \/ OpenStep(e) \/ AcceptPending(e) \/ Accept(e) \/ AcceptStep(e)
          \/ \E id \in Id : Read(e, id, 1) \/ \E n \in 1..MaxBytes : Write(e, id, n)
          \/ ReadStep(e)
          \/ \E id \in Id : CloseStream(e, id)
          \/ libp2p_yamux_session_ping(e) \/ PingStep(e)
          \/ libp2p_yamux_session_goaway(e) \/ libp2p_yamux_session_free(e)
          \/ ReadFails(e) \/ AnswerFails(e) \/ FirstWriteFails(e)
    BY <1>1 DEF Next
  <2>2. CASE Open(e) \/ OpenStep(e) \/ AcceptPending(e) \/ Accept(e) \/ AcceptStep(e)
    BY <2>2, OpenBytes, WaitingBytes, AcceptPendingBytes, AcceptBytes
  <2>3. CASE \E id \in Id : Read(e, id, 1) \/ \E n \in 1..MaxBytes : Write(e, id, n)
    BY <2>3, ReadBytes, WriteBytes
  <2>4. CASE ReadStep(e) \/ PingStep(e) \/ \E id \in Id : CloseStream(e, id)
    BY <2>4, ReadingBytes, CloseBytes
  <2>5. CASE \/ libp2p_yamux_session_ping(e) \/ libp2p_yamux_session_goaway(e)
             \/ libp2p_yamux_session_free(e)
    BY <2>5, PingBytes, GoodbyeBytes, FreeBytes
  <2>6. CASE ReadFails(e) \/ AnswerFails(e) \/ FirstWriteFails(e)
    BY <2>6, ReadFailsBytes, AnswerFailsBytes, FirstWriteBytes
  <2> QED
    BY <2>1, <2>2, <2>3, <2>4, <2>5, <2>6
<1>2. CASE UNCHANGED vars
  <2>1. /\ wire' = wire /\ sync' = sync /\ shut' = shut /\ pending' = pending /\ ctx' = ctx
        /\ call' = call /\ written' = written /\ got' = got /\ dropped' = dropped
    BY <1>2 DEF vars, session, stream, bytes
  <2>2. ASSUME NEW e \in End, NEW id \in Id PROVE BytesOK(e, id)'
    <3>1. PendingIds(e)' = PendingIds(e)
      BY <2>1 DEF PendingIds
    <3>2. Held(e, id)' = Held(e, id)
      BY <2>1, <3>1 DEF Held, Kept
    <3>3. Live(e, id)' = Live(e, id)
      BY <2>1, <3>1 DEF Live
    <3>4. BytesOK(e, id)
      BY DEF BInv
    <3> QED
      BY <2>1, <3>2, <3>3, <3>4 DEF BytesOK, Complete
  <2>3. \A e \in End : Bare(wire[e])'
    BY <2>1 DEF BInv, Bare
  <2> QED
    BY <2>2, <2>3 DEF BInv
<1> QED
  BY <1>1, <1>2

\* Bytes come out of yamux_stream_read in the order yamux_stream_write was given them, none twice,
\* whether a stream was accepted at once or waited in pending_inbound; and of an open stream none is
\* missing but those that a call for something else has thrown away.
THEOREM BytesInOrder == Spec => []BytesAccounted
<1>1. BInv => BytesAccounted
  BY DEF BInv, BytesOK, BytesIn, Complete, Live, Held, BytesAccounted
<1>2. Init => BInv
  BY BytesAtFirst
<1>3. IInv /\ IInv' /\ BInv /\ [Next]_vars => BInv'
  BY BytesHold
<1> QED
  BY <1>1, <1>2, <1>3, InvariantHolds, PTL DEF Spec
=============================================================================
