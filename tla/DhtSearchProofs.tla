-------------------------- MODULE DhtSearchProofs ---------------------------
(***************************************************************************)
(* Proofs about DhtSearch, for any peers and any sizes and times: what a   *)
(* search knows of its nodes, the packets under way and what the peers     *)
(* have stored are tied together.                                          *)
(***************************************************************************)
EXTENDS DhtSearch, FiniteSetTheorems, WellFoundedInduction, TLAPS

NodeType ==
  [ id : Peer, request_time : Age, reply_time : Age, pinged : 0..3,
    token : Secret \cup {NoToken}, replied : BOOLEAN, acked : BOOLEAN ]

SearchType ==
  [ tid : Nat, port : Port \cup {0}, ports : SUBSET Port, done : BOOLEAN, step : Age,
    nodes : Seq(NodeType) ]

\* A list of nodes is short enough and in the order of their distance.
Lists(S) ==
  {ns \in Seq(S) : /\ Len(ns) <= SEARCH_NODES
                   /\ \A i, j \in DOMAIN ns : i < j => ns[i].id < ns[j].id}

\* A node that has replied gave a token if it gives one at all.  One that is counted as
\* having taken the announcement gives none, or has stored a port of this search.
Nodes(ports, ann) ==
  {n \in NodeType : /\ n.token # NoToken <=> n.replied /\ n.id \notin Tokenless
                    /\ n.acked => n.id \in Tokenless \/ ann[n.id] \cap ports # {}}

\* The search s, which there is if alive, with what the peers have stored.
SearchOK(s, alive, ann) ==
  /\ s \in SearchType
  /\ s.nodes \in Lists(Nodes(s.ports, ann))
  /\ alive => s.port \in s.ports
  /\ ~alive => s.nodes = <<>>

Packet ==
  [type : {"gp"}, to : Peer, tid : Nat]
  \cup [type : {"gpr"}, from : Peer, tid : Nat, token : Secret \cup {NoToken}]
  \cup [type : {"ap"}, to : Peer, tid : Nat, port : Port, token : Secret \cup {NoToken}]
  \cup [type : {"apr"}, from : Peer, tid : Nat]

\* A packet was sent for the search there is or an earlier one.  For this one, an
\* announcement carries one of its ports, and a reply to one comes from a peer that has stored one.
PacketOK(m, s, alive, ann) ==
  /\ m \in Packet
  /\ m.tid <= s.tid
  /\ m.type = "gpr" => (m.token = NoToken <=> m.from \in Tokenless)
  /\ m.type = "ap" /\ alive /\ m.tid = s.tid => m.port \in s.ports
  /\ m.type = "apr" /\ alive /\ m.tid = s.tid => ann[m.from] \cap s.ports # {}

Scalars ==
  /\ live \in BOOLEAN /\ search_time \in -1..(Wait + Jitter) /\ calls \in 0..MaxCalls
  /\ sr.tid <= calls
  /\ blacklist \subseteq Peer
  /\ secret \in [Peer -> Secret] /\ oldsecret \in [Peer -> Secret]
  /\ announced \in [Peer -> SUBSET Port]

IInv ==
  /\ Scalars
  /\ SearchOK(sr, live, announced)
  /\ \A m \in net : PacketOK(m, sr, live, announced)

(***************************************************************************)
(* Recursion over the numbers                                              *)
(***************************************************************************)
\* A set of numbers that is not empty has a least element.
LEMMA LeastNumber ==
  ASSUME NEW S \in SUBSET Nat, S # {}
  PROVE  \E m \in S : \A k \in S : m <= k
<1> DEFINE R == OpToRel(<, Nat)
<1>1. \E m \in S : \A k \in S : ~(<<k, m>> \in R)
  <2>1. IsWellFoundedOn(R, Nat)
    BY NatLessThanWellFounded
  <2> HIDE DEF R
  <2> QED
    BY <2>1, WFMin
<1>2. \A m, k \in Nat : ~(<<k, m>> \in R) => m <= k
  BY DEF OpToRel
<1> HIDE DEF R
<1> QED
  BY <1>1, <1>2

\* A set that holds 0 and with a number the next one, up to N, holds all of them.
LEMMA SetInduction ==
  ASSUME NEW N \in Nat, NEW S, 0 \in S, \A n \in 0..N : n \in S /\ n < N => n + 1 \in S
  PROVE  0..N \subseteq S
<1> SUFFICES ASSUME ~(0..N \subseteq S) PROVE FALSE
  OBVIOUS
<1> DEFINE B == {n \in 0..N : n \notin S}
<1>1. B \in SUBSET Nat /\ B # {}
  OBVIOUS
<1>2. PICK m \in B : \A k \in B : m <= k
  <2> HIDE DEF B
  <2> QED
    BY <1>1, LeastNumber
<1>3. m \in 0..N /\ m \notin S /\ m # 0
  OBVIOUS
<1>4. m - 1 \in 0..N /\ m - 1 < N /\ (m - 1) + 1 = m /\ ~(m <= m - 1)
  BY <1>3
<1>5. m - 1 \in S
  BY <1>2, <1>4
<1> QED
  BY <1>3, <1>4, <1>5

\* f is defined by recursion: F[k] makes of its value at k - 1 the one at k.
Recurs(f, N, A, a, F) ==
  f \in [0..N -> A] /\ f[0] = a /\ \A k \in 1..N : f[k] = F[k][f[k - 1]]

\* Such a function exists.
LEMMA Recursion ==
  ASSUME NEW N \in Nat, NEW A, NEW a \in A, NEW F \in [1..N -> [A -> A]]
  PROVE  \E f : Recurs(f, N, A, a, F)
<1> DEFINE Upto(f, n) == f[0] = a /\ \A k \in 1..n : f[k] = F[k][f[k - 1]]
           S == {n \in 0..N : \E f \in [0..n -> A] : Upto(f, n)}
<1>1. 0 \in S
  <2> DEFINE f == [k \in 0..0 |-> a]
  <2>1. f \in [0..0 -> A] /\ f[0] = a /\ \A k \in 1..0 : FALSE
    OBVIOUS
  <2>2. Upto(f, 0)
    <3> HIDE DEF f
    <3> QED
      BY <2>1
  <2>3. 0 \in 0..N
    OBVIOUS
  <2> HIDE DEF f, Upto
  <2> QED
    BY <2>1, <2>2, <2>3
<1>2. ASSUME NEW n \in 0..N, n \in S, n < N PROVE n + 1 \in S
  <2>1. PICK f \in [0..n -> A] : Upto(f, n)
    BY <1>2
  <2>2. n \in 0..n /\ n + 1 \in 1..N /\ n + 1 \in 0..N
    BY <1>2
  <2>3. F[n + 1] \in [A -> A] /\ f[n] \in A
    BY <2>2
  <2> DEFINE x == F[n + 1][f[n]]
             g == [k \in 0..(n + 1) |-> IF k = n + 1 THEN x ELSE f[k]]
  <2>4. x \in A
    BY <2>3
  <2>5. \A k \in 0..(n + 1) : k # n + 1 => k \in 0..n
    OBVIOUS
  <2>6. g \in [0..(n + 1) -> A] /\ g[n + 1] = x /\ \A k \in 0..n : g[k] = f[k]
    <3> HIDE DEF x
    <3> QED
      BY <2>4, <2>5
  <2>7. g[0] = a
    BY <2>1, <2>6
  <2>8. ASSUME NEW k \in 1..(n + 1) PROVE g[k] = F[k][g[k - 1]]
    <3> HIDE DEF g
    <3>1. CASE k = n + 1
      BY <2>2, <2>6, <3>1
    <3>2. CASE k # n + 1
      <4>1. k \in 1..n /\ k \in 0..n /\ k - 1 \in 0..n
        BY <3>2
      <4> QED
        BY <2>1, <2>6, <4>1
    <3> QED
      BY <3>1, <3>2
  <2>9. Upto(g, n + 1)
    <3> HIDE DEF g
    <3> QED
      BY <2>7, <2>8
  <2> HIDE DEF g, Upto
  <2> QED
    BY <2>2, <2>6, <2>9
<1>3. N \in S
  <2> HIDE DEF S
  <2>1. 0..N \subseteq S
    BY <1>1, <1>2, SetInduction
  <2> QED
    BY <2>1
<1> QED
  BY <1>3 DEF Recurs

(***************************************************************************)
(* Lists of nodes                                                          *)
(***************************************************************************)
\* u is what Without has at each position.
Sieve(u, S, ns, gone) ==
  /\ u \in [0..Len(ns) -> Seq(S)]
  /\ Without(ns, gone) = u[Len(ns)]
  /\ u[0] = <<>>
  /\ \A k \in 1..Len(ns) : u[k] = IF k \in gone THEN u[k - 1] ELSE Append(u[k - 1], ns[k])

\* The recursion of Without computes something.
LEMMA WithoutUnfold ==
  ASSUME NEW S, NEW ns \in Seq(S), NEW gone
  PROVE  \E u : Sieve(u, S, ns, gone)
<1> DEFINE N == Len(ns)
           F == [k \in 1..N |-> [v \in Seq(S) |-> IF k \in gone THEN v ELSE Append(v, ns[k])]]
           G(u) == [k \in 0..N |-> IF k = 0 THEN <<>>
                                   ELSE IF k \in gone THEN u[k - 1] ELSE Append(u[k - 1], ns[k])]
           upto == CHOOSE u : u = G(u)
<1>1. N \in Nat /\ <<>> \in Seq(S) /\ \A k \in 1..N : ns[k] \in S
  OBVIOUS
<1>2. F \in [1..N -> [Seq(S) -> Seq(S)]]
  BY <1>1
<1>3. PICK f \in [0..N -> Seq(S)] : f[0] = <<>> /\ \A k \in 1..N : f[k] = F[k][f[k - 1]]
  <2> DEFINE A == Seq(S)
             e == <<>>
  <2>1. N \in Nat /\ e \in A /\ F \in [1..N -> [A -> A]]
    BY <1>1, <1>2
  <2>2. \E f : Recurs(f, N, A, e, F)
    <3> HIDE DEF F, N, A, e, G, upto
    <3> QED
      BY <2>1, Recursion
  <2> QED
    BY <2>2 DEF Recurs
<1>4. \A k \in 1..N : k - 1 \in 0..N /\ f[k - 1] \in Seq(S)
  <2>1. \A k \in 1..N : k - 1 \in 0..N
    <3> HIDE DEF F, N, G, upto
    <3> QED
      BY <1>1
  <2> HIDE DEF F, N, G, upto
  <2> QED
    BY <2>1
<1>5. \A k \in 1..N : f[k] = IF k \in gone THEN f[k - 1] ELSE Append(f[k - 1], ns[k])
  BY <1>3, <1>4
<1>6. f = G(f)
  <2>1. \A k \in 0..N : f[k] = G(f)[k]
    <3> SUFFICES ASSUME NEW k \in 0..N PROVE f[k] = G(f)[k]
      OBVIOUS
    <3>1. CASE k = 0
      BY <1>3, <3>1
    <3>2. CASE k # 0
      <4>1. k \in 1..N
        BY <3>2, <1>1
      <4> QED
        BY <1>5, <3>2, <4>1
    <3> QED
      BY <3>1, <3>2
  <2> QED
    BY <2>1
<1>7. upto = G(upto)
  <2> HIDE DEF G
  <2> QED
    BY <1>6
<1>8. Without(ns, gone) = upto[N]
  BY DEF Without
<1>9. /\ upto[0] = <<>>
      /\ \A k \in 1..N : upto[k] = IF k \in gone THEN upto[k - 1] ELSE Append(upto[k - 1], ns[k])
      /\ DOMAIN upto = 0..N /\ upto = [k \in 0..N |-> upto[k]]
  <2> HIDE DEF upto
  <2> DEFINE g == G(upto)
  <2>1. /\ DOMAIN g = 0..N /\ g = [k \in 0..N |-> g[k]]
        /\ \A k \in 0..N : g[k] = IF k = 0 THEN <<>> ELSE IF k \in gone THEN upto[k - 1]
                                  ELSE Append(upto[k - 1], ns[k])
    OBVIOUS
  <2>2. upto = g
    BY <1>7
  <2>3. 0 \in 0..N /\ \A k \in 1..N : k \in 0..N /\ k # 0
    BY <1>1
  <2> HIDE DEF g
  <2> QED
    BY <2>1, <2>2, <2>3
<1>10. upto \in [0..N -> Seq(S)]
  <2> HIDE DEF upto
  <2> DEFINE T == {k \in 0..N : upto[k] \in Seq(S)}
  <2>1. 0 \in T
    <3>1. upto[0] = <<>> /\ 0 \in 0..N /\ <<>> \in Seq(S)
      BY <1>1, <1>9
    <3>2. upto[0] \in Seq(S)
      BY <3>1, Zenon
    <3> QED
      BY <3>1, <3>2
  <2>2. ASSUME NEW k \in 0..N, k \in T, k < N PROVE k + 1 \in T
    <3>1. k + 1 \in 1..N /\ k + 1 \in 0..N /\ (k + 1) - 1 = k /\ upto[k] \in Seq(S) /\ ns[k + 1] \in S
      BY <2>2, <1>1
    <3>2. Append(upto[k], ns[k + 1]) \in Seq(S)
      BY <3>1
    <3>3. upto[k + 1] = IF k + 1 \in gone THEN upto[k] ELSE Append(upto[k], ns[k + 1])
      BY <3>1, <1>9
    <3> QED
      BY <3>1, <3>2, <3>3
  <2>3. 0..N \subseteq T
    <3> HIDE DEF T
    <3> QED
      BY <1>1, <2>1, <2>2, SetInduction
  <2> HIDE DEF N
  <2> QED
    BY <2>3, <1>9
<1> HIDE DEF upto, F, G
<1> QED
  BY <1>8, <1>9, <1>10 DEF Sieve

\* The parts of a list's definition.
LEMMA ListsFacts ==
  ASSUME NEW S \in SUBSET NodeType, NEW ns \in Lists(S)
  PROVE  /\ ns \in Seq(S) /\ Len(ns) \in Nat /\ Len(ns) <= SEARCH_NODES /\ DOMAIN ns = 1..Len(ns)
         /\ \A i \in 1..Len(ns) : ns[i] \in S /\ ns[i] \in NodeType /\ ns[i].id \in Peer /\ ns[i].id \in Nat
         /\ \A i, j \in 1..Len(ns) : i < j => ns[i].id < ns[j].id
<1>1. ns \in Seq(S) /\ Len(ns) \in Nat /\ Len(ns) <= SEARCH_NODES /\ DOMAIN ns = 1..Len(ns)
  BY DEF Lists
<1>2. \A i \in 1..Len(ns) : ns[i] \in S
  BY <1>1
<1>3. \A n \in NodeType : n.id \in Peer /\ n.id \in Nat
  BY SearchAssumption DEF NodeType
<1> QED
  BY <1>1, <1>2, <1>3 DEF Lists

\* The order of a longer list when a node that is further away is appended.
LEMMA AppendOrdered ==
  ASSUME NEW S \in SUBSET NodeType, NEW u \in Seq(S), NEW n \in S,
         \A i, j \in 1..Len(u) : i < j => u[i].id < u[j].id,
         \A i \in 1..Len(u) : u[i].id < n.id
  PROVE  LET v == Append(u, n)
         IN  /\ v \in Seq(S) /\ Len(v) = Len(u) + 1
             /\ \A i, j \in 1..Len(v) : i < j => v[i].id < v[j].id
             /\ \A i \in 1..Len(v) : v[i] = n \/ \E j \in 1..Len(u) : v[i] = u[j]
<1> DEFINE v == Append(u, n)
<1>1. /\ v \in Seq(S) /\ Len(v) = Len(u) + 1 /\ Len(u) \in Nat
      /\ v[Len(u) + 1] = n /\ \A i \in 1..Len(u) : v[i] = u[i]
  OBVIOUS
<1> HIDE DEF v
<1>2. \A i \in 1..Len(v) : i \in 1..Len(u) \/ i = Len(u) + 1
  BY <1>1
<1>3. ASSUME NEW i \in 1..Len(v), NEW j \in 1..Len(v), i < j PROVE v[i].id < v[j].id
  <2>1. i \in 1..Len(u)
    BY <1>1, <1>3
  <2> QED
    BY <2>1, <1>1, <1>2, <1>3
<1> QED
  BY <1>1, <1>2, <1>3 DEF v

\* flush_search_node and the sieve of dht_search leave a list a list.
LEMMA WithoutLists ==
  ASSUME NEW S \in SUBSET NodeType, NEW ns \in Lists(S), NEW gone
  PROVE  Without(ns, gone) \in Lists(S)
<1> DEFINE N == Len(ns)
<1>1. /\ ns \in Seq(S) /\ N \in Nat /\ N <= SEARCH_NODES
      /\ \A i \in 1..N : ns[i] \in S /\ ns[i].id \in Nat
      /\ \A i, j \in 1..N : i < j => ns[i].id < ns[j].id
  BY ListsFacts
<1>2. PICK u :
           /\ u \in [0..N -> Seq(S)]
           /\ Without(ns, gone) = u[N]
           /\ u[0] = <<>>
           /\ \A k \in 1..N : u[k] = IF k \in gone THEN u[k - 1] ELSE Append(u[k - 1], ns[k])
  <2>1. ns \in Seq(S)
    BY <1>1
  <2> QED
    BY <2>1, WithoutUnfold DEF Sieve
<1> HIDE DEF N
<1> DEFINE Good(w, k) == /\ w \in Seq(S) /\ Len(w) <= k
                         /\ \A i, j \in 1..Len(w) : i < j => w[i].id < w[j].id
                         /\ \A i \in 1..Len(w) : \E j \in 1..k : w[i] = ns[j]
           T == {k \in 0..N : Good(u[k], k)}
<1>3. 0 \in T
  <2>1. 0 \in 0..N /\ u[0] \in Seq(S) /\ Len(u[0]) = 0
    BY <1>1, <1>2
  <2>2. \A i \in 1..Len(u[0]) : FALSE
    BY <2>1
  <2> QED
    BY <2>1, <2>2
<1>4. ASSUME NEW k \in 0..N, k \in T, k < N PROVE k + 1 \in T
  <2>1. k + 1 \in 1..N /\ k + 1 \in 0..N /\ (k + 1) - 1 = k /\ k \in Nat
    BY <1>1, <1>4
  <2>2. Good(u[k], k)
    BY <1>4
  <2> DEFINE w == u[k]
             n == ns[k + 1]
  <2>3. u[k + 1] = IF k + 1 \in gone THEN w ELSE Append(w, n)
    BY <1>2, <2>1
  <2>4. CASE k + 1 \in gone
    <3>1. \A j \in 1..k : j \in 1..(k + 1)
      BY <2>1
    <3>2. Len(w) \in Nat /\ Len(w) <= k + 1
      BY <2>1, <2>2
    <3> HIDE DEF w
    <3>3. Good(w, k + 1)
      BY <2>2, <3>1, <3>2 DEF w
    <3> QED
      BY <2>1, <2>3, <2>4, <3>3
  <2>5. CASE k + 1 \notin gone
    <3>1. n \in S /\ w \in Seq(S) /\ Len(w) \in Nat /\ Len(w) <= k
      BY <1>1, <2>1, <2>2
    <3>2. ASSUME NEW i \in 1..Len(w) PROVE w[i].id < n.id
      <4>1. PICK j \in 1..k : w[i] = ns[j]
        BY <2>2
      <4>2. j \in 1..N /\ j < k + 1
        BY <2>1, <1>1
      <4> QED
        BY <4>1, <4>2, <1>1, <2>1
    <3>3. \A i, j \in 1..Len(w) : i < j => w[i].id < w[j].id
      BY <2>2
    <3> DEFINE v == Append(w, n)
    <3> HIDE DEF w, n
    <3>4. /\ v \in Seq(S) /\ Len(v) = Len(w) + 1
          /\ \A i, j \in 1..Len(v) : i < j => v[i].id < v[j].id
          /\ \A i \in 1..Len(v) : v[i] = n \/ \E j \in 1..Len(w) : v[i] = w[j]
      BY <3>1, <3>2, <3>3, AppendOrdered
    <3> HIDE DEF v
    <3>5. ASSUME NEW i \in 1..Len(v) PROVE \E j \in 1..(k + 1) : v[i] = ns[j]
      <4>1. CASE v[i] = n
        <5>1. k + 1 \in 1..(k + 1)
          BY <2>1
        <5> QED
          BY <5>1, <4>1 DEF n
      <4>2. CASE \E j \in 1..Len(w) : v[i] = w[j]
        <5>1. PICK j \in 1..Len(w) : v[i] = w[j]
          BY <4>2
        <5>2. PICK l \in 1..k : w[j] = ns[l]
          BY <2>2 DEF w
        <5>3. l \in 1..(k + 1)
          BY <2>1
        <5> QED
          BY <5>1, <5>2, <5>3
      <4> QED
        BY <3>4, <4>1, <4>2
    <3>6. Len(v) <= k + 1
      BY <3>1, <3>4, <2>1
    <3>7. Good(v, k + 1)
      BY <3>4, <3>5, <3>6
    <3>8. u[k + 1] = v
      BY <2>3, <2>5 DEF v
    <3> HIDE DEF Good
    <3> QED
      BY <2>1, <3>7, <3>8
  <2> QED
    BY <2>4, <2>5
<1>5. N \in T
  <2> HIDE DEF T
  <2>1. 0..N \subseteq T
    BY <1>1, <1>3, <1>4, SetInduction
  <2> QED
    BY <1>1, <2>1
<1>6. Good(u[N], N)
  BY <1>5
<1> DEFINE w == u[N]
<1>7. /\ w \in Seq(S) /\ Len(w) \in Nat /\ Len(w) <= N /\ DOMAIN w = 1..Len(w)
      /\ \A i, j \in 1..Len(w) : i < j => w[i].id < w[j].id
  BY <1>6
<1>8. Len(w) <= SEARCH_NODES
  <2>1. \A a, b, c \in Nat : a <= b /\ b <= c => a <= c
    OBVIOUS
  <2> QED
    BY <1>1, <1>7, <2>1, SearchAssumption
<1> QED
  BY <1>2, <1>7, <1>8 DEF Lists

\* The elements of two sequences joined.
LEMMA Joined ==
  ASSUME NEW S, NEW p \in Seq(S), NEW q \in Seq(S)
  PROVE  /\ p \o q \in Seq(S) /\ Len(p \o q) = Len(p) + Len(q)
         /\ \A j \in 1..(Len(p) + Len(q)) :
              (p \o q)[j] = IF j <= Len(p) THEN p[j] ELSE q[j - Len(p)]
OBVIOUS

\* A sequence with n put in at position i.
Put(s, i, n) == SubSeq(s, 1, i - 1) \o <<n>> \o SubSeq(s, i, Len(s))

\* Its elements.
LEMMA PutIn ==
  ASSUME NEW S, NEW s \in Seq(S), NEW n \in S, NEW i \in 1..(Len(s) + 1)
  PROVE  /\ Put(s, i, n) \in Seq(S) /\ Len(Put(s, i, n)) = Len(s) + 1
         /\ \A j \in 1..Len(Put(s, i, n)) :
              Put(s, i, n)[j] = IF j < i THEN s[j] ELSE IF j = i THEN n ELSE s[j - 1]
<1> DEFINE a == SubSeq(s, 1, i - 1)
           b == SubSeq(s, i, Len(s))
           t == (a \o <<n>>) \o b
<1>1. /\ Len(s) \in Nat /\ i \in Nat /\ i - 1 \in 0..Len(s)
      /\ \A j \in 1..Len(s) : s[j] \in S
  OBVIOUS
<1>2. a \in Seq(S) /\ Len(a) = i - 1 /\ \A j \in 1..(i - 1) : a[j] = s[j]
  BY <1>1
<1>3. b \in Seq(S) /\ Len(b) = Len(s) - i + 1 /\ \A j \in 1..(Len(s) - i + 1) : b[j] = s[i + j - 1]
  BY <1>1
<1> DEFINE c == a \o <<n>>
<1> HIDE DEF a, b
<1>4. <<n>> \in Seq(S) /\ Len(<<n>>) = 1 /\ <<n>>[1] = n
  OBVIOUS
<1>5. c \in Seq(S) /\ Len(c) = i /\ c[i] = n /\ \A j \in 1..(i - 1) : c[j] = a[j]
  BY <1>1, <1>2, <1>4
<1> HIDE DEF c
<1>6. /\ t \in Seq(S) /\ Len(t) = i + Len(b)
      /\ \A j \in 1..Len(t) : t[j] = IF j <= i THEN c[j] ELSE b[j - i]
  <2>1. t = c \o b
    BY DEF c
  <2>2. /\ c \o b \in Seq(S) /\ Len(c \o b) = Len(c) + Len(b)
        /\ \A j \in 1..(Len(c) + Len(b)) :
             (c \o b)[j] = IF j <= Len(c) THEN c[j] ELSE b[j - Len(c)]
    BY <1>3, <1>5, Joined
  <2>3. Len(c) = i
    BY <1>5
  <2> HIDE DEF t
  <2> QED
    BY <2>1, <2>2, <2>3, Zenon
<1>7. Len(t) = Len(s) + 1
  BY <1>1, <1>3, <1>6
<1> HIDE DEF t
<1>8. ASSUME NEW j \in 1..Len(t)
      PROVE  t[j] = IF j < i THEN s[j] ELSE IF j = i THEN n ELSE s[j - 1]
  <2>1. CASE j < i
    BY <1>1, <1>2, <1>5, <1>6, <2>1
  <2>2. CASE j = i
    BY <1>1, <1>5, <1>6, <2>2
  <2>3. CASE j > i
    <3>1. j - i \in 1..(Len(s) - i + 1) /\ i + (j - i) - 1 = j - 1 /\ ~(j <= i)
      BY <1>1, <1>7, <2>3
    <3>2. t[j] = b[j - i] /\ b[j - i] = s[i + (j - i) - 1]
      BY <1>3, <1>6, <3>1
    <3>3. ~(j < i) /\ j # i
      BY <1>1, <2>3
    <3> QED
      BY <3>1, <3>2, <3>3
  <2> QED
    BY <1>1, <2>1, <2>2, <2>3
<1> QED
  BY <1>6, <1>7, <1>8 DEF Put, t, a, b

\* Where a node belongs: behind those that are closer, in front of the others.
LEMMA PlaceFacts ==
  ASSUME NEW S \in SUBSET NodeType, NEW ns \in Lists(S), NEW id \in Peer
  PROVE  /\ Place(ns, id) \in 1..(Len(ns) + 1)
         /\ \A j \in 1..Len(ns) : IF j < Place(ns, id) THEN ns[j].id < id ELSE id <= ns[j].id
<1> DEFINE N == Len(ns)
           I == {i \in 1..N : id <= ns[i].id}
<1>1. /\ ns \in Seq(S) /\ N \in Nat
      /\ \A i \in 1..N : ns[i] \in S /\ ns[i].id \in Nat
      /\ \A i, j \in 1..N : i < j => ns[i].id < ns[j].id
  BY ListsFacts
<1>2. id \in Nat
  BY SearchAssumption
<1>3. Place(ns, id) = LET p == IF I # {} THEN Min(I) ELSE 0 IN IF p = 0 THEN N + 1 ELSE p
  BY DEF Place, SelectInSeq
<1> HIDE DEF N
<1>4. CASE I = {}
  <2>1. Place(ns, id) = N + 1
    BY <1>3, <1>4
  <2>2. \A j \in 1..N : ns[j].id < id
    BY <1>1, <1>2, <1>4
  <2>3. N + 1 \in 1..(N + 1) /\ \A j \in 1..N : j < N + 1
    BY <1>1
  <2> QED
    BY <2>1, <2>2, <2>3 DEF N
<1>5. CASE I # {}
  <2>1. I \in SUBSET Nat /\ I \subseteq 1..N
    BY <1>1
  <2>2. \E m \in I : \A k \in I : m <= k
    <3> HIDE DEF I
    <3> QED
      BY <1>5, <2>1, LeastNumber
  <2>3. Min(I) \in I /\ \A k \in I : Min(I) <= k
    <3> HIDE DEF I
    <3> QED
      BY <2>2 DEF Min
  <2> DEFINE p == Min(I)
  <2>4. p \in 1..N /\ p # 0 /\ id <= ns[p].id /\ \A k \in I : p <= k
    BY <2>1, <2>3
  <2>5. Place(ns, id) = p
    <3> HIDE DEF I, p
    <3>1. p = Min(I)
      BY DEF p
    <3> QED
      BY <1>3, <1>5, <2>4, <3>1
  <2> HIDE DEF p
  <2>6. p \in 1..(N + 1)
    BY <1>1, <2>4
  <2>7. ASSUME NEW j \in 1..N, j < p PROVE ns[j].id < id
    <3>1. j \notin I
      BY <2>4, <2>7, <1>1
    <3> QED
      BY <3>1, <1>1, <1>2
  <2>8. ASSUME NEW j \in 1..N, ~(j < p) PROVE id <= ns[j].id
    <3>1. CASE j = p
      BY <2>4, <3>1
    <3>2. CASE j # p
      <4>1. p < j
        BY <2>4, <2>8, <3>2
      <4>2. ns[p].id < ns[j].id /\ ns[p].id \in Nat /\ ns[j].id \in Nat
        BY <1>1, <2>4, <4>1
      <4> QED
        BY <1>2, <2>4, <4>2
    <3> QED
      BY <3>1, <3>2
  <2> HIDE DEF I
  <2> QED
    BY <2>5, <2>6, <2>7, <2>8 DEF N
<1> QED
  BY <1>4, <1>5

\* insert_search_node leaves a list a list.
LEMMA InsertLists ==
  ASSUME NEW S \in SUBSET NodeType, NEW ns \in Lists(S), NEW id \in Peer, NewNode(id) \in S
  PROVE  insert_search_node(ns, id) \in Lists(S)
<1>1. CASE Has(ns, id)
  BY <1>1 DEF insert_search_node
<1>2. CASE ~Has(ns, id)
  <2> DEFINE N == Len(ns)
             p == Place(ns, id)
             n == NewNode(id)
             all == Put(ns, p, n)
             L == Least(Len(all), SEARCH_NODES)
             t == SubSeq(all, 1, L)
  <2>1. /\ ns \in Seq(S) /\ N \in Nat /\ N <= SEARCH_NODES /\ DOMAIN ns = 1..N
        /\ \A i \in 1..N : ns[i] \in S /\ ns[i].id \in Nat
        /\ \A i, j \in 1..N : i < j => ns[i].id < ns[j].id
    BY ListsFacts
  <2>2. id \in Nat /\ n.id = id /\ SEARCH_NODES \in Nat
    BY SearchAssumption DEF NewNode
  <2>3. /\ p \in 1..(N + 1)
        /\ \A j \in 1..N : IF j < p THEN ns[j].id < id ELSE id <= ns[j].id
    BY PlaceFacts
  <2>4. \A j \in 1..N : ns[j].id # id
    BY <1>2, <2>1 DEF Has
  <2>5. /\ all \in Seq(S) /\ Len(all) = N + 1
        /\ \A j \in 1..Len(all) : all[j] = IF j < p THEN ns[j] ELSE IF j = p THEN n ELSE ns[j - 1]
    <3>1. n \in S
      OBVIOUS
    <3> HIDE DEF n, p
    <3> QED
      BY <2>1, <2>3, <3>1, PutIn
  <2>6. insert_search_node(ns, id) = t
    BY <1>2 DEF insert_search_node, Put
  <2> HIDE DEF N, p, n, all
  <2>7. ASSUME NEW i \in 1..Len(all), NEW j \in 1..Len(all), i < j PROVE all[i].id < all[j].id
    <3>1. i \in 1..(N + 1) /\ j \in 1..(N + 1) /\ p \in Nat
      BY <2>1, <2>3, <2>5
    <3>2. CASE j < p
      <4>1. i < p /\ i \in 1..N /\ j \in 1..N
        BY <2>1, <2>3, <2>7, <3>1, <3>2
      <4> QED
        BY <2>1, <2>5, <2>7, <3>2, <4>1
    <3>3. CASE j = p
      <4>1. i < p /\ i \in 1..N /\ ~(j < p)
        BY <2>1, <2>3, <2>7, <3>1, <3>3
      <4>2. all[i] = ns[i] /\ ns[i].id < id
        BY <2>3, <2>5, <4>1
      <4>3. all[j] = n
        BY <2>5, <3>3, <4>1
      <4> QED
        BY <2>2, <4>2, <4>3
    <3>4. CASE j > p
      <4>1. j - 1 \in 1..N /\ ~(j < p) /\ j # p /\ ~(j - 1 < p)
        BY <2>1, <2>3, <3>1, <3>4
      <4>2. all[j] = ns[j - 1] /\ id < ns[j - 1].id
        <5>1. id <= ns[j - 1].id /\ ns[j - 1].id # id /\ ns[j - 1].id \in Nat
          BY <2>1, <2>3, <2>4, <4>1
        <5> QED
          BY <2>2, <2>5, <4>1, <5>1
      <4>3. CASE i < p
        <5>1. i \in 1..N /\ i < j - 1
          BY <2>1, <2>3, <3>1, <3>4, <4>3
        <5> QED
          BY <2>1, <2>5, <4>2, <4>1, <4>3, <5>1
      <4>4. CASE i = p
        BY <2>2, <2>5, <3>1, <4>2, <4>4
      <4>5. CASE i > p
        <5>1. i - 1 \in 1..N /\ i - 1 < j - 1 /\ ~(i < p) /\ i # p
          BY <2>1, <2>3, <2>7, <3>1, <4>5
        <5> QED
          BY <2>1, <2>5, <4>2, <4>1, <5>1
      <4> QED
        BY <3>1, <4>3, <4>4, <4>5
    <3> QED
      BY <3>1, <3>2, <3>3, <3>4
  <2>8. L \in 0..Len(all) /\ L <= SEARCH_NODES
    BY <2>1, <2>2, <2>5 DEF Least
  <2> HIDE DEF L
  <2>9. /\ t \in Seq(S) /\ Len(t) = L /\ DOMAIN t = 1..L
        /\ \A i \in 1..L : t[i] = all[i] /\ i \in 1..Len(all)
    BY <2>5, <2>8
  <2> HIDE DEF t
  <2>10. \A i, j \in DOMAIN t : i < j => t[i].id < t[j].id
    BY <2>7, <2>9
  <2> QED
    BY <2>6, <2>8, <2>9, <2>10 DEF Lists
<1> QED
  BY <1>1, <1>2

\* The nodes of the bucket in some order.
LEMMA KnownIsASequence ==
  SetToSeq(Known) \in Seq(Known)
<1> DEFINE C == Cardinality(Known)
<1>1. IsFiniteSet(Known)
  BY FS_Subset, SearchAssumption
<1>2. C \in Nat /\ ExistsBijection(1..C, Known)
  BY <1>1, FS_CardinalityType
<1> HIDE DEF C
<1>3. \E f \in [1..C -> Known] : IsInjective(f)
  BY <1>2 DEF ExistsBijection, Bijection, Injection, Surjection, IsInjective
<1>4. SetToSeq(Known) = CHOOSE f \in [1..C -> Known] : IsInjective(f)
  BY DEF SetToSeq, C
<1>5. SetToSeq(Known) \in [1..C -> Known]
  BY <1>3, <1>4
<1> QED
  BY <1>2, <1>5

\* insert_search_bucket leaves a list a list: a node at a time.
LEMMA BucketLists ==
  ASSUME NEW S \in SUBSET NodeType, NEW ns \in Lists(S), \A id \in Peer : NewNode(id) \in S
  PROVE  insert_search_bucket(ns) \in Lists(S)
<1> DEFINE ids == SetToSeq(Known)
           N == Len(ids)
           A == Lists(S)
           F == [k \in 1..N |-> [v \in A |-> insert_search_node(v, ids[k])]]
           G(u) == [k \in 0..N |-> IF k = 0 THEN ns ELSE insert_search_node(u[k - 1], ids[k])]
           upto == CHOOSE u : u = G(u)
<1>1. N \in Nat /\ \A k \in 1..N : ids[k] \in Peer
  <2>1. ids \in Seq(Known)
    BY KnownIsASequence
  <2> HIDE DEF ids
  <2>2. Len(ids) \in Nat /\ \A k \in 1..Len(ids) : ids[k] \in Known
    BY <2>1
  <2>3. Known \subseteq Peer
    BY SearchAssumption
  <2> QED
    BY <2>2, <2>3
<1>2. insert_search_bucket(ns) = upto[N]
  BY DEF insert_search_bucket
<1> HIDE DEF ids, N
<1>3. \A k \in 1..N : \A v \in A : insert_search_node(v, ids[k]) \in A
  <2> SUFFICES ASSUME NEW k \in 1..N, NEW v \in A PROVE insert_search_node(v, ids[k]) \in A
    OBVIOUS
  <2> DEFINE id == ids[k]
  <2>1. id \in Peer /\ v \in Lists(S)
    BY <1>1
  <2> HIDE DEF id
  <2>2. NewNode(id) \in S
    BY <2>1
  <2>3. insert_search_node(v, id) \in Lists(S)
    BY <2>1, <2>2, InsertLists
  <2> QED
    BY <2>3 DEF id
<1>4. F \in [1..N -> [A -> A]]
  <2> HIDE DEF A
  <2> QED
    BY <1>3
<1>5. PICK f : Recurs(f, N, A, ns, F)
  <2>1. ns \in A
    OBVIOUS
  <2> HIDE DEF A, F, G, upto
  <2> QED
    BY <1>1, <1>4, <2>1, Recursion
<1> HIDE DEF A
<1>6. f = G(f)
  <2>1. f \in [0..N -> A] /\ f[0] = ns /\ \A k \in 1..N : f[k] = F[k][f[k - 1]]
    BY <1>5 DEF Recurs
  <2>2. \A k \in 1..N : k - 1 \in 0..N /\ f[k - 1] \in A
    BY <1>1, <2>1
  <2>3. \A k \in 1..N : f[k] = insert_search_node(f[k - 1], ids[k])
    BY <2>1, <2>2
  <2>4. ASSUME NEW k \in 0..N PROVE f[k] = G(f)[k]
    <3>1. CASE k = 0
      BY <2>1, <3>1
    <3>2. CASE k # 0
      <4>1. k \in 1..N
        BY <3>2, <1>1
      <4> QED
        BY <2>3, <3>2, <4>1
    <3> QED
      BY <3>1, <3>2
  <2> QED
    BY <2>1, <2>4
<1>7. upto = G(upto)
  <2> HIDE DEF G
  <2> QED
    BY <1>6
<1> HIDE DEF upto
<1>8. upto[0] = ns /\ \A k \in 1..N : upto[k] = insert_search_node(upto[k - 1], ids[k])
  <2> DEFINE g == G(upto)
  <2>1. \A k \in 0..N : g[k] = IF k = 0 THEN ns ELSE insert_search_node(upto[k - 1], ids[k])
    OBVIOUS
  <2>2. upto = g
    BY <1>7
  <2>3. 0 \in 0..N /\ \A k \in 1..N : k \in 0..N /\ k # 0
    BY <1>1
  <2> HIDE DEF g
  <2> QED
    BY <2>1, <2>2, <2>3
<1> DEFINE T == {k \in 0..N : upto[k] \in A}
<1>9. 0 \in T
  BY <1>1, <1>8 DEF A
<1>10. ASSUME NEW k \in 0..N, k \in T, k < N PROVE k + 1 \in T
  <2>1. k + 1 \in 1..N /\ k + 1 \in 0..N /\ (k + 1) - 1 = k /\ upto[k] \in A
    BY <1>1, <1>10
  <2>2. upto[k + 1] = insert_search_node(upto[k], ids[k + 1])
    BY <1>8, <2>1
  <2> QED
    BY <1>3, <2>1, <2>2
<1>11. N \in T
  <2> HIDE DEF T
  <2>1. 0..N \subseteq T
    BY <1>1, <1>9, <1>10, SetInduction
  <2> QED
    BY <1>1, <2>1
<1> QED
  BY <1>2, <1>11 DEF A

\* A list whose nodes are changed, but not who they are, is a list.
LEMMA ChangedLists ==
  ASSUME NEW S \in SUBSET NodeType, NEW ns \in Lists(S), NEW T \in SUBSET NodeType, NEW ms,
         ms = [i \in DOMAIN ns |-> ms[i]],
         \A i \in DOMAIN ns : ms[i] \in T /\ ms[i].id = ns[i].id
  PROVE  ms \in Lists(T) /\ DOMAIN ms = DOMAIN ns /\ Len(ms) = Len(ns)
<1>1. /\ Len(ns) \in Nat /\ Len(ns) <= SEARCH_NODES /\ DOMAIN ns = 1..Len(ns)
      /\ \A i, j \in 1..Len(ns) : i < j => ns[i].id < ns[j].id
  BY ListsFacts
<1>2. DOMAIN ms = 1..Len(ns) /\ ms \in [1..Len(ns) -> T]
  BY <1>1
<1>3. ms \in Seq(T) /\ Len(ms) = Len(ns)
  BY <1>1, <1>2
<1>4. \A i, j \in DOMAIN ms : i < j => ms[i].id < ms[j].id
  BY <1>1, <1>2
<1> QED
  BY <1>1, <1>2, <1>3, <1>4 DEF Lists

(***************************************************************************)
(* What may happen to a node                                               *)
(***************************************************************************)
\* The ages a time stamp may have.
LEMMA Ages ==
  /\ Old \in Nat /\ 0 \in Age /\ Old \in Age /\ Age \subseteq Nat
  /\ \A a \in Age : Least(a + 1, Old) \in Age
<1>1. Answered \in Nat
  BY SearchAssumption
<1> QED
  BY <1>1 DEF Old, Age, Least

\* The type of a node, field by field.
LEMMA NodeFields ==
  ASSUME NEW n \in NodeType
  PROVE  /\ n.id \in Peer /\ n.request_time \in Age /\ n.reply_time \in Age /\ n.pinged \in 0..3
         /\ n.token \in Secret \cup {NoToken} /\ n.replied \in BOOLEAN /\ n.acked \in BOOLEAN
BY DEF NodeType

\* A candidate.
LEMMA NewNodeOK ==
  ASSUME NEW ports, NEW ann, NEW id \in Peer
  PROVE  NewNode(id) \in Nodes(ports, ann)
<1>1. NewNode(id) \in NodeType
  BY Ages DEF NewNode, NodeType
<1> QED
  BY <1>1 DEF Nodes, NewNode

\* A request to a node that has not been asked three times.
LEMMA AskedOK ==
  ASSUME NEW ports, NEW ann, NEW n \in Nodes(ports, ann), n.pinged < 3
  PROVE  Asked(n) \in Nodes(ports, ann) /\ Asked(n).id = n.id
<1> DEFINE m == Asked(n)
<1>1. n \in NodeType /\ n.pinged + 1 \in 0..3
  BY NodeFields DEF Nodes
<1>2. /\ m \in NodeType /\ m.id = n.id /\ m.token = n.token /\ m.replied = n.replied
      /\ m.acked = n.acked
  BY <1>1, Ages DEF Asked, NodeType
<1> HIDE DEF m
<1> QED
  BY <1>2 DEF Nodes, m

\* A reply, with a token if the sender gives one.
LEMMA RepliedOK ==
  ASSUME NEW ports, NEW ann, NEW n \in Nodes(ports, ann), NEW token \in Secret \cup {NoToken},
         token = NoToken <=> n.id \in Tokenless
  PROVE  Replied(n, token) \in Nodes(ports, ann) /\ Replied(n, token).id = n.id
<1> DEFINE m == Replied(n, token)
<1>1. n \in NodeType
  BY DEF Nodes
<1> DEFINE k1 == [n EXCEPT !.replied = TRUE]
           k2 == [k1 EXCEPT !.reply_time = 0]
           k3 == [k2 EXCEPT !.request_time = Old]
           k4 == [k3 EXCEPT !.pinged = 0]
           k5 == [k4 EXCEPT !.token = token]
<1>2. m = k5
  BY <1>1 DEF Replied, NodeType
<1>3. k1 \in NodeType
  BY <1>1, Ages DEF NodeType
<1> HIDE DEF k1
<1>4. k2 \in NodeType
  BY <1>3, Ages DEF NodeType
<1> HIDE DEF k2
<1>5. k3 \in NodeType
  BY <1>4, Ages DEF NodeType
<1> HIDE DEF k3
<1>6. k4 \in NodeType
  BY <1>5, Ages DEF NodeType
<1> HIDE DEF k4
<1>7. k5 \in NodeType
  BY <1>6, Ages DEF NodeType
<1>8. m.id = n.id /\ m.token = token /\ m.replied = TRUE /\ m.acked = n.acked
  BY <1>1 DEF Replied, NodeType
<1> HIDE DEF m
<1> QED
  BY <1>2, <1>7, <1>8 DEF Nodes, m

\* The node counts as announced to.
Marked(n) == [n EXCEPT !.acked = TRUE]

\* That is right for one that gives no token, and one that has stored a port.
LEMMA MarkedOK ==
  ASSUME NEW ports, NEW ann, NEW n \in Nodes(ports, ann),
         n.id \in Tokenless \/ ann[n.id] \cap ports # {}
  PROVE  Marked(n) \in Nodes(ports, ann) /\ Marked(n).id = n.id
<1> DEFINE m == Marked(n)
<1>1. n \in NodeType
  BY DEF Nodes
<1>2. /\ m \in NodeType /\ m.id = n.id /\ m.token = n.token /\ m.replied = n.replied
  BY <1>1 DEF Marked, NodeType
<1> HIDE DEF m
<1> QED
  BY <1>2 DEF Nodes, m

\* The reply to an announcement, from a node that has stored a port.
LEMMA AckedOK ==
  ASSUME NEW ports, NEW ann, NEW n \in Nodes(ports, ann), ann[n.id] \cap ports # {}
  PROVE  Acked(n) \in Nodes(ports, ann) /\ Acked(n).id = n.id
<1> DEFINE m == Acked(n)
<1>1. n \in NodeType
  BY DEF Nodes
<1> DEFINE k1 == [n EXCEPT !.request_time = Old]
           k2 == [k1 EXCEPT !.reply_time = 0]
           k3 == [k2 EXCEPT !.acked = TRUE]
           k4 == [k3 EXCEPT !.pinged = 0]
<1>2. m = k4
  BY <1>1 DEF Acked, NodeType
<1>3. k1 \in NodeType
  BY <1>1, Ages DEF NodeType
<1> HIDE DEF k1
<1>4. k2 \in NodeType
  BY <1>3, Ages DEF NodeType
<1> HIDE DEF k2
<1>5. k3 \in NodeType
  BY <1>4, Ages DEF NodeType
<1> HIDE DEF k3
<1>6. k4 \in NodeType
  BY <1>5, Ages DEF NodeType
<1>7. m.id = n.id /\ m.token = n.token /\ m.replied = n.replied
  BY <1>1 DEF Acked, NodeType
<1> HIDE DEF m
<1> QED
  BY <1>2, <1>6, <1>7 DEF Nodes, m

\* The node is to be asked again.
Renewed(n) == [n EXCEPT !.pinged = 0, !.token = NoToken, !.replied = FALSE, !.acked = FALSE]

\* A search used again may announce other ports: no node counts as announced to.
LEMMA RenewedOK ==
  ASSUME NEW ports, NEW ann, NEW n \in NodeType
  PROVE  Renewed(n) \in Nodes(ports, ann) /\ Renewed(n).id = n.id
<1> DEFINE m == Renewed(n)
<1>1. n \in NodeType
  OBVIOUS
<1> DEFINE k1 == [n EXCEPT !.pinged = 0]
           k2 == [k1 EXCEPT !.token = NoToken]
           k3 == [k2 EXCEPT !.replied = FALSE]
           k4 == [k3 EXCEPT !.acked = FALSE]
<1>2. m = k4
  BY <1>1 DEF Renewed, NodeType
<1>3. k1 \in NodeType
  BY <1>1, Ages DEF NodeType
<1> HIDE DEF k1
<1>4. k2 \in NodeType
  BY <1>3, Ages DEF NodeType
<1> HIDE DEF k2
<1>5. k3 \in NodeType
  BY <1>4, Ages DEF NodeType
<1> HIDE DEF k3
<1>6. k4 \in NodeType
  BY <1>5, Ages DEF NodeType
<1>7. m.id = n.id /\ m.token = NoToken /\ m.replied = FALSE /\ m.acked = FALSE
  BY <1>1 DEF Renewed, NodeType
<1> HIDE DEF m
<1> QED
  BY <1>2, <1>6, <1>7 DEF Nodes, m

\* The clock changes neither who has replied nor who counts as announced to.
LEMMA AgedOK ==
  ASSUME NEW ports, NEW ann, NEW n \in Nodes(ports, ann)
  PROVE  Aged(n) \in Nodes(ports, ann) /\ Aged(n).id = n.id
<1> DEFINE m == Aged(n)
           a == Least(n.request_time + 1, Old)
           b == Least(n.reply_time + 1, Old)
<1>1. n \in NodeType /\ a \in Age /\ b \in Age
  BY Ages, NodeFields DEF Nodes
<1>2. m = [n EXCEPT !.request_time = a, !.reply_time = b]
  BY DEF Aged
<1> HIDE DEF a, b, m
<1>3. /\ m \in NodeType /\ m.id = n.id /\ m.token = n.token /\ m.replied = n.replied
      /\ m.acked = n.acked
  BY <1>1, <1>2 DEF NodeType
<1> QED
  BY <1>3 DEF Nodes, m

\* What is known of a node stays so when peers store more and the search gets more ports.
LEMMA NodesGrow ==
  ASSUME NEW ports, NEW ann, NEW more, NEW anm, ports \subseteq more,
         \A id \in Peer : ann[id] \subseteq anm[id]
  PROVE  Nodes(ports, ann) \subseteq Nodes(more, anm)
<1> SUFFICES ASSUME NEW n \in Nodes(ports, ann) PROVE n \in Nodes(more, anm)
  OBVIOUS
<1>1. n \in NodeType /\ n.id \in Peer
  BY NodeFields DEF Nodes
<1>2. ann[n.id] \cap ports # {} => anm[n.id] \cap more # {}
  BY <1>1
<1> QED
  BY <1>1, <1>2 DEF Nodes

(***************************************************************************)
(* Packets                                                                 *)
(***************************************************************************)
\* A request for peers.
LEMMA RequestOK ==
  ASSUME NEW s, s.tid \in Nat, NEW alive, NEW ann, NEW to \in Peer
  PROVE  PacketOK([type |-> "gp", to |-> to, tid |-> s.tid], s, alive, ann)
BY DEF PacketOK, Packet

\* An announcement of a port of the search.
LEMMA AnnouncementOK ==
  ASSUME NEW s, s.tid \in Nat, s.port \in s.ports, s.port \in Port, NEW alive, NEW ann,
         NEW to \in Peer, NEW token \in Secret \cup {NoToken}
  PROVE  PacketOK([type |-> "ap", to |-> to, tid |-> s.tid, port |-> s.port, token |-> token],
                  s, alive, ann)
BY DEF PacketOK, Packet

\* The types of the packets' fields.
LEMMA PacketFields ==
  ASSUME NEW s, NEW alive, NEW ann, NEW m, PacketOK(m, s, alive, ann)
  PROVE  /\ m \in Packet /\ m.tid \in Nat /\ m.tid <= s.tid
         /\ m.type = "gp" => m.to \in Peer
         /\ m.type = "gpr" => /\ m.from \in Peer /\ m.token \in Secret \cup {NoToken}
                              /\ m.token = NoToken <=> m.from \in Tokenless
         /\ m.type = "ap" => m.to \in Peer /\ m.port \in Port /\ m.token \in Secret \cup {NoToken}
         /\ m.type = "apr" => m.from \in Peer
BY DEF PacketOK, Packet

\* What is known of a packet stays so when peers store more, the search gets more ports, or
\* is freed, or another one starts.
LEMMA PacketsStay ==
  ASSUME NEW s, NEW t, s.tid \in Nat, t.tid \in Nat, NEW alive \in BOOLEAN, NEW still \in BOOLEAN,
         NEW ann, NEW anm, NEW m, PacketOK(m, s, alive, ann),
         s.tid <= t.tid,
         still /\ s.tid = t.tid => alive /\ s.ports \subseteq t.ports,
         \A id \in Peer : ann[id] \subseteq anm[id]
  PROVE  PacketOK(m, t, still, anm)
<1>1. m \in Packet /\ m.tid \in Nat /\ m.tid <= s.tid /\ m.tid <= t.tid
  BY PacketFields
<1>2. ASSUME m.type = "ap", still, m.tid = t.tid PROVE m.port \in t.ports
  BY <1>1, <1>2 DEF PacketOK
<1>3. ASSUME m.type = "apr", still, m.tid = t.tid PROVE anm[m.from] \cap t.ports # {}
  <2>1. m.from \in Peer
    BY <1>3, PacketFields
  <2>2. s.tid = t.tid /\ ann[m.from] \cap s.ports # {} /\ s.ports \subseteq t.ports
    BY <1>1, <1>3 DEF PacketOK
  <2> QED
    BY <2>1, <2>2
<1>4. m.type = "gpr" => (m.token = NoToken <=> m.from \in Tokenless)
  BY DEF PacketOK
<1> QED
  BY <1>1, <1>2, <1>3, <1>4 DEF PacketOK

(***************************************************************************)
(* The search                                                              *)
(***************************************************************************)
\* The fields of a search.
LEMMA SearchFields ==
  ASSUME NEW s, NEW alive, NEW ann, SearchOK(s, alive, ann)
  PROVE  /\ s \in SearchType
         /\ s.tid \in Nat /\ s.port \in Port \cup {0} /\ s.ports \in SUBSET Port
         /\ s.done \in BOOLEAN /\ s.step \in Age
         /\ s.nodes \in Lists(Nodes(s.ports, ann))
         /\ Nodes(s.ports, ann) \in SUBSET NodeType
         /\ DOMAIN s.nodes = 1..Len(s.nodes)
         /\ \A i \in DOMAIN s.nodes : /\ s.nodes[i] \in Nodes(s.ports, ann)
                                      /\ s.nodes[i] \in NodeType /\ s.nodes[i].id \in Peer
<1>1. s \in SearchType /\ s.nodes \in Lists(Nodes(s.ports, ann))
  BY DEF SearchOK
<1>2. /\ s.tid \in Nat /\ s.port \in Port \cup {0} /\ s.ports \in SUBSET Port
      /\ s.done \in BOOLEAN /\ s.step \in Age
  BY <1>1 DEF SearchType
<1> DEFINE N == Nodes(s.ports, ann)
           ns == s.nodes
<1>3. N \in SUBSET NodeType
  BY DEF Nodes
<1>4. ns \in Lists(N)
  BY <1>1
<1> HIDE DEF N, ns
<1>5. /\ DOMAIN ns = 1..Len(ns)
      /\ \A i \in 1..Len(ns) : ns[i] \in N /\ ns[i] \in NodeType /\ ns[i].id \in Peer
  BY <1>3, <1>4, ListsFacts
<1> QED
  BY <1>1, <1>2, <1>3, <1>5 DEF N, ns

\* The search with another list of nodes.
Listing(s, ns) == [s EXCEPT !.nodes = ns]

\* It is as good as the list.
LEMMA ListingOK ==
  ASSUME NEW s, NEW ann, SearchOK(s, TRUE, ann), NEW ns \in Lists(Nodes(s.ports, ann))
  PROVE  LET t == Listing(s, ns)
         IN  /\ SearchOK(t, TRUE, ann) /\ t.nodes = ns
             /\ t.tid = s.tid /\ t.port = s.port /\ t.ports = s.ports
             /\ t.step = s.step /\ t.done = s.done
<1> DEFINE t == Listing(s, ns)
<1>1. s \in SearchType /\ s.port \in s.ports
  BY DEF SearchOK
<1>2. ns \in Seq(NodeType)
  <2>1. ns \in Seq(Nodes(s.ports, ann)) /\ Nodes(s.ports, ann) \subseteq NodeType
    BY DEF Lists, Nodes
  <2> QED
    BY <2>1
<1>3. /\ t \in SearchType /\ t.nodes = ns
      /\ t.tid = s.tid /\ t.port = s.port /\ t.ports = s.ports
      /\ t.step = s.step /\ t.done = s.done
  BY <1>1, <1>2 DEF Listing, SearchType
<1> HIDE DEF t
<1>4. SearchOK(t, TRUE, ann)
  BY <1>1, <1>3 DEF SearchOK
<1> QED
  BY <1>3, <1>4 DEF t

\* Requests to nodes that have not been asked three times.
LEMMA GetPeersOK ==
  ASSUME NEW s, NEW ann, SearchOK(s, TRUE, ann), NEW who,
         \A i \in who : i \in DOMAIN s.nodes /\ s.nodes[i].pinged < 3
  PROVE  /\ GetPeers(s, who).nodes \in Lists(Nodes(s.ports, ann))
         /\ \A m \in GetPeers(s, who).sent : PacketOK(m, s, TRUE, ann)
<1> DEFINE ns == s.nodes
           N == Nodes(s.ports, ann)
           ms == [i \in DOMAIN ns |-> IF i \in who THEN Asked(ns[i]) ELSE ns[i]]
<1>1. /\ N \in SUBSET NodeType /\ ns \in Lists(N) /\ s.tid \in Nat
      /\ \A i \in DOMAIN ns : ns[i] \in N /\ ns[i].id \in Peer
  BY SearchFields
<1>2. GetPeers(s, who).nodes = ms
  BY DEF GetPeers
<1>3. ASSUME NEW i \in DOMAIN ns PROVE ms[i] \in N /\ ms[i].id = ns[i].id
  <2>1. CASE i \in who
    BY <1>1, <2>1, AskedOK
  <2>2. CASE i \notin who
    BY <1>1, <2>2
  <2> QED
    BY <2>1, <2>2
<1>4. ms = [i \in DOMAIN ns |-> ms[i]]
  OBVIOUS
<1>5. ms \in Lists(N)
  <2> HIDE DEF ms, ns, N
  <2> QED
    BY <1>1, <1>3, <1>4, ChangedLists
<1>6. ASSUME NEW m \in GetPeers(s, who).sent PROVE PacketOK(m, s, TRUE, ann)
  <2>1. PICK i \in who : m = [type |-> "gp", to |-> ns[i].id, tid |-> s.tid]
    BY DEF GetPeers
  <2>2. ns[i].id \in Peer
    BY <1>1
  <2> QED
    BY <1>1, <2>1, <2>2, RequestOK
<1> QED
  BY <1>2, <1>5, <1>6

\* search_send_get_peers asks one that has not been asked three times.
LEMMA AskOneOK ==
  ASSUME NEW s, NEW ann, SearchOK(s, TRUE, ann)
  PROVE  /\ AskOne(s).nodes \in Lists(Nodes(s.ports, ann))
         /\ \A m \in AskOne(s).sent : PacketOK(m, s, TRUE, ann)
<1> DEFINE who == {i \in DOMAIN s.nodes :
                     Eligible(s.nodes[i]) /\ \A j \in i+1..Len(s.nodes) : ~Eligible(s.nodes[j])}
<1>1. AskOne(s) = GetPeers(s, who)
  BY DEF AskOne
<1>2. \A i \in who : i \in DOMAIN s.nodes /\ s.nodes[i].pinged < 3
  BY DEF Eligible
<1> HIDE DEF who
<1> QED
  BY <1>1, <1>2, GetPeersOK

\* search_step announces to those of the closest nodes that gave a token; the others, which
\* have replied and gave none, count as announced to.
LEMMA AnnounceOK ==
  ASSUME NEW s, NEW ann, SearchOK(s, TRUE, ann), AllReplied(s.nodes)
  PROVE  /\ Announce(s).nodes \in Lists(Nodes(s.ports, ann))
         /\ \A m \in Announce(s).sent : PacketOK(m, s, TRUE, ann)
<1> DEFINE ns == s.nodes
           N == Nodes(s.ports, ann)
           who == ToAnnounce(ns)
           ms == [i \in DOMAIN ns |-> IF i \in who THEN Asked(ns[i])
                                      ELSE IF i \in Foremost(ns) THEN Marked(ns[i]) ELSE ns[i]]
<1>1. /\ N \in SUBSET NodeType /\ ns \in Lists(N) /\ s.tid \in Nat /\ s.port \in s.ports
      /\ s.ports \in SUBSET Port
      /\ \A i \in DOMAIN ns : ns[i] \in N /\ ns[i] \in NodeType /\ ns[i].id \in Peer
  BY SearchFields DEF SearchOK
<1>2. \A i \in Foremost(ns) : i \in DOMAIN ns /\ ns[i].pinged < 3 /\ ns[i].replied
  BY DEF Foremost, AllReplied
<1>3. who \subseteq Foremost(ns) /\ \A i \in Foremost(ns) \ who : ns[i].token = NoToken \/ ns[i].acked
  BY DEF ToAnnounce
<1>4. Announce(s).nodes = ms
  BY DEF Announce, Marked
<1>5. ASSUME NEW i \in DOMAIN ns PROVE ms[i] \in N /\ ms[i].id = ns[i].id
  <2>1. CASE i \in who
    BY <1>1, <1>2, <1>3, <2>1, AskedOK
  <2>2. CASE i \notin who /\ i \in Foremost(ns)
    <3>1. ns[i] \in N /\ ns[i].replied /\ (ns[i].token = NoToken \/ ns[i].acked)
      BY <1>1, <1>2, <1>3, <2>2
    <3>2. ns[i].id \in Tokenless \/ ann[ns[i].id] \cap s.ports # {}
      BY <3>1 DEF Nodes
    <3>3. Marked(ns[i]) \in N /\ Marked(ns[i]).id = ns[i].id
      BY <3>1, <3>2, MarkedOK
    <3>4. ms[i] = Marked(ns[i])
      BY <2>2
    <3> HIDE DEF ms, N
    <3> QED
      BY <3>3, <3>4
  <2>3. CASE i \notin who /\ i \notin Foremost(ns)
    BY <1>1, <2>3
  <2> QED
    BY <2>1, <2>2, <2>3
<1>6. ms = [i \in DOMAIN ns |-> ms[i]]
  OBVIOUS
<1>7. ms \in Lists(N)
  <2> HIDE DEF ms, ns, N
  <2> QED
    BY <1>1, <1>5, <1>6, ChangedLists
<1>8. ASSUME NEW m \in Announce(s).sent PROVE PacketOK(m, s, TRUE, ann)
  <2>1. PICK i \in who : m = [type |-> "ap", to |-> ns[i].id, tid |-> s.tid, port |-> s.port,
                              token |-> ns[i].token]
    BY DEF Announce
  <2>2. ns[i].id \in Peer /\ ns[i].token \in Secret \cup {NoToken}
    BY <1>1, <1>2, <1>3, NodeFields
  <2>3. s.port \in Port
    BY <1>1
  <2> QED
    BY <1>1, <2>1, <2>2, <2>3, AnnouncementOK
<1> QED
  BY <1>4, <1>7, <1>8

\* The search after a step that does something.
Stepped(s, ns, done) == [s EXCEPT !.nodes = ns, !.step = 0, !.done = done]

\* It is as good as the list.
LEMMA SteppedOK ==
  ASSUME NEW s, NEW ann, SearchOK(s, TRUE, ann), NEW ns \in Lists(Nodes(s.ports, ann)),
         NEW done \in BOOLEAN
  PROVE  /\ SearchOK(Stepped(s, ns, done), TRUE, ann)
         /\ Stepped(s, ns, done).tid = s.tid /\ Stepped(s, ns, done).port = s.port
         /\ Stepped(s, ns, done).ports = s.ports /\ Stepped(s, ns, done).step = 0
<1> DEFINE t == Stepped(s, ns, done)
           u == Listing(s, ns)
<1>1. /\ SearchOK(u, TRUE, ann) /\ u.nodes = ns
      /\ u.tid = s.tid /\ u.port = s.port /\ u.ports = s.ports
  BY ListingOK
<1>2. s \in SearchType
  BY DEF SearchOK
<1>3. t = [u EXCEPT !.step = 0, !.done = done]
  BY <1>2 DEF Stepped, Listing, SearchType
<1> HIDE DEF t, u
<1>4. u \in SearchType
  BY <1>1 DEF SearchOK
<1>5. /\ t \in SearchType /\ t.nodes = ns /\ t.tid = s.tid /\ t.port = s.port /\ t.ports = s.ports
      /\ t.step = 0
  BY <1>1, <1>3, <1>4, Ages DEF SearchType
<1>6. SearchOK(t, TRUE, ann)
  BY <1>1, <1>5 DEF SearchOK
<1> QED
  BY <1>5, <1>6 DEF t

\* search_step, and when it leaves step_time alone.
LEMMA StepOK ==
  ASSUME NEW s, NEW ann, SearchOK(s, TRUE, ann)
  PROVE  /\ SearchOK(Step(s).s, TRUE, ann)
         /\ Step(s).s.tid = s.tid /\ Step(s).s.port = s.port /\ Step(s).s.ports = s.ports
         /\ Step(s).s.step = 0 \/ (Step(s).s.step = s.step /\ s.step <= Wait)
         /\ \A m \in Step(s).sent : PacketOK(m, s, TRUE, ann)
<1> DEFINE eligible == {i \in DOMAIN s.nodes : Eligible(s.nodes[i])}
           first == {i \in eligible : Cardinality({j \in eligible : j < i}) < Parallel}
           get == GetPeers(s, first)
<1>1. s.nodes \in Lists(Nodes(s.ports, ann))
  BY SearchFields
<1>2. CASE AllReplied(s.nodes) /\ s.port = 0
  <2>1. Step(s).s = Stepped(s, s.nodes, TRUE) /\ Step(s).sent = {}
    BY <1>2 DEF Step, Stepped
  <2> DEFINE t == Stepped(s, s.nodes, TRUE)
  <2>2. SearchOK(t, TRUE, ann) /\ t.tid = s.tid /\ t.port = s.port /\ t.ports = s.ports /\ t.step = 0
    BY <1>1, SteppedOK
  <2> HIDE DEF t
  <2> QED
    BY <2>1, <2>2 DEF t
<1>3. CASE AllReplied(s.nodes) /\ s.port # 0
  <2> DEFINE done == ToAnnounce(s.nodes) = {}
  <2>1. /\ Step(s).s = Stepped(s, Announce(s).nodes, done)
        /\ Step(s).sent = Announce(s).sent
    BY <1>3 DEF Step, Stepped
  <2>2. done \in BOOLEAN
    OBVIOUS
  <2>3. /\ Announce(s).nodes \in Lists(Nodes(s.ports, ann))
        /\ \A m \in Announce(s).sent : PacketOK(m, s, TRUE, ann)
    BY <1>3, AnnounceOK
  <2> HIDE DEF done
  <2> DEFINE t == Stepped(s, Announce(s).nodes, done)
  <2>4. SearchOK(t, TRUE, ann) /\ t.tid = s.tid /\ t.port = s.port /\ t.ports = s.ports /\ t.step = 0
    BY <2>2, <2>3, SteppedOK
  <2> HIDE DEF t
  <2> QED
    BY <2>1, <2>3, <2>4 DEF t
<1>4. CASE ~AllReplied(s.nodes) /\ s.step <= Wait
  <2>1. Step(s).s = s /\ Step(s).sent = {}
    BY <1>4 DEF Step
  <2> QED
    BY <1>4, <2>1
<1>5. CASE ~AllReplied(s.nodes) /\ ~(s.step <= Wait)
  <2>1. Step(s).s = Stepped(s, get.nodes, FALSE) /\ Step(s).sent = get.sent
    BY <1>5 DEF Step, Stepped
  <2>2. \A i \in first : i \in DOMAIN s.nodes /\ s.nodes[i].pinged < 3
    BY DEF Eligible
  <2> HIDE DEF first
  <2>3. /\ get.nodes \in Lists(Nodes(s.ports, ann))
        /\ \A m \in get.sent : PacketOK(m, s, TRUE, ann)
    BY <2>2, GetPeersOK
  <2> HIDE DEF get
  <2> DEFINE t == Stepped(s, get.nodes, FALSE)
  <2>4. SearchOK(t, TRUE, ann) /\ t.tid = s.tid /\ t.port = s.port /\ t.ports = s.ports /\ t.step = 0
    BY <2>3, SteppedOK
  <2> HIDE DEF t
  <2> QED
    BY <2>1, <2>3, <2>4 DEF t
<1> QED
  BY <1>2, <1>3, <1>4, <1>5

\* An expired search is gone.
LEMMA FreedOK ==
  ASSUME NEW s, NEW ann, s \in SearchType
  PROVE  SearchOK(Freed(s), FALSE, ann) /\ Freed(s).tid = s.tid
<1> DEFINE t == Freed(s)
           k1 == [s EXCEPT !.port = 0]
           k2 == [k1 EXCEPT !.ports = {}]
           k3 == [k2 EXCEPT !.step = Old]
           k4 == [k3 EXCEPT !.done = FALSE]
           k5 == [k4 EXCEPT !.nodes = <<>>]
<1>1. t = k5
  BY DEF Freed, SearchType
<1>2. k1 \in SearchType
  BY DEF SearchType
<1> HIDE DEF k1
<1>3. k2 \in SearchType
  BY <1>2 DEF SearchType
<1> HIDE DEF k2
<1>4. k3 \in SearchType
  BY <1>3, Ages DEF SearchType
<1> HIDE DEF k3
<1>5. k4 \in SearchType
  BY <1>4 DEF SearchType
<1> HIDE DEF k4
<1>6. k5 \in SearchType /\ k5.nodes = <<>>
  <2> DEFINE e == <<>>
  <2>1. e \in Seq(NodeType)
    OBVIOUS
  <2>2. k5 = [k4 EXCEPT !.nodes = e]
    OBVIOUS
  <2> HIDE DEF e, k5
  <2>3. k5 \in SearchType /\ k5.nodes = e
    BY <1>5, <2>1, <2>2 DEF SearchType
  <2> QED
    BY <2>3 DEF e
<1>7. t.tid = s.tid
  BY DEF Freed, SearchType
<1>8. \A S : <<>> \in Lists(S)
  BY SearchAssumption DEF Lists
<1> HIDE DEF t, k5
<1>9. t \in SearchType /\ t.nodes = <<>>
  BY <1>1, <1>6
<1> QED
  BY <1>7, <1>8, <1>9 DEF SearchOK, t

\* The packets under way after some were received and others sent.
LEMMA TransmitIn ==
  ASSUME NEW received, NEW sent
  PROVE  Transmit(received, sent) \subseteq net \cup sent
BY DEF Transmit

\* expire_searches, search_step and the time of the next one, after any handler.
LEMMA TimersOK ==
  ASSUME NEW s, NEW sent, NEW received, live \in BOOLEAN, search_time \in -1..(Wait + Jitter),
         SearchOK(s, live, announced),
         \A m \in net \cup sent : PacketOK(m, s, live, announced),
         Timers(s, sent, received)
  PROVE  /\ live' \in BOOLEAN /\ search_time' \in -1..(Wait + Jitter)
         /\ sr'.tid = s.tid
         /\ SearchOK(sr', live', announced)
         /\ \A m \in net' : PacketOK(m, sr', live', announced)
<1>1. PICK expire \in BOOLEAN, jitter \in 0..Jitter :
        LET gone == expire /\ s.step > Expire
            due  == search_time = 0
            o == IF live /\ ~gone /\ due /\ ~s.done /\ s.step >= Short THEN Step(s)
                 ELSE [s |-> s, sent |-> {}]
        IN /\ sr' = IF gone THEN Freed(s) ELSE o.s
           /\ live' = (live /\ ~gone)
           /\ search_time' = IF ~due THEN search_time
                             ELSE IF ~live \/ gone \/ o.s.done THEN -1
                             ELSE Wait - o.s.step + jitter
           /\ net' = Transmit(received, sent \cup o.sent)
  BY DEF Timers
<1> DEFINE gone == expire /\ s.step > Expire
           due  == search_time = 0
           steps == live /\ ~gone /\ due /\ ~s.done /\ s.step >= Short
           o == IF steps THEN Step(s) ELSE [s |-> s, sent |-> {}]
<1>2. /\ sr' = IF gone THEN Freed(s) ELSE o.s
      /\ live' = (live /\ ~gone)
      /\ search_time' = IF ~due THEN search_time
                        ELSE IF ~live \/ gone \/ o.s.done THEN -1
                        ELSE Wait - o.s.step + jitter
      /\ net' = Transmit(received, sent \cup o.sent)
  BY <1>1
<1>3. /\ s \in SearchType /\ s.tid \in Nat /\ s.step \in Age /\ s.step \in Nat
      /\ Wait \in Nat /\ Jitter \in Nat /\ jitter \in Nat /\ jitter <= Jitter /\ Short <= Wait + 1
      /\ Short \in Nat
  <2>1. s \in SearchType /\ s.tid \in Nat /\ s.step \in Age
    BY SearchFields
  <2>2. s.step \in Nat
    BY <2>1, Ages
  <2>3. Wait \in Nat /\ Jitter \in Nat /\ Short \in Nat /\ Short <= Wait + 1
    BY SearchAssumption
  <2>4. jitter \in Nat /\ jitter <= Jitter
    BY <2>3
  <2> QED
    BY <2>1, <2>2, <2>3, <2>4
<1>4. net' \subseteq net \cup (sent \cup o.sent)
  <2> DEFINE all == sent \cup o.sent
  <2>1. net' = Transmit(received, all)
    BY <1>2
  <2> HIDE DEF all
  <2>2. net' \subseteq net \cup all
    BY <2>1, TransmitIn
  <2> QED
    BY <2>2 DEF all
<1>5. live' \in BOOLEAN
  BY <1>2
<1>6. CASE gone
  <2>1. sr' = Freed(s) /\ live' = FALSE /\ o.sent = {}
    BY <1>2, <1>6
  <2>2. SearchOK(sr', live', announced) /\ sr'.tid = s.tid
    BY <1>3, <2>1, FreedOK
  <2>3. search_time' \in -1..(Wait + Jitter)
    BY <1>2, <1>3, <1>6
  <2>4. ASSUME NEW m \in net' PROVE PacketOK(m, sr', live', announced)
    <3>1. PacketOK(m, s, live, announced)
      BY <1>4, <2>1
    <3>2. sr'.tid \in Nat /\ s.tid <= sr'.tid /\ \A id \in Peer : announced[id] \subseteq announced[id]
      BY <1>3, <2>2
    <3>3. live' \in BOOLEAN /\ ~live'
      BY <2>1
    <3> QED
      BY <1>3, <3>1, <3>2, <3>3, PacketsStay
  <2> QED
    BY <1>5, <2>2, <2>3, <2>4
<1>7. CASE ~gone /\ steps
  <2>1. sr' = Step(s).s /\ live' = TRUE /\ live /\ o.sent = Step(s).sent /\ o.s = Step(s).s
    BY <1>2, <1>7
  <2>2. SearchOK(s, TRUE, announced)
    BY <2>1
  <2>3. /\ SearchOK(Step(s).s, TRUE, announced)
        /\ Step(s).s.tid = s.tid /\ Step(s).s.port = s.port /\ Step(s).s.ports = s.ports
        /\ Step(s).s.step = 0 \/ (Step(s).s.step = s.step /\ s.step <= Wait)
        /\ \A m \in Step(s).sent : PacketOK(m, s, TRUE, announced)
    BY <2>2, StepOK
  <2>4. SearchOK(sr', live', announced) /\ sr'.tid = s.tid /\ sr'.ports = s.ports
    BY <2>1, <2>3
  <2>5. search_time' \in -1..(Wait + Jitter)
    <3>1. search_time' = -1 \/ search_time' = Wait - Step(s).s.step + jitter
      BY <1>2, <1>7, <2>1
    <3>2. Wait - Step(s).s.step + jitter \in -1..(Wait + Jitter)
      BY <1>3, <2>3
    <3>3. -1 \in -1..(Wait + Jitter)
      BY <1>3
    <3> QED
      BY <3>1, <3>2, <3>3
  <2>6. ASSUME NEW m \in net' PROVE PacketOK(m, sr', live', announced)
    <3>1. PacketOK(m, s, live, announced)
      <4>1. live = TRUE
        BY <2>1
      <4>2. m \in net \cup sent \/ m \in Step(s).sent
        BY <1>4, <2>1
      <4> QED
        BY <2>3, <4>1, <4>2
    <3>2. sr'.tid \in Nat /\ s.tid <= sr'.tid /\ \A id \in Peer : announced[id] \subseteq announced[id]
      BY <1>3, <2>4
    <3>3. live' \in BOOLEAN /\ s.ports \subseteq sr'.ports
      BY <1>5, <2>4
    <3>4. s.tid \in Nat /\ live
      BY <1>3, <2>1
    <3>5. live' /\ s.tid = sr'.tid => live /\ s.ports \subseteq sr'.ports
      BY <3>3, <3>4
    <3> DEFINE t == sr'
               still == live'
               alive == live
               ann == announced
    <3>6. /\ s.tid \in Nat /\ t.tid \in Nat /\ alive \in BOOLEAN /\ still \in BOOLEAN
          /\ s.tid <= t.tid
          /\ still /\ s.tid = t.tid => alive /\ s.ports \subseteq t.ports
          /\ \A id \in Peer : ann[id] \subseteq ann[id]
          /\ PacketOK(m, s, alive, ann)
      BY <3>1, <3>2, <3>3, <3>4, <3>5
    <3> HIDE DEF gone, due, steps, o, t, still, alive, ann
    <3>7. PacketOK(m, t, still, ann)
      BY <3>6, PacketsStay
    <3> QED
      BY <3>7 DEF t, still, ann
  <2> QED
    BY <1>5, <2>4, <2>5, <2>6
<1>8. CASE ~gone /\ ~steps
  <2>1. sr' = s /\ live' = live /\ o.sent = {} /\ o.s = s
    BY <1>2, <1>8
  <2>2. SearchOK(sr', live', announced) /\ sr'.tid = s.tid
    BY <2>1
  <2>3. search_time' \in -1..(Wait + Jitter)
    <3>1. CASE due /\ live /\ ~s.done
      <4>1. ~(s.step >= Short)
        BY <1>8, <3>1
      <4>2. search_time' = Wait - s.step + jitter
        BY <1>2, <1>8, <2>1, <3>1
      <4> QED
        BY <1>3, <4>1, <4>2
    <3>2. CASE ~(due /\ live /\ ~s.done)
      <4>1. search_time' = search_time \/ search_time' = -1
        BY <1>2, <1>8, <2>1, <3>2
      <4>2. -1 \in -1..(Wait + Jitter)
        BY <1>3
      <4> QED
        BY <4>1, <4>2
    <3> QED
      BY <3>1, <3>2
  <2>4. ASSUME NEW m \in net' PROVE PacketOK(m, sr', live', announced)
    BY <1>4, <2>1
  <2> QED
    BY <1>5, <2>2, <2>3, <2>4
<1> QED
  BY <1>6, <1>7, <1>8

\* The tid and the ports of the search are all a packet depends on.
LEMMA PacketsSame ==
  ASSUME NEW s, NEW t, NEW alive, NEW ann, NEW m, PacketOK(m, s, alive, ann),
         s.tid = t.tid, s.ports = t.ports
  PROVE  PacketOK(m, t, alive, ann)
BY DEF PacketOK

\* insert_search_node for the sender of a reply.
LEMMA InsertRepliedOK ==
  ASSUME NEW ports, NEW ann, NEW ns \in Lists(Nodes(ports, ann)), NEW id \in Peer,
         NEW token \in Secret \cup {NoToken}, token = NoToken <=> id \in Tokenless
  PROVE  insert_replied(ns, id, token) \in Lists(Nodes(ports, ann))
<1> DEFINE N == Nodes(ports, ann)
           ins == insert_search_node(ns, id)
           ms == [i \in DOMAIN ins |-> IF ins[i].id = id THEN Replied(ins[i], token) ELSE ins[i]]
<1>1. N \in SUBSET NodeType
  BY DEF Nodes
<1>2. ins \in Lists(N)
  <2>1. NewNode(id) \in N /\ ns \in Lists(N)
    BY NewNodeOK
  <2> HIDE DEF N
  <2> QED
    BY <1>1, <2>1, InsertLists
<1>3. insert_replied(ns, id, token) = ms
  BY DEF insert_replied
<1> HIDE DEF ins
<1>4. \A i \in DOMAIN ins : ins[i] \in N
  <2> HIDE DEF N
  <2> QED
    BY <1>1, <1>2, ListsFacts
<1>5. ASSUME NEW i \in DOMAIN ins PROVE ms[i] \in N /\ ms[i].id = ins[i].id
  <2>1. CASE ins[i].id = id
    <3> DEFINE n == ins[i]
    <3>1. n \in N /\ (token = NoToken <=> n.id \in Tokenless)
      BY <1>4, <2>1
    <3>2. ms[i] = Replied(n, token)
      BY <2>1
    <3> HIDE DEF n, ms
    <3>3. Replied(n, token) \in N /\ Replied(n, token).id = n.id
      BY <3>1, RepliedOK
    <3> QED
      BY <3>2, <3>3 DEF n
  <2>2. CASE ins[i].id # id
    BY <1>4, <2>2
  <2> QED
    BY <2>1, <2>2
<1>6. ms = [i \in DOMAIN ins |-> ms[i]]
  OBVIOUS
<1> HIDE DEF ms, N
<1>7. ms \in Lists(N)
  BY <1>1, <1>2, <1>5, <1>6, ChangedLists
<1> QED
  BY <1>3, <1>7 DEF N

\* Nothing is left out of nothing.
LEMMA WithoutEmpty ==
  ASSUME NEW gone
  PROVE  Without(<<>>, gone) = <<>>
<1> DEFINE e == <<>>
<1>1. e \in Seq(Nat) /\ Len(e) = 0
  OBVIOUS
<1> HIDE DEF e
<1>2. PICK u : Sieve(u, Nat, e, gone)
  BY <1>1, WithoutUnfold
<1>3. Without(e, gone) = u[Len(e)] /\ u[0] = <<>>
  BY <1>2 DEF Sieve
<1>4. Without(e, gone) = <<>>
  BY <1>1, <1>3
<1> QED
  BY <1>4 DEF e

\* A reply to get_peers that names one more node: its nodes are inserted, one is asked, and
\* the sender is inserted with its token.
LEMMA ReplyOK ==
  ASSUME NEW s, NEW ann, SearchOK(s, TRUE, ann), NEW other \in Peer, NEW from \in Peer,
         NEW token \in Secret \cup {NoToken}, token = NoToken <=> from \in Tokenless
  PROVE  LET s1 == [s EXCEPT !.nodes = insert_search_node(@, other)]
             o == AskOne(s1)
             s2 == [s1 EXCEPT !.nodes = insert_replied(o.nodes, from, token)]
         IN  /\ SearchOK(s2, TRUE, ann) /\ s2.tid = s.tid /\ s2.ports = s.ports
             /\ \A m \in o.sent : PacketOK(m, s2, TRUE, ann)
<1> DEFINE N == Nodes(s.ports, ann)
           ns == insert_search_node(s.nodes, other)
           s1 == [s EXCEPT !.nodes = insert_search_node(@, other)]
           o == AskOne(s1)
           ms == insert_replied(o.nodes, from, token)
           s2 == [s1 EXCEPT !.nodes = ms]
<1>1. s \in SearchType /\ s.nodes \in Lists(N) /\ N \in SUBSET NodeType
  BY SearchFields
<1>2. ns \in Lists(N)
  <2>1. NewNode(other) \in N
    BY NewNodeOK
  <2> DEFINE old == s.nodes
  <2>2. old \in Lists(N)
    BY <1>1
  <2> HIDE DEF N, old
  <2>3. insert_search_node(old, other) \in Lists(N)
    BY <1>1, <2>1, <2>2, InsertLists
  <2> QED
    BY <2>3 DEF old
<1>3. s1 = Listing(s, ns)
  BY <1>1 DEF Listing, SearchType
<1>4. SearchOK(s1, TRUE, ann) /\ s1.tid = s.tid /\ s1.ports = s.ports
  <2> HIDE DEF ns, s1
  <2> QED
    BY <1>2, <1>3, ListingOK
<1> HIDE DEF s1
<1>5. /\ o.nodes \in Lists(Nodes(s1.ports, ann))
      /\ \A m \in o.sent : PacketOK(m, s1, TRUE, ann)
  BY <1>4, AskOneOK
<1> HIDE DEF o
<1>6. ms \in Lists(Nodes(s1.ports, ann))
  BY <1>5, InsertRepliedOK
<1> HIDE DEF ms
<1>7. s2 = Listing(s1, ms)
  BY DEF Listing
<1>8. SearchOK(s2, TRUE, ann) /\ s2.tid = s1.tid /\ s2.ports = s1.ports
  <2> HIDE DEF s2
  <2> QED
    BY <1>4, <1>6, <1>7, ListingOK
<1> HIDE DEF s2
<1>9. ASSUME NEW m \in o.sent PROVE PacketOK(m, s2, TRUE, ann)
  BY <1>5, <1>8, PacketsSame
<1> QED
  BY <1>4, <1>8, <1>9 DEF s1, o, ms, s2

(***************************************************************************)
(* Each action keeps the invariant                                         *)
(***************************************************************************)
\* A handler that leaves the search and what it sends in order, and the timers after it.
LEMMA HandlerOK ==
  ASSUME IInv, NEW s, NEW sent, NEW received, Timers(s, sent, received),
         SearchOK(s, live, announced), s.tid = sr.tid, s.ports = sr.ports,
         \A m \in sent : PacketOK(m, s, live, announced),
         UNCHANGED <<calls, theirs>>, blacklist' \subseteq Peer
  PROVE  IInv'
<1>1. /\ live \in BOOLEAN /\ search_time \in -1..(Wait + Jitter)
      /\ \A m \in net : PacketOK(m, sr, live, announced)
  BY DEF IInv, Scalars
<1>2. \A m \in net : PacketOK(m, s, live, announced)
  BY <1>1, PacketsSame
<1>3. \A m \in net \cup sent : PacketOK(m, s, live, announced)
  BY <1>2
<1>4. /\ live' \in BOOLEAN /\ search_time' \in -1..(Wait + Jitter)
      /\ sr'.tid = s.tid
      /\ SearchOK(sr', live', announced)
      /\ \A m \in net' : PacketOK(m, sr', live', announced)
  BY <1>1, <1>3, TimersOK
<1>5. announced' = announced /\ calls' = calls /\ secret' = secret /\ oldsecret' = oldsecret
  BY DEF theirs
<1>6. Scalars'
  BY <1>4, <1>5 DEF IInv, Scalars
<1>7. SearchOK(sr', live', announced')
  BY <1>4, <1>5
<1>8. \A m \in net' : PacketOK(m, sr', live', announced')
  BY <1>4, <1>5
<1> QED
  BY <1>6, <1>7, <1>8 DEF IInv

\* dht_periodic without a packet.
LEMMA IdleStep ==
  ASSUME IInv, dht_periodic_idle
  PROVE  IInv'
<1>1. Timers(sr, {}, {}) /\ UNCHANGED <<calls, theirs>> /\ blacklist' = blacklist
  BY DEF dht_periodic_idle
<1>2. SearchOK(sr, live, announced) /\ blacklist \subseteq Peer
  BY DEF IInv, Scalars
<1> QED
  BY <1>1, <1>2, HandlerOK

\* dht_periodic with a reply that is for no search we have.
LEMMA StrayReply ==
  ASSUME IInv, NEW m, Timers(sr, {}, {m}), UNCHANGED <<calls, blacklist, theirs>>
  PROVE  IInv'
<1>1. SearchOK(sr, live, announced) /\ blacklist \subseteq Peer
  BY DEF IInv, Scalars
<1> QED
  BY <1>1, HandlerOK

\* A reply to get_peers.
LEMMA GetPeersReplyStep ==
  ASSUME IInv, NEW m \in net, NEW other \in Peer, get_peers_reply(m, other)
  PROVE  IInv'
<1> DEFINE s1 == [sr EXCEPT !.nodes = insert_search_node(@, other)]
           o == AskOne(s1)
           s2 == [s1 EXCEPT !.nodes = insert_replied(o.nodes, m.from, m.token)]
<1>1. /\ m.type = "gpr" /\ UNCHANGED <<calls, blacklist, theirs>>
      /\ IF Ours(m) THEN Timers(s2, o.sent, {m}) ELSE Timers(sr, {}, {m})
  BY DEF get_peers_reply
<1>2. /\ m.from \in Peer /\ m.token \in Secret \cup {NoToken}
      /\ m.token = NoToken <=> m.from \in Tokenless
  <2>1. PacketOK(m, sr, live, announced)
    BY DEF IInv
  <2> QED
    BY <1>1, <2>1, PacketFields
<1>3. CASE Ours(m)
  <2>1. live = TRUE /\ SearchOK(sr, TRUE, announced) /\ blacklist' \subseteq Peer
    BY <1>1, <1>3 DEF IInv, Scalars, Ours
  <2>2. /\ SearchOK(s2, TRUE, announced) /\ s2.tid = sr.tid /\ s2.ports = sr.ports
        /\ \A p \in o.sent : PacketOK(p, s2, TRUE, announced)
    BY <1>2, <2>1, ReplyOK
  <2>3. Timers(s2, o.sent, {m})
    BY <1>1, <1>3
  <2> HIDE DEF s2, o
  <2>4. SearchOK(s2, live, announced) /\ \A p \in o.sent : PacketOK(p, s2, live, announced)
    BY <2>1, <2>2
  <2> QED
    BY <1>1, <2>1, <2>2, <2>3, <2>4, HandlerOK
<1>4. CASE ~Ours(m)
  BY <1>1, <1>4, StrayReply
<1> QED
  BY <1>3, <1>4

\* A reply to get_peers whose list of nodes is malformed.
LEMMA BrokenReplyStep ==
  ASSUME IInv, NEW m \in net, get_peers_reply_broken(m)
  PROVE  IInv'
<1> DEFINE ns == flush_search_node(sr.nodes, m.from)
           ms == insert_replied(ns, m.from, m.token)
           N == Nodes(sr.ports, announced)
<1>1. /\ m.type = "gpr" /\ UNCHANGED <<calls, theirs>> /\ blacklist' = blacklist \cup {m.from}
      /\ IF Ours(m) THEN Timers(Listing(sr, ms), {}, {m}) ELSE Timers(Listing(sr, ns), {}, {m})
  BY DEF get_peers_reply_broken, Listing
<1>2. /\ m.from \in Peer /\ m.token \in Secret \cup {NoToken}
      /\ m.token = NoToken <=> m.from \in Tokenless
  <2>1. PacketOK(m, sr, live, announced)
    BY DEF IInv
  <2> QED
    BY <1>1, <2>1, PacketFields
<1>3. blacklist' \subseteq Peer
  BY <1>1, <1>2 DEF IInv, Scalars
<1>4. SearchOK(sr, live, announced) /\ live \in BOOLEAN
  BY DEF IInv, Scalars
<1>5. sr.nodes \in Lists(N) /\ N \in SUBSET NodeType
  BY <1>4, SearchFields
<1>6. ns \in Lists(N)
  <2> DEFINE old == sr.nodes
             gone == {i \in DOMAIN sr.nodes : sr.nodes[i].id = m.from}
  <2>1. ns = Without(old, gone)
    BY DEF flush_search_node
  <2>2. old \in Lists(N)
    BY <1>5
  <2> HIDE DEF old, gone, N, ns
  <2> QED
    BY <1>5, <2>1, <2>2, WithoutLists
<1>7. CASE Ours(m)
  <2>1. live = TRUE /\ SearchOK(sr, TRUE, announced)
    BY <1>4, <1>7 DEF Ours
  <2> HIDE DEF ns
  <2>2. ms \in Lists(N)
    BY <1>2, <1>6, InsertRepliedOK
  <2> HIDE DEF ms
  <2> DEFINE s == Listing(sr, ms)
  <2>3. SearchOK(s, TRUE, announced) /\ s.tid = sr.tid /\ s.ports = sr.ports
    BY <2>1, <2>2, ListingOK
  <2>4. Timers(s, {}, {m})
    BY <1>1, <1>7
  <2> HIDE DEF s
  <2>5. SearchOK(s, live, announced)
    BY <2>1, <2>3
  <2> QED
    BY <1>1, <1>3, <2>3, <2>4, <2>5, HandlerOK
<1>8. CASE ~Ours(m) /\ live
  <2>1. live = TRUE /\ SearchOK(sr, TRUE, announced)
    BY <1>4, <1>8
  <2> HIDE DEF ns
  <2> DEFINE s == Listing(sr, ns)
  <2>3. SearchOK(s, TRUE, announced) /\ s.tid = sr.tid /\ s.ports = sr.ports
    BY <2>1, <1>6, ListingOK
  <2>4. Timers(s, {}, {m})
    BY <1>1, <1>8
  <2> HIDE DEF s
  <2>5. SearchOK(s, live, announced)
    BY <2>1, <2>3
  <2> QED
    BY <1>1, <1>3, <2>3, <2>4, <2>5, HandlerOK
<1>9. CASE ~Ours(m) /\ ~live
  <2>1. sr.nodes = <<>> /\ sr \in SearchType
    BY <1>4, <1>9 DEF SearchOK
  <2>2. ns = <<>>
    BY <2>1, WithoutEmpty DEF flush_search_node
  <2>3. Listing(sr, ns) = sr
    <3> HIDE DEF ns
    <3>1. ns = sr.nodes
      BY <2>1, <2>2
    <3> QED
      BY <2>1, <3>1 DEF Listing, SearchType
  <2>4. Timers(sr, {}, {m})
    BY <1>1, <1>9, <2>3
  <2> HIDE DEF ns
  <2> QED
    BY <1>1, <1>3, <1>4, <2>4, HandlerOK
<1> QED
  BY <1>7, <1>8, <1>9

\* A reply to announce_peer.
LEMMA AnnounceReplyStep ==
  ASSUME IInv, NEW m \in net, announce_peer_reply(m)
  PROVE  IInv'
<1> DEFINE old == sr.nodes
           ns == [i \in DOMAIN old |-> IF old[i].id = m.from THEN Acked(old[i]) ELSE old[i]]
           s1 == Listing(sr, ns)
           o == AskOne(s1)
           s2 == Listing(s1, o.nodes)
           N == Nodes(sr.ports, announced)
<1>1. sr \in SearchType /\ SearchOK(sr, live, announced) /\ PacketOK(m, sr, live, announced)
  BY DEF IInv, SearchOK
<1>2. /\ m.type = "apr" /\ UNCHANGED <<calls, blacklist, theirs>>
      /\ IF Ours(m) THEN Timers(s2, o.sent, {m}) ELSE Timers(sr, {}, {m})
  BY DEF announce_peer_reply, Listing
<1>3. CASE Ours(m)
  <2>1. live = TRUE /\ SearchOK(sr, TRUE, announced) /\ blacklist' \subseteq Peer
    BY <1>1, <1>2, <1>3 DEF IInv, Scalars, Ours
  <2>2. announced[m.from] \cap sr.ports # {}
    BY <1>1, <1>2, <1>3 DEF Ours, PacketOK
  <2>3. /\ old \in Lists(N) /\ N \in SUBSET NodeType
        /\ \A i \in DOMAIN old : old[i] \in N
    BY <2>1, SearchFields
  <2>4. ASSUME NEW i \in DOMAIN old PROVE ns[i] \in N /\ ns[i].id = old[i].id
    <3>1. CASE old[i].id = m.from
      <4> DEFINE n == old[i]
      <4>1. n \in N /\ announced[n.id] \cap sr.ports # {} /\ ns[i] = Acked(n)
        BY <2>2, <2>3, <3>1
      <4> HIDE DEF n
      <4>2. Acked(n) \in N /\ Acked(n).id = n.id
        BY <4>1, AckedOK
      <4> HIDE DEF ns
      <4> QED
        BY <4>1, <4>2 DEF n
    <3>2. CASE old[i].id # m.from
      BY <2>3, <3>2
    <3> QED
      BY <3>1, <3>2
  <2>5. ns = [i \in DOMAIN old |-> ns[i]]
    OBVIOUS
  <2>6. ns \in Lists(N)
    <3> HIDE DEF ns, N, old
    <3> QED
      BY <2>3, <2>4, <2>5, ChangedLists
  <2> HIDE DEF ns
  <2>7. SearchOK(s1, TRUE, announced) /\ s1.tid = sr.tid /\ s1.ports = sr.ports
    BY <2>1, <2>6, ListingOK
  <2> HIDE DEF s1
  <2>8. /\ o.nodes \in Lists(Nodes(s1.ports, announced))
        /\ \A p \in o.sent : PacketOK(p, s1, TRUE, announced)
    BY <2>7, AskOneOK
  <2> HIDE DEF o
  <2>9. SearchOK(s2, TRUE, announced) /\ s2.tid = s1.tid /\ s2.ports = s1.ports
    BY <2>7, <2>8, ListingOK
  <2>10. Timers(s2, o.sent, {m})
    BY <1>2, <1>3
  <2> HIDE DEF s2
  <2>11. \A p \in o.sent : PacketOK(p, s2, TRUE, announced)
    BY <2>8, <2>9, PacketsSame
  <2>12. SearchOK(s2, live, announced) /\ \A p \in o.sent : PacketOK(p, s2, live, announced)
    BY <2>1, <2>9, <2>11
  <2>13. s2.tid = sr.tid /\ s2.ports = sr.ports
    BY <2>7, <2>9
  <2> QED
    BY <1>2, <2>1, <2>10, <2>12, <2>13, HandlerOK
<1>4. CASE ~Ours(m)
  BY <1>2, <1>4, StrayReply
<1> QED
  BY <1>3, <1>4

\* The list of a search that is used again, for whatever ports.
LEMMA RenewedLists ==
  ASSUME NEW S \in SUBSET NodeType, NEW ns \in Lists(S), NEW gone, NEW ports, NEW ann, NEW ms,
         ms = [i \in DOMAIN Without(ns, gone) |-> Renewed(Without(ns, gone)[i])]
  PROVE  ms \in Lists(Nodes(ports, ann))
<1> DEFINE kept == Without(ns, gone)
           N == Nodes(ports, ann)
<1>1. kept \in Lists(S)
  BY WithoutLists
<1>2. N \in SUBSET NodeType
  BY DEF Nodes
<1>3. ms = [i \in DOMAIN kept |-> Renewed(kept[i])]
  OBVIOUS
<1> HIDE DEF kept
<1>4. \A i \in DOMAIN kept : kept[i] \in NodeType
  BY <1>1, ListsFacts
<1>5. ASSUME NEW i \in DOMAIN kept PROVE ms[i] \in N /\ ms[i].id = kept[i].id
  <2> DEFINE n == kept[i]
  <2>1. n \in NodeType /\ ms[i] = Renewed(n)
    BY <1>3, <1>4
  <2> HIDE DEF n
  <2>2. Renewed(n) \in N /\ Renewed(n).id = n.id
    BY <2>1, RenewedOK
  <2> QED
    BY <2>1, <2>2 DEF n
<1>6. ms = [i \in DOMAIN kept |-> ms[i]]
  BY <1>3
<1> HIDE DEF N
<1>7. ms \in Lists(N)
  BY <1>1, <1>2, <1>5, <1>6, ChangedLists
<1> QED
  BY <1>7 DEF N

\* A call for a port: the search s it goes on from has tid and nodes of its own already.
Called(s, port) == [s EXCEPT !.port = port, !.ports = @ \cup {port}]

\* The search of the call, before its first step.
LEMMA CalledOK ==
  ASSUME NEW s \in SearchType, NEW port \in Port, NEW ann,
         s.nodes \in Lists(Nodes(s.ports \cup {port}, ann))
  PROVE  LET t == [Called(s, port) EXCEPT !.nodes = insert_search_bucket(@)]
         IN  SearchOK(t, TRUE, ann) /\ t.tid = s.tid /\ t.ports = s.ports \cup {port}
<1> DEFINE P == s.ports \cup {port}
           N == Nodes(P, ann)
           c == Called(s, port)
           ns == s.nodes
           ms == insert_search_bucket(ns)
           t == [c EXCEPT !.nodes = insert_search_bucket(@)]
<1>1. P \in SUBSET Port
  BY DEF SearchType
<1>2. c = [s EXCEPT !.port = port, !.ports = P]
  BY DEF Called, SearchType
<1> HIDE DEF P
<1>3. /\ c \in SearchType /\ c.tid = s.tid /\ c.port = port /\ c.ports = P /\ c.nodes = s.nodes
  BY <1>1, <1>2 DEF SearchType
<1>4. N \in SUBSET NodeType /\ \A id \in Peer : NewNode(id) \in N
  BY NewNodeOK DEF Nodes
<1>5. ns \in Lists(N)
  BY DEF P
<1> HIDE DEF c, N
<1>6. ms \in Lists(N)
  <2> HIDE DEF ns
  <2> QED
    BY <1>4, <1>5, BucketLists
<1>7. ms \in Seq(NodeType)
  <2>1. ms \in Seq(N)
    BY <1>6 DEF Lists
  <2> QED
    BY <1>4, <2>1
<1>8. t = [c EXCEPT !.nodes = ms]
  BY <1>3 DEF SearchType
<1> HIDE DEF ms, t
<1>9. t \in SearchType /\ t.tid = s.tid /\ t.port = port /\ t.ports = P /\ t.nodes = ms
  BY <1>3, <1>7, <1>8 DEF SearchType
<1>10. port \in P
  BY DEF P
<1>11. SearchOK(t, TRUE, ann)
  BY <1>6, <1>9, <1>10 DEF SearchOK, N
<1> QED
  BY <1>9, <1>11 DEF t, c, P

\* A call of dht_search: the first, one that merges with the search there is, or one after it.
LEMMA SearchStep ==
  ASSUME IInv, NEW port \in Port, dht_search(port)
  PROVE  IInv'
<1> DEFINE s == IF live THEN Again(sr) ELSE Start(sr)
           t == [Called(s, port) EXCEPT !.nodes = insert_search_bucket(@)]
<1>1. /\ calls < MaxCalls /\ calls' = calls + 1 /\ live' = TRUE /\ search_time' = 0
      /\ sr' = Step(t).s /\ net' = Transmit({}, Step(t).sent)
      /\ blacklist' = blacklist /\ secret' = secret /\ oldsecret' = oldsecret
      /\ announced' = announced
  BY DEF dht_search, Called, theirs
<1>2. /\ sr \in SearchType /\ SearchOK(sr, live, announced) /\ live \in BOOLEAN /\ calls \in 0..MaxCalls
      /\ sr.tid \in Nat /\ sr.tid <= calls /\ sr.ports \in SUBSET Port
  BY SearchFields DEF IInv, Scalars
<1>3. /\ s \in SearchType /\ s.ports = sr.ports
      /\ s.nodes \in Lists(Nodes(s.ports \cup {port}, announced))
      /\ IF live THEN s.tid = sr.tid ELSE s.tid = sr.tid + 1
  <2>1. CASE live
    <3> DEFINE gone == {i \in DOMAIN sr.nodes : Doubtful(sr.nodes[i])}
               old == sr.nodes
               ms == [i \in DOMAIN Without(old, gone) |-> Renewed(Without(old, gone)[i])]
               N == Nodes(sr.ports, announced)
               M == Nodes(sr.ports \cup {port}, announced)
    <3>1. old \in Lists(N) /\ N \in SUBSET NodeType /\ M \in SUBSET NodeType
      <4>1. old \in Lists(N) /\ N \in SUBSET NodeType
        BY <1>2, SearchFields
      <4>2. M \in SUBSET NodeType
        BY DEF Nodes
      <4> QED
        BY <4>1, <4>2
    <3>2. s = [sr EXCEPT !.done = FALSE, !.nodes = ms]
      <4>1. s = Again(sr)
        BY <2>1
      <4>2. Again(sr) = [sr EXCEPT !.done = FALSE, !.nodes = ms]
        BY <1>2 DEF Again, Renewed, SearchType
      <4> QED
        BY <4>1, <4>2
    <3>3. ms \in Lists(M)
      <4> DEFINE mm == ms
      <4>1. mm = [i \in DOMAIN Without(old, gone) |-> Renewed(Without(old, gone)[i])]
        OBVIOUS
      <4> HIDE DEF mm, old, gone, N
      <4>2. mm \in Lists(M)
        BY <3>1, <4>1, RenewedLists
      <4> QED
        BY <4>2 DEF mm
    <3> HIDE DEF ms, M
    <3>4. ms \in Seq(NodeType)
      <4>1. ms \in Seq(M)
        BY <3>3 DEF Lists
      <4> QED
        BY <3>1, <4>1
    <3> HIDE DEF s
    <3>5. s \in SearchType /\ s.ports = sr.ports /\ s.tid = sr.tid /\ s.nodes = ms
      BY <1>2, <3>2, <3>4 DEF SearchType
    <3> QED
      BY <2>1, <3>3, <3>5 DEF M
  <2>2. CASE ~live
    <3>1. s = [sr EXCEPT !.tid = sr.tid + 1]
      BY <1>2, <2>2 DEF Start, SearchType
    <3> HIDE DEF s
    <3>2. s \in SearchType /\ s.ports = sr.ports /\ s.tid = sr.tid + 1 /\ s.nodes = sr.nodes
      BY <1>2, <3>1 DEF SearchType
    <3>3. sr.nodes = <<>>
      BY <1>2, <2>2 DEF SearchOK
    <3>4. \A S : <<>> \in Lists(S)
      BY SearchAssumption DEF Lists
    <3> QED
      BY <2>2, <3>2, <3>3, <3>4
  <2> QED
    BY <2>1, <2>2
<1> HIDE DEF s
<1>4. SearchOK(t, TRUE, announced) /\ t.tid = s.tid /\ t.ports = s.ports \cup {port}
  BY <1>3, CalledOK
<1> HIDE DEF t
<1>5. /\ SearchOK(Step(t).s, TRUE, announced)
      /\ Step(t).s.tid = t.tid /\ Step(t).s.ports = t.ports
      /\ \A m \in Step(t).sent : PacketOK(m, t, TRUE, announced)
  BY <1>4, StepOK
<1>6. /\ SearchOK(sr', TRUE, announced) /\ sr'.tid = s.tid /\ sr'.ports = sr.ports \cup {port}
      /\ sr'.tid = t.tid /\ sr'.ports = t.ports
  BY <1>1, <1>3, <1>4, <1>5
<1>7. net' \subseteq net \cup Step(t).sent
  BY <1>1, TransmitIn
<1>8. sr'.tid \in Nat /\ sr.tid <= sr'.tid /\ sr'.tid <= calls'
  BY <1>1, <1>2, <1>3, <1>6
<1>9. ASSUME NEW m \in net' PROVE PacketOK(m, sr', TRUE, announced)
  <2>1. CASE m \in net
    <3> DEFINE u == sr'
               still == TRUE
               alive == live
               ann == announced
               o == sr
    <3>1. PacketOK(m, o, alive, ann)
      BY <2>1 DEF IInv
    <3>2. /\ o.tid \in Nat /\ u.tid \in Nat /\ alive \in BOOLEAN /\ still \in BOOLEAN
          /\ o.tid <= u.tid
          /\ \A id \in Peer : ann[id] \subseteq ann[id]
      BY <1>2, <1>8
    <3>3. still /\ o.tid = u.tid => alive /\ o.ports \subseteq u.ports
      <4>1. ~live => sr'.tid = sr.tid + 1
        BY <1>3, <1>6
      <4>2. o.tid = u.tid => alive
        BY <1>2, <4>1
      <4>3. o.ports \subseteq u.ports
        BY <1>6
      <4> QED
        BY <4>2, <4>3
    <3> HIDE DEF u, still, alive, ann, o
    <3>4. PacketOK(m, u, still, ann)
      BY <3>1, <3>2, <3>3, PacketsStay
    <3> QED
      BY <3>4 DEF u, still, ann
  <2>2. CASE m \in Step(t).sent
    <3>1. PacketOK(m, t, TRUE, announced)
      BY <1>5, <2>2
    <3> DEFINE u == sr'
    <3>2. t.tid = u.tid /\ t.ports = u.ports
      BY <1>6
    <3> HIDE DEF u
    <3>3. PacketOK(m, u, TRUE, announced)
      BY <3>1, <3>2, PacketsSame
    <3> QED
      BY <3>3 DEF u
  <2> QED
    BY <1>7, <2>1, <2>2
<1>10. Scalars'
  <2>1. live' \in BOOLEAN /\ search_time' \in -1..(Wait + Jitter) /\ calls' \in 0..MaxCalls
    BY <1>1, <1>2, SearchAssumption
  <2> QED
    BY <1>1, <1>8, <2>1 DEF IInv, Scalars
<1>11. SearchOK(sr', live', announced') /\ \A m \in net' : PacketOK(m, sr', live', announced')
  BY <1>1, <1>6, <1>9
<1> QED
  BY <1>10, <1>11 DEF IInv

\* get_peers at a peer: the reply carries the token, if it gives one.
LEMMA GetPeersStep ==
  ASSUME IInv, NEW m \in net, get_peers(m)
  PROVE  IInv'
<1> DEFINE token == IF m.to \in Tokenless THEN NoToken ELSE secret[m.to]
           r == [type |-> "gpr", from |-> m.to, tid |-> m.tid, token |-> token]
<1>1. /\ m.type = "gp" /\ net' = Transmit({m}, {r})
      /\ sr' = sr /\ live' = live /\ search_time' = search_time /\ calls' = calls
      /\ blacklist' = blacklist /\ secret' = secret /\ oldsecret' = oldsecret
      /\ announced' = announced
  BY DEF get_peers, ours, theirs
<1>2. PacketOK(m, sr, live, announced)
  BY DEF IInv
<1>3. m.to \in Peer /\ m.tid \in Nat /\ m.tid <= sr.tid
  BY <1>1, <1>2, PacketFields
<1>4. token \in Secret \cup {NoToken} /\ (token = NoToken <=> m.to \in Tokenless)
  BY <1>3, SearchAssumption DEF IInv, Scalars
<1> HIDE DEF token
<1>5. PacketOK(r, sr, live, announced)
  BY <1>3, <1>4 DEF PacketOK, Packet
<1>6. net' \subseteq net \cup {r}
  <2> HIDE DEF r
  <2> QED
    BY <1>1, TransmitIn
<1>7. \A p \in net' : PacketOK(p, sr, live, announced)
  <2> HIDE DEF r
  <2> QED
    BY <1>5, <1>6 DEF IInv
<1>8. Scalars' /\ SearchOK(sr', live', announced') /\ \A p \in net' : PacketOK(p, sr', live', announced')
  BY <1>1, <1>7 DEF IInv, Scalars
<1> QED
  BY <1>8 DEF IInv

\* A packet is lost.
LEMMA LoseStep ==
  ASSUME IInv, NEW m \in net, Lose(m)
  PROVE  IInv'
<1>1. /\ net' = Transmit({m}, {})
      /\ sr' = sr /\ live' = live /\ search_time' = search_time /\ calls' = calls
      /\ blacklist' = blacklist /\ secret' = secret /\ oldsecret' = oldsecret
      /\ announced' = announced
  BY DEF Lose, ours, theirs
<1>2. net' \subseteq net
  BY <1>1, TransmitIn
<1>3. Scalars' /\ SearchOK(sr', live', announced') /\ \A p \in net' : PacketOK(p, sr', live', announced')
  BY <1>1, <1>2 DEF IInv, Scalars
<1> QED
  BY <1>3 DEF IInv

\* What is known of the search stays so when peers store more.
LEMMA SearchStays ==
  ASSUME NEW s, NEW alive, NEW ann, NEW anm, SearchOK(s, alive, ann),
         \A id \in Peer : ann[id] \subseteq anm[id]
  PROVE  SearchOK(s, alive, anm)
<1> DEFINE N == Nodes(s.ports, ann)
           M == Nodes(s.ports, anm)
           ns == s.nodes
<1>1. N \subseteq M
  BY NodesGrow
<1>2. ns \in Lists(N)
  BY DEF SearchOK
<1> HIDE DEF N, M, ns
<1>3. ns \in Lists(M)
  BY <1>1, <1>2 DEF Lists
<1> QED
  BY <1>3 DEF SearchOK, M, ns

\* announce_peer at a peer: a port it acknowledges is stored.
LEMMA AnnouncePeerStep ==
  ASSUME IInv, NEW m \in net, announce_peer(m)
  PROVE  IInv'
<1> DEFINE r == [type |-> "apr", from |-> m.to, tid |-> m.tid]
<1>1. /\ m.type = "ap"
      /\ sr' = sr /\ live' = live /\ search_time' = search_time /\ calls' = calls
      /\ blacklist' = blacklist /\ secret' = secret /\ oldsecret' = oldsecret
      /\ IF token_match(m.to, m.token)
           THEN /\ announced' = [announced EXCEPT ![m.to] = @ \cup {m.port}]
                /\ net' = Transmit({m}, {r})
           ELSE net' = Transmit({m}, {}) /\ announced' = announced
  BY DEF announce_peer, ours
<1>2. PacketOK(m, sr, live, announced) /\ announced \in [Peer -> SUBSET Port]
  BY DEF IInv, Scalars
<1>3. m.to \in Peer /\ m.port \in Port /\ m.tid \in Nat /\ m.tid <= sr.tid
  BY <1>1, <1>2, PacketFields
<1>4. CASE ~token_match(m.to, m.token)
  <2>1. announced' = announced /\ net' = Transmit({m}, {})
    BY <1>1, <1>4
  <2>2. net' \subseteq net
    BY <2>1, TransmitIn
  <2>3. Scalars' /\ SearchOK(sr', live', announced') /\ \A p \in net' : PacketOK(p, sr', live', announced')
    BY <1>1, <2>1, <2>2 DEF IInv, Scalars
  <2> QED
    BY <2>3 DEF IInv
<1>5. CASE token_match(m.to, m.token)
  <2> DEFINE ann == announced'
  <2>1. /\ announced' = [announced EXCEPT ![m.to] = @ \cup {m.port}]
        /\ net' = Transmit({m}, {r})
    BY <1>1, <1>5
  <2>2. /\ ann \in [Peer -> SUBSET Port] /\ m.port \in ann[m.to]
        /\ \A id \in Peer : announced[id] \subseteq ann[id]
    BY <1>2, <1>3, <2>1
  <2>3. SearchOK(sr, live, announced)
    BY DEF IInv
  <2> HIDE DEF ann
  <2>4. SearchOK(sr, live, ann)
    BY <2>2, <2>3, SearchStays
  <2>5. live /\ m.tid = sr.tid => m.port \in sr.ports
    BY <1>1, <1>2 DEF PacketOK
  <2>6. PacketOK(r, sr, live, ann)
    BY <1>3, <2>2, <2>5 DEF PacketOK, Packet
  <2>7. ASSUME NEW p \in net PROVE PacketOK(p, sr, live, ann)
    <3> DEFINE s == sr
               alive == live
               old == announced
    <3>1. /\ PacketOK(p, s, alive, old) /\ alive \in BOOLEAN /\ s.tid \in Nat /\ s.tid <= s.tid
          /\ \A id \in Peer : old[id] \subseteq ann[id]
      BY <2>2, <2>3, SearchFields DEF IInv, Scalars
    <3>2. alive /\ s.tid = s.tid => alive /\ s.ports \subseteq s.ports
      OBVIOUS
    <3> HIDE DEF s, alive, old
    <3>3. PacketOK(p, s, alive, ann)
      BY <3>1, <3>2, PacketsStay
    <3> QED
      BY <3>3 DEF s, alive
  <2>8. net' \subseteq net \cup {r}
    <3> HIDE DEF r
    <3> QED
      BY <2>1, TransmitIn
  <2>9. \A p \in net' : PacketOK(p, sr, live, ann)
    <3> HIDE DEF r
    <3> QED
      BY <2>6, <2>7, <2>8
  <2>10. Scalars'
    BY <1>1, <2>2 DEF IInv, Scalars, ann
  <2>11. SearchOK(sr', live', announced') /\ \A p \in net' : PacketOK(p, sr', live', announced')
    BY <1>1, <2>4, <2>9 DEF ann
  <2> QED
    BY <2>10, <2>11 DEF IInv
<1> QED
  BY <1>4, <1>5

\* rotate_secrets and a restart change nothing but a peer's secrets.
LEMMA SecretsStep ==
  ASSUME IInv, NEW n \in Rotating, rotate_secrets(n) \/ restart(n)
  PROVE  IInv'
<1>1. /\ sr' = sr /\ live' = live /\ search_time' = search_time /\ calls' = calls
      /\ blacklist' = blacklist /\ net' = net /\ announced' = announced
  BY DEF rotate_secrets, restart, ours
<1>2. /\ secret \in [Peer -> Secret] /\ oldsecret \in [Peer -> Secret] /\ n \in Peer
      /\ MaxSecrets \in Nat
  BY SearchAssumption DEF IInv, Scalars
<1>3. /\ secret[n] < MaxSecrets /\ secret[n] \in Secret
      /\ secret' = [secret EXCEPT ![n] = @ + 1]
      /\ oldsecret' = [oldsecret EXCEPT ![n] = secret[n]] \/ oldsecret' = [oldsecret EXCEPT ![n] = 0]
  BY <1>2 DEF rotate_secrets, restart
<1>4. secret[n] + 1 \in Secret /\ 0 \in Secret
  BY <1>2, <1>3 DEF Secret
<1>5. secret' \in [Peer -> Secret] /\ oldsecret' \in [Peer -> Secret]
  BY <1>2, <1>3, <1>4
<1>6. Scalars' /\ SearchOK(sr', live', announced') /\ \A p \in net' : PacketOK(p, sr', live', announced')
  BY <1>1, <1>5 DEF IInv, Scalars
<1> QED
  BY <1>6 DEF IInv

\* The clock.
LEMMA TickStep ==
  ASSUME IInv, Tick
  PROVE  IInv'
<1> DEFINE old == sr.nodes
           ms == [i \in DOMAIN old |-> Aged(old[i])]
           st == Least(sr.step + 1, Old)
           N == Nodes(sr.ports, announced)
<1>1. /\ sr \in SearchType /\ SearchOK(sr, live, announced) /\ live \in BOOLEAN
      /\ search_time \in -1..(Wait + Jitter)
  BY DEF IInv, Scalars, SearchOK
<1>2. /\ live' = live /\ calls' = calls /\ net' = net /\ announced' = announced
      /\ blacklist' = blacklist /\ secret' = secret /\ oldsecret' = oldsecret
      /\ search_time' = IF search_time > 0 THEN search_time - 1 ELSE search_time
  BY DEF Tick, theirs
<1>3. sr' = [sr EXCEPT !.step = st, !.nodes = ms]
  BY DEF Tick
<1>4. /\ old \in Lists(N) /\ N \in SUBSET NodeType /\ st \in Age
      /\ \A i \in DOMAIN old : old[i] \in N
  BY <1>1, SearchFields, Ages
<1>5. ASSUME NEW i \in DOMAIN old PROVE ms[i] \in N /\ ms[i].id = old[i].id
  <2> DEFINE n == old[i]
  <2>1. n \in N /\ ms[i] = Aged(n)
    BY <1>4
  <2> HIDE DEF n, ms
  <2>2. Aged(n) \in N /\ Aged(n).id = n.id
    BY <2>1, AgedOK
  <2> QED
    BY <2>1, <2>2 DEF n
<1>6. ms = [i \in DOMAIN old |-> ms[i]]
  OBVIOUS
<1>7. ms \in Lists(N) /\ (old = <<>> => ms = <<>>)
  <2>1. old = <<>> => ms = <<>>
    OBVIOUS
  <2> HIDE DEF ms, N, old
  <2> QED
    BY <1>4, <1>5, <1>6, <2>1, ChangedLists
<1> HIDE DEF ms, st
<1>8. ms \in Seq(NodeType)
  <2>1. ms \in Seq(N)
    BY <1>7 DEF Lists
  <2> HIDE DEF N
  <2> QED
    BY <1>4, <2>1
<1> DEFINE t == sr'
<1>9. t \in SearchType /\ t.tid = sr.tid /\ t.port = sr.port /\ t.ports = sr.ports /\ t.nodes = ms
  BY <1>1, <1>3, <1>4, <1>8 DEF SearchType
<1> HIDE DEF t
<1>10. SearchOK(t, live, announced)
  BY <1>1, <1>7, <1>9 DEF SearchOK
<1>11. \A m \in net : PacketOK(m, t, live, announced)
  BY <1>9, PacketsSame DEF IInv
<1>12. search_time' \in -1..(Wait + Jitter)
  BY <1>1, <1>2, SearchAssumption
<1>13. Scalars'
  BY <1>2, <1>9, <1>12 DEF IInv, Scalars, t
<1>14. SearchOK(sr', live', announced') /\ \A m \in net' : PacketOK(m, sr', live', announced')
  BY <1>2, <1>10, <1>11 DEF t
<1> QED
  BY <1>13, <1>14 DEF IInv

\* There is no search and no packet at the start.
LEMMA InitHolds == Init => IInv
<1> SUFFICES ASSUME Init PROVE IInv
  OBVIOUS
<1>1. Scalars
  <2>1. /\ MaxSecrets \in Nat \ {0} /\ MaxCalls \in Nat /\ Wait \in Nat /\ Jitter \in Nat
    BY SearchAssumption
  <2>2. 0 \in Secret /\ 1 \in Secret
    BY <2>1 DEF Secret
  <2>3. -1 \in -1..(Wait + Jitter) /\ 0 \in 0..MaxCalls
    BY <2>1
  <2>4. search_time = -1 /\ calls = 0 /\ live = FALSE /\ sr.tid = 0 /\ blacklist = {}
    BY DEF Init
  <2>6. calls \in 0..MaxCalls /\ search_time \in -1..(Wait + Jitter) /\ sr.tid <= calls
    BY <2>3, <2>4
  <2>7. live \in BOOLEAN /\ blacklist \subseteq Peer
    BY <2>4
  <2>5. /\ secret \in [Peer -> Secret] /\ oldsecret \in [Peer -> Secret]
        /\ announced \in [Peer -> SUBSET Port]
    BY <2>2 DEF Init
  <2> QED
    BY <2>5, <2>6, <2>7 DEF Scalars
<1>2. sr \in SearchType /\ sr.nodes = <<>> /\ live = FALSE /\ net = {}
  BY Ages DEF Init, SearchType
<1>3. \A S : <<>> \in Lists(S)
  BY SearchAssumption DEF Lists
<1>4. SearchOK(sr, live, announced)
  BY <1>2, <1>3 DEF SearchOK
<1> QED
  BY <1>1, <1>2, <1>4 DEF IInv

\* The invariant holds in every reachable state.
THEOREM InvariantHolds == Spec => []IInv
<1>1. Init => IInv
  BY InitHolds
<1>2. IInv /\ [Next]_vars => IInv'
  <2> SUFFICES ASSUME IInv, [Next]_vars PROVE IInv'
    OBVIOUS
  <2>1. ASSUME NEW port \in (IF calls = 0 THEN FirstPort ELSE Port), dht_search(port) PROVE IInv'
    <3>1. port \in Port
      BY SearchAssumption
    <3> QED
      BY <2>1, <3>1, SearchStep
  <2>2. ASSUME dht_periodic PROVE IInv'
    BY <2>2, IdleStep, GetPeersReplyStep, BrokenReplyStep, AnnounceReplyStep DEF dht_periodic
  <2>3. ASSUME NEW m \in net, get_peers(m) \/ announce_peer(m) \/ Lose(m) PROVE IInv'
    BY <2>3, GetPeersStep, AnnouncePeerStep, LoseStep
  <2>4. ASSUME NEW n \in Rotating, rotate_secrets(n) \/ restart(n) PROVE IInv'
    BY <2>4, SecretsStep
  <2>5. ASSUME Tick PROVE IInv'
    BY <2>5, TickStep
  <2>6. ASSUME UNCHANGED vars PROVE IInv'
    BY <2>6 DEF vars, IInv, Scalars
  <2> QED
    BY <2>1, <2>2, <2>3, <2>4, <2>5, <2>6 DEF Next
<1> QED
  BY <1>1, <1>2, PTL DEF Spec

\* Type correctness: every variable keeps its type, and no node is asked more than three times
\* in a row.
THEOREM TypeCorrect == Spec => []TypeOK
<1>1. IInv => TypeOK
  <2> SUFFICES ASSUME IInv PROVE TypeOK
    OBVIOUS
  <2>1. SearchOK(sr, live, announced)
    BY DEF IInv
  <2>2. /\ sr.tid \in Nat /\ sr.port \in Port \cup {0} /\ sr.ports \in SUBSET Port
        /\ sr.done \in BOOLEAN /\ sr.step \in Age
        /\ \A i \in DOMAIN sr.nodes : sr.nodes[i] \in NodeType
    BY <2>1, SearchFields
  <2>3. sr.tid \in 0..MaxCalls
    BY <2>2, SearchAssumption DEF IInv, Scalars
  <2> QED
    BY <2>2, <2>3 DEF IInv, Scalars, TypeOK, NodeType
<1> QED
  BY <1>1, InvariantHolds, PTL

\* The nodes of a search are in the order of their distance to the hash, none twice and no more
\* than SEARCH_NODES, whatever is inserted, flushed and dropped.
THEOREM SearchIsSorted == Spec => []NodesInOrder
<1>1. IInv => NodesInOrder
  <2> SUFFICES ASSUME IInv PROVE NodesInOrder
    OBVIOUS
  <2>1. sr.nodes \in Lists(Nodes(sr.ports, announced))
    BY DEF IInv, SearchOK
  <2> QED
    BY <2>1 DEF Lists, NodesInOrder
<1> QED
  BY <1>1, InvariantHolds, PTL

\* A node counted as having taken our announcement has stored it, if it gives tokens at all: lost,
\* late and reordered packets, expired and repeated searches, rotated secrets and restarts included.
THEOREM AcknowledgedIsStored == Spec => []AckMeansStored
<1>1. IInv => AckMeansStored
  <2> SUFFICES ASSUME IInv, NEW i \in DOMAIN sr.nodes, sr.nodes[i].acked, sr.nodes[i].token # NoToken
               PROVE  announced[sr.nodes[i].id] \cap sr.ports # {}
    BY DEF AckMeansStored
  <2>1. sr.nodes[i] \in Nodes(sr.ports, announced)
    BY SearchFields DEF IInv
  <2> QED
    BY <2>1 DEF Nodes
<1> QED
  BY <1>1, InvariantHolds, PTL
=============================================================================
