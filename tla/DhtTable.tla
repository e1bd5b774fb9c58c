------------------------------ MODULE DhtTable ------------------------------
(***************************************************************************)
(* routing/dht.c: the routing table of the Kademlia DHT, one address       *)
(* family of it.  A sorted list of buckets, each an unordered list of at   *)
(* most K nodes and the address of one candidate; a ring of addresses that *)
(* are not listened to.  dht_periodic handles a packet and then whatever   *)
(* timers are due, the API adds nodes and restarts the DHT.                *)
(*                                                                         *)
(* Ids are numbers of Bits bits.  A time stamp is kept as its age in steps *)
(* of the clock, up to Old: the code only compares ages with the constants *)
(* below, and a stamp of 0 (never) is older than all of them.              *)
(***************************************************************************)
EXTENDS Integers, FiniteSets, Sequences, SequencesExt

CONSTANTS
  Bits,            \* length of an id; 160 in the code
  K,               \* nodes in a bucket and in a reply; 8
  myid,
  Contact,         \* who may turn up: records of an id and an address
  Broken,          \* those of them that may send broken replies
  NoAddr,
  MaxBlacklisted,  \* DHT_MAX_BLACKLISTED; 10
  PingWait,        \* 15 seconds: how long a request may stay unanswered
  Recent,          \* 600 and 900 seconds: a bucket, a node heard of lately
  Answered         \* 7200 seconds: a reply that still counts

\* The powers of two a number of Bits bits is made of.
Pow2[k \in 0..Bits] == IF k = 0 THEN 1 ELSE 2 * Pow2[k - 1]

Id == 0..(Pow2[Bits] - 1)
Addr == {c.addr : c \in Contact}
Old == Answered + 1

ASSUME TableAssumption ==
  /\ Bits \in Nat \ {0} /\ K \in Nat \ {0} /\ MaxBlacklisted \in Nat \ {0}
  /\ myid \in Id /\ NoAddr \notin Addr
  /\ \A c \in Contact : c.id \in Id
  /\ Broken \subseteq Contact
  /\ PingWait \in Nat /\ Recent \in Nat /\ Answered \in Nat
  /\ PingWait <= Recent /\ Recent <= Answered

VARIABLES
  running,          \* between dht_init and dht_uninit
  buckets,          \* records [first, time, nodes, count, cached]
  mybucket_grow,    \* age of mybucket_grow_time
  blacklist, next_blacklisted,
  recursing,        \* new_node called itself more often than there are bits
  offenders         \* history: the last MaxBlacklisted addresses blacklisted since dht_init

table == [buckets |-> buckets, grow |-> mybucket_grow, again |-> recursing]
vars == <<running, buckets, mybucket_grow, blacklist, next_blacklisted, recursing,
          offenders>>

Smaller(x, y) == IF x < y THEN x ELSE y
Larger(x, y) == IF x > y THEN x ELSE y

(***************************************************************************)
(* Ids                                                                     *)
(***************************************************************************)
\* Bit number k of an id; bits are numbered from the start.
Bit(id, k) == (id \div Pow2[Bits - 1 - k]) % 2

\* The lowest 1 bit of an id, -1 if there is none.
lowbit(id) ==
  IF id = 0 THEN -1
  ELSE CHOOSE k \in 0..Bits-1 : Bit(id, k) = 1 /\ \A j \in k+1..Bits-1 : Bit(id, j) = 0

\* Mutant: the comparison is on the ids, not on their distance.
CloserTo_PlainOrder(id1, id2, ref) == id1 < id2

\* xorcmp(id1, id2, ref) < 0: at the first bit in which they differ id1 has ref's.
CloserTo(id1, id2, ref) ==
  \E k \in 0..Bits-1 :
    /\ Bit(id1, k) # Bit(id2, k) /\ Bit(id1, k) = Bit(ref, k)
    /\ \A j \in 0..k-1 : Bit(id1, j) = Bit(id2, j)

(***************************************************************************)
(* Buckets: bs is the list, i an index into it                             *)
(***************************************************************************)
in_bucket(id, bs, i) ==
  bs[i].first <= id /\ (i = Len(bs) \/ id < bs[i + 1].first)

find_bucket(id, bs) ==
  CHOOSE i \in 1..Len(bs) :
    /\ i = Len(bs) \/ id < bs[i + 1].first
    /\ \A j \in 1..i-1 : ~(id < bs[j + 1].first)

\* The position of a node in its bucket, 0 if it is not there.
find_node(id, bs) ==
  LET nodes == bs[find_bucket(id, bs)].nodes
  IN SelectInSeq(nodes, LAMBDA n : n.id = id)

\* Mutant: the new bucket starts where the old one does.
bucket_middle_SameBit(bs, i) ==
  LET bit == Larger(lowbit(bs[i].first),
                    IF i < Len(bs) THEN lowbit(bs[i + 1].first) ELSE -1)
  IN IF bit >= Bits THEN -1 ELSE IF bit < 0 THEN Pow2[Bits - 1] ELSE bs[i].first

\* The id in the middle of a bucket, -1 if it has only one.
bucket_middle(bs, i) ==
  LET bit == 1 + Larger(lowbit(bs[i].first),
                        IF i < Len(bs) THEN lowbit(bs[i + 1].first) ELSE -1)
  IN IF bit >= Bits THEN -1 ELSE bs[i].first + Pow2[Bits - 1 - bit]

\* A known-good node.
node_good(n) == n.pinged <= 2 /\ n.reply_time <= Answered /\ n.time <= Recent

\* The cached candidate is pinged, and forgotten.
send_cached_ping(b) == [b EXCEPT !.cached = NoAddr]

\* A request to the node at position p: its count of unanswered requests goes up
\* (4 stands for more: the code tells apart 2, 3 and 4), and at the third one a candidate
\* is tried.
Asked(b, p) ==
  [b EXCEPT !.nodes[p].pinged = Smaller(@ + 1, 4), !.nodes[p].pinged_time = 0]

pinged(b, p) ==
  IF Asked(b, p).nodes[p].pinged >= 3 THEN send_cached_ping(Asked(b, p)) ELSE Asked(b, p)

\* The nodes of a list that are in S, in their order.
Kept(nodes, S) ==
  LET upto[k \in 0..Len(nodes)] ==
        IF k = 0 THEN <<>>
        ELSE IF nodes[k] \in S THEN Append(upto[k - 1], nodes[k]) ELSE upto[k - 1]
  IN upto[Len(nodes)]

\* Both halves get their nodes back in reverse: insert_node puts each one in front.
split_bucket(bs, i) ==
  LET mid == bucket_middle(bs, i)
      b   == send_cached_ping(bs[i])
      lower == {n \in Range(b.nodes) : n.id < mid}
      low  == Reverse(Kept(b.nodes, lower))
      high == Reverse(Kept(b.nodes, Range(b.nodes) \ lower))
  IN IF mid = -1 THEN bs
     ELSE SubSeq(bs, 1, i - 1)
          \o << [b EXCEPT !.nodes = low, !.count = Len(low)],
                [b EXCEPT !.first = mid, !.nodes = high, !.count = Len(high)] >>
          \o SubSeq(bs, i + 1, Len(bs))

(***************************************************************************)
(* new_node, from a record t of the table to the next                      *)
(***************************************************************************)
Fresh(c, confirm) ==
  [ id |-> c.id, addr |-> c.addr, time |-> IF confirm > 0 THEN 0 ELSE Old,
    reply_time |-> IF confirm = 2 THEN 0 ELSE Old, pinged_time |-> Old, pinged |-> 0 ]

\* A node we know: its address and times, if it spoke or was not heard of lately.
Known(n, c, confirm) ==
  IF confirm = 0 /\ n.time <= Recent THEN n
  ELSE [ n EXCEPT !.addr = c.addr, !.time = IF confirm > 0 THEN 0 ELSE @,
                  !.reply_time = IF confirm = 2 THEN 0 ELSE @,
                  !.pinged = IF confirm = 2 THEN 0 ELSE @,
                  !.pinged_time = IF confirm = 2 THEN Old ELSE @ ]

\* Mutant: a node is given up as soon as it is dubious.
Bad_Dubious(n) == ~node_good(n) /\ n.pinged_time > PingWait

\* Three requests went unanswered, the last of them long enough ago.
Bad(n) == n.pinged >= 3 /\ n.pinged_time > PingWait

\* The bucket is full: the first dubious node that has not just been asked is pinged.  Our
\* own bucket is split if it has no dubious node or is the only one, and new_node starts
\* again; otherwise the address is kept for later.
Full(t, i, c, confirm, mine) ==
  LET b == t.buckets[i]
      p == SelectInSeq(b.nodes, LAMBDA n : ~node_good(n) /\ n.pinged_time > PingWait)
      dubious == \E q \in 1..Len(b.nodes) : ~node_good(b.nodes[q])
      b1 == IF p # 0 THEN Asked(b, p) ELSE b
      b2 == IF confirm > 0 \/ b1.cached = NoAddr THEN [b1 EXCEPT !.cached = c.addr] ELSE b1
  IN IF mine /\ (~dubious \/ Len(t.buckets) = 1)
       THEN [t EXCEPT !.buckets = split_bucket([@ EXCEPT ![i] = b1], i), !.again = TRUE]
       ELSE [t EXCEPT !.buckets[i] = b2]

Round(t, c, confirm) ==
  LET i    == find_bucket(c.id, t.buckets)
      mine == in_bucket(myid, t.buckets, i)
      p    == find_node(c.id, t.buckets)
      t1   == IF confirm = 2 THEN [t EXCEPT !.buckets[i].time = 0] ELSE t
      t2   == IF mine THEN [t1 EXCEPT !.grow = 0] ELSE t1
      b    == t1.buckets[i]
      bad  == SelectInSeq(b.nodes, Bad)
  IN IF p # 0 THEN [t1 EXCEPT !.buckets[i].nodes[p] = Known(@, c, confirm)]
     ELSE IF bad # 0 THEN [t2 EXCEPT !.buckets[i].nodes[bad] = Fresh(c, confirm)]
     ELSE IF b.count >= K THEN Full(t2, i, c, confirm, mine)
     ELSE [t2 EXCEPT !.buckets[i].nodes = <<Fresh(c, confirm)>> \o @,
                     !.buckets[i].count = @ + 1]

node_blacklisted(addr) == \E k \in 0..MaxBlacklisted-1 : blacklist[k] = addr

Refused(c) == c.id = myid \/ node_blacklisted(c.addr)

\* A bucket of one id cannot be split, and Bits + 1 rounds reach one: if the last of them
\* still asks for another the recursion does not end.
new_node(t, c, confirm) ==
  IF Refused(c) THEN t
  ELSE LET rounds[k \in 0..Bits+1] ==
             IF k = 0 THEN [t EXCEPT !.again = TRUE]
             ELSE LET u == rounds[k - 1]
                  IN IF u.again THEN Round([u EXCEPT !.again = FALSE], c, confirm) ELSE u
       IN rounds[Bits + 1]

\* Known-bad nodes are purged; a bucket that lost one tries its candidate.
expire_buckets(t) ==
  [t EXCEPT !.buckets =
     [i \in DOMAIN @ |->
        LET b == @[i]
            left == Kept(b.nodes, {n \in Range(b.nodes) : n.pinged < 4})
        IN IF Len(left) = Len(b.nodes) THEN b
           ELSE send_cached_ping([b EXCEPT !.nodes = left, !.count = Len(left)])]]

(***************************************************************************)
(* Maintenance: a find_node request to a random node, as a set of outcomes *)
(***************************************************************************)
\* Where the node is taken from: the bucket, its successor if it is empty or by chance,
\* its predecessor likewise.
Source(bs, i) ==
  LET s1 == {i} \cup (IF i < Len(bs) THEN {i + 1} ELSE {})
      s2 == IF bs[i].count = 0 /\ i < Len(bs) THEN {i + 1} ELSE s1
      back == IF i > 1 /\ bs[i - 1].count > 0 THEN {i - 1} ELSE {}
  IN {q \in s2 : bs[q].count > 0 \/ back = {}} \cup back

Ask(t, i) ==
  UNION {{[t EXCEPT !.buckets[q] = pinged(@, p)] : p \in 1..Len(t.buckets[q].nodes)}
           : q \in Source(t.buckets, i)}

\* The source drawn for bucket i may have no node.
Nobody(t, i) == \E q \in Source(t.buckets, i) : t.buckets[q].count = 0

Stale(t) == {i \in 1..Len(t.buckets) : t.buckets[i].time > Recent}

\* The first stale bucket for which there is somebody to ask.
bucket_maintenance(t) ==
  UNION {Ask(t, i) : i \in {j \in Stale(t) : \A k \in Stale(t) : k < j => Nobody(t, k)}}

neighbourhood_maintenance(t) ==
  LET i == find_bucket(myid, t.buckets)
  IN IF t.grow > Recent THEN {t}
     ELSE Ask(t, i) \cup (IF Nobody(t, i) THEN {t} ELSE {})

\* Our own neighbourhood is looked after when no bucket needed it.
Confirm(t) ==
  bucket_maintenance(t)
    \cup (IF \A i \in Stale(t) : Nobody(t, i) THEN neighbourhood_maintenance(t) ELSE {})

(***************************************************************************)
(* The handler                                                             *)
(***************************************************************************)
\* A node that truncates transaction ids: it is made easy to discard.
Discard(t, c) ==
  LET i == find_bucket(c.id, t.buckets)
      p == find_node(c.id, t.buckets)
  IN IF p = 0 THEN t
     ELSE [t EXCEPT !.buckets[i] = pinged([@ EXCEPT !.nodes[p].pinged = 3], p)]

\* A reply to find_node or get_peers: its sender, then a node it names.
Learn(t, c, other) == new_node(new_node(t, c, 2), other, 0)

\* What a packet from c does.  A request is handled if the token bucket has a token, so
\* it may be dropped; that a search the reply belongs to is gone makes it a mere message.
Handled(t, c) ==
  { new_node(t, c, 2) } \cup { new_node(t, c, 1) }
  \cup { Learn(t, c, o) : o \in Contact }

Timers(t) ==
  LET e == {t, expire_buckets(t)} IN e \cup UNION {Confirm(u) : u \in e}

SetTable(t) == buckets' = t.buckets /\ mybucket_grow' = t.grow /\ recursing' = t.again

\* dht_periodic with nothing to read, or with a packet that is dropped: from a blacklisted
\* address, our own id or over the rate limit.
dht_periodic_idle ==
  /\ running
  /\ \E t \in Timers(table) : SetTable(t)
  /\ UNCHANGED <<running, blacklist, next_blacklisted, offenders>>

dht_periodic(c) ==
  /\ running /\ ~node_blacklisted(c.addr) /\ c.id # myid
  /\ \E h \in Handled(table, c) : \E t \in Timers(h) : SetTable(t)
  /\ UNCHANGED <<running, blacklist, next_blacklisted, offenders>>

\* Mutant: the address is written, but the slot is used again.
blacklist_node_SameSlot(c) ==
  /\ blacklist' = [blacklist EXCEPT ![next_blacklisted] = c.addr]
  /\ UNCHANGED next_blacklisted

\* Mutant: the ring has no end.
blacklist_node_NoWrap(c) ==
  /\ blacklist' = [blacklist EXCEPT ![next_blacklisted] = c.addr]
  /\ next_blacklisted' = next_blacklisted + 1

blacklist_node(c) ==
  /\ blacklist' = [blacklist EXCEPT ![next_blacklisted] = c.addr]
  /\ next_blacklisted' = (next_blacklisted + 1) % MaxBlacklisted

\* A broken reply: the timers then run on the table without that node's good name.
dht_periodic_broken(c) ==
  /\ running /\ ~node_blacklisted(c.addr) /\ c.id # myid
  /\ \E t \in Timers(Discard(table, c)) : SetTable(t)
  /\ blacklist_node(c)
  /\ offenders' = LET all == Append(offenders, c.addr)
                  IN SubSeq(all, Larger(1, Len(all) - MaxBlacklisted + 1), Len(all))
  /\ UNCHANGED running

dht_insert_node(c) ==
  /\ running
  /\ SetTable(new_node(table, c, 0))
  /\ UNCHANGED <<running, blacklist, next_blacklisted, offenders>>

\* A search sends a request to a node that is also in the table.
search_asks(i) ==
  /\ running
  /\ \E p \in 1..Len(buckets[i].nodes) : buckets' = [buckets EXCEPT ![i] = pinged(@, p)]
  /\ UNCHANGED <<running, mybucket_grow, blacklist, next_blacklisted, recursing, offenders>>

\* The clock moves on.
Aged(age) == Smaller(age + 1, Old)

Later(n) == [n EXCEPT !.time = Aged(@), !.reply_time = Aged(@), !.pinged_time = Aged(@)]

Tick ==
  /\ running
  /\ buckets' = [i \in DOMAIN buckets |->
       [buckets[i] EXCEPT !.time = Aged(@), !.nodes = [p \in DOMAIN @ |-> Later(@[p])]]]
  /\ mybucket_grow' = Aged(mybucket_grow)
  /\ UNCHANGED <<running, blacklist, next_blacklisted, recursing, offenders>>

Empty == << [first |-> 0, time |-> Old, nodes |-> <<>>, count |-> 0, cached |-> NoAddr] >>

Init ==
  /\ running = FALSE
  /\ buckets = <<>> /\ mybucket_grow = 0 /\ recursing = FALSE
  /\ blacklist = [k \in 0..MaxBlacklisted-1 |-> NoAddr]
  /\ next_blacklisted = 0 /\ offenders = <<>>

\* The blacklist keeps its addresses from before, the ring starts again.
dht_init ==
  /\ ~running
  /\ running' = TRUE
  /\ buckets' = Empty
  /\ mybucket_grow' = 0
  /\ next_blacklisted' = 0 /\ offenders' = <<>>
  /\ UNCHANGED <<blacklist, recursing>>

dht_uninit ==
  /\ running
  /\ running' = FALSE
  /\ buckets' = <<>>
  /\ UNCHANGED <<mybucket_grow, blacklist, next_blacklisted, recursing, offenders>>

Next ==
  \/ dht_init \/ dht_uninit \/ Tick
  \/ dht_periodic_idle
  \/ \E i \in 1..Len(buckets) : search_asks(i)
  \/ \E c \in Contact : dht_periodic(c) \/ dht_insert_node(c)
  \/ \E c \in Broken : dht_periodic_broken(c)

Spec == Init /\ [][Next]_vars
-----------------------------------------------------------------------------
(***************************************************************************)
(* What the table is read for                                              *)
(***************************************************************************)
\* insert_closest_node: before the first one that is farther; at most K are kept.
insert_closest_node(nodes, n, id) ==
  LET p == SelectInSeq(nodes, LAMBDA m : m.id = n.id \/ CloserTo(n.id, m.id, id))
      i == IF p = 0 THEN Len(nodes) + 1 ELSE p
      all == SubSeq(nodes, 1, i - 1) \o <<n>> \o SubSeq(nodes, i, Len(nodes))
  IN IF i <= Len(nodes) /\ nodes[i].id = n.id THEN nodes
     ELSE SubSeq(all, 1, Smaller(K, Len(all)))

buffer_closest_nodes(nodes, id, b) ==
  LET upto[k \in 0..Len(b.nodes)] ==
        IF k = 0 THEN nodes
        ELSE IF node_good(b.nodes[k]) THEN insert_closest_node(upto[k - 1], b.nodes[k], id)
        ELSE upto[k - 1]
  IN upto[Len(b.nodes)]

\* The nodes a reply about id names: from its bucket, the next one and the one before.
send_closest_nodes(id) ==
  LET i == find_bucket(id, buckets)
      own  == buffer_closest_nodes(<<>>, id, buckets[i])
      next == IF i < Len(buckets) THEN buffer_closest_nodes(own, id, buckets[i + 1]) ELSE own
  IN IF i > 1 THEN buffer_closest_nodes(next, id, buckets[i - 1]) ELSE next

-----------------------------------------------------------------------------
Nodes(bs) == UNION {Range(bs[i].nodes) : i \in DOMAIN bs}
Ids(bs) == {n.id : n \in Nodes(bs)}

Age == 0..Old

Node == [id : Id, addr : Addr, time : Age, reply_time : Age, pinged_time : Age, pinged : 0..4]

\* Every variable has its type, the count of a bucket and the place in the ring of
\* blacklisted addresses included.
TypeOK ==
  /\ running \in BOOLEAN /\ recursing \in BOOLEAN
  /\ \A i \in DOMAIN buckets :
       /\ buckets[i].first \in Id /\ buckets[i].time \in Age
       /\ buckets[i].cached \in Addr \cup {NoAddr}
       /\ buckets[i].count \in 0..K
       /\ \A p \in DOMAIN buckets[i].nodes : buckets[i].nodes[p] \in Node
  /\ mybucket_grow \in Age
  /\ blacklist \in [0..MaxBlacklisted-1 -> Addr \cup {NoAddr}]
  /\ next_blacklisted \in 0..MaxBlacklisted-1

\* Splitting, replacing and expiring keep the table a partition of the ids: the buckets
\* are in order from 0, each holds the nodes of its range and no others, as many as it
\* counts and K at most, no id twice and never our own; and new_node never calls itself
\* for a bucket that cannot be split.
TableIsPartition ==
  running =>
    /\ ~recursing
    /\ buckets[1].first = 0
    /\ \A i \in 1..Len(buckets)-1 : buckets[i].first < buckets[i + 1].first
    /\ \A i \in DOMAIN buckets :
         /\ buckets[i].count = Len(buckets[i].nodes) /\ buckets[i].count <= K
         /\ \A p \in DOMAIN buckets[i].nodes :
              LET n == buckets[i].nodes[p]
              IN /\ in_bucket(n.id, buckets, i) /\ n.id # myid
                 /\ \A q \in DOMAIN buckets[i].nodes : buckets[i].nodes[q].id = n.id => q = p

\* The distance of the Kademlia papers.
Distance ==
  [id1 \in Id |-> [id2 \in Id |->
     LET first[k \in 0..Bits] ==   \* of the first k bits
           IF k = 0 THEN 0
           ELSE 2 * first[k - 1] + (IF Bit(id1, k - 1) = Bit(id2, k - 1) THEN 0 ELSE 1)
     IN first[Bits]]]

\* A reply names good nodes in the order of their distance to what was asked, and begins
\* with the closest good node of the whole table whenever the target's own bucket has a
\* good one; of the nodes looked at it leaves one out only for K closer ones.
ReplyIsClosest ==
  running =>
    \A id \in Id :
      LET r == send_closest_nodes(id)
          i == find_bucket(id, buckets)
          near == UNION {Range(buckets[j].nodes) : j \in {i - 1, i, i + 1} \cap DOMAIN buckets}
          good(ns) == {n \in ns : node_good(n)}
          d(n) == Distance[n.id][id]
      IN /\ \A k \in 1..Len(r)-1 : d(r[k]) < d(r[k + 1])
         /\ Range(r) \subseteq good(near)
         /\ \A n \in good(near) \ Range(r) : Len(r) = K /\ d(r[K]) < d(n)
         /\ good(Range(buckets[i].nodes)) # {} =>
              \A n \in good(Nodes(buckets)) : d(r[1]) <= d(n)

\* A node leaves the table only when three requests to it went unanswered before, or
\* because it just sent a broken reply: however many nodes turn up, in whatever order, they
\* do not push out one that answers.
OnlySilentNodesLeave ==
  [][running /\ running' =>
       \A n \in Nodes(buckets) :
         n.id \notin Ids(buckets') =>
           \/ n.pinged >= 3
           \/ \E c \in Contact : c.id = n.id /\ ~node_blacklisted(c.addr)
                               /\ node_blacklisted(c.addr)']_vars

\* The last MaxBlacklisted offenders are not listened to, whoever names them: no node gets
\* such an address, and one that had it is not confirmed by it.
OffendersStayOut ==
  [][running /\ running' =>
       \A m \in Nodes(buckets') : m.addr \in Range(offenders) =>
         \E n \in Nodes(buckets) :
           n.id = m.id /\ n.addr = m.addr /\ m.reply_time >= n.reply_time]_vars
=============================================================================
