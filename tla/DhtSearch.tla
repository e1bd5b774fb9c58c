----------------------------- MODULE DhtSearch ------------------------------
(***************************************************************************)
(* routing/dht.c: a search for one hash, and the announcement that follows *)
(* it, over a network that loses and reorders packets.  Peers answer with  *)
(* the same code: get_peers hands out a token, announce_peer stores the    *)
(* caller if the token was made with the current secret or the one before. *)
(*                                                                         *)
(* Only the distance of a peer to the hash matters, so peers are numbers   *)
(* and a smaller one is closer.  Time stamps are ages up to Old, in steps  *)
(* of the clock; a stamp of 0 is Old.                                      *)
(***************************************************************************)
EXTENDS Integers, FiniteSets, Sequences, SequencesExt

CONSTANTS
  Peer,          \* the other nodes of the DHT
  Known,         \* those our routing table has near the hash
  Tokenless,     \* those that omit the token, as full ones may
  Broken,        \* those whose list of nodes may be malformed
  Rotating,      \* bound: those that change their secret or restart meanwhile
  SEARCH_NODES,  \* nodes a search keeps; 14 in the code
  Goal,          \* how many of the closest must have replied; 8
  Parallel,      \* requests sent by one step; 3
  Port,          \* ports our caller announces; 0: it only searches
  FirstPort,     \* bound: those of its first call, to save ones that differ in name only
  Short,         \* 5 seconds
  Wait,          \* 15 seconds
  Jitter,        \* up to 9 seconds more between two steps
  Expire,        \* DHT_SEARCH_EXPIRE_TIME
  Answered,      \* 7200 seconds
  MaxCalls,      \* bound: calls of dht_search
  MaxSecrets,    \* bound: secrets a peer uses
  MaxPackets,    \* bound: packets under way, more of them are lost
  NoToken

Old == Answered + 1
Age == 0..Old
Secret == 0..MaxSecrets

ASSUME SearchAssumption ==
  /\ Peer \subseteq Nat /\ IsFiniteSet(Peer) /\ Known \subseteq Peer
  /\ Tokenless \subseteq Peer /\ Broken \subseteq Peer /\ Rotating \subseteq Peer
  /\ SEARCH_NODES \in Nat \ {0} /\ Goal \in Nat \ {0} /\ Parallel \in Nat \ {0}
  /\ Port \subseteq Nat /\ FirstPort \subseteq Port /\ NoToken \notin Secret
  /\ Short \in Nat \ {0} /\ {Wait, Jitter, Expire, Answered} \subseteq Nat
  /\ Short <= Wait + 1 /\ Wait + Jitter < Expire /\ Expire <= Answered
  /\ MaxCalls \in Nat /\ MaxSecrets \in Nat \ {0} /\ MaxPackets \in Nat

VARIABLES
  sr,                  \* the search: nodes, port, tid, done, step (age of step_time);
                       \* history: ports, the ones it has been called for
  live,                \* whether there is a struct search for the hash
  search_time,         \* how far off the next step is; -1: no step is due
  calls,
  net,                 \* packets under way
  blacklist,
  secret, oldsecret,   \* of each peer
  announced            \* the ports each peer has stored for us, whether it still has them

vars == <<sr, live, search_time, calls, net, blacklist, secret, oldsecret, announced>>
ours == <<sr, live, search_time, calls, blacklist>>
theirs == <<secret, oldsecret, announced>>

Least(x, y) == IF x < y THEN x ELSE y

\* The network with some packets delivered and others sent.
Transmit(received, sent) ==
  LET all == (net \ received) \cup sent
  IN IF Cardinality(all) <= MaxPackets THEN all ELSE net \ received

(***************************************************************************)
(* The list of search nodes                                                *)
(***************************************************************************)
NewNode(id) ==
  [ id |-> id, request_time |-> Old, reply_time |-> Old, pinged |-> 0, token |-> NoToken,
    replied |-> FALSE, acked |-> FALSE ]

\* A node replied, with or without a token.
Replied(n, token) ==
  [ n EXCEPT !.replied = TRUE, !.reply_time = 0, !.request_time = Old, !.pinged = 0,
             !.token = token ]

\* Where a node is or belongs.
Place(nodes, id) ==
  LET p == SelectInSeq(nodes, LAMBDA n : id <= n.id) IN IF p = 0 THEN Len(nodes) + 1 ELSE p

Has(nodes, id) == \E i \in DOMAIN nodes : nodes[i].id = id

\* Mutant: a node that is there already is put in front of itself.
insert_search_node_Twice(nodes, id) ==
  LET i == Place(nodes, id)
      all == SubSeq(nodes, 1, i - 1) \o <<NewNode(id)>> \o SubSeq(nodes, i, Len(nodes))
  IN SubSeq(all, 1, Least(Len(all), SEARCH_NODES))

\* A candidate takes its place, and the last one falls off the end of a full list.
insert_search_node(nodes, id) ==
  LET i == Place(nodes, id)
      all == SubSeq(nodes, 1, i - 1) \o <<NewNode(id)>> \o SubSeq(nodes, i, Len(nodes))
  IN IF Has(nodes, id) THEN nodes ELSE SubSeq(all, 1, Least(Len(all), SEARCH_NODES))

\* The same for the sender of a reply.
insert_replied(nodes, id, token) ==
  LET ns == insert_search_node(nodes, id)
  IN [i \in DOMAIN ns |-> IF ns[i].id = id THEN Replied(ns[i], token) ELSE ns[i]]

\* The nodes that are not at the positions gone.  (SelectSeq has no definition for the prover.)
Without(nodes, gone) ==
  LET upto[k \in 0..Len(nodes)] ==
        IF k = 0 THEN <<>>
        ELSE IF k \in gone THEN upto[k - 1] ELSE Append(upto[k - 1], nodes[k])
  IN upto[Len(nodes)]

flush_search_node(nodes, id) == Without(nodes, {i \in DOMAIN nodes : nodes[i].id = id})

insert_search_bucket(nodes) ==
  LET ids == SetToSeq(Known)
      upto[k \in 0..Len(ids)] ==
        IF k = 0 THEN nodes ELSE insert_search_node(upto[k - 1], ids[k])
  IN upto[Len(ids)]

(***************************************************************************)
(* Requests: a record [nodes, sent] of the list and the packets of a step  *)
(***************************************************************************)
\* Mutant: unanswered requests are not counted.
Asked_Uncounted(n) == [n EXCEPT !.request_time = 0]

Asked(n) == [n EXCEPT !.pinged = @ + 1, !.request_time = 0]

\* Mutant: one request too many.
Eligible_OneMore(n) == n.pinged <= 3 /\ ~n.replied /\ n.request_time > Wait

Eligible(n) == n.pinged < 3 /\ ~n.replied /\ n.request_time > Wait

\* get_peers to the nodes at the positions in who.
GetPeers(s, who) ==
  [ nodes |-> [i \in DOMAIN s.nodes |-> IF i \in who THEN Asked(s.nodes[i]) ELSE s.nodes[i]],
    sent  |-> {[type |-> "gp", to |-> s.nodes[i].id, tid |-> s.tid] : i \in who} ]

\* search_send_get_peers without a node: the last one that may be asked.
AskOne(s) ==
  GetPeers(s, {i \in DOMAIN s.nodes :
                 Eligible(s.nodes[i])
                 /\ \A j \in i+1..Len(s.nodes) : ~Eligible(s.nodes[j])})

\* The first Goal nodes that have not been given up.
Foremost(nodes) ==
  {i \in DOMAIN nodes :
     nodes[i].pinged < 3 /\ Cardinality({j \in 1..i-1 : nodes[j].pinged < 3}) < Goal}

AllReplied(nodes) == \A i \in Foremost(nodes) : nodes[i].replied

\* A node that gave no token takes no announcement.
ToAnnounce(nodes) == {i \in Foremost(nodes) : nodes[i].token # NoToken /\ ~nodes[i].acked}

\* Mutant: without a token there is nothing to wait for, and with one neither.
Announce_AckedAtOnce(s) ==
  [ nodes |-> [i \in DOMAIN s.nodes |->
                 IF i \in Foremost(s.nodes) THEN [s.nodes[i] EXCEPT !.acked = TRUE]
                 ELSE s.nodes[i]],
    sent  |-> {} ]

Announce(s) ==
  LET who == ToAnnounce(s.nodes)
  IN [ nodes |-> [i \in DOMAIN s.nodes |->
                    IF i \in who THEN Asked(s.nodes[i])
                    ELSE IF i \in Foremost(s.nodes) THEN [s.nodes[i] EXCEPT !.acked = TRUE]
                    ELSE s.nodes[i]],
       sent  |-> {[type |-> "ap", to |-> s.nodes[i].id, tid |-> s.tid, port |-> s.port,
                   token |-> s.nodes[i].token] : i \in who} ]

\* search_step: the search s after it, and what is sent.
Step(s) ==
  LET eligible == {i \in DOMAIN s.nodes : Eligible(s.nodes[i])}
      first == {i \in eligible : Cardinality({j \in eligible : j < i}) < Parallel}
      get == GetPeers(s, first)
      ann == Announce(s)
      stepped(o, done) == [ s |-> [s EXCEPT !.nodes = o.nodes, !.step = 0, !.done = done],
                            sent |-> o.sent ]
  IN IF AllReplied(s.nodes)
       THEN IF s.port = 0 THEN stepped([nodes |-> s.nodes, sent |-> {}], TRUE)
            ELSE stepped(ann, ToAnnounce(s.nodes) = {})
       ELSE IF s.step <= Wait THEN [s |-> s, sent |-> {}]
       ELSE stepped(get, FALSE)

(***************************************************************************)
(* dht_search, called by the thread of dht_periodic                        *)
(***************************************************************************)
Doubtful(n) == n.pinged >= 3 \/ n.reply_time > Answered

\* A search for the same hash is used again, with its tid: doubtful nodes are dropped, the
\* others are to be asked again.
Again(s) ==
  [ s EXCEPT !.done = FALSE,
      !.nodes = LET kept == Without(@, {i \in DOMAIN @ : Doubtful(@[i])})
                IN [i \in DOMAIN kept |->
                      [kept[i] EXCEPT !.pinged = 0, !.token = NoToken, !.replied = FALSE,
                                      !.acked = FALSE]] ]

\* Nothing is left of an expired search; search_id goes on counting.
Freed(s) == [s EXCEPT !.port = 0, !.ports = {}, !.step = Old, !.done = FALSE, !.nodes = <<>>]

Start(s) == [s EXCEPT !.tid = @ + 1]

dht_search(port) ==
  /\ calls < MaxCalls
  /\ LET s == [IF live THEN Again(sr) ELSE Start(sr) EXCEPT !.port = port,
                                                        !.ports = @ \cup {port}]
         o == Step([s EXCEPT !.nodes = insert_search_bucket(@)])
     IN sr' = o.s /\ net' = Transmit({}, o.sent)
  /\ live' = TRUE
  /\ search_time' = 0
  /\ calls' = calls + 1
  /\ UNCHANGED <<blacklist, theirs>>

(***************************************************************************)
(* dht_periodic: a packet, then the timers                                 *)
(***************************************************************************)
\* expire_searches, then the step that is due and the time of the next one.  s and the
\* packets of the handler come in.
Timers(s, sent, received) ==
  \E expire \in BOOLEAN, jitter \in 0..Jitter :
    LET gone == expire /\ s.step > Expire
        due  == search_time = 0
        o == IF live /\ ~gone /\ due /\ ~s.done /\ s.step >= Short THEN Step(s)
             ELSE [s |-> s, sent |-> {}]
    IN /\ sr' = IF gone THEN Freed(s) ELSE o.s
       /\ live' = (live /\ ~gone)
       /\ search_time' = IF ~due THEN search_time
                         ELSE IF ~live \/ gone \/ o.s.done THEN -1
                         ELSE Wait - o.s.step + jitter
       /\ net' = Transmit(received, sent \cup o.sent)

dht_periodic_idle ==
  /\ Timers(sr, {}, {})
  /\ UNCHANGED <<calls, blacklist, theirs>>

\* m is for our search, which may have been given up in the meantime.
Ours(m) == live /\ sr.tid = m.tid

\* A reply to get_peers that names one more node.
get_peers_reply(m, other) ==
  /\ m \in net /\ m.type = "gpr" /\ m.from \notin blacklist
  /\ LET s == [sr EXCEPT !.nodes = insert_search_node(@, other)]
         o == AskOne(s)
     IN IF Ours(m)
          THEN Timers([s EXCEPT !.nodes = insert_replied(o.nodes, m.from, m.token)], o.sent, {m})
          ELSE Timers(sr, {}, {m})
  /\ UNCHANGED <<calls, blacklist, theirs>>

\* One whose list of nodes is malformed: its sender is blacklisted and taken out of the
\* search, and then put back by the code that follows for every reply to a search.
get_peers_reply_broken(m) ==
  /\ m \in net /\ m.type = "gpr" /\ m.from \in Broken \ blacklist
  /\ blacklist' = blacklist \cup {m.from}
  /\ LET ns == flush_search_node(sr.nodes, m.from)
     IN IF Ours(m)
          THEN Timers([sr EXCEPT !.nodes = insert_replied(ns, m.from, m.token)], {}, {m})
          ELSE Timers([sr EXCEPT !.nodes = ns], {}, {m})
  /\ UNCHANGED <<calls, theirs>>

Acked(n) == [n EXCEPT !.request_time = Old, !.reply_time = 0, !.acked = TRUE, !.pinged = 0]

announce_peer_reply(m) ==
  /\ m \in net /\ m.type = "apr" /\ m.from \notin blacklist
  /\ LET s == [sr EXCEPT !.nodes = [i \in DOMAIN @ |->
                                      IF @[i].id = m.from THEN Acked(@[i]) ELSE @[i]]]
         o == AskOne(s)
     IN IF Ours(m) THEN Timers([s EXCEPT !.nodes = o.nodes], o.sent, {m})
        ELSE Timers(sr, {}, {m})
  /\ UNCHANGED <<calls, blacklist, theirs>>

(***************************************************************************)
(* The peers, which run dht_periodic too                                   *)
(***************************************************************************)
get_peers(m) ==
  /\ m \in net /\ m.type = "gp"
  /\ net' = Transmit({m}, {[ type |-> "gpr", from |-> m.to, tid |-> m.tid,
                              token |-> IF m.to \in Tokenless THEN NoToken
                                        ELSE secret[m.to] ]})
  /\ UNCHANGED <<ours, theirs>>

token_match(n, token) == token \in {secret[n], oldsecret[n]}

\* A wrong token is answered by an error, which we do not read.  storage_store may fail
\* for want of space or memory: the reply says nothing of it, and we cannot tell.
announce_peer(m) ==
  /\ m \in net /\ m.type = "ap"
  /\ IF token_match(m.to, m.token)
       THEN /\ announced' = [announced EXCEPT ![m.to] = @ \cup {m.port}]
            /\ net' = Transmit({m}, {[type |-> "apr", from |-> m.to, tid |-> m.tid]})
       ELSE net' = Transmit({m}, {}) /\ UNCHANGED announced
  /\ UNCHANGED <<ours, secret, oldsecret>>

\* A packet is lost.
Lose(m) ==
  /\ m \in net
  /\ net' = Transmit({m}, {})
  /\ UNCHANGED <<ours, theirs>>

rotate_secrets(n) ==
  /\ secret[n] < MaxSecrets
  /\ oldsecret' = [oldsecret EXCEPT ![n] = secret[n]]
  /\ secret' = [secret EXCEPT ![n] = @ + 1]
  /\ UNCHANGED <<ours, net, announced>>

\* A peer that is restarted forgets both secrets, and what it stored, but not that it did.
restart(n) ==
  /\ secret[n] < MaxSecrets
  /\ oldsecret' = [oldsecret EXCEPT ![n] = 0]
  /\ secret' = [secret EXCEPT ![n] = @ + 1]
  /\ UNCHANGED <<ours, net, announced>>

\* A node's request and its reply grow a second older.
Aged(n) == [n EXCEPT !.request_time = Least(@ + 1, Old), !.reply_time = Least(@ + 1, Old)]

\* dht_periodic is called every few minutes at the least (confirm_nodes_time), so no search
\* that goes on waits longer than Expire for its step.
Tick ==
  /\ live /\ ~sr.done => sr.step < Expire
  /\ sr' = [sr EXCEPT !.step = Least(@ + 1, Old),
                      !.nodes = [i \in DOMAIN sr.nodes |-> Aged(sr.nodes[i])]]
  /\ search_time' = IF search_time > 0 THEN search_time - 1 ELSE search_time
  /\ UNCHANGED <<live, calls, net, blacklist, theirs>>

Init ==
  /\ sr = [tid |-> 0, port |-> 0, ports |-> {}, done |-> FALSE, step |-> Old, nodes |-> <<>>]
  /\ live = FALSE /\ search_time = -1 /\ calls = 0
  /\ net = {} /\ blacklist = {}
  /\ secret = [n \in Peer |-> 1] /\ oldsecret = [n \in Peer |-> 0]
  /\ announced = [n \in Peer |-> {}]

dht_periodic ==
  \/ dht_periodic_idle
  \/ \E m \in net :
       \/ \E other \in Peer : get_peers_reply(m, other)
       \/ get_peers_reply_broken(m) \/ announce_peer_reply(m)

Next ==
  \/ \E port \in (IF calls = 0 THEN FirstPort ELSE Port) : dht_search(port)
  \/ dht_periodic
  \/ \E m \in net : get_peers(m) \/ announce_peer(m) \/ Lose(m)
  \/ \E n \in Rotating : rotate_secrets(n) \/ restart(n)
  \/ Tick

Spec == Init /\ [][Next]_vars

\* The thread keeps calling dht_periodic, and time passes.  Nothing makes a peer answer.
FairSpec == Spec /\ WF_vars(dht_periodic_idle) /\ WF_vars(Tick)
-----------------------------------------------------------------------------
\* Every variable has its type, and no node is asked more than three times in a row.
TypeOK ==
  /\ live \in BOOLEAN /\ search_time \in -1..(Wait + Jitter) /\ calls \in 0..MaxCalls
  /\ sr.tid \in 0..MaxCalls /\ sr.port \in Port \cup {0} /\ sr.ports \subseteq Port
  /\ sr.done \in BOOLEAN /\ sr.step \in Age
  /\ \A i \in DOMAIN sr.nodes :
       sr.nodes[i] \in [ id : Peer, request_time : Age, reply_time : Age, pinged : 0..3,
                         token : Secret \cup {NoToken}, replied : BOOLEAN, acked : BOOLEAN ]
  /\ blacklist \subseteq Peer
  /\ secret \in [Peer -> Secret] /\ oldsecret \in [Peer -> Secret]
  /\ announced \in [Peer -> SUBSET Port]

\* The nodes of a search stay in the order of their distance, so none is there twice,
\* through insertions, nodes that fall off the end, flushes and restarts.
NodesInOrder ==
  /\ Len(sr.nodes) <= SEARCH_NODES
  /\ \A i, j \in DOMAIN sr.nodes : i < j => sr.nodes[i].id < sr.nodes[j].id

\* A node counted as having taken our announcement has stored the port we announce, unless
\* it gave no token, whatever packets are lost or come late, and over rotated secrets and
\* restarts.  If the search was repeated with another port, the replies of both are merged
\* and it may be the other one that is stored, but never that of a search before it.
AckMeansStored ==
  \A i \in DOMAIN sr.nodes :
    LET n == sr.nodes[i]
    IN n.acked /\ n.token # NoToken /\ sr.port # 0 => announced[n.id] \cap sr.ports # {}

\* Every search ends, with SEARCH_DONE for its caller, even if nobody answers.
SearchEnds == (live /\ ~sr.done) ~> sr.done
=============================================================================
