----------------------------- MODULE MeshProofs -----------------------------
(***************************************************************************)
(* The full mesh: MeshWhenQuiet, for any number of servers.  The run mesh4 *)
(* shows that overlapping joins through different servers may leave a      *)
(* hole.  The mesh closes                                                  *)
(*   - when all join through the same server, however their joins overlap, *)
(*     which is proved here;                                               *)
(*   - when a server is started only after the join before it is over,     *)
(*     whatever server it is told to connect to (OneByOneProofs).          *)
(* In both cases nothing is lost and no server stops or forgets a peer.    *)
(***************************************************************************)
EXTENDS AliveProofs

\* The events that undo knowledge do not happen.
Faultless == Budget["stop"] = 0 /\ Budget["loss"] = 0

\* No server drops a peer: the turns of fthread find no dead server.
PeersStay == \A s \in Server : Peers(s) \subseteq Peers(s)'

NothingLeft == left["stop"] = 0 /\ left["loss"] = 0

-----------------------------------------------------------------------------
(***************************************************************************)
(* What a step does to who knows whom.                                     *)
(***************************************************************************)
\* The datagrams by which servers learn of each other.
Link(n) == n.header \in {"CONNECT", "SHARE_SERVER"}
Links == {n \in net : Link(n)}

Telling(q, p) == [header |-> "SHARE_SERVER", to |-> q, server |-> p] \in net

\* The links in flight: those of gone may go and those of out come.
Traffic(gone, out) ==
  /\ Links \ gone \subseteq Links' /\ out \subseteq Links'
  /\ Links' \subseteq Links \cup out

SamePeers == UNCHANGED up /\ \A s \in Server : Peers(s)' = Peers(s)

\* Server x inserts y.
Learns(x, y) ==
  /\ x \in up /\ y \in Server /\ y # x /\ y \notin Peers(x) /\ UNCHANGED up
  /\ Peers(x)' = Peers(x) \cup {y}
  /\ \A s \in Server \ {x} : Peers(s)' = Peers(s)

JoinStart(x, c) ==
  /\ x \notin up /\ c \in Contact[x] /\ up' = up \cup {x}
  /\ \A s \in Server : Peers(s)' = Peers(s)
  /\ Traffic({}, connect(x, {c}))

JoinConnect(m) ==
  /\ m.header = "CONNECT" /\ Learns(m.to, m.from)
  /\ Traffic({m}, connect(m.to, {m.from})
                  \cup share_all_servers(m.to, m.from, server_table[m.to]))

JoinTold(m) ==
  /\ m.header = "SHARE_SERVER" /\ Learns(m.to, m.server)
  /\ Traffic({m}, connect(m.to, {m.server}))

\* A link that says nothing new.
JoinKnown(m) ==
  /\ m.header = "CONNECT" => m.from = m.to \/ m.from \in Peers(m.to)
  /\ m.header = "SHARE_SERVER" => m.server \in Peers(m.to)
  /\ m.to \in up /\ SamePeers /\ Traffic({m}, {})

\* A link to a server that does not run.
JoinGone(m) == m.to \notin up /\ SamePeers /\ Traffic({m}, {})

\* Nothing, but that fthread may have dropped peers.
JoinOther ==
  /\ UNCHANGED up /\ \A s \in Server : Peers(s)' \subseteq Peers(s)
  /\ Traffic({}, {})

JoinStep ==
  \/ \E x, c \in Server : JoinStart(x, c)
  \/ \E m \in Links : JoinConnect(m) \/ JoinTold(m) \/ JoinKnown(m) \/ JoinGone(m)
  \/ JoinOther

\* Only share_all_servers and connect send links.
LEMMA LinkMessages ==
  ASSUME NEW s, NEW h, NEW ip, NEW t
  PROVE  /\ \A P : \A n \in connect(s, P) : Link(n)
         /\ \A p, T : \A n \in share_all_servers(s, p, T) : Link(n)
         /\ \A P : \A n \in keep(s, P) \cup share_put(s, h, ip, P) : ~Link(n)
         /\ \A p : \A n \in share_all_hashs(s, p, t) \cup answer_to_server(p, h, t) : ~Link(n)
         /\ \A c, P : \A n \in answer_to_client(s, c, h, t, P) : ~Link(n)
  <1>1. \A P : \A n \in connect(s, P) : Link(n)
    BY DEF connect, Link
  <1>2. \A p, T : \A n \in share_all_servers(s, p, T) : Link(n)
    BY DEF share_all_servers, Link
  <1>3. \A P : \A n \in keep(s, P) \cup share_put(s, h, ip, P) : ~Link(n)
    BY DEF keep, share_put, Link
  <1>4. \A p : \A n \in share_all_hashs(s, p, t) \cup answer_to_server(p, h, t) : ~Link(n)
    BY DEF share_all_hashs, answer_to_server, Link
  <1>5. \A c, P : \A n \in answer_to_client(s, c, h, t, P) : ~Link(n)
    BY DEF answer_to_client, ask_others, response, Link
  <1> QED
    BY <1>1, <1>2, <1>3, <1>4, <1>5

\* The links among what is sent take the place of the link that is handled.
LEMMA ConsumeTraffic ==
  ASSUME NEW m, NEW out, NEW links, Consume(m, out),
         links \subseteq out, \A n \in links : Link(n), \A n \in out \ links : ~Link(n)
  PROVE  /\ Traffic({m}, links)
         /\ ~Link(m) => Traffic({}, links)
  BY DEF Consume, Traffic, Links, Link

\* One server's table gets an element.
LEMMA LearnsBy ==
  ASSUME NEW x \in up, NEW y \in Server, y # x, y \notin Peers(x), TypeOK, UNCHANGED up,
         server_table' = [server_table EXCEPT ![x] = insert_server(@, y)]
  PROVE  Learns(x, y)
  BY DEF Learns, TypeOK, Peers, insert_server

\* Every step is one of those above.
LEMMA JoinSteps ==
  ASSUME TypeOK, SelfInv, NothingLeft, [Next]_vars
  PROVE  JoinStep
  <1>t. /\ up \subseteq Server
        /\ server_table \in [Server -> PeerTable]
        /\ net \subseteq Message
        /\ left \in [Effort -> Nat]
    BY DEF TypeOK
  <1>f. Spend("stop") => FALSE
    BY DEF NothingLeft, Spend
  <1>g. Spend("loss") => FALSE
    BY DEF NothingLeft, Spend
  \* The tables of peers are as they were and no link comes or goes.
  <1>u. ASSUME UNCHANGED <<up, server_table>>, Traffic({}, {})
        PROVE  JoinStep
    BY <1>u DEF JoinStep, JoinOther, Peers
  <1>1. ASSUME NEW x \in Server, fthread(x)
        PROVE  JoinStep
    <2>1. Traffic({}, {})
      BY <1>1, LinkMessages DEF fthread, Send, Traffic, Links
    <2>2. \A s \in Server : Peers(s)' \subseteq Peers(s)
      BY <1>1, <1>t DEF fthread, suppression_dead_server, Peers
    <2> QED
      BY <1>1, <2>1, <2>2 DEF fthread, JoinStep, JoinOther
  <1>2. ASSUME NEW x \in Server, NEW c \in Server, Start(x, c)
        PROVE  JoinStep
    <2>1. Traffic({}, connect(x, {c}))
      BY <1>2, LinkMessages DEF Start, Send, Traffic, Links
    <2> QED
      BY <1>2, <2>1 DEF Start, JoinStep, JoinStart, Peers
  <1>3. CASE \/ \E s \in Server, h \in Hash, ip \in Addr : ClientPut(s, h, ip)
             \/ \E c \in Client, s \in Server, h \in Hash : ClientGet(c, s, h)
             \/ \E c \in Client : ClientTimeout(c)
             \/ UNCHANGED vars
    <2>1. UNCHANGED <<up, server_table>>
      BY <1>3 DEF ClientPut, ClientGet, ClientTimeout, vars, servers
    <2>2. net \subseteq net' /\ \A n \in net' \ net : ~Link(n)
      BY <1>3 DEF ClientPut, ClientGet, ClientTimeout, vars, Send, Link
    <2>3. Traffic({}, {})
      BY <2>2 DEF Traffic, Links
    <2> QED
      BY <2>1, <2>3, <1>u
  <1>4. ASSUME NEW m \in net, Handle(m)
        PROVE  JoinStep
    <2>m. m \in Message
      BY <1>t
    <2>1. CASE \/ HandlePut(m) \/ HandleGet(m) \/ HandleServerGet(m)
               \/ HandleShareData(m) \/ HandleSharePut(m)
      <3>1. UNCHANGED <<up, server_table>> /\ ~Link(m)
        BY <2>1 DEF HandlePut, HandleGet, HandleServerGet, HandleShareData, HandleSharePut,
                    Takes, Link, servers
      <3>2. \E out : Consume(m, out) /\ \A n \in out : ~Link(n)
        <4>1. CASE HandlePut(m)
          BY <4>1, LinkMessages DEF HandlePut
        <4>2. CASE HandleGet(m)
          BY <4>2, LinkMessages DEF HandleGet
        <4>3. CASE HandleServerGet(m)
          BY <4>3, LinkMessages DEF HandleServerGet
        <4>4. CASE HandleShareData(m) \/ HandleSharePut(m)
          BY <4>4 DEF HandleShareData, HandleSharePut
        <4> QED
          BY <2>1, <4>1, <4>2, <4>3, <4>4
      <3>3. Traffic({}, {})
        BY <3>1, <3>2, ConsumeTraffic
      <3> QED
        BY <3>1, <3>3, <1>u
    <2>2. CASE HandleConnectKnown(m)
      <3>1. /\ m \in Links /\ m.to \in up /\ m.header = "CONNECT" /\ SamePeers
            /\ m.from = m.to \/ m.from \in Peers(m.to)
        BY <2>2 DEF HandleConnectKnown, Takes, Links, Link, SamePeers, servers, Peers, is_known
      <3>2. Traffic({m}, {})
        BY <2>2, ConsumeTraffic DEF HandleConnectKnown
      <3> QED
        BY <3>1, <3>2 DEF JoinStep, JoinKnown
    <2>3. CASE HandleConnectNew(m)
      <3>1. /\ m.to \in up /\ m.to \in Server /\ m.from \in Server /\ m.header = "CONNECT"
            /\ m.from # m.to /\ m.from \notin Peers(m.to)
            /\ server_table' = [server_table EXCEPT ![m.to] = insert_server(@, m.from)]
            /\ UNCHANGED up
        BY <2>3, <2>m, MessageFields DEF HandleConnectNew, Takes, is_known, Peers
      <3>2. Traffic({m}, connect(m.to, {m.from})
                         \cup share_all_servers(m.to, m.from, server_table[m.to]))
        <4>1. PICK links, out :
                /\ links = connect(m.to, {m.from})
                           \cup share_all_servers(m.to, m.from, server_table[m.to])
                /\ out = share_all_servers(m.to, m.from, server_table[m.to])
                         \cup connect(m.to, {m.from})
                         \cup share_all_hashs(m.to, m.from, hash_table[m.to])
                /\ Consume(m, out)
          BY <2>3 DEF HandleConnectNew
        <4>2. links \subseteq out /\ \A n \in links : Link(n)
          BY <4>1, LinkMessages
        <4>3. \A n \in out \ links : ~Link(n)
          BY <4>1, LinkMessages
        <4> QED
          BY <4>1, <4>2, <4>3, ConsumeTraffic
      <3> QED
        BY <3>1, <3>2, LearnsBy DEF JoinStep, JoinConnect, Links, Link
    <2>4. CASE HandleKeep(m)
      <3>1. Traffic({}, {})
        BY <2>4, ConsumeTraffic DEF HandleKeep, Takes, Link
      <3>2. \A s \in Server : Peers(s)' = Peers(s)
        BY <2>4, <1>t DEF HandleKeep, keep_alive_server, Peers
      <3> QED
        BY <2>4, <3>1, <3>2 DEF HandleKeep, JoinStep, JoinOther
    <2>5. CASE HandleShareServer(m)
      <3>1. /\ m \in Links /\ m.to \in up /\ m.to \in Server /\ m.server \in Server
            /\ m.header = "SHARE_SERVER" /\ m.server # m.to /\ UNCHANGED up
        BY <2>5, <2>m, MessageFields
        DEF HandleShareServer, Takes, Links, Link, SelfInv, NoServerToldOfItself
      <3>2. CASE is_known(m.server, server_table[m.to])
        <4>1. UNCHANGED server_table /\ Traffic({m}, {})
          BY <2>5, <3>2, ConsumeTraffic DEF HandleShareServer
        <4> QED
          BY <3>1, <3>2, <4>1 DEF JoinStep, JoinKnown, SamePeers, Peers, is_known
      <3>3. CASE ~is_known(m.server, server_table[m.to])
        <4>1. /\ server_table' = [server_table EXCEPT ![m.to] = insert_server(@, m.server)]
              /\ Consume(m, connect(m.to, {m.server}))
          BY <2>5, <3>3 DEF HandleShareServer
        <4>2. Traffic({m}, connect(m.to, {m.server}))
          BY <4>1, LinkMessages, ConsumeTraffic
        <4> QED
          BY <3>1, <3>3, <4>1, <4>2, LearnsBy DEF JoinStep, JoinTold, Peers, is_known
      <3> QED
        BY <3>2, <3>3
    <2> QED
      BY <1>4, <2>1, <2>2, <2>3, <2>4, <2>5 DEF Handle
  <1>5. ASSUME NEW m \in net, ClientReceive(m)
        PROVE  JoinStep
    <2>1. UNCHANGED <<up, server_table>> /\ Traffic({}, {})
      BY <1>5, ConsumeTraffic DEF ClientReceive, servers, Link
    <2> QED
      BY <2>1, <1>u
  <1>6. ASSUME NEW m \in net, Discard(m)
        PROVE  JoinStep
    <2>1. UNCHANGED <<up, server_table>> /\ net' = net \ {m}
      BY <1>6 DEF Discard, servers
    <2>2. CASE Link(m)
      <3>1. m \in Links /\ m.to \notin up /\ SamePeers /\ Traffic({m}, {})
        BY <1>6, <2>1, <2>2 DEF Discard, Undeliverable, Link, Links, SamePeers, Peers, Traffic
      <3> QED
        BY <3>1 DEF JoinStep, JoinGone
    <2>3. CASE ~Link(m)
      BY <2>1, <2>3, <1>u DEF Traffic, Links
    <2> QED
      BY <2>2, <2>3
  <1>7. CASE Tick
    BY <1>7, <1>t DEF Tick, OlderPeers, Peers, JoinStep, JoinOther, Traffic, Links
  <1> QED
    BY <1>1, <1>2, <1>3, <1>4, <1>5, <1>6, <1>7, <1>f, <1>g DEF Next, Stop, Lose

LEMMA SentConnect ==
  ASSUME NEW s, NEW p
  PROVE  /\ \A n \in connect(s, {p}) :
              n.header = "CONNECT" /\ n.to = p /\ n.from = s /\ p # s
         /\ p # s => [header |-> "CONNECT", to |-> p, from |-> s] \in connect(s, {p})
  BY DEF connect, others

LEMMA SentTable ==
  ASSUME NEW s, NEW p, NEW t
  PROVE  /\ \A n \in share_all_servers(s, p, t) :
              n.header = "SHARE_SERVER" /\ n.to = p /\ n.server \in DOMAIN t /\ p # s
         /\ p # s => \A q \in DOMAIN t :
              [header |-> "SHARE_SERVER", to |-> p, server |-> q] \in share_all_servers(s, p, t)
  <1>1. \A n \in share_all_servers(s, p, t) :
          n.header = "SHARE_SERVER" /\ n.to = p /\ n.server \in DOMAIN t /\ p # s
    BY DEF share_all_servers, others
  <1>2. p # s => \A q \in DOMAIN t :
          [header |-> "SHARE_SERVER", to |-> p, server |-> q] \in share_all_servers(s, p, t)
    BY DEF share_all_servers, others
  <1> QED
    BY <1>1, <1>2

\* While no server drops a peer, nothing of this gets lost: what is known stays
\* known, who is inserted is sent a CONNECT, and a link to a server that runs
\* stays in flight until that server knows what it says.
LEMMA NothingIsLost ==
  ASSUME TypeOK, JoinStep, PeersStay
  PROVE  /\ \A s \in Server : Peers(s) \subseteq Peers(s)'
         /\ \A s \in Server : \A t \in Peers(s)' : t \in Peers(s) \/ Connecting(s, t)'
         /\ \A s \in Server, t \in up :
              s # t /\ Connecting(s, t) => Connecting(s, t)' \/ s \in Peers(t)'
         /\ \A q \in up, p \in Server : Telling(q, p) => Telling(q, p)' \/ p \in Peers(q)'
  <1>t. up \subseteq Server
    BY DEF TypeOK
  <1>1. ASSUME NEW s \in Server, NEW t \in Peers(s)', t \notin Peers(s)
        PROVE  Connecting(s, t)'
    <2>1. PICK m \in Links : JoinConnect(m) \/ JoinTold(m)
      BY <1>1 DEF JoinStep, JoinStart, JoinKnown, JoinGone, SamePeers, JoinOther
    <2>2. s = m.to /\ t # s /\ connect(s, {t}) \subseteq Links'
      <3>1. CASE JoinConnect(m)
        BY <3>1, <1>1 DEF JoinConnect, Learns, Traffic
      <3>2. CASE JoinTold(m)
        BY <3>2, <1>1 DEF JoinTold, Learns, Traffic
      <3> QED
        BY <2>1, <3>1, <3>2
    <2> QED
      BY <2>2, SentConnect DEF Links, Connecting
  \* A link that goes is the one that is handled.
  <1>2. ASSUME NEW k \in Links, k \notin Links'
        PROVE  JoinConnect(k) \/ JoinTold(k) \/ JoinKnown(k) \/ JoinGone(k)
    BY <1>2 DEF JoinStep, JoinStart, JoinConnect, JoinTold, JoinKnown, JoinGone, JoinOther,
                Traffic
  <1>3. ASSUME NEW s \in Server, NEW t \in up, s # t, Connecting(s, t), ~Connecting(s, t)'
        PROVE  s \in Peers(t)'
    <2>1. PICK m : m = [header |-> "CONNECT", to |-> t, from |-> s]
      OBVIOUS
    <2>2. m \in Links /\ m \notin Links'
      BY <1>3, <2>1 DEF Connecting, Links, Link
    <2>3. JoinConnect(m) \/ JoinTold(m) \/ JoinKnown(m) \/ JoinGone(m)
      BY <1>2, <2>2
    <2>4. CASE JoinConnect(m)
      BY <2>1, <2>4 DEF JoinConnect, Learns
    <2>5. CASE JoinKnown(m)
      BY <2>1, <2>5, <1>3, <1>t DEF JoinKnown, SamePeers
    <2> QED
      BY <2>1, <2>3, <2>4, <2>5, <1>3 DEF JoinTold, JoinGone
  <1>4. ASSUME NEW q \in up, NEW p \in Server, Telling(q, p), ~Telling(q, p)'
        PROVE  p \in Peers(q)'
    <2>1. PICK m : m = [header |-> "SHARE_SERVER", to |-> q, server |-> p]
      OBVIOUS
    <2>2. m \in Links /\ m \notin Links'
      BY <1>4, <2>1 DEF Telling, Links, Link
    <2>3. JoinConnect(m) \/ JoinTold(m) \/ JoinKnown(m) \/ JoinGone(m)
      BY <1>2, <2>2
    <2>4. CASE JoinTold(m)
      BY <2>1, <2>4 DEF JoinTold, Learns
    <2>5. CASE JoinKnown(m)
      BY <2>1, <2>5, <1>4, <1>t DEF JoinKnown, SamePeers
    <2> QED
      BY <2>1, <2>3, <2>4, <2>5, <1>4 DEF JoinConnect, JoinGone
  <1> QED
    BY <1>1, <1>3, <1>4 DEF PeersStay

-----------------------------------------------------------------------------
(***************************************************************************)
(* Who is known, or named in a link, runs; and knowledge goes both ways as *)
(* soon as the CONNECT that is under way has arrived.                      *)
(***************************************************************************)
KnownUp ==
  /\ \A s \in Server : \A t \in Peers(s) : s \in up /\ t \in up
  /\ \A n \in Links :
       /\ n.header = "CONNECT" => n.from \in up
       /\ n.header = "SHARE_SERVER" => n.to \in up /\ n.server \in up

Mutual == \A s \in Server : \A t \in Peers(s) : s \in Peers(t) \/ Connecting(s, t)

LEMMA KnownUpStep ==
  ASSUME TypeOK, KnownUp, JoinStep
  PROVE  KnownUp'
  <1>1. ASSUME NEW x \in up, NEW y \in up, Learns(x, y)
        PROVE  \A s \in Server : \A t \in Peers(s)' : s \in up' /\ t \in up'
    BY <1>1 DEF Learns, KnownUp
  <1>2. ASSUME NEW gone, NEW out, Traffic(gone, out), up \subseteq up',
               \A n \in out : /\ n.header = "CONNECT" => n.from \in up'
                              /\ n.header = "SHARE_SERVER" => n.to \in up' /\ n.server \in up'
        PROVE  \A n \in Links' :
                 /\ n.header = "CONNECT" => n.from \in up'
                 /\ n.header = "SHARE_SERVER" => n.to \in up' /\ n.server \in up'
    BY <1>2 DEF Traffic, KnownUp
  <1>3. ASSUME NEW x \in Server, NEW c \in Server, JoinStart(x, c)
        PROVE  KnownUp'
    <2>1. \A n \in connect(x, {c}) : n.header = "CONNECT" /\ n.from \in up'
      BY <1>3 DEF JoinStart, connect
    <2> QED
      BY <1>3, <2>1, <1>2 DEF JoinStart, KnownUp
  <1>4. ASSUME NEW m \in Links, JoinConnect(m)
        PROVE  KnownUp'
    <2>1. m.to \in up /\ m.from \in up /\ m.to \in Server /\ UNCHANGED up
      BY <1>4 DEF JoinConnect, Learns, KnownUp, TypeOK
    <2>2. \A q \in DOMAIN server_table[m.to] : q \in up
      BY <2>1 DEF KnownUp, Peers
    <2>3. \A n \in connect(m.to, {m.from}) : n.header = "CONNECT" /\ n.from \in up
      BY <2>1 DEF connect
    <2>4. \A n \in share_all_servers(m.to, m.from, server_table[m.to]) :
            n.header = "SHARE_SERVER" /\ n.to \in up /\ n.server \in up
      BY <2>1, <2>2, SentTable
    <2>5. PICK out : /\ Traffic({m}, out)
                     /\ \A n \in out : \/ n.header = "CONNECT" /\ n.from \in up
                                       \/ n.header = "SHARE_SERVER" /\ n.to \in up
                                            /\ n.server \in up
      BY <1>4, <2>3, <2>4 DEF JoinConnect
    <2>6. \A n \in Links' : /\ n.header = "CONNECT" => n.from \in up'
                            /\ n.header = "SHARE_SERVER" => n.to \in up' /\ n.server \in up'
      BY <1>2, <2>1, <2>5
    <2> QED
      BY <1>1, <1>4, <2>1, <2>6 DEF JoinConnect, KnownUp
  <1>5. ASSUME NEW m \in Links, JoinTold(m)
        PROVE  KnownUp'
    <2>1. m.to \in up /\ m.server \in up /\ UNCHANGED up
      BY <1>5 DEF JoinTold, Learns, KnownUp
    <2>2. \A n \in connect(m.to, {m.server}) : n.header = "CONNECT" /\ n.from \in up
      BY <2>1 DEF connect
    <2> QED
      BY <1>1, <1>2, <1>5, <2>1, <2>2 DEF JoinTold, KnownUp
  <1>6. ASSUME NEW m \in Links, JoinKnown(m) \/ JoinGone(m)
        PROVE  KnownUp'
    BY <1>6, <1>2 DEF JoinKnown, JoinGone, SamePeers, KnownUp
  <1>7. CASE JoinOther
    BY <1>7, <1>2 DEF JoinOther, KnownUp
  <1> QED
    BY <1>3, <1>4, <1>5, <1>6, <1>7 DEF JoinStep

LEMMA MutualStep ==
  ASSUME TypeOK, SelfInv, KnownUp, Mutual, JoinStep, PeersStay
  PROVE  Mutual'
  <1> SUFFICES ASSUME NEW s \in Server, NEW t \in Peers(s)'
               PROVE  s \in Peers(t)' \/ Connecting(s, t)'
    BY DEF Mutual
  <1>1. CASE t \in Peers(s)
    <2>1. t \in up /\ t \in Server /\ s # t
      BY <1>1 DEF KnownUp, TypeOK, SelfInv, NotOwnPeer
    <2>2. s \in Peers(t) \/ Connecting(s, t)
      BY <1>1 DEF Mutual
    <2> QED
      BY <2>1, <2>2, NothingIsLost
  <1>2. CASE t \notin Peers(s)
    BY <1>2, NothingIsLost
  <1> QED
    BY <1>1, <1>2

-----------------------------------------------------------------------------
(***************************************************************************)
(* All join through r, as overlapping as they like.  Server r is told of   *)
(* everybody, and of two servers that come to it one after the other the   *)
(* later one is told of the earlier one.                                   *)
(***************************************************************************)
JoinThrough(r) == \A s \in Server : Contact[s] \subseteq {r, s}

\* Those r knows, and r itself.
Circle(r) == Peers(r) \cup {r}

InCircle(r) == \A s \in Server : \A t \in Peers(s) : s \in Circle(r) /\ t \in Circle(r)

LinkInCircle(n, r) ==
  /\ n.header = "CONNECT" => n.to = r \/ (n.to \in Peers(r) /\ n.from \in Circle(r))
  /\ n.header = "SHARE_SERVER" => n.to \in Circle(r) /\ n.server \in Circle(r)

\* Two servers r knows: one of them knows the other or is about to be told.
Introduced(s, t) == s \in Peers(t) \/ t \in Peers(s) \/ Telling(s, t) \/ Telling(t, s)

StarInv(r) ==
  /\ InCircle(r)
  /\ \A n \in Links : LinkInCircle(n, r)
  /\ \A s, t \in Peers(r) : s # t => Introduced(s, t)

LEMMA StarStep ==
  ASSUME NEW r \in Server, JoinThrough(r), TypeOK, SelfInv, KnownUp, StarInv(r),
         JoinStep, PeersStay
  PROVE  StarInv(r)'
  <1>1. Peers(r) \subseteq Peers(r)' /\ Circle(r) \subseteq Circle(r)' /\ r \in Circle(r)
    BY DEF PeersStay, Circle
  <1>2. \A n \in Links : LinkInCircle(n, r)'
    BY <1>1 DEF StarInv, LinkInCircle
  <1>3. \A s, t \in Peers(r) : s # t => Introduced(s, t)'
    <2>1. SUFFICES ASSUME NEW s \in Peers(r), NEW t \in Peers(r), s # t
                   PROVE  Introduced(s, t)'
      OBVIOUS
    <2>2. s \in up /\ t \in up /\ s \in Server /\ t \in Server
      BY DEF KnownUp, TypeOK
    <2>3. Introduced(s, t)
      BY <2>1 DEF StarInv
    <2> QED
      BY <2>2, <2>3, NothingIsLost DEF Introduced
  \* Nobody learns anything, and no link is sent to a server other than r.
  <1>u. ASSUME \A s \in Server : Peers(s)' = Peers(s),
               \A n \in Links' \ Links : n.header = "CONNECT" /\ n.to = r
        PROVE  StarInv(r)'
    <2>1. \A n \in Links' : LinkInCircle(n, r)'
      BY <1>2, <1>u DEF LinkInCircle
    <2>2. InCircle(r)'
      BY <1>u DEF StarInv, InCircle, Circle
    <2> QED
      BY <1>3, <1>u, <2>1, <2>2 DEF StarInv
  \* A server of the circle learns of another.
  <1>n. ASSUME NEW x \in Circle(r), NEW y \in Circle(r), Learns(x, y),
               \A n \in Links' \ Links :
                 \/ n.header = "CONNECT" /\ n.to = y /\ n.from = x
                 \/ n.header = "SHARE_SERVER" /\ n.to = y /\ n.server \in Peers(x)
        PROVE  StarInv(r)'
    <2>1. x # r /\ x \in Peers(r) /\ Peers(r)' = Peers(r) /\ Circle(r)' = Circle(r)
      BY <1>n DEF Learns, Circle
    <2>2. \A q \in Peers(x) : q \in Circle(r)
      BY <1>n DEF StarInv, InCircle, Learns, TypeOK
    <2>3. \A n \in Links' : LinkInCircle(n, r)'
      BY <1>2, <1>n, <2>1, <2>2 DEF LinkInCircle, Circle
    <2>4. InCircle(r)'
      BY <1>n, <2>1 DEF StarInv, InCircle, Learns
    <2> QED
      BY <1>3, <2>1, <2>3, <2>4 DEF StarInv
  <1>4. ASSUME NEW x \in Server, NEW c \in Server, JoinStart(x, c)
        PROVE  StarInv(r)'
    <2>1. \A n \in connect(x, {c}) : n.header = "CONNECT" /\ n.to = r
      BY <1>4 DEF JoinStart, JoinThrough, connect, others
    <2> QED
      BY <1>4, <1>u, <2>1 DEF JoinStart, Traffic
  <1>5. ASSUME NEW m \in Links, JoinConnect(m)
        PROVE  StarInv(r)'
    <2>1. /\ \A n \in connect(m.to, {m.from}) :
               n.header = "CONNECT" /\ n.to = m.from /\ n.from = m.to
          /\ \A n \in share_all_servers(m.to, m.from, server_table[m.to]) :
               n.header = "SHARE_SERVER" /\ n.to = m.from /\ n.server \in Peers(m.to)
      <3>1. \A n \in connect(m.to, {m.from}) :
              n.header = "CONNECT" /\ n.to = m.from /\ n.from = m.to
        BY DEF connect, others
      <3>2. \A n \in share_all_servers(m.to, m.from, server_table[m.to]) :
              n.header = "SHARE_SERVER" /\ n.to = m.from /\ n.server \in Peers(m.to)
        BY DEF share_all_servers, others, Peers
      <3> QED
        BY <3>1, <3>2
    <2>2. Learns(m.to, m.from) /\ m.header = "CONNECT"
      BY <1>5 DEF JoinConnect
    <2>3. \A n \in Links' \ Links :
            \/ n.header = "CONNECT" /\ n.to = m.from /\ n.from = m.to
            \/ n.header = "SHARE_SERVER" /\ n.to = m.from /\ n.server \in Peers(m.to)
      BY <1>5, <2>1 DEF JoinConnect, Traffic
    <2>4. CASE m.to = r
      <3>1. PICK y : y = m.from
        OBVIOUS
      <3>2. /\ Peers(r)' = Peers(r) \cup {y} /\ y # r /\ y \notin Peers(r)
            /\ Circle(r)' = Circle(r) \cup {y}
            /\ \A s \in Server \ {r} : Peers(s)' = Peers(s)
        BY <2>2, <2>4, <3>1 DEF Learns, Circle
      <3>3. InCircle(r)'
        BY <3>2, <1>1 DEF StarInv, InCircle
      <3>4. \A n \in Links' : LinkInCircle(n, r)'
        BY <1>1, <1>2, <2>3, <2>4, <3>1, <3>2 DEF LinkInCircle, Circle
      <3>5. \A q \in Peers(r) : Telling(y, q)'
        <4>1. \A q \in DOMAIN server_table[r] :
                [header |-> "SHARE_SERVER", to |-> y, server |-> q]
                  \in share_all_servers(r, y, server_table[r])
          BY <3>2, SentTable
        <4> QED
          BY <4>1, <1>5, <2>4, <3>1 DEF JoinConnect, Traffic, Links, Telling, Peers
      <3>6. \A s, t \in Peers(r)' : s # t => Introduced(s, t)'
        BY <1>3, <3>2, <3>5 DEF Introduced
      <3> QED
        BY <3>3, <3>4, <3>6 DEF StarInv
    <2>5. CASE m.to # r
      <3>1. m.to \in Circle(r) /\ m.from \in Circle(r)
        BY <2>2, <2>5 DEF StarInv, LinkInCircle, Circle
      <3> QED
        BY <2>2, <2>3, <3>1, <1>n
    <2> QED
      BY <2>4, <2>5
  <1>6. ASSUME NEW m \in Links, JoinTold(m)
        PROVE  StarInv(r)'
    <2>1. m.to \in Circle(r) /\ m.server \in Circle(r) /\ Learns(m.to, m.server)
      BY <1>6 DEF JoinTold, StarInv, LinkInCircle
    <2>2. \A n \in Links' \ Links : n.header = "CONNECT" /\ n.to = m.server /\ n.from = m.to
      <3>1. \A n \in connect(m.to, {m.server}) :
              n.header = "CONNECT" /\ n.to = m.server /\ n.from = m.to
        BY DEF connect, others
      <3> QED
        BY <1>6, <3>1 DEF JoinTold, Traffic
    <2> QED
      BY <2>1, <2>2, <1>n
  <1>7. ASSUME NEW m \in Links, JoinKnown(m) \/ JoinGone(m)
        PROVE  StarInv(r)'
    BY <1>7, <1>u DEF JoinKnown, JoinGone, SamePeers, Traffic
  <1>8. CASE JoinOther
    BY <1>8, <1>u DEF JoinOther, Traffic, PeersStay
  <1> QED
    BY <1>4, <1>5, <1>6, <1>7, <1>8 DEF JoinStep

\* When nothing is in flight, what has been introduced is known.
LEMMA StarMesh ==
  ASSUME NEW r \in Server, TypeOK, Mutual, StarInv(r)
  PROVE  MeshWhenQuiet
  <1> SUFFICES ASSUME net = {}, NEW s \in up, NEW t \in Peers(s) \cap up
               PROVE  /\ s \in Peers(t)
                      /\ Peers(t) \cap up \subseteq Peers(s) \cup {s}
    BY DEF MeshWhenQuiet, Quiet
  <1>1. \A a \in Server : \A b \in Peers(a) : a \in Peers(b)
    BY DEF Mutual, Connecting
  <1>2. \A a, b \in Peers(r) : a # b => a \in Peers(b) \/ b \in Peers(a)
    BY DEF StarInv, Introduced, Telling
  <1>3. s \in Server /\ t \in Server /\ up \subseteq Server
    BY DEF TypeOK
  <1>4. \A a \in Server : \A b \in Peers(a) : a \in Circle(r) /\ b \in Circle(r)
    BY DEF StarInv, InCircle
  <1>5. ASSUME NEW u \in Peers(t) \cap up, u # s
        PROVE  u \in Peers(s)
    <2>1. s \in Circle(r) /\ u \in Circle(r) /\ u \in Server
      BY <1>3, <1>4
    <2>2. CASE s = r \/ u = r
      BY <2>1, <2>2, <1>1, <1>3, <1>5 DEF Circle
    <2>3. CASE s # r /\ u # r
      BY <2>1, <2>3, <1>1, <1>2, <1>3, <1>5 DEF Circle
    <2> QED
      BY <2>2, <2>3
  <1> QED
    BY <1>1, <1>3, <1>5

-----------------------------------------------------------------------------
(***************************************************************************)
(* The hypotheses: nothing is lost and nobody stops, and therefore no      *)
(* peer is dropped when no time passes, or when datagrams are prompt and   *)
(* fthread's sleep is no longer than the limit.                            *)
(***************************************************************************)
LEMMA NothingLeftStep ==
  ASSUME TypeOK, NothingLeft, [Next]_vars
  PROVE  NothingLeft' /\ up \subseteq up'
  <1>t. left \in [Effort -> Nat]
    BY DEF TypeOK
  <1>1. \A e \in Effort : Spend(e) => NothingLeft'
    BY <1>t DEF Spend, NothingLeft, Effort
  <1>2. ~Spend("stop") /\ ~Spend("loss")
    BY DEF Spend, NothingLeft
  <1>3. UNCHANGED left => NothingLeft'
    BY DEF NothingLeft
  <1>4. \A m, out : Consume(m, out) => NothingLeft'
    BY <1>1, <1>3 DEF Consume, Effort
  <1>5. ASSUME NEW m \in net, Handle(m)
        PROVE  NothingLeft' /\ up' = up
    <2>1. \E out : Consume(m, out)
      BY <1>5
      DEF Handle, HandlePut, HandleGet, HandleServerGet, HandleConnectKnown, HandleConnectNew,
          HandleKeep, HandleShareData, HandleSharePut, HandleShareServer
    <2>2. up' = up
      BY <1>5
      DEF Handle, HandlePut, HandleGet, HandleServerGet, HandleConnectKnown, HandleConnectNew,
          HandleKeep, HandleShareData, HandleSharePut, HandleShareServer, servers
    <2> QED
      BY <2>1, <2>2, <1>4
  <1>6. ASSUME NEW m \in net, ClientReceive(m) \/ Discard(m)
        PROVE  NothingLeft' /\ up' = up
    BY <1>3, <1>4, <1>6 DEF ClientReceive, Discard, servers
  <1>7. ASSUME NEW s \in Server, NEW c \in Server, Start(s, c)
        PROVE  NothingLeft' /\ up \subseteq up'
    BY <1>1, <1>7 DEF Start, Effort
  <1>8. ASSUME NEW s \in Server, NEW h \in Hash, NEW ip \in Addr, ClientPut(s, h, ip)
        PROVE  NothingLeft' /\ up' = up
    BY <1>1, <1>8 DEF ClientPut, Effort, servers
  <1>9. CASE \/ \E s \in Server : fthread(s)
             \/ \E c \in Client, s \in Server, h \in Hash : ClientGet(c, s, h)
             \/ \E c \in Client : ClientTimeout(c)
             \/ Tick \/ UNCHANGED vars
    BY <1>3, <1>9 DEF fthread, ClientGet, ClientTimeout, Tick, vars, servers
  <1> QED
    BY <1>2, <1>5, <1>6, <1>7, <1>8, <1>9 DEF Next, Stop, Lose

LEMMA NothingLeftAlways == ASSUME Faultless PROVE Spec => []NothingLeft
  <1>1. Init => NothingLeft
    BY DEF Init, NothingLeft, Faultless
  <1>2. TypeOK /\ NothingLeft /\ [Next]_vars => NothingLeft'
    BY NothingLeftStep
  <1> QED
    BY <1>1, <1>2, TypeCorrect, PTL DEF Spec

LEMMA KnownUpAlways == ASSUME Faultless PROVE Spec => []KnownUp
  <1>1. Init => KnownUp
    BY DEF Init, KnownUp, Peers, Links, no_server
  <1>2. TypeOK /\ SelfInv /\ NothingLeft /\ KnownUp /\ [Next]_vars => KnownUp'
    BY JoinSteps, KnownUpStep
  <1> QED
    BY <1>1, <1>2, TypeCorrect, SelfAlways, NothingLeftAlways, PTL DEF Spec

LEMMA MutualAlways ==
  ASSUME Faultless
  PROVE  Spec /\ [][PeersStay]_vars => []Mutual
  <1>1. Init => Mutual
    BY DEF Init, Mutual, Peers, no_server
  <1>2. TypeOK /\ SelfInv /\ NothingLeft /\ KnownUp /\ Mutual /\ [Next]_vars /\ [PeersStay]_vars
        => Mutual'
    <2>1. [PeersStay]_vars => PeersStay
      BY DEF PeersStay, Peers, vars, servers
    <2> QED
      BY <2>1, JoinSteps, MutualStep
  <1> QED
    BY <1>1, <1>2, TypeCorrect, SelfAlways, NothingLeftAlways, KnownUpAlways, PTL DEF Spec

\* With no losses and no server that stops, the full mesh is closed whenever no
\* datagram is in flight, for any number of servers that all join through the
\* same one, as long as none of them drops a peer.
THEOREM MeshThroughOne ==
  ASSUME Faultless, NEW r \in Server, JoinThrough(r)
  PROVE  Spec /\ [][PeersStay]_vars => []MeshWhenQuiet
  <1>1. Init => StarInv(r)
    BY DEF Init, StarInv, InCircle, Peers, Links, no_server
  <1>2. TypeOK /\ SelfInv /\ NothingLeft /\ KnownUp /\ StarInv(r)
        /\ [Next]_vars /\ [PeersStay]_vars => StarInv(r)'
    <2>1. [PeersStay]_vars => PeersStay
      BY DEF PeersStay, Peers, vars, servers
    <2> QED
      BY <2>1, JoinSteps, StarStep
  <1>3. TypeOK /\ Mutual /\ StarInv(r) => MeshWhenQuiet
    BY StarMesh
  <1> QED
    BY <1>1, <1>2, <1>3, TypeCorrect, SelfAlways, NothingLeftAlways, KnownUpAlways,
       MutualAlways, PTL DEF Spec

\* No hash is dropped either.
DataStay == \A s \in Server : DOMAIN hash_table[s] \subseteq DOMAIN hash_table'[s]

\* What becomes of a server's two tables in a step in which nobody stops.
PeersBecome(s, t) ==
  \/ t = server_table[s]
  \/ \E q \in Server : t = insert_server(server_table[s], q)
                       \/ t = keep_alive_server(server_table[s], q)
  \/ t = suppression_dead_server(server_table[s], s)
  \/ Ticking /\ t = OlderPeers(server_table[s])

DataBecome(s, t) ==
  \/ t = hash_table[s]
  \/ \E h \in Hash, ip \in Addr : t = insert_hash_addr_put(h, ip, hash_table[s])
                                  \/ t = insert_hash_addr_share(h, ip, hash_table[s])
  \/ t = suppression_obsolete_hash(hash_table[s])
  \/ Ticking /\ t = OlderTable(hash_table[s])

LEMMA TablesBecome ==
  ASSUME TypeOK, NothingLeft, [Next]_vars, NEW s \in Server
  PROVE  PeersBecome(s, server_table'[s]) /\ DataBecome(s, hash_table'[s])
  <1>t. /\ server_table \in [Server -> PeerTable]
        /\ hash_table \in [Server -> Table]
        /\ net \subseteq Message
    BY DEF TypeOK
  <1>u. /\ UNCHANGED server_table => PeersBecome(s, server_table'[s])
        /\ UNCHANGED hash_table => DataBecome(s, hash_table'[s])
    BY DEF PeersBecome, DataBecome
  <1>1. ASSUME NEW x \in Server, fthread(x)
        PROVE  PeersBecome(s, server_table'[s]) /\ DataBecome(s, hash_table'[s])
    BY <1>1, <1>t DEF fthread, PeersBecome, DataBecome
  <1>2. ASSUME NEW m \in net, Handle(m)
        PROVE  PeersBecome(s, server_table'[s]) /\ DataBecome(s, hash_table'[s])
    <2>m. m \in Message
      BY <1>t
    <2>1. CASE HandlePut(m) \/ HandleSharePut(m)
      <3>1. m.hash \in Hash /\ m.addr \in Addr
        BY <2>1, <2>m, MessageFields DEF HandlePut, HandleSharePut, Takes
      <3>2. DataBecome(s, hash_table'[s])
        BY <2>1, <3>1, <1>t DEF HandlePut, HandleSharePut, DataBecome
      <3> QED
        BY <2>1, <3>2, <1>u DEF HandlePut, HandleSharePut
    <2>2. CASE HandleShareData(m)
      <3>1. m.hash \in Hash /\ m.addr \in Addr
        BY <2>2, <2>m, MessageFields DEF HandleShareData, Takes
      <3>2. DataBecome(s, hash_table'[s])
        BY <2>2, <3>1, <1>t DEF HandleShareData, DataBecome
      <3> QED
        BY <2>2, <3>2, <1>u DEF HandleShareData
    <2>3. CASE HandleGet(m) \/ HandleServerGet(m) \/ HandleConnectKnown(m)
      BY <2>3, <1>u DEF HandleGet, HandleServerGet, HandleConnectKnown, servers
    <2>4. CASE HandleConnectNew(m) \/ HandleKeep(m)
      <3>1. m.from \in Server
        BY <2>4, <2>m, MessageFields DEF HandleConnectNew, HandleKeep, Takes
      <3>2. PeersBecome(s, server_table'[s])
        BY <2>4, <3>1, <1>t DEF HandleConnectNew, HandleKeep, PeersBecome
      <3> QED
        BY <2>4, <3>2, <1>u DEF HandleConnectNew, HandleKeep
    <2>5. CASE HandleShareServer(m)
      <3>1. m.server \in Server
        BY <2>5, <2>m, MessageFields DEF HandleShareServer, Takes
      <3>2. \/ UNCHANGED server_table
            \/ server_table' = [server_table EXCEPT ![m.to] = insert_server(@, m.server)]
        BY <2>5 DEF HandleShareServer
      <3>3. PeersBecome(s, server_table'[s])
        BY <3>1, <3>2, <1>t DEF PeersBecome
      <3> QED
        BY <2>5, <3>3, <1>u DEF HandleShareServer
    <2> QED
      BY <1>2, <2>1, <2>2, <2>3, <2>4, <2>5 DEF Handle
  <1>3. CASE Tick
    BY <1>3, <1>t DEF Tick, PeersBecome, DataBecome
  <1>4. ~Spend("stop")
    BY DEF Spend, NothingLeft
  <1> QED
    BY <1>1, <1>2, <1>3, <1>4, <1>u
    DEF Next, Stop, Start, ClientPut, ClientGet, ClientTimeout, ClientReceive, Lose, Discard,
        vars, servers

\* While no second passes, every date is now.
NoAge ==
  \A s \in Server :
    /\ \A p \in Peers(s) : server_table[s][p] = 0
    /\ \A h \in DOMAIN hash_table[s] : hash_table[s][h].last_put = 0

\* Of tables whose dates are all now, nothing is dropped.
AllNow(t) == \A p \in DOMAIN t : t[p] = 0
AllPutNow(t) == \A h \in DOMAIN t : t[h].last_put = 0

LEMMA NowPeers ==
  ASSUME NEW s, NEW t, s \notin DOMAIN t, AllNow(t), NEW q
  PROVE  /\ AllNow(insert_server(t, q)) /\ DOMAIN t \subseteq DOMAIN insert_server(t, q)
         /\ AllNow(keep_alive_server(t, q)) /\ DOMAIN t \subseteq DOMAIN keep_alive_server(t, q)
         /\ AllNow(suppression_dead_server(t, s))
         /\ DOMAIN t \subseteq DOMAIN suppression_dead_server(t, s)
  <1>1. AllNow(insert_server(t, q)) /\ DOMAIN t \subseteq DOMAIN insert_server(t, q)
    BY DEF insert_server, AllNow
  <1>2. AllNow(keep_alive_server(t, q)) /\ DOMAIN t \subseteq DOMAIN keep_alive_server(t, q)
    BY DEF keep_alive_server, AllNow
  <1>3. /\ AllNow(suppression_dead_server(t, s))
        /\ DOMAIN t \subseteq DOMAIN suppression_dead_server(t, s)
    BY PeerMapAssumption DEF suppression_dead_server, AllNow
  <1> QED
    BY <1>1, <1>2, <1>3

LEMMA NowData ==
  ASSUME NEW t, AllPutNow(t), NEW h, NEW ip
  PROVE  /\ AllPutNow(insert_hash_addr_put(h, ip, t))
         /\ DOMAIN t \subseteq DOMAIN insert_hash_addr_put(h, ip, t)
         /\ AllPutNow(insert_hash_addr_share(h, ip, t))
         /\ DOMAIN t \subseteq DOMAIN insert_hash_addr_share(h, ip, t)
         /\ AllPutNow(suppression_obsolete_hash(t))
         /\ DOMAIN t \subseteq DOMAIN suppression_obsolete_hash(t)
  <1>1. /\ AllPutNow(insert_hash_addr_put(h, ip, t))
        /\ DOMAIN t \subseteq DOMAIN insert_hash_addr_put(h, ip, t)
    BY DEF insert_hash_addr_put, AllPutNow
  <1>2. /\ AllPutNow(insert_hash_addr_share(h, ip, t))
        /\ DOMAIN t \subseteq DOMAIN insert_hash_addr_share(h, ip, t)
    BY DEF insert_hash_addr_share, AllPutNow
  <1>3. /\ AllPutNow(suppression_obsolete_hash(t))
        /\ DOMAIN t \subseteq DOMAIN suppression_obsolete_hash(t)
    BY HashMapAssumption DEF suppression_obsolete_hash, AllPutNow
  <1> QED
    BY <1>1, <1>2, <1>3

LEMMA NoAgeStep ==
  ASSUME ~Ticking, TypeOK, SelfInv, NothingLeft, NoAge, [Next]_vars
  PROVE  NoAge' /\ PeersStay /\ DataStay
  <1> SUFFICES ASSUME NEW s \in Server
               PROVE  /\ \A p \in Peers(s)' : server_table'[s][p] = 0
                      /\ \A h \in DOMAIN hash_table'[s] : hash_table'[s][h].last_put = 0
                      /\ Peers(s) \subseteq Peers(s)'
                      /\ DOMAIN hash_table[s] \subseteq DOMAIN hash_table'[s]
    BY DEF NoAge, PeersStay, DataStay
  <1>1. /\ AllNow(server_table[s]) /\ AllPutNow(hash_table[s])
        /\ s \notin DOMAIN server_table[s]
    BY DEF NoAge, Peers, SelfInv, NotOwnPeer, AllNow, AllPutNow
  <1>2. PeersBecome(s, server_table'[s]) /\ DataBecome(s, hash_table'[s])
    BY TablesBecome
  <1>3. AllNow(server_table'[s]) /\ DOMAIN server_table[s] \subseteq DOMAIN server_table'[s]
    BY <1>1, <1>2, NowPeers DEF PeersBecome
  <1>4. AllPutNow(hash_table'[s]) /\ DOMAIN hash_table[s] \subseteq DOMAIN hash_table'[s]
    BY <1>1, <1>2, NowData DEF DataBecome
  <1> QED
    BY <1>3, <1>4 DEF Peers, AllNow, AllPutNow

\* While no second passes and no server stops, nothing is dropped.
LEMMA NothingExpires ==
  ASSUME ~Ticking, Faultless
  PROVE  Spec => [][PeersStay /\ DataStay]_vars
  <1>1. Init => NoAge
    BY DEF Init, NoAge, Peers, no_server, empty_table
  <1>2. TypeOK /\ SelfInv /\ NothingLeft /\ NoAge /\ [Next]_vars
        => NoAge' /\ [PeersStay /\ DataStay]_vars
    BY NoAgeStep
  <1> QED
    BY <1>1, <1>2, TypeCorrect, SelfAlways, NothingLeftAlways, PTL DEF Spec

\* While datagrams are prompt, nobody stops and fthread's sleep fits into the
\* limit, no peer is dropped, however much time passes.
LEMMA NobodyIsDropped ==
  ASSUME Prompt, PERIOD <= PeerTTL, Faultless
  PROVE  Spec => [][PeersStay]_vars
  <1>1. KeepsSuffice
    BY DhtAssumption DEF KeepsSuffice, Faultless
  <1>2. TypeOK /\ SelfInv /\ NothingLeft /\ KnownUp /\ [Next]_vars
        => [CleanStart /\ NoConnectLost]_vars
    <2> SUFFICES ASSUME TypeOK, NothingLeft, KnownUp, [Next]_vars
                 PROVE  CleanStart /\ NoConnectLost
      OBVIOUS
    <2>1. CleanStart
      BY DEF CleanStart, KnownUp, TypeOK
    <2>2. NoConnectLost
      BY NothingLeftStep DEF NoConnectLost, NothingLeft
    <2> QED
      BY <2>1, <2>2
  <1>3. TypeOK /\ NothingLeft /\ KnownUp /\ [Next]_vars
        /\ [\A s \in up \cap up' :
              \A p \in Peers(s) : p \notin DOMAIN server_table'[s] => p \notin up]_vars
        => [PeersStay]_vars
    <2> SUFFICES ASSUME TypeOK, NothingLeft, KnownUp, [Next]_vars,
                        \A s \in up \cap up' :
                          \A p \in Peers(s) : p \notin DOMAIN server_table'[s] => p \notin up
                 PROVE  PeersStay
      OBVIOUS
    <2> QED
      BY NothingLeftStep DEF PeersStay, KnownUp, Peers
  <1>4. Spec => [][CleanStart /\ NoConnectLost]_vars
    BY <1>2, TypeCorrect, SelfAlways, NothingLeftAlways, KnownUpAlways, PTL DEF Spec
  <1>5. Spec => NoFalseDeath
    BY <1>1, <1>4, LivingAreKept, PTL
  <1> QED
    BY <1>3, <1>5, TypeCorrect, NothingLeftAlways, KnownUpAlways, PTL DEF Spec, NoFalseDeath

\* So the mesh is closed whenever no datagram is in flight, while no second passes,
THEOREM MeshThroughOneUntimed ==
  ASSUME ~Ticking, Faultless, NEW r \in Server, JoinThrough(r)
  PROVE  Spec => []MeshWhenQuiet
  <1>1. Spec => [][PeersStay]_vars
    <2>1. [PeersStay /\ DataStay]_vars => [PeersStay]_vars
      OBVIOUS
    <2> QED
      BY <2>1, NothingExpires, PTL
  <1> QED
    BY <1>1, MeshThroughOne, PTL

\* and for ever when datagrams are handled in the second they are sent in.
THEOREM MeshThroughOneInTime ==
  ASSUME Prompt, PERIOD <= PeerTTL, Faultless, NEW r \in Server, JoinThrough(r)
  PROVE  Spec => []MeshWhenQuiet
  BY NobodyIsDropped, MeshThroughOne, PTL

-----------------------------------------------------------------------------
(***************************************************************************)
(* Where joins through different servers overlap the mesh may have holes,  *)
(* but the servers stay in one piece.                                      *)
(***************************************************************************)
\* Whom a server meets it goes on meeting.
LEMMA MeetsStays ==
  ASSUME TypeOK, JoinStep, PeersStay, NEW s \in up, NEW t \in Server, s # t, Meets(s, t)
  PROVE  Meets(s, t)'
  <1>1. s \in Server
    BY DEF TypeOK
  <1>2. t \in Peers(s) \/ Connecting(t, s) \/ Telling(s, t)
    BY DEF Meets, Connecting, Telling
  <1>3. t \in Peers(s)' \/ Connecting(t, s)' \/ Telling(s, t)'
    BY <1>1, <1>2, NothingIsLost
  <1> QED
    BY <1>3 DEF Meets, Connecting, Telling

LEMMA LeadsOutStays ==
  ASSUME TypeOK, JoinStep, PeersStay, up \subseteq up', NEW X, LeadsOut(X)
  PROVE  LeadsOut(X)'
  <1>1. PICK s \in X \cap up, t \in up \ X : Meets(s, t)
    BY DEF LeadsOut
  <1>2. s \in up /\ t \in Server /\ s # t
    BY <1>1 DEF TypeOK
  <1>3. Meets(s, t)'
    BY <1>1, <1>2, MeetsStays
  <1>4. s \in X \cap up' /\ t \in up' \ X
    BY <1>1
  <1> QED
    BY <1>3, <1>4 DEF LeadsOut

\* As long as nothing is lost, nobody stops and no server drops a peer, no group of
\* servers that leads to a server outside it ever stops leading out of it, whatever
\* joins overlap and whatever is repeated.
THEOREM NeverSplits ==
  ASSUME Faultless
  PROVE  Spec /\ [][PeersStay]_vars => NeverSplit
  <1>1. TypeOK /\ SelfInv /\ NothingLeft /\ [Next]_vars /\ [PeersStay]_vars
        => [\A X \in SUBSET Server : LeadsOut(X) => LeadsOut(X)']_vars
    <2>1. [PeersStay]_vars => PeersStay
      BY DEF PeersStay, Peers, vars, servers
    <2> QED
      BY <2>1, JoinSteps, NothingLeftStep, LeadsOutStays
  <1> QED
    BY <1>1, TypeCorrect, SelfAlways, NothingLeftAlways, PTL DEF Spec, NeverSplit

\* No peer is dropped while no second passes, nor when datagrams are prompt.
Steady == ~Ticking \/ (Prompt /\ PERIOD <= PeerTTL)

LEMMA SteadyPeersStay == ASSUME Steady, Faultless PROVE Spec => [][PeersStay]_vars
  <1>1. CASE ~Ticking
    <2>1. [PeersStay /\ DataStay]_vars => [PeersStay]_vars
      OBVIOUS
    <2> QED
      BY <1>1, <2>1, NothingExpires, PTL
  <1>2. CASE Prompt /\ PERIOD <= PeerTTL
    BY <1>2, NobodyIsDropped
  <1> QED
    BY <1>1, <1>2 DEF Steady

\* So no such group is ever cut off while no second passes, nor when every datagram
\* is handled in the second it is sent in.
THEOREM NeverSplitsSteady ==
  ASSUME Steady, Faultless
  PROVE  Spec => NeverSplit
  BY SteadyPeersStay, NeverSplits, PTL

\* A server that is started while others run is told to connect to one of them.
JoinsRunning ==
  \A s \in up' \ up : up # {} => \E c \in up : c \in Contact[s] /\ Connecting(s, c)'

\* No group of running servers is without a link to the running servers outside it.
OneGroup ==
  \A X \in SUBSET up : X # {} /\ X # up => LeadsOut(X) \/ LeadsOut(up \ X)

OneGroupWhenQuiet ==
  Quiet => \A X \in SUBSET up : X # {} /\ X # up =>
             \E s \in X, t \in up \ X : t \in Peers(s)

LEMMA OneGroupStep ==
  ASSUME TypeOK, JoinStep, PeersStay, up \subseteq up', OneGroup, JoinsRunning
  PROVE  OneGroup'
  <1> SUFFICES ASSUME NEW X \in SUBSET up', X # {}, X # up'
               PROVE  LeadsOut(X)' \/ LeadsOut(up \ X)'
    BY DEF OneGroup
  \* The old servers of X and the old servers outside it.
  <1>1. CASE X \cap up # {} /\ up \ X # {}
    <2>1. PICK Y : Y = X \cap up
      OBVIOUS
    <2>2. LeadsOut(Y) \/ LeadsOut(up \ Y)
      BY <1>1, <2>1 DEF OneGroup
    <2>3. \A s, t \in up : s # t /\ Meets(s, t) => Meets(s, t)'
      BY MeetsStays DEF TypeOK
    <2>4. CASE LeadsOut(Y)
      BY <2>1, <2>3, <2>4 DEF LeadsOut
    <2>5. CASE LeadsOut(up \ Y)
      BY <2>1, <2>3, <2>5 DEF LeadsOut
    <2> QED
      BY <2>2, <2>4, <2>5
  \* One of the two is empty: only one server has been started, and it connects.
  <1>2. CASE X \cap up = {} \/ up \ X = {}
    <2>1. PICK x : x \in up' \ up /\ up' = up \cup {x}
      BY <1>2 DEF JoinStep, JoinStart, JoinConnect, JoinTold, Learns, JoinKnown, JoinGone,
                  SamePeers, JoinOther
    <2>2. up # {}
      BY <1>2, <2>1
    <2>3. PICK c \in up : Connecting(x, c)'
      BY <2>1, <2>2 DEF JoinsRunning
    <2>4. Meets(c, x)'
      BY <2>3 DEF Connecting, Meets
    <2>5. CASE X \cap up = {}
      <3>1. X = {x}
        BY <2>1, <2>5
      <3> QED
        BY <3>1, <2>1, <2>3, <2>4 DEF LeadsOut
    <2>6. CASE up \ X = {}
      <3>1. X = up
        BY <2>1, <2>6
      <3> QED
        BY <3>1, <2>1, <2>3, <2>4 DEF LeadsOut
    <2> QED
      BY <1>2, <2>5, <2>6
  <1> QED
    BY <1>1, <1>2

\* When every server that is started connects to one that runs, whichever it is and
\* however the joins overlap, the servers are one connected group whenever no
\* datagram is in flight: a hole in the mesh is never a gap.
THEOREM OneGroupAlways ==
  ASSUME Faultless
  PROVE  Spec /\ [][PeersStay /\ JoinsRunning]_vars => []OneGroupWhenQuiet
  <1>1. Init => OneGroup
    BY DEF Init, OneGroup
  <1>2. TypeOK /\ SelfInv /\ NothingLeft /\ OneGroup
        /\ [Next]_vars /\ [PeersStay /\ JoinsRunning]_vars => OneGroup'
    <2>1. UNCHANGED vars => PeersStay /\ JoinsRunning
      BY DEF PeersStay, JoinsRunning, Peers, vars, servers
    <2> QED
      BY <2>1, JoinSteps, NothingLeftStep, OneGroupStep
  <1>3. TypeOK /\ Mutual /\ OneGroup => OneGroupWhenQuiet
    <2> SUFFICES ASSUME TypeOK, Mutual, OneGroup, net = {},
                        NEW X \in SUBSET up, X # {}, X # up
                 PROVE  \E s \in X, t \in up \ X : t \in Peers(s)
      BY DEF OneGroupWhenQuiet, Quiet
    <2>1. \A a, b \in up : Meets(a, b) => b \in Peers(a) /\ a \in Peers(b)
      BY DEF Mutual, Meets, Connecting, TypeOK
    <2>2. CASE LeadsOut(X)
      BY <2>1, <2>2 DEF LeadsOut
    <2>3. CASE LeadsOut(up \ X)
      BY <2>1, <2>3 DEF LeadsOut
    <2> QED
      BY <2>2, <2>3 DEF OneGroup
  <1>4. [PeersStay /\ JoinsRunning]_vars => [PeersStay]_vars
    OBVIOUS
  <1> QED
    BY <1>1, <1>2, <1>3, <1>4, TypeCorrect, SelfAlways, NothingLeftAlways, MutualAlways,
       PTL DEF Spec

\* In particular while no second passes, or when datagrams are prompt.
THEOREM OneGroupSteady ==
  ASSUME Steady, Faultless
  PROVE  Spec /\ [][JoinsRunning]_vars => []OneGroupWhenQuiet
  <1>1. [PeersStay]_vars /\ [JoinsRunning]_vars => [PeersStay /\ JoinsRunning]_vars
    OBVIOUS
  <1> QED
    BY <1>1, SteadyPeersStay, OneGroupAlways, PTL

-----------------------------------------------------------------------------
(***************************************************************************)
(* The answers to answers, whatever is lost, repeated or stopped.          *)
(***************************************************************************)
\* Some server is started, or some server learns of another.
News ==
  \/ \E s \in Server : s \in up' \ up
  \/ \E s \in Server : \E t \in Server \ Peers(s) : t \in Peers(s)'

\* Whatever is lost, repeated, stopped or started again, a CONNECT or SHARE_SERVER
\* that was not in flight before is sent only by a step that starts a server or
\* enters one in a table it was not in.
THEOREM LinksCarryNews == Spec => OnlyNewsIsTold
  <1>1. TypeOK /\ [Next]_vars => [(\E n \in net' \ net : Link(n)) => News]_vars
    <2> SUFFICES ASSUME TypeOK, Next, NEW k \in net' \ net, Link(k)
                 PROVE  News
      OBVIOUS
    <2>t. server_table \in [Server -> PeerTable] /\ net \subseteq Message /\ up \subseteq Server
      BY DEF TypeOK
    <2>1. ASSUME NEW s \in Server, Stop(s) \/ fthread(s)
          PROVE  FALSE
      BY <2>1, LinkMessages DEF Stop, fthread, Send
    <2>2. ASSUME NEW s \in Server, NEW c \in Server, Start(s, c)
          PROVE  News
      BY <2>2 DEF Start, News
    <2>3. CASE \/ \E s \in Server, h \in Hash, ip \in Addr : ClientPut(s, h, ip)
               \/ \E c \in Client, s \in Server, h \in Hash : ClientGet(c, s, h)
               \/ \E c \in Client : ClientTimeout(c)
               \/ Tick
      BY <2>3 DEF ClientPut, ClientGet, ClientTimeout, Tick, Send, Link
    <2>4. ASSUME NEW m \in net, ClientReceive(m) \/ Lose(m) \/ Discard(m)
          PROVE  FALSE
      BY <2>4 DEF ClientReceive, Lose, Discard, Consume
    <2>5. ASSUME NEW m \in net, Handle(m)
          PROVE  News
      <3>m. m \in Message
        BY <2>t
      <3>1. \A out : Consume(m, out) => k \in out
        BY DEF Consume
      <3>2. CASE \/ HandlePut(m) \/ HandleGet(m) \/ HandleServerGet(m)
                 \/ HandleConnectKnown(m) \/ HandleKeep(m)
                 \/ HandleShareData(m) \/ HandleSharePut(m)
        BY <3>1, <3>2, LinkMessages
        DEF HandlePut, HandleGet, HandleServerGet, HandleConnectKnown, HandleKeep,
            HandleShareData, HandleSharePut
      <3>n. ASSUME NEW x \in Server, NEW y \in Server, y \notin Peers(x),
                   server_table' = [server_table EXCEPT ![x] = insert_server(@, y)]
            PROVE  News
        <4>1. y \in Peers(x)'
          BY <3>n, <2>t DEF insert_server, Peers
        <4> QED
          BY <3>n, <4>1 DEF News
      <3>3. CASE HandleConnectNew(m)
        <4>1. m.to \in Server /\ m.from \in Server
          BY <3>3, <3>m, MessageFields DEF HandleConnectNew, Takes
        <4> QED
          BY <3>3, <3>n, <4>1 DEF HandleConnectNew, is_known, Peers
      <3>4. CASE HandleShareServer(m)
        <4>1. m.to \in Server /\ m.server \in Server
          BY <3>4, <3>m, MessageFields DEF HandleShareServer, Takes
        <4>2. ~is_known(m.server, server_table[m.to])
          BY <3>1, <3>4 DEF HandleShareServer
        <4> QED
          BY <3>4, <3>n, <4>1, <4>2 DEF HandleShareServer, is_known, Peers
      <3> QED
        BY <2>5, <3>2, <3>3, <3>4 DEF Handle
    <2> QED
      BY <2>1, <2>2, <2>3, <2>4, <2>5 DEF Next
  <1>2. [(\E n \in net' \ net : Link(n)) => News]_vars
        => [(\E n \in net' \ net : n.header \in {"CONNECT", "SHARE_SERVER"})
              => \/ \E s \in Server : s \in up' \ up
                 \/ \E s \in Server : \E t \in Server \ Peers(s) : t \in Peers(s)']_vars
    BY DEF Link, News
  <1> QED
    BY <1>1, <1>2, TypeCorrect, PTL DEF Spec, OnlyNewsIsTold
=============================================================================
