----------------------------- MODULE DhtProofs -----------------------------
(***************************************************************************)
(* Theorems about Dht, for every set of servers, hashes, addresses and     *)
(* clients, every budget and every value of the limits.                    *)
(***************************************************************************)
EXTENDS Dht, TLAPS

-----------------------------------------------------------------------------
(***************************************************************************)
(* The operators on the tables keep them tables.                           *)
(***************************************************************************)
LEMMA AgeFacts ==
  /\ 0 \in Age
  /\ \A a \in Age : Older(a) \in Age /\ Older(a) <= a + 1
  BY MaxAgeAssumption DEF Age, Older

LEMMA TableShape ==
  ASSUME NEW t
  PROVE  t \in Table <=> DOMAIN t \subseteq Hash /\ t \in [DOMAIN t -> avl_node]
  BY DEF Table

LEMMA PeerTableShape ==
  ASSUME NEW t
  PROVE  t \in PeerTable <=> DOMAIN t \subseteq Server /\ t \in [DOMAIN t -> Age]
  BY DEF PeerTable

LEMMA EmptyTables == empty_table \in Table /\ no_server \in PeerTable
  BY TableShape, PeerTableShape DEF empty_table, no_server

LEMMA AddressListType ==
  ASSUME NEW t \in Table, NEW h
  PROVE  get_address_list(h, t) \in SUBSET Addr
  BY TableShape DEF get_address_list, avl_node

LEMMA PutTable ==
  ASSUME NEW t \in Table, NEW h \in Hash, NEW ip \in Addr
  PROVE  insert_hash_addr_put(h, ip, t) \in Table
  <1>1. get_address_list(h, t) \cup {ip} \in (SUBSET Addr) \ {{}}
    BY AddressListType
  <1>2. \A k \in DOMAIN t : t[k] \in avl_node
    BY TableShape
  <1> QED
    BY <1>1, <1>2, AgeFacts, TableShape DEF insert_hash_addr_put, avl_node

LEMMA ShareTable ==
  ASSUME NEW t \in Table, NEW h \in Hash, NEW ip \in Addr
  PROVE  insert_hash_addr_share(h, ip, t) \in Table
  <1>1. get_address_list(h, t) \cup {ip} \in (SUBSET Addr) \ {{}}
    BY AddressListType
  <1>2. \A k \in DOMAIN t : t[k] \in avl_node
    BY TableShape
  <1>3. (IF h \in DOMAIN t THEN t[h].last_put ELSE 0) \in Age
    BY <1>2, AgeFacts DEF avl_node
  <1> QED
    BY <1>1, <1>2, <1>3, TableShape DEF insert_hash_addr_share, avl_node

LEMMA SweptTable ==
  ASSUME NEW t \in Table
  PROVE  suppression_obsolete_hash(t) \in Table
  BY TableShape DEF suppression_obsolete_hash

LEMMA OlderTableType ==
  ASSUME NEW t \in Table
  PROVE  OlderTable(t) \in Table
  <1>1. \A k \in DOMAIN t : t[k] \in avl_node
    BY TableShape
  <1>2. \A k \in DOMAIN t :
          [address_list |-> t[k].address_list, last_put |-> Older(t[k].last_put)] \in avl_node
    BY <1>1, AgeFacts DEF avl_node
  <1> QED
    BY <1>2, TableShape DEF OlderTable

LEMMA PeerTables ==
  ASSUME NEW t \in PeerTable, NEW p \in Server
  PROVE  /\ insert_server(t, p) \in PeerTable
         /\ keep_alive_server(t, p) \in PeerTable
         /\ suppression_dead_server(t, p) \in PeerTable
         /\ OlderPeers(t) \in PeerTable
  <1>1. DOMAIN t \subseteq Server /\ \A q \in DOMAIN t : t[q] \in Age
    BY PeerTableShape
  <1>2. insert_server(t, p) \in PeerTable
    BY <1>1, AgeFacts, PeerTableShape DEF insert_server
  <1>3. keep_alive_server(t, p) \in PeerTable
    BY <1>1, AgeFacts, PeerTableShape DEF keep_alive_server
  <1>4. suppression_dead_server(t, p) \in PeerTable
    BY <1>1, PeerTableShape DEF suppression_dead_server
  <1>5. OlderPeers(t) \in PeerTable
    BY <1>1, AgeFacts, PeerTableShape DEF OlderPeers
  <1> QED
    BY <1>2, <1>3, <1>4, <1>5

-----------------------------------------------------------------------------
(***************************************************************************)
(* What is sent is a set of messages.                                      *)
(***************************************************************************)
LEMMA MessageFields ==
  ASSUME NEW m \in Message
  PROVE  /\ m.header \in {"PUT", "SHARE_PUT", "SHARE_DATA"} =>
              m.to \in Server /\ m.hash \in Hash /\ m.addr \in Addr
         /\ m.header = "GET" => m.to \in Server /\ m.from \in Client /\ m.hash \in Hash
         /\ m.header = "RESPONSE" => m.to \in Client /\ m.hash \in Hash /\ m.addr \in Addr
         /\ m.header = "SERVER_GET" =>
              m.to \in Server /\ m.from \in Server /\ m.hash \in Hash
         /\ m.header \in {"CONNECT", "KEEP"} => m.to \in Server /\ m.from \in Server
         /\ m.header = "SHARE_SERVER" => m.to \in Server /\ m.server \in Server
  BY DEF Message

LEMMA ServerMessages ==
  ASSUME NEW s \in Server, NEW P \in SUBSET Server
  PROVE  /\ connect(s, P) \subseteq Message
         /\ keep(s, P) \subseteq Message
         /\ \A h \in Hash, ip \in Addr : share_put(s, h, ip, P) \subseteq Message
  BY DEF connect, keep, share_put, others, Message

LEMMA ShareServersMessages ==
  ASSUME NEW s \in Server, NEW p \in Server, NEW t \in PeerTable
  PROVE  share_all_servers(s, p, t) \subseteq Message
  BY PeerTableShape DEF share_all_servers, others, Message

LEMMA ShareHashsMessages ==
  ASSUME NEW s \in Server, NEW p \in Server, NEW t \in Table
  PROVE  share_all_hashs(s, p, t) \subseteq Message
  <1>1. \A h \in DOMAIN t : h \in Hash /\ t[h].address_list \subseteq Addr
    BY TableShape DEF avl_node
  <1> QED
    BY <1>1 DEF share_all_hashs, others, Message

LEMMA AnswerMessages ==
  ASSUME NEW s \in Server, NEW h \in Hash, NEW t \in Table
  PROVE  /\ \A c \in Client, P \in SUBSET Server :
              answer_to_client(s, c, h, t, P) \subseteq Message
         /\ \A p \in Server : answer_to_server(p, h, t) \subseteq Message
  <1>1. get_address_list(h, t) \subseteq Addr
    BY AddressListType
  <1>2. ASSUME NEW c \in Client, NEW P \in SUBSET Server
        PROVE  answer_to_client(s, c, h, t, P) \subseteq Message
    <2>1. ask_others(s, h, t, P) \subseteq Message
      BY DhtAssumption DEF ask_others, others, Message
    <2>2. response(c, h, t) \subseteq Message
      BY <1>1 DEF response, Message
    <2> QED
      BY <2>1, <2>2 DEF answer_to_client
  <1>3. ASSUME NEW p \in Server
        PROVE  answer_to_server(p, h, t) \subseteq Message
    BY <1>1 DEF answer_to_server, Message
  <1> QED
    BY <1>2, <1>3

\* Receiving a message leaves messages in the network and a budget.
LEMMA ConsumeType ==
  ASSUME net \subseteq Message, left \in [Effort -> Nat],
         NEW m, NEW out \in SUBSET Message, Consume(m, out)
  PROVE  net' \subseteq Message /\ left' \in [Effort -> Nat]
  BY DEF Consume, Spend, Effort

LEMMA SpendType ==
  ASSUME left \in [Effort -> Nat], NEW e \in Effort, Spend(e)
  PROVE  left' \in [Effort -> Nat]
  BY DEF Spend
-----------------------------------------------------------------------------
(***************************************************************************)
(* Types.                                                                  *)
(***************************************************************************)
LEMMA InitType == Init => TypeOK
  BY EmptyTables, DhtAssumption
  DEF Init, TypeOK, Effort, ClientState

LEMMA StepType == TypeOK /\ [Next]_vars => TypeOK'
  <1> SUFFICES ASSUME TypeOK, [Next]_vars
               PROVE  TypeOK'
    OBVIOUS
  <1>t. /\ up \subseteq Server
        /\ server_table \in [Server -> PeerTable]
        /\ hash_table \in [Server -> Table]
        /\ nap \in [Server -> 0..PERIOD]
        /\ net \subseteq Message
        /\ client \in [Client -> ClientState]
        /\ puts \in Table
        /\ left \in [Effort -> Nat]
    BY DEF TypeOK
  <1>p. PERIOD \in Nat /\ PERIOD > 0
    BY DhtAssumption
  <1>d. \A s \in Server : Peers(s) \in SUBSET Server
    BY <1>t, PeerTableShape DEF Peers
  <1>1. ASSUME NEW s \in Server, Stop(s)
        PROVE  TypeOK'
    <2>1. left' \in [Effort -> Nat]
      BY <1>1, <1>t, SpendType DEF Stop, Effort
    <2> QED
      BY <1>1, <1>t, <1>p, <2>1, EmptyTables DEF Stop, TypeOK
  <1>2. ASSUME NEW s \in Server, fthread(s)
        PROVE  TypeOK'
    <2>1. net' \subseteq Message
      BY <1>2, <1>t, <1>d, ServerMessages DEF fthread, Send
    <2>2. server_table' \in [Server -> PeerTable]
      BY <1>2, <1>t, PeerTables DEF fthread
    <2>3. hash_table' \in [Server -> Table]
      BY <1>2, <1>t, SweptTable DEF fthread
    <2> QED
      BY <1>2, <1>t, <1>p, <2>1, <2>2, <2>3 DEF fthread, TypeOK
  <1>3. ASSUME NEW s \in Server, NEW c \in Server, Start(s, c)
        PROVE  TypeOK'
    <2>1. left' \in [Effort -> Nat]
      BY <1>3, <1>t, SpendType DEF Start, Effort
    <2>2. net' \subseteq Message
      BY <1>3, <1>t, ServerMessages DEF Start, Send
    <2> QED
      BY <1>3, <1>t, <1>p, <2>1, <2>2 DEF Start, TypeOK
  <1>4. ASSUME NEW s \in Server, NEW h \in Hash, NEW ip \in Addr, ClientPut(s, h, ip)
        PROVE  TypeOK'
    <2>1. left' \in [Effort -> Nat]
      BY <1>4, <1>t, SpendType DEF ClientPut, Effort
    <2>2. net' \subseteq Message
      BY <1>4, <1>t DEF ClientPut, Send, Message
    <2> QED
      BY <1>4, <1>t, <2>1, <2>2 DEF ClientPut, TypeOK, servers
  <1>5. ASSUME NEW c \in Client, NEW s \in Server, NEW h \in Hash, ClientGet(c, s, h)
        PROVE  TypeOK'
    <2>1. net' \subseteq Message
      BY <1>5, <1>t DEF ClientGet, Send, Message
    <2>2. \A p \in Server : get_address_list(h, hash_table[p]) \in SUBSET Addr
      BY <1>t, AddressListType
    <2>3. UNION {get_address_list(h, hash_table[p]) : p \in Peers(s) \cap up} \in SUBSET Addr
      BY <2>2, <1>t
    <2>4. [state |-> "waiting", server |-> s, hash |-> h, printed |-> {},
           held |-> get_address_list(h, hash_table[s]),
           around |-> UNION {get_address_list(h, hash_table[p]) :
                               p \in Peers(s) \cap up}] \in ClientState
      BY <2>2, <2>3 DEF ClientState
    <2>5. client' \in [Client -> ClientState]
      BY <1>5, <1>t, <2>4 DEF ClientGet
    <2> QED
      BY <1>5, <1>t, <2>1, <2>5 DEF ClientGet, TypeOK, servers
  <1>6. ASSUME NEW c \in Client, ClientTimeout(c)
        PROVE  TypeOK'
    <2>1. [client[c] EXCEPT !.state = "done"] \in ClientState
      BY <1>6, <1>t DEF ClientTimeout, ClientState
    <2>2. client' \in [Client -> ClientState]
      BY <1>6, <1>t, <2>1 DEF ClientTimeout
    <2> QED
      BY <1>6, <1>t, <2>2 DEF ClientTimeout, TypeOK, servers
  <1>7. ASSUME NEW m \in net, Handle(m)
        PROVE  TypeOK'
    <2>m. m \in Message
      BY <1>t
    <2>1. CASE HandlePut(m)
      <3>1. m.to \in Server /\ m.hash \in Hash /\ m.addr \in Addr
        BY <2>1, <2>m, MessageFields DEF HandlePut, Takes
      <3>2. net' \subseteq Message /\ left' \in [Effort -> Nat]
        BY <2>1, <3>1, <1>t, <1>d, ServerMessages, ConsumeType DEF HandlePut
      <3>3. hash_table' \in [Server -> Table] /\ puts' \in Table
        BY <2>1, <3>1, <1>t, PutTable DEF HandlePut
      <3> QED
        BY <2>1, <1>t, <3>2, <3>3 DEF HandlePut, TypeOK
    <2>2. CASE HandleGet(m)
      <3>1. m.to \in Server /\ m.from \in Client /\ m.hash \in Hash
        BY <2>2, <2>m, MessageFields DEF HandleGet, Takes
      <3>2. net' \subseteq Message /\ left' \in [Effort -> Nat]
        BY <2>2, <3>1, <1>t, <1>d, AnswerMessages, ConsumeType DEF HandleGet
      <3> QED
        BY <2>2, <1>t, <3>2 DEF HandleGet, TypeOK, servers
    <2>3. CASE HandleServerGet(m)
      <3>1. m.to \in Server /\ m.from \in Server /\ m.hash \in Hash
        BY <2>3, <2>m, MessageFields DEF HandleServerGet, Takes
      <3>2. net' \subseteq Message /\ left' \in [Effort -> Nat]
        BY <2>3, <3>1, <1>t, AnswerMessages, ConsumeType DEF HandleServerGet
      <3> QED
        BY <2>3, <1>t, <3>2 DEF HandleServerGet, TypeOK, servers
    <2>4. CASE HandleConnectKnown(m)
      <3>1. net' \subseteq Message /\ left' \in [Effort -> Nat]
        BY <2>4, <1>t, ConsumeType DEF HandleConnectKnown
      <3> QED
        BY <2>4, <1>t, <3>1 DEF HandleConnectKnown, TypeOK, servers
    <2>5. CASE HandleConnectNew(m)
      <3>1. m.to \in Server /\ m.from \in Server
        BY <2>5, <2>m, MessageFields DEF HandleConnectNew, Takes
      <3>2. /\ share_all_servers(m.to, m.from, server_table[m.to]) \subseteq Message
            /\ connect(m.to, {m.from}) \subseteq Message
            /\ share_all_hashs(m.to, m.from, hash_table[m.to]) \subseteq Message
        BY <3>1, <1>t, ShareServersMessages, ServerMessages, ShareHashsMessages
      <3>3. net' \subseteq Message /\ left' \in [Effort -> Nat]
        BY <2>5, <3>2, <1>t, ConsumeType DEF HandleConnectNew
      <3>4. server_table' \in [Server -> PeerTable]
        BY <2>5, <3>1, <1>t, PeerTables DEF HandleConnectNew
      <3> QED
        BY <2>5, <1>t, <3>3, <3>4 DEF HandleConnectNew, TypeOK
    <2>6. CASE HandleKeep(m)
      <3>1. m.to \in Server /\ m.from \in Server
        BY <2>6, <2>m, MessageFields DEF HandleKeep, Takes
      <3>2. net' \subseteq Message /\ left' \in [Effort -> Nat]
        BY <2>6, <1>t, ConsumeType DEF HandleKeep
      <3>3. server_table' \in [Server -> PeerTable]
        BY <2>6, <3>1, <1>t, PeerTables DEF HandleKeep
      <3> QED
        BY <2>6, <1>t, <3>2, <3>3 DEF HandleKeep, TypeOK
    <2>7. CASE HandleShareData(m)
      <3>1. m.to \in Server /\ m.hash \in Hash /\ m.addr \in Addr
        BY <2>7, <2>m, MessageFields DEF HandleShareData, Takes
      <3>2. net' \subseteq Message /\ left' \in [Effort -> Nat]
        BY <2>7, <1>t, ConsumeType DEF HandleShareData
      <3>3. hash_table' \in [Server -> Table]
        BY <2>7, <3>1, <1>t, ShareTable DEF HandleShareData
      <3> QED
        BY <2>7, <1>t, <3>2, <3>3 DEF HandleShareData, TypeOK
    <2>8. CASE HandleSharePut(m)
      <3>1. m.to \in Server /\ m.hash \in Hash /\ m.addr \in Addr
        BY <2>8, <2>m, MessageFields DEF HandleSharePut, Takes
      <3>2. net' \subseteq Message /\ left' \in [Effort -> Nat]
        BY <2>8, <1>t, ConsumeType DEF HandleSharePut
      <3>3. hash_table' \in [Server -> Table]
        BY <2>8, <3>1, <1>t, PutTable DEF HandleSharePut
      <3> QED
        BY <2>8, <1>t, <3>2, <3>3 DEF HandleSharePut, TypeOK
    <2>9. CASE HandleShareServer(m)
      <3>1. m.to \in Server /\ m.server \in Server
        BY <2>9, <2>m, MessageFields DEF HandleShareServer, Takes
      <3>2. connect(m.to, {m.server}) \subseteq Message
        BY <3>1, ServerMessages
      <3>3. net' \subseteq Message /\ left' \in [Effort -> Nat]
        BY <2>9, <3>2, <1>t, ConsumeType DEF HandleShareServer
      <3>4. server_table' \in [Server -> PeerTable]
        <4>1. CASE is_known(m.server, server_table[m.to])
          BY <2>9, <4>1, <1>t DEF HandleShareServer
        <4>2. CASE ~is_known(m.server, server_table[m.to])
          <5>1. server_table' = [server_table EXCEPT
                  ![m.to] = insert_server(server_table[m.to], m.server)]
            BY <2>9, <4>2 DEF HandleShareServer
          <5> QED
            BY <5>1, <3>1, <1>t, PeerTables
        <4> QED
          BY <4>1, <4>2
      <3> QED
        BY <2>9, <1>t, <3>3, <3>4 DEF HandleShareServer, TypeOK
    <2> QED
      BY <1>7, <2>1, <2>2, <2>3, <2>4, <2>5, <2>6, <2>7, <2>8, <2>9 DEF Handle
  <1>8. ASSUME NEW m \in net, ClientReceive(m)
        PROVE  TypeOK'
    <2>1. m.to \in Client /\ m.addr \in Addr
      BY <1>8, <1>t, MessageFields DEF ClientReceive
    <2>2. [client[m.to] EXCEPT !.printed = @ \cup {m.addr}] \in ClientState
      BY <1>8, <1>t, <2>1 DEF ClientReceive, ClientState
    <2>3. client' \in [Client -> ClientState]
      BY <1>8, <1>t, <2>1, <2>2 DEF ClientReceive
    <2>4. net' \subseteq Message /\ left' \in [Effort -> Nat]
      BY <1>8, <1>t, ConsumeType DEF ClientReceive
    <2> QED
      BY <1>8, <1>t, <2>3, <2>4 DEF ClientReceive, TypeOK, servers
  <1>9. ASSUME NEW m \in net, Lose(m)
        PROVE  TypeOK'
    <2>1. left' \in [Effort -> Nat]
      BY <1>9, <1>t, SpendType DEF Lose, Effort
    <2> QED
      BY <1>9, <1>t, <2>1 DEF Lose, TypeOK, servers
  <1>10. ASSUME NEW m \in net, Discard(m)
         PROVE  TypeOK'
    BY <1>10, <1>t DEF Discard, TypeOK, servers
  <1>11. CASE Tick
    <2>1. server_table' \in [Server -> PeerTable]
      BY <1>11, <1>t, PeerTables DEF Tick
    <2>2. hash_table' \in [Server -> Table] /\ puts' \in Table
      BY <1>11, <1>t, OlderTableType DEF Tick
    <2>3. nap' \in [Server -> 0..PERIOD]
      BY <1>11, <1>t, <1>p DEF Tick
    <2> QED
      BY <1>11, <1>t, <2>1, <2>2, <2>3 DEF Tick, TypeOK
  <1>12. CASE UNCHANGED vars
    BY <1>12, <1>t DEF TypeOK, vars, servers
  <1> QED
    BY <1>1, <1>2, <1>3, <1>4, <1>5, <1>6, <1>7, <1>8, <1>9, <1>10, <1>11, <1>12
    DEF Next

\* Whatever is started, stopped, put, asked, lost, repeated or reordered, and
\* however long it all takes, every variable keeps its type.
THEOREM TypeCorrect == Spec => []TypeOK
  BY InitType, StepType, PTL DEF Spec
-----------------------------------------------------------------------------
(***************************************************************************)
(* No server becomes its own peer.  NotOwnPeer alone is not inductive: the *)
(* SHARE_SERVER handler inserts the server it is told of without comparing *)
(* it with itself, so the proof needs that no message names its addressee. *)
(***************************************************************************)
ToldOfItself(m) == m.header = "SHARE_SERVER" /\ m.server = m.to

LEMMA ConsumeNet ==
  ASSUME NEW m, NEW out, Consume(m, out)
  PROVE  net' \subseteq net \cup out
  BY DEF Consume

\* Only share_all_servers sends SHARE_SERVER, and only about its table.
LEMMA NobodyIsToldOfItself ==
  ASSUME NEW s \in Server, NEW h, NEW ip, NEW t
  PROVE  /\ \A P : \A m \in connect(s, P) \cup keep(s, P) \cup share_put(s, h, ip, P) :
              ~ToldOfItself(m)
         /\ \A p : p \notin DOMAIN t =>
              \A m \in share_all_servers(s, p, t) : ~ToldOfItself(m)
         /\ \A p : \A m \in share_all_hashs(s, p, t) \cup answer_to_server(p, h, t) :
              ~ToldOfItself(m)
         /\ \A c, P : \A m \in answer_to_client(s, c, h, t, P) : ~ToldOfItself(m)
  <1>1. \A P : \A m \in connect(s, P) \cup keep(s, P) \cup share_put(s, h, ip, P) :
          ~ToldOfItself(m)
    BY DEF connect, keep, share_put, ToldOfItself
  <1>2. \A p : p \notin DOMAIN t =>
          \A m \in share_all_servers(s, p, t) : ~ToldOfItself(m)
    BY DEF share_all_servers, others, ToldOfItself
  <1>3. \A p : \A m \in share_all_hashs(s, p, t) \cup answer_to_server(p, h, t) :
          ~ToldOfItself(m)
    BY DEF share_all_hashs, answer_to_server, ToldOfItself
  <1>4. \A c, P : \A m \in answer_to_client(s, c, h, t, P) : ~ToldOfItself(m)
    BY DEF answer_to_client, ask_others, response, ToldOfItself
  <1> QED
    BY <1>1, <1>2, <1>3, <1>4

SelfInv == NoServerToldOfItself /\ NotOwnPeer

LEMMA SelfStep == TypeOK /\ SelfInv /\ [Next]_vars => SelfInv'
  <1> SUFFICES ASSUME TypeOK, SelfInv, [Next]_vars
               PROVE  SelfInv'
    OBVIOUS
  <1>t. /\ server_table \in [Server -> PeerTable]
        /\ hash_table \in [Server -> Table]
        /\ net \subseteq Message
    BY DEF TypeOK
  <1>i. /\ \A m \in net : ~ToldOfItself(m)
        /\ \A s \in Server : s \notin DOMAIN server_table[s]
    BY DEF SelfInv, NoServerToldOfItself, NotOwnPeer, Peers, ToldOfItself
  <1> SUFFICES /\ \A m \in net' : ~ToldOfItself(m)
               /\ \A s \in Server : s \notin DOMAIN server_table'[s]
    BY DEF SelfInv, NoServerToldOfItself, NotOwnPeer, Peers, ToldOfItself
  <1>1. ASSUME NEW s \in Server, Stop(s)
        PROVE  /\ \A m \in net' : ~ToldOfItself(m)
               /\ \A r \in Server : r \notin DOMAIN server_table'[r]
    BY <1>1, <1>t, <1>i DEF Stop, no_server
  <1>2. ASSUME NEW s \in Server, fthread(s)
        PROVE  /\ \A m \in net' : ~ToldOfItself(m)
               /\ \A r \in Server : r \notin DOMAIN server_table'[r]
    <2>1. \A m \in net' : ~ToldOfItself(m)
      BY <1>2, <1>i, NobodyIsToldOfItself DEF fthread, Send
    <2>2. DOMAIN suppression_dead_server(server_table[s], s) \subseteq DOMAIN server_table[s]
      BY DEF suppression_dead_server
    <2> QED
      BY <1>2, <1>t, <1>i, <2>1, <2>2 DEF fthread
  <1>3. ASSUME NEW s \in Server, NEW c \in Server, Start(s, c)
        PROVE  /\ \A m \in net' : ~ToldOfItself(m)
               /\ \A r \in Server : r \notin DOMAIN server_table'[r]
    BY <1>3, <1>i, NobodyIsToldOfItself DEF Start, Send
  <1>4. ASSUME NEW s \in Server, NEW h \in Hash, NEW ip \in Addr, ClientPut(s, h, ip)
        PROVE  /\ \A m \in net' : ~ToldOfItself(m)
               /\ \A r \in Server : r \notin DOMAIN server_table'[r]
    BY <1>4, <1>i DEF ClientPut, Send, ToldOfItself, servers
  <1>5. ASSUME NEW c \in Client, NEW s \in Server, NEW h \in Hash, ClientGet(c, s, h)
        PROVE  /\ \A m \in net' : ~ToldOfItself(m)
               /\ \A r \in Server : r \notin DOMAIN server_table'[r]
    BY <1>5, <1>i DEF ClientGet, Send, ToldOfItself, servers
  <1>6. ASSUME NEW c \in Client, ClientTimeout(c)
        PROVE  /\ \A m \in net' : ~ToldOfItself(m)
               /\ \A r \in Server : r \notin DOMAIN server_table'[r]
    BY <1>6, <1>i DEF ClientTimeout, servers
  <1>7. ASSUME NEW m \in net, Handle(m)
        PROVE  /\ \A n \in net' : ~ToldOfItself(n)
               /\ \A r \in Server : r \notin DOMAIN server_table'[r]
    <2>m. m \in Message
      BY <1>t
    <2>1. CASE HandlePut(m)
      <3>1. m.to \in Server
        BY <2>1, <2>m, MessageFields DEF HandlePut, Takes
      <3> QED
        BY <2>1, <3>1, <1>i, ConsumeNet, NobodyIsToldOfItself DEF HandlePut
    <2>2. CASE HandleGet(m)
      <3>1. m.to \in Server
        BY <2>2, <2>m, MessageFields DEF HandleGet, Takes
      <3> QED
        BY <2>2, <3>1, <1>i, ConsumeNet, NobodyIsToldOfItself DEF HandleGet, servers
    <2>3. CASE HandleServerGet(m)
      <3>1. m.to \in Server
        BY <2>3, <2>m, MessageFields DEF HandleServerGet, Takes
      <3> QED
        BY <2>3, <3>1, <1>i, ConsumeNet, NobodyIsToldOfItself DEF HandleServerGet, servers
    <2>4. CASE HandleConnectKnown(m)
      BY <2>4, <1>i, ConsumeNet DEF HandleConnectKnown, servers
    <2>5. CASE HandleConnectNew(m)
      <3>1. m.to \in Server /\ m.from \in Server
        BY <2>5, <2>m, MessageFields DEF HandleConnectNew, Takes
      <3>2. \A n \in share_all_servers(m.to, m.from, server_table[m.to])
                     \cup connect(m.to, {m.from})
                     \cup share_all_hashs(m.to, m.from, hash_table[m.to]) : ~ToldOfItself(n)
        BY <2>5, <3>1, NobodyIsToldOfItself DEF HandleConnectNew, is_known
      <3>3. \A n \in net' : ~ToldOfItself(n)
        BY <2>5, <3>2, <1>i, ConsumeNet DEF HandleConnectNew
      <3> QED
        BY <2>5, <3>1, <3>3, <1>t, <1>i DEF HandleConnectNew, insert_server
    <2>6. CASE HandleKeep(m)
      <3>1. \A t : DOMAIN keep_alive_server(t, m.from) = DOMAIN t
        BY DEF keep_alive_server
      <3>2. \A n \in net' : ~ToldOfItself(n)
        BY <2>6, <1>i, ConsumeNet DEF HandleKeep
      <3>3. \A r \in Server : DOMAIN server_table'[r] = DOMAIN server_table[r]
        BY <2>6, <3>1, <1>t DEF HandleKeep
      <3> QED
        BY <3>2, <3>3, <1>i
    <2>7. CASE HandleShareData(m)
      BY <2>7, <1>i, ConsumeNet DEF HandleShareData
    <2>8. CASE HandleSharePut(m)
      BY <2>8, <1>i, ConsumeNet DEF HandleSharePut
    <2>9. CASE HandleShareServer(m)
      <3>1. m.to \in Server /\ m.server # m.to
        BY <2>9, <2>m, <1>i, MessageFields DEF HandleShareServer, Takes, ToldOfItself
      <3>2. CASE is_known(m.server, server_table[m.to])
        BY <2>9, <3>2, <1>i, ConsumeNet DEF HandleShareServer
      <3>3. CASE ~is_known(m.server, server_table[m.to])
        <4>1. /\ server_table' = [server_table EXCEPT
                   ![m.to] = insert_server(server_table[m.to], m.server)]
              /\ Consume(m, connect(m.to, {m.server}))
          BY <2>9, <3>3 DEF HandleShareServer
        <4>2. \A n \in net' : ~ToldOfItself(n)
          BY <4>1, <3>1, <1>i, ConsumeNet, NobodyIsToldOfItself
        <4> QED
          BY <4>1, <4>2, <3>1, <1>t, <1>i DEF insert_server
      <3> QED
        BY <3>2, <3>3
    <2> QED
      BY <1>7, <2>1, <2>2, <2>3, <2>4, <2>5, <2>6, <2>7, <2>8, <2>9 DEF Handle
  <1>8. ASSUME NEW m \in net, ClientReceive(m) \/ Lose(m) \/ Discard(m)
        PROVE  /\ \A n \in net' : ~ToldOfItself(n)
               /\ \A r \in Server : r \notin DOMAIN server_table'[r]
    BY <1>8, <1>i, ConsumeNet DEF ClientReceive, Lose, Discard, servers
  <1>9. CASE Tick
    BY <1>9, <1>i DEF Tick, OlderPeers
  <1>10. CASE UNCHANGED vars
    BY <1>10, <1>i DEF vars, servers
  <1> QED
    BY <1>1, <1>2, <1>3, <1>4, <1>5, <1>6, <1>7, <1>8, <1>9, <1>10 DEF Next

LEMMA SelfAlways == Spec => []SelfInv
  <1>1. Init => SelfInv
    BY DEF Init, SelfInv, NoServerToldOfItself, NotOwnPeer, Peers, no_server
  <1> QED
    BY <1>1, SelfStep, TypeCorrect, PTL DEF Spec

\* No server ever has itself in its table of peers, for any number of servers
\* that connect to each other, stop and come back under the same address.
THEOREM NeverOwnPeer == Spec => []NotOwnPeer
  <1>1. SelfInv => NotOwnPeer
    BY DEF SelfInv
  <1> QED
    BY <1>1, SelfAlways, PTL

\* No SHARE_SERVER ever names the server it is sent to, which does not look
\* whether it is named itself.
THEOREM ToldOfOthers == Spec => []NoServerToldOfItself
  <1>1. SelfInv => NoServerToldOfItself
    BY DEF SelfInv
  <1> QED
    BY <1>1, SelfAlways, PTL
-----------------------------------------------------------------------------
(***************************************************************************)
(* Nothing is made up: what a handler stores or sends comes from its       *)
(* message or from its own table.  The client takes an answer without      *)
(* looking at its hash, so the proof also needs that a request in flight,  *)
(* and each answer to it, has the hash the client asked for.               *)
(***************************************************************************)
\* What is stored in table t was put, according to the history H.
Known(t, H) ==
  \A h : \A ip \in get_address_list(h, t) : ip \in get_address_list(h, H)

\* The same for a message, and for a client.
MessageKnown(m, H) ==
  m.header \in {"SHARE_PUT", "SHARE_DATA", "RESPONSE"} =>
    m.addr \in get_address_list(m.hash, H)

ClientKnown(c, H) ==
  client[c].state # "new" =>
    \A ip \in client[c].printed : ip \in get_address_list(client[c].hash, H)

LEMMA OnlyPutDataParts ==
  OnlyPutData <=> /\ \A s \in Server : Known(hash_table[s], puts)
                  /\ \A m \in net : MessageKnown(m, puts)
                  /\ \A c \in Client : ClientKnown(c, puts)
  BY DEF OnlyPutData, Known, MessageKnown, ClientKnown, IsPut, get_address_list

\* What each operator on tables does to the addresses of a hash.
LEMMA AddressLists ==
  ASSUME NEW t, NEW h, NEW ip, NEW k
  PROVE  /\ get_address_list(k, insert_hash_addr_put(h, ip, t)) =
              get_address_list(k, t) \cup (IF k = h THEN {ip} ELSE {})
         /\ get_address_list(k, insert_hash_addr_share(h, ip, t)) =
              get_address_list(k, t) \cup (IF k = h THEN {ip} ELSE {})
         /\ get_address_list(k, suppression_obsolete_hash(t))
              \subseteq get_address_list(k, t)
         /\ get_address_list(k, OlderTable(t)) = get_address_list(k, t)
         /\ get_address_list(k, empty_table) = {}
  <1>1. get_address_list(k, insert_hash_addr_put(h, ip, t)) =
          get_address_list(k, t) \cup (IF k = h THEN {ip} ELSE {})
    BY DEF get_address_list, insert_hash_addr_put
  <1>2. get_address_list(k, insert_hash_addr_share(h, ip, t)) =
          get_address_list(k, t) \cup (IF k = h THEN {ip} ELSE {})
    BY DEF get_address_list, insert_hash_addr_share
  <1>3. get_address_list(k, suppression_obsolete_hash(t)) \subseteq get_address_list(k, t)
    BY DEF get_address_list, suppression_obsolete_hash
  <1>4. get_address_list(k, OlderTable(t)) = get_address_list(k, t)
    BY DEF get_address_list, OlderTable
  <1>5. get_address_list(k, empty_table) = {}
    BY DEF get_address_list, empty_table
  <1> QED
    BY <1>1, <1>2, <1>3, <1>4, <1>5

\* The operators on tables keep what they store known.
LEMMA KnownAfter ==
  ASSUME NEW t, NEW H, Known(t, H)
  PROVE  /\ Known(suppression_obsolete_hash(t), H)
         /\ Known(empty_table, H)
         /\ \A h : \A ip \in get_address_list(h, H) :
              /\ Known(insert_hash_addr_put(h, ip, t), H)
              /\ Known(insert_hash_addr_share(h, ip, t), H)
  <1>1. ASSUME NEW k
        PROVE  get_address_list(k, suppression_obsolete_hash(t)) \subseteq get_address_list(k, t)
    BY AddressLists
  <1>2. Known(suppression_obsolete_hash(t), H)
    BY <1>1 DEF Known
  <1>3. Known(empty_table, H)
    BY DEF Known, get_address_list, empty_table
  <1>4. ASSUME NEW h, NEW ip \in get_address_list(h, H)
        PROVE  /\ Known(insert_hash_addr_put(h, ip, t), H)
               /\ Known(insert_hash_addr_share(h, ip, t), H)
    <2>1. ASSUME NEW k
          PROVE  /\ get_address_list(k, insert_hash_addr_put(h, ip, t)) =
                       get_address_list(k, t) \cup (IF k = h THEN {ip} ELSE {})
                 /\ get_address_list(k, insert_hash_addr_share(h, ip, t)) =
                       get_address_list(k, t) \cup (IF k = h THEN {ip} ELSE {})
      BY AddressLists
    <2> QED
      BY <2>1 DEF Known
  <1> QED
    BY <1>2, <1>3, <1>4

\* One server's table is replaced by a known one.
LEMMA OneTableReplaced ==
  ASSUME NEW T \in [Server -> Table], NEW H, NEW s \in Server, NEW t,
         \A r \in Server : Known(T[r], H), Known(t, H)
  PROVE  \A r \in Server : Known([T EXCEPT ![s] = t][r], H)
  BY DEF Known

\* What a server that stores only known data sends is known.
LEMMA SentIsKnown ==
  ASSUME NEW s, NEW h, NEW t, NEW H, Known(t, H)
  PROVE  /\ \A P : \A m \in connect(s, P) \cup keep(s, P) : MessageKnown(m, H)
         /\ \A P, ip : ip \in get_address_list(h, H) =>
              \A m \in share_put(s, h, ip, P) : MessageKnown(m, H)
         /\ \A p, T : \A m \in share_all_servers(s, p, T) : MessageKnown(m, H)
         /\ \A p : \A m \in share_all_hashs(s, p, t) : MessageKnown(m, H)
         /\ \A p : \A m \in answer_to_server(p, h, t) : MessageKnown(m, H)
         /\ \A c, P : \A m \in answer_to_client(s, c, h, t, P) : MessageKnown(m, H)
  <1>1. \A P : \A m \in connect(s, P) \cup keep(s, P) : MessageKnown(m, H)
    BY DEF connect, keep, MessageKnown
  <1>2. \A P, ip : ip \in get_address_list(h, H) =>
          \A m \in share_put(s, h, ip, P) : MessageKnown(m, H)
    BY DEF share_put, MessageKnown
  <1>3. \A p, T : \A m \in share_all_servers(s, p, T) : MessageKnown(m, H)
    BY DEF share_all_servers, MessageKnown
  <1>4. \A p : \A m \in share_all_hashs(s, p, t) : MessageKnown(m, H)
    <2>1. \A k \in DOMAIN t : get_address_list(k, t) = t[k].address_list
      BY DEF get_address_list
    <2> QED
      BY <2>1 DEF share_all_hashs, MessageKnown, Known
  <1>5. \A p : \A m \in answer_to_server(p, h, t) : MessageKnown(m, H)
    BY DEF answer_to_server, MessageKnown, Known
  <1>6. \A c, P : \A m \in answer_to_client(s, c, h, t, P) : MessageKnown(m, H)
    BY DEF answer_to_client, ask_others, response, MessageKnown, Known
  <1> QED
    BY <1>1, <1>2, <1>3, <1>4, <1>5, <1>6
\* What is in flight from or to a client is about the hash it asked for.
Match(m) ==
  /\ m.header = "GET" =>
       client[m.from].state # "new" /\ client[m.from].hash = m.hash
  /\ m.header = "RESPONSE" =>
       client[m.to].state # "new" /\ client[m.to].hash = m.hash

Matching == \A m \in net : Match(m)

LEMMA MatchingInit == Init => Matching
  BY DEF Init, Matching

LEMMA MatchingStep == TypeOK /\ Matching /\ [Next]_vars => Matching'
  <1> SUFFICES ASSUME TypeOK, Matching, [Next]_vars
               PROVE  Matching'
    OBVIOUS
  <1>i. \A m \in net : Match(m) /\ m \in Message
    BY DEF Matching, TypeOK
  <1>t. client \in [Client -> ClientState]
    BY DEF TypeOK
  \* Clients as they were, and nothing sent from or to a client.
  <1>s. ASSUME UNCHANGED client, NEW out, net' \subseteq net \cup out,
               \A m \in out : m.header \notin {"GET", "RESPONSE"}
        PROVE  Matching'
    BY <1>s, <1>i DEF Matching, Match
  <1>1. ASSUME NEW s \in Server, NEW h \in Hash, NEW ip \in Addr, ClientPut(s, h, ip)
        PROVE  Matching'
    BY <1>1, <1>i DEF ClientPut, Send, Matching, Match
  <1>2. ASSUME NEW c \in Client, NEW s \in Server, NEW h \in Hash, ClientGet(c, s, h)
        PROVE  Matching'
    <2>1. PICK g : g = [header |-> "GET", to |-> s, from |-> c, hash |-> h]
      OBVIOUS
    <2>2. client'[c].state = "waiting" /\ client'[c].hash = h
      BY <1>2, <1>t DEF ClientGet
    <2>3. \A d \in Client : d # c => client'[d] = client[d]
      BY <1>2, <1>t DEF ClientGet
    <2>4. ASSUME NEW m \in net PROVE Match(m)'
      <3>1. client[c].state = "new"
        BY <1>2 DEF ClientGet
      <3> QED
        BY <2>3, <3>1, <1>i, MessageFields DEF Match
    <2>5. Match(g)'
      BY <2>1, <2>2 DEF Match
    <2> QED
      BY <1>2, <2>1, <2>4, <2>5 DEF ClientGet, Send, Matching
  <1>3. ASSUME NEW c \in Client, ClientTimeout(c)
        PROVE  Matching'
    <2>1. \A d \in Client : /\ client'[d].hash = client[d].hash
                            /\ client[d].state # "new" => client'[d].state # "new"
      BY <1>3, <1>t DEF ClientTimeout, ClientState
    <2> QED
      BY <1>3, <2>1, <1>i, MessageFields DEF ClientTimeout, Matching, Match
  <1>4. ASSUME NEW m \in net, ClientReceive(m)
        PROVE  Matching'
    <2>1. \A d \in Client : /\ client'[d].hash = client[d].hash
                            /\ client'[d].state = client[d].state
      BY <1>4, <1>t DEF ClientReceive, ClientState
    <2> QED
      BY <1>4, <2>1, <1>i, ConsumeNet, MessageFields DEF ClientReceive, Matching, Match
  <1>5. ASSUME NEW m \in net, Handle(m)
        PROVE  Matching'
    <2>1. CASE HandleGet(m)
      <3>1. Match(m) /\ m.header = "GET"
        BY <2>1, <1>i DEF HandleGet, Takes
      <3>2. \A n \in answer_to_client(m.to, m.from, m.hash, hash_table[m.to],
                                      Peers(m.to)) : Match(n)
        BY <3>1 DEF answer_to_client, ask_others, response, Match
      <3> QED
        BY <2>1, <3>2, <1>i, ConsumeNet DEF HandleGet, servers, Matching, Match
    <2>2. CASE ~HandleGet(m)
      <3>1. /\ UNCHANGED client
            /\ \E out : /\ net' \subseteq net \cup out
                        /\ \A n \in out : n.header \notin {"GET", "RESPONSE"}
        <4>1. CASE HandlePut(m)
          BY <4>1, ConsumeNet DEF HandlePut, share_put
        <4>2. CASE HandleServerGet(m)
          BY <4>2, ConsumeNet DEF HandleServerGet, answer_to_server, servers
        <4>3. CASE HandleConnectNew(m)
          BY <4>3, ConsumeNet
          DEF HandleConnectNew, share_all_servers, share_all_hashs, connect
        <4>4. CASE HandleShareServer(m)
          BY <4>4, ConsumeNet DEF HandleShareServer, connect
        <4>5. CASE \/ HandleConnectKnown(m) \/ HandleKeep(m)
                   \/ HandleShareData(m) \/ HandleSharePut(m)
          BY <4>5, ConsumeNet
          DEF HandleConnectKnown, HandleKeep, HandleShareData, HandleSharePut, servers
        <4> QED
          BY <1>5, <2>2, <4>1, <4>2, <4>3, <4>4, <4>5 DEF Handle
      <3> QED
        BY <3>1, <1>s
    <2> QED
      BY <2>1, <2>2
  <1>6. ASSUME NEW s \in Server, Stop(s) \/ fthread(s)
        PROVE  Matching'
    BY <1>6, <1>i DEF Stop, fthread, Send, keep, Matching, Match
  <1>7. ASSUME NEW s \in Server, NEW c \in Server, Start(s, c)
        PROVE  Matching'
    BY <1>7, <1>i DEF Start, Send, connect, Matching, Match
  <1>8. ASSUME NEW m \in net, Lose(m) \/ Discard(m)
        PROVE  Matching'
    BY <1>8, <1>i DEF Lose, Discard, Matching, Match
  <1>9. CASE Tick \/ UNCHANGED vars
    BY <1>9, <1>i DEF Tick, vars, Matching, Match
  <1> QED
    BY <1>1, <1>2, <1>3, <1>4, <1>5, <1>6, <1>7, <1>8, <1>9 DEF Next

LEMMA PutDataStep == TypeOK /\ Matching /\ OnlyPutData /\ [Next]_vars => OnlyPutData'
  <1> DEFINE Inv == /\ \A s \in Server : Known(hash_table[s], puts)
                    /\ \A m \in net : MessageKnown(m, puts)
                    /\ \A c \in Client : ClientKnown(c, puts)
  <1> SUFFICES ASSUME TypeOK, Matching, Inv, [Next]_vars
               PROVE  Inv'
    BY OnlyPutDataParts DEF OnlyPutData, Known, MessageKnown, ClientKnown, IsPut,
       get_address_list
  <1>t. /\ hash_table \in [Server -> Table]
        /\ client \in [Client -> ClientState]
        /\ net \subseteq Message
    BY DEF TypeOK
  <1>i. /\ \A s \in Server : Known(hash_table[s], puts)
        /\ \A m \in net : MessageKnown(m, puts)
        /\ \A c \in Client : ClientKnown(c, puts)
        /\ \A m \in net : Match(m)
    BY DEF Matching
  <1> HIDE DEF Inv
  \* A step that only moves known messages keeps the invariant.
  <1>u. ASSUME UNCHANGED <<hash_table, client, puts>>,
               \A m \in net' : MessageKnown(m, puts)
        PROVE  Inv'
    BY <1>u, <1>i DEF Inv, Known, MessageKnown, ClientKnown
  <1>s. ASSUME UNCHANGED <<hash_table, client, puts>>,
               NEW out, net' \subseteq net \cup out, \A m \in out : MessageKnown(m, puts)
        PROVE  Inv'
    BY <1>s, <1>u, <1>i
  <1>1. ASSUME NEW s \in Server, Stop(s)
        PROVE  Inv'
    <2>1. \A r \in Server : Known(hash_table'[r], puts)
      <3>1. Known(empty_table, puts)
        BY <1>i, KnownAfter
      <3> QED
        BY <1>1, <1>t, <1>i, <3>1, OneTableReplaced DEF Stop
    <2> QED
      BY <1>1, <1>i, <2>1 DEF Stop, Inv, Known, MessageKnown, ClientKnown
  <1>2. ASSUME NEW s \in Server, fthread(s)
        PROVE  Inv'
    <2>1. \A r \in Server : Known(hash_table'[r], puts)
      <3>1. Known(suppression_obsolete_hash(hash_table[s]), puts)
        BY <1>i, KnownAfter
      <3> QED
        BY <1>2, <1>t, <1>i, <3>1, OneTableReplaced DEF fthread
    <2>2. \A m \in net' : MessageKnown(m, puts)
      BY <1>2, <1>i, SentIsKnown DEF fthread, Send
    <2> QED
      BY <1>2, <1>i, <2>1, <2>2 DEF fthread, Inv, Known, MessageKnown, ClientKnown
  <1>3. ASSUME NEW s \in Server, NEW c \in Server, Start(s, c)
        PROVE  Inv'
    <2>1. \A m \in connect(s, {c}) : MessageKnown(m, puts)
      BY <1>i, SentIsKnown
    <2> QED
      BY <1>3, <1>s, <2>1 DEF Start, Send
  <1>4. ASSUME NEW s \in Server, NEW h \in Hash, NEW ip \in Addr, ClientPut(s, h, ip)
        PROVE  Inv'
    <2>1. MessageKnown([header |-> "PUT", to |-> s, hash |-> h, addr |-> ip], puts)
      BY DEF MessageKnown
    <2>2. \A m \in net' : MessageKnown(m, puts)
      BY <1>4, <1>i, <2>1 DEF ClientPut, Send
    <2> QED
      BY <1>4, <1>u, <2>2 DEF ClientPut, servers
  <1>5. ASSUME NEW c \in Client, NEW s \in Server, NEW h \in Hash, ClientGet(c, s, h)
        PROVE  Inv'
    <2>1. \A m \in net' : MessageKnown(m, puts)
      BY <1>5, <1>i DEF ClientGet, Send, MessageKnown
    <2>2. \A d \in Client : ClientKnown(d, puts)'
      BY <1>5, <1>t, <1>i DEF ClientGet, ClientKnown
    <2> QED
      BY <1>5, <1>i, <2>1, <2>2 DEF ClientGet, servers, Inv, Known, MessageKnown
  <1>6. ASSUME NEW c \in Client, ClientTimeout(c)
        PROVE  Inv'
    <2>1. \A d \in Client : ClientKnown(d, puts)'
      BY <1>6, <1>t, <1>i DEF ClientTimeout, ClientKnown, ClientState
    <2> QED
      BY <1>6, <1>i, <2>1 DEF ClientTimeout, servers, Inv, Known, MessageKnown
  <1>7. ASSUME NEW m \in net, Handle(m)
        PROVE  Inv'
    <2>m. m \in Message /\ MessageKnown(m, puts)
      BY <1>t, <1>i
    <2>1. CASE HandlePut(m)
      <3>1. m.to \in Server
        BY <2>1, <2>m, MessageFields DEF HandlePut, Takes
      <3>2. \A k : /\ get_address_list(k, puts) \subseteq get_address_list(k, puts')
                   /\ k = m.hash => m.addr \in get_address_list(k, puts')
        BY <2>1, AddressLists DEF HandlePut
      <3>3. \A s \in Server : Known(hash_table'[s], puts')
        <4>1. \A s \in Server : Known(hash_table[s], puts')
          BY <3>2, <1>i DEF Known
        <4>2. Known(insert_hash_addr_put(m.hash, m.addr, hash_table[m.to]), puts')
          BY <3>1, <3>2, <4>1, KnownAfter
        <4> QED
          BY <2>1, <3>1, <1>t, <4>1, <4>2, OneTableReplaced DEF HandlePut
      <3>4. \A n \in net : MessageKnown(n, puts')
        BY <3>2, <1>i DEF MessageKnown
      <3>5. Known(empty_table, puts')
        BY AddressLists DEF Known
      <3>6. \A n \in net' : MessageKnown(n, puts')
        BY <2>1, <3>2, <3>4, <3>5, ConsumeNet, SentIsKnown DEF HandlePut
      <3>7. \A c \in Client : ClientKnown(c, puts)'
        BY <2>1, <3>2, <1>i DEF HandlePut, ClientKnown
      <3> QED
        BY <3>3, <3>6, <3>7 DEF Inv
    <2>2. CASE HandleGet(m)
      <3>1. m.to \in Server
        BY <2>2, <2>m, MessageFields DEF HandleGet, Takes
      <3>2. \A n \in answer_to_client(m.to, m.from, m.hash, hash_table[m.to],
                                      Peers(m.to)) : MessageKnown(n, puts)
        BY <3>1, <1>i, SentIsKnown
      <3> QED
        BY <2>2, <3>2, <1>s, ConsumeNet DEF HandleGet, servers
    <2>3. CASE HandleServerGet(m)
      <3>1. m.to \in Server
        BY <2>3, <2>m, MessageFields DEF HandleServerGet, Takes
      <3>2. \A n \in answer_to_server(m.from, m.hash, hash_table[m.to]) :
              MessageKnown(n, puts)
        BY <3>1, <1>i, SentIsKnown
      <3> QED
        BY <2>3, <3>2, <1>s, ConsumeNet DEF HandleServerGet, servers
    <2>4. CASE HandleConnectKnown(m)
      BY <2>4, <1>s, ConsumeNet DEF HandleConnectKnown, servers
    <2>5. CASE HandleConnectNew(m)
      <3>1. m.to \in Server
        BY <2>5, <2>m, MessageFields DEF HandleConnectNew, Takes
      <3>2. \A n \in share_all_servers(m.to, m.from, server_table[m.to])
                     \cup connect(m.to, {m.from})
                     \cup share_all_hashs(m.to, m.from, hash_table[m.to]) :
              MessageKnown(n, puts)
        BY <3>1, <1>i, SentIsKnown
      <3> QED
        BY <2>5, <3>2, <1>s, ConsumeNet DEF HandleConnectNew
    <2>6. CASE HandleKeep(m)
      BY <2>6, <1>s, ConsumeNet DEF HandleKeep
    <2>7. CASE HandleShareData(m)
      <3>1. m.to \in Server /\ m.addr \in get_address_list(m.hash, puts)
        BY <2>7, <2>m, MessageFields DEF HandleShareData, Takes, MessageKnown
      <3>2. \A s \in Server : Known(hash_table'[s], puts)
        <4>1. Known(insert_hash_addr_share(m.hash, m.addr, hash_table[m.to]), puts)
          BY <3>1, <1>i, KnownAfter
        <4> QED
          BY <2>7, <3>1, <1>t, <1>i, <4>1, OneTableReplaced DEF HandleShareData
      <3> QED
        BY <2>7, <3>2, <1>i, ConsumeNet
        DEF HandleShareData, Inv, Known, MessageKnown, ClientKnown
    <2>8. CASE HandleSharePut(m)
      <3>1. m.to \in Server /\ m.addr \in get_address_list(m.hash, puts)
        BY <2>8, <2>m, MessageFields DEF HandleSharePut, Takes, MessageKnown
      <3>2. \A s \in Server : Known(hash_table'[s], puts)
        <4>1. Known(insert_hash_addr_put(m.hash, m.addr, hash_table[m.to]), puts)
          BY <3>1, <1>i, KnownAfter
        <4> QED
          BY <2>8, <3>1, <1>t, <1>i, <4>1, OneTableReplaced DEF HandleSharePut
      <3> QED
        BY <2>8, <3>2, <1>i, ConsumeNet
        DEF HandleSharePut, Inv, Known, MessageKnown, ClientKnown
    <2>9. CASE HandleShareServer(m)
      <3>1. net' \subseteq net \cup connect(m.to, {m.server})
        BY <2>9, ConsumeNet DEF HandleShareServer
      <3>2. \A n \in connect(m.to, {m.server}) : MessageKnown(n, puts)
        BY DEF connect, MessageKnown
      <3> QED
        BY <2>9, <3>1, <3>2, <1>s DEF HandleShareServer
    <2> QED
      BY <1>7, <2>1, <2>2, <2>3, <2>4, <2>5, <2>6, <2>7, <2>8, <2>9 DEF Handle
  <1>8. ASSUME NEW m \in net, ClientReceive(m)
        PROVE  Inv'
    <2>1. /\ m.to \in Client
          /\ m.addr \in get_address_list(m.hash, puts)
          /\ m.hash = client[m.to].hash
      BY <1>8, <1>t, <1>i, MessageFields DEF ClientReceive, MessageKnown, Match
    <2>2. client[m.to] \in ClientState /\ client[m.to].state # "new"
      BY <1>8, <1>t, <2>1 DEF ClientReceive
    <2>3. \A d \in Client : ClientKnown(d, puts)'
      BY <1>8, <1>t, <1>i, <2>1, <2>2 DEF ClientReceive, ClientKnown, ClientState
    <2>4. \A n \in net' : MessageKnown(n, puts)
      BY <1>8, <1>i, ConsumeNet DEF ClientReceive
    <2> QED
      BY <1>8, <1>i, <2>3, <2>4 DEF ClientReceive, servers, Inv, Known, MessageKnown
  <1>9. ASSUME NEW m \in net, Lose(m) \/ Discard(m)
        PROVE  Inv'
    <2>1. \A n \in net' : MessageKnown(n, puts)
      BY <1>9, <1>i DEF Lose, Discard
    <2> QED
      BY <1>9, <2>1, <1>u DEF Lose, Discard, servers
  <1>10. CASE Tick
    <2>1. \A k : get_address_list(k, puts') = get_address_list(k, puts)
      BY <1>10, AddressLists DEF Tick
    <2>2. \A s \in Server : \A k :
            get_address_list(k, hash_table'[s]) = get_address_list(k, hash_table[s])
      BY <1>10, <1>t, AddressLists DEF Tick
    <2>3. \A s \in Server : Known(hash_table'[s], puts')
      BY <2>1, <2>2, <1>i DEF Known
    <2> QED
      BY <1>10, <2>1, <2>3, <1>i DEF Tick, Inv, MessageKnown, ClientKnown
  <1>11. CASE UNCHANGED vars
    BY <1>11, <1>i DEF vars, servers, Inv, Known, MessageKnown, ClientKnown
  <1> QED
    BY <1>1, <1>2, <1>3, <1>4, <1>5, <1>6, <1>7, <1>8, <1>9, <1>10, <1>11 DEF Next

\* Every address a server stores or sends, and every address a client prints,
\* under some hash was put under that hash.
THEOREM NothingMadeUp == Spec => []OnlyPutData
  <1>1. Init => OnlyPutData
    BY AddressLists DEF Init, OnlyPutData, empty_table
  <1> QED
    BY <1>1, PutDataStep, MatchingInit, MatchingStep, TypeCorrect, PTL DEF Spec
-----------------------------------------------------------------------------
(***************************************************************************)
(* What is silent for too long goes.  The invariant binds the age of an    *)
(* element to what is left of the sleep of fthread: as the one grows, the  *)
(* other shrinks.  A started server has empty tables, which is what lets   *)
(* the bound hold from its first second on.                                *)
(***************************************************************************)
StoppedIsEmpty ==
  \A s \in Server \ up : DOMAIN server_table[s] = {} /\ DOMAIN hash_table[s] = {}

PeersInTime(s) ==
  \A p \in DOMAIN server_table[s] : server_table[s][p] + nap[s] <= PeerTTL + PERIOD

HashesInTime(s) ==
  \A h \in DOMAIN hash_table[s] : hash_table[s][h].last_put + nap[s] <= HashTTL + PERIOD

InTime == StoppedIsEmpty /\ \A s \in up : PeersInTime(s) /\ HashesInTime(s)

LEMMA InTimeMeans == InTime => PeersAreSwept /\ HashesAreSwept
  BY DEF InTime, PeersInTime, HashesInTime, PeersAreSwept, HashesAreSwept, Peers

\* What each operator does to the dates of a table.
LEMMA PeerDates ==
  ASSUME NEW t \in PeerTable, NEW p \in Server
  PROVE  /\ \A q \in DOMAIN insert_server(t, p) :
              insert_server(t, p)[q] = 0 \/ (q \in DOMAIN t /\ insert_server(t, p)[q] = t[q])
         /\ \A q \in DOMAIN keep_alive_server(t, p) :
              /\ q \in DOMAIN t
              /\ keep_alive_server(t, p)[q] \in {0, t[q]}
         /\ \A q \in DOMAIN suppression_dead_server(t, p) :
              suppression_dead_server(t, p)[q] <= PeerTTL
         /\ \A q \in DOMAIN OlderPeers(t) :
              q \in DOMAIN t /\ OlderPeers(t)[q] <= t[q] + 1
  <1>1. \A q \in DOMAIN t : t[q] \in Nat
    BY PeerTableShape, MaxAgeAssumption DEF Age
  <1>2. \A q \in DOMAIN insert_server(t, p) :
          insert_server(t, p)[q] = 0 \/ (q \in DOMAIN t /\ insert_server(t, p)[q] = t[q])
    BY DEF insert_server
  <1>3. \A q \in DOMAIN keep_alive_server(t, p) :
          q \in DOMAIN t /\ keep_alive_server(t, p)[q] \in {0, t[q]}
    BY DEF keep_alive_server
  <1>4. \A q \in DOMAIN suppression_dead_server(t, p) :
          suppression_dead_server(t, p)[q] <= PeerTTL
    BY <1>1, PeerMapAssumption DEF suppression_dead_server
  <1>5. \A q \in DOMAIN OlderPeers(t) : q \in DOMAIN t /\ OlderPeers(t)[q] <= t[q] + 1
    BY PeerTableShape, AgeFacts DEF OlderPeers
  <1> QED
    BY <1>2, <1>3, <1>4, <1>5

LEMMA HashDates ==
  ASSUME NEW t \in Table, NEW h \in Hash, NEW ip \in Addr
  PROVE  /\ \A k \in DOMAIN insert_hash_addr_put(h, ip, t) :
              \/ insert_hash_addr_put(h, ip, t)[k].last_put = 0
              \/ k \in DOMAIN t /\ insert_hash_addr_put(h, ip, t)[k].last_put = t[k].last_put
         /\ \A k \in DOMAIN insert_hash_addr_share(h, ip, t) :
              \/ insert_hash_addr_share(h, ip, t)[k].last_put = 0
              \/ k \in DOMAIN t /\ insert_hash_addr_share(h, ip, t)[k].last_put = t[k].last_put
  BY DEF insert_hash_addr_put, insert_hash_addr_share

LEMMA SweptDates ==
  ASSUME NEW t \in Table
  PROVE  /\ \A k \in DOMAIN suppression_obsolete_hash(t) :
              suppression_obsolete_hash(t)[k].last_put <= HashTTL
         /\ \A k \in DOMAIN OlderTable(t) :
              k \in DOMAIN t /\ OlderTable(t)[k].last_put <= t[k].last_put + 1
  <1>1. \A k \in DOMAIN t : t[k].last_put \in Age /\ t[k].last_put \in Nat
    BY TableShape, MaxAgeAssumption DEF avl_node, Age
  <1>2. \A k \in DOMAIN suppression_obsolete_hash(t) :
          suppression_obsolete_hash(t)[k].last_put <= HashTTL
    BY <1>1, HashMapAssumption DEF suppression_obsolete_hash
  <1>3. \A k \in DOMAIN OlderTable(t) :
          k \in DOMAIN t /\ OlderTable(t)[k].last_put <= t[k].last_put + 1
    BY <1>1, AgeFacts DEF OlderTable
  <1> QED
    BY <1>2, <1>3

LEMMA InTimeStep == TypeOK /\ InTime /\ [Next]_vars => InTime'
  <1> SUFFICES ASSUME TypeOK, InTime, [Next]_vars
               PROVE  InTime'
    OBVIOUS
  <1>t. /\ up \subseteq Server
        /\ server_table \in [Server -> PeerTable]
        /\ hash_table \in [Server -> Table]
        /\ nap \in [Server -> 0..PERIOD]
        /\ net \subseteq Message
    BY DEF TypeOK
  <1>n. /\ PERIOD \in Nat /\ PeerTTL \in Nat /\ HashTTL \in Nat
        /\ \A s \in Server : nap[s] \in Nat /\ nap[s] <= PERIOD
        /\ \A s \in Server : \A p \in DOMAIN server_table[s] : server_table[s][p] \in Nat
        /\ \A s \in Server : \A h \in DOMAIN hash_table[s] :
             hash_table[s][h].last_put \in Nat
    <2>1. \A s \in Server : \A p \in DOMAIN server_table[s] : server_table[s][p] \in Nat
      BY <1>t, PeerTableShape, MaxAgeAssumption DEF Age
    <2>2. \A s \in Server : \A h \in DOMAIN hash_table[s] :
            hash_table[s][h].last_put \in Nat
      BY <1>t, TableShape, MaxAgeAssumption DEF avl_node, Age
    <2> QED
      BY <1>t, <2>1, <2>2, DhtAssumption, PeerMapAssumption, HashMapAssumption
  <1>i. StoppedIsEmpty /\ \A s \in up : PeersInTime(s) /\ HashesInTime(s)
    BY DEF InTime
  \* A step that leaves the four variables alone.
  <1>u. ASSUME UNCHANGED servers
        PROVE  InTime'
    BY <1>u, <1>i DEF InTime, StoppedIsEmpty, PeersInTime, HashesInTime, servers
  \* A handler that gives its server another table of peers, or of hashes.
  <1>p. ASSUME NEW s \in up,
               \A r \in Server \ {s} : server_table'[r] = server_table[r],
               UNCHANGED <<up, hash_table, nap>>,
               \A p \in DOMAIN server_table'[s] :
                 \/ server_table'[s][p] = 0
                 \/ /\ p \in DOMAIN server_table[s]
                    /\ server_table'[s][p] = server_table[s][p]
        PROVE  InTime'
    <2>1. StoppedIsEmpty'
      BY <1>p, <1>t, <1>i DEF StoppedIsEmpty
    <2>2. PeersInTime(s)'
      BY <1>p, <1>t, <1>n, <1>i DEF PeersInTime
    <2>3. \A r \in up : HashesInTime(r)' /\ (r # s => PeersInTime(r)')
      BY <1>p, <1>t, <1>i DEF PeersInTime, HashesInTime
    <2> QED
      BY <1>p, <2>1, <2>2, <2>3 DEF InTime
  <1>h. ASSUME NEW s \in up,
               \A r \in Server \ {s} : hash_table'[r] = hash_table[r],
               UNCHANGED <<up, server_table, nap>>,
               \A h \in DOMAIN hash_table'[s] :
                 \/ hash_table'[s][h].last_put = 0
                 \/ /\ h \in DOMAIN hash_table[s]
                    /\ hash_table'[s][h].last_put = hash_table[s][h].last_put
        PROVE  InTime'
    <2>1. StoppedIsEmpty'
      BY <1>h, <1>t, <1>i DEF StoppedIsEmpty
    <2>2. HashesInTime(s)'
      BY <1>h, <1>t, <1>n, <1>i DEF HashesInTime
    <2>3. \A r \in up : PeersInTime(r)' /\ (r # s => HashesInTime(r)')
      BY <1>h, <1>t, <1>i DEF PeersInTime, HashesInTime
    <2> QED
      BY <1>h, <2>1, <2>2, <2>3 DEF InTime
  <1>1. ASSUME NEW s \in Server, Stop(s)
        PROVE  InTime'
    <2>1. StoppedIsEmpty'
      BY <1>1, <1>t, <1>i DEF Stop, StoppedIsEmpty, no_server, empty_table
    <2>2. \A r \in up' : PeersInTime(r)' /\ HashesInTime(r)'
      BY <1>1, <1>t, <1>i DEF Stop, PeersInTime, HashesInTime
    <2> QED
      BY <2>1, <2>2 DEF InTime
  <1>2. ASSUME NEW s \in Server, fthread(s)
        PROVE  InTime'
    <2>1. s \in up /\ UNCHANGED up
      BY <1>2 DEF fthread
    <2>2. StoppedIsEmpty'
      BY <1>2, <2>1, <1>t, <1>i DEF fthread, StoppedIsEmpty
    <2>3. \A r \in up \ {s} : PeersInTime(r)' /\ HashesInTime(r)'
      BY <1>2, <1>t, <1>i DEF fthread, PeersInTime, HashesInTime
    <2>4. /\ server_table'[s] = suppression_dead_server(server_table[s], s)
          /\ hash_table'[s] = suppression_obsolete_hash(hash_table[s])
          /\ nap'[s] = PERIOD
      BY <1>2, <1>t DEF fthread
    <2>5. /\ \A p \in DOMAIN server_table'[s] : /\ server_table'[s][p] \in Nat
                                               /\ server_table'[s][p] <= PeerTTL
          /\ \A h \in DOMAIN hash_table'[s] : /\ hash_table'[s][h].last_put \in Nat
                                             /\ hash_table'[s][h].last_put <= HashTTL
      <3>1. server_table[s] \in PeerTable /\ hash_table[s] \in Table
        BY <1>t
      <3>2. server_table'[s] \in PeerTable /\ hash_table'[s] \in Table
        BY <3>1, <2>4, PeerTables, SweptTable
      <3> QED
        BY <3>1, <3>2, <2>4, PeerDates, SweptDates, PeerTableShape, TableShape,
           MaxAgeAssumption DEF Age, avl_node
    <2>6. PeersInTime(s)' /\ HashesInTime(s)'
      BY <2>4, <2>5, <1>n DEF PeersInTime, HashesInTime
    <2> QED
      BY <2>1, <2>2, <2>3, <2>6 DEF InTime
  <1>3. ASSUME NEW s \in Server, NEW c \in Server, Start(s, c)
        PROVE  InTime'
    <2>1. StoppedIsEmpty'
      BY <1>3, <1>i DEF Start, StoppedIsEmpty
    <2>2. \A r \in up : PeersInTime(r)' /\ HashesInTime(r)'
      BY <1>3, <1>t, <1>i DEF Start, PeersInTime, HashesInTime
    <2>3. PeersInTime(s)' /\ HashesInTime(s)'
      BY <1>3, <1>i DEF Start, StoppedIsEmpty, PeersInTime, HashesInTime
    <2> QED
      BY <1>3, <2>1, <2>2, <2>3 DEF Start, InTime
  <1>4. ASSUME NEW m \in net, Handle(m)
        PROVE  InTime'
    <2>m. m \in Message
      BY <1>t
    <2>1. CASE HandlePut(m) \/ HandleSharePut(m)
      <3>1. m.to \in up /\ m.hash \in Hash /\ m.addr \in Addr
        BY <2>1, <2>m, MessageFields DEF HandlePut, HandleSharePut, Takes
      <3>2. hash_table[m.to] \in Table
        BY <3>1, <1>t
      <3>3. /\ hash_table'[m.to] = insert_hash_addr_put(m.hash, m.addr, hash_table[m.to])
            /\ \A r \in Server \ {m.to} : hash_table'[r] = hash_table[r]
            /\ UNCHANGED <<up, server_table, nap>>
        BY <2>1, <3>1, <1>t DEF HandlePut, HandleSharePut
      <3> QED
        BY <3>1, <3>2, <3>3, <1>h, HashDates
    <2>2. CASE HandleShareData(m)
      <3>1. m.to \in up /\ m.hash \in Hash /\ m.addr \in Addr
        BY <2>2, <2>m, MessageFields DEF HandleShareData, Takes
      <3>2. hash_table[m.to] \in Table
        BY <3>1, <1>t
      <3>3. /\ hash_table'[m.to] = insert_hash_addr_share(m.hash, m.addr, hash_table[m.to])
            /\ \A r \in Server \ {m.to} : hash_table'[r] = hash_table[r]
            /\ UNCHANGED <<up, server_table, nap>>
        BY <2>2, <3>1, <1>t DEF HandleShareData
      <3> QED
        BY <3>1, <3>2, <3>3, <1>h, HashDates
    <2>3. CASE HandleGet(m) \/ HandleServerGet(m) \/ HandleConnectKnown(m)
      BY <2>3, <1>u DEF HandleGet, HandleServerGet, HandleConnectKnown
    <2>4. CASE HandleConnectNew(m)
      <3>1. m.to \in up /\ m.from \in Server
        BY <2>4, <2>m, MessageFields DEF HandleConnectNew, Takes
      <3>2. server_table[m.to] \in PeerTable
        BY <3>1, <1>t
      <3>3. /\ server_table'[m.to] = insert_server(server_table[m.to], m.from)
            /\ \A r \in Server \ {m.to} : server_table'[r] = server_table[r]
            /\ UNCHANGED <<up, hash_table, nap>>
        BY <2>4, <3>1, <1>t DEF HandleConnectNew
      <3> QED
        BY <3>1, <3>2, <3>3, <1>p, PeerDates
    <2>5. CASE HandleKeep(m)
      <3>1. m.to \in up /\ m.from \in Server
        BY <2>5, <2>m, MessageFields DEF HandleKeep, Takes
      <3>2. server_table[m.to] \in PeerTable
        BY <3>1, <1>t
      <3>3. CASE m.from = m.to
        <4>1. server_table' = server_table
          BY <2>5, <3>3, <1>t DEF HandleKeep
        <4> QED
          BY <2>5, <4>1, <1>u DEF HandleKeep, servers
      <3>4. CASE m.from # m.to
        <4>1. /\ server_table'[m.to] = keep_alive_server(server_table[m.to], m.from)
              /\ \A r \in Server \ {m.to} : server_table'[r] = server_table[r]
              /\ UNCHANGED <<up, hash_table, nap>>
          BY <2>5, <3>1, <3>4, <1>t DEF HandleKeep
        <4> QED
          BY <3>1, <3>2, <4>1, <1>p, PeerDates
      <3> QED
        BY <3>3, <3>4
    <2>6. CASE HandleShareServer(m)
      <3>1. m.to \in up /\ m.server \in Server
        BY <2>6, <2>m, MessageFields DEF HandleShareServer, Takes
      <3>2. server_table[m.to] \in PeerTable
        BY <3>1, <1>t
      <3>3. CASE is_known(m.server, server_table[m.to])
        BY <2>6, <3>3, <1>u DEF HandleShareServer, servers
      <3>4. CASE ~is_known(m.server, server_table[m.to])
        <4>1. /\ server_table' = [server_table EXCEPT
                   ![m.to] = insert_server(server_table[m.to], m.server)]
              /\ UNCHANGED <<up, hash_table, nap>>
          BY <2>6, <3>4 DEF HandleShareServer
        <4>2. /\ server_table'[m.to] = insert_server(server_table[m.to], m.server)
              /\ \A r \in Server \ {m.to} : server_table'[r] = server_table[r]
          BY <4>1, <3>1, <1>t
        <4> QED
          BY <3>1, <3>2, <4>1, <4>2, <1>p, PeerDates
      <3> QED
        BY <3>3, <3>4
    <2> QED
      BY <1>4, <2>1, <2>2, <2>3, <2>4, <2>5, <2>6 DEF Handle
  <1>5. CASE Tick
    <2>1. StoppedIsEmpty'
      BY <1>5, <1>t, <1>i DEF Tick, StoppedIsEmpty, OlderPeers, OlderTable
    <2>2. ASSUME NEW s \in up
          PROVE  PeersInTime(s)' /\ HashesInTime(s)'
      <3>1. /\ server_table'[s] = OlderPeers(server_table[s])
            /\ hash_table'[s] = OlderTable(hash_table[s])
            /\ nap'[s] = nap[s] - 1
        BY <1>5, <1>t DEF Tick
      <3>2. /\ server_table[s] \in PeerTable /\ hash_table[s] \in Table
            /\ s \in Server /\ PeersInTime(s) /\ HashesInTime(s)
        BY <1>t, <1>i
      <3>3. \A p \in DOMAIN server_table'[s] :
              /\ p \in DOMAIN server_table[s]
              /\ server_table'[s][p] \in Nat
              /\ server_table'[s][p] <= server_table[s][p] + 1
        <4>1. server_table'[s] \in PeerTable
          BY <3>1, <3>2, PeerTables
        <4> QED
          BY <4>1, <3>1, <3>2, PeerDates, PeerTableShape, MaxAgeAssumption DEF Age
      <3>4. \A h \in DOMAIN hash_table'[s] :
              /\ h \in DOMAIN hash_table[s]
              /\ hash_table'[s][h].last_put \in Nat
              /\ hash_table'[s][h].last_put <= hash_table[s][h].last_put + 1
        <4>1. hash_table'[s] \in Table
          BY <3>1, <3>2, OlderTableType
        <4> QED
          BY <4>1, <3>1, <3>2, SweptDates, TableShape, MaxAgeAssumption DEF Age, avl_node
      <3> QED
        BY <3>1, <3>2, <3>3, <3>4, <1>n DEF PeersInTime, HashesInTime
    <2> QED
      BY <1>5, <2>1, <2>2 DEF Tick, InTime
  <1>6. CASE \/ \E s \in Server, h \in Hash, ip \in Addr : ClientPut(s, h, ip)
             \/ \E c \in Client, s \in Server, h \in Hash : ClientGet(c, s, h)
             \/ \E c \in Client : ClientTimeout(c)
             \/ \E m \in net : ClientReceive(m) \/ Lose(m) \/ Discard(m)
             \/ UNCHANGED vars
    <2>1. UNCHANGED servers
      BY <1>6 DEF ClientPut, ClientGet, ClientTimeout, ClientReceive, Lose, Discard, vars
    <2> QED
      BY <2>1, <1>u
  <1> QED
    BY <1>1, <1>2, <1>3, <1>4, <1>5, <1>6 DEF Next

LEMMA InTimeAlways == Spec => []InTime
  <1>1. Init => InTime
    BY DEF Init, InTime, StoppedIsEmpty, no_server, empty_table
  <1> QED
    BY <1>1, InTimeStep, TypeCorrect, PTL DEF Spec

\* A peer that sends nothing is gone after at most its 30 seconds and one sleep of
\* fthread, however late the datagrams are.
THEOREM PeersSweptInTime == Spec => []PeersAreSwept
  <1>1. InTime => PeersAreSwept
    BY InTimeMeans
  <1> QED
    BY <1>1, InTimeAlways, PTL

\* So is a hash nobody puts.
THEOREM HashesSweptInTime == Spec => []HashesAreSwept
  <1>1. InTime => HashesAreSwept
    BY InTimeMeans
  <1> QED
    BY <1>1, InTimeAlways, PTL
=============================================================================
