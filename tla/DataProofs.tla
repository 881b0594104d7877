---------------------------- MODULE DataProofs ----------------------------
(***************************************************************************)
(* Where the data are: SameDataWhenQuiet, AgreementIsStable,               *)
(* AnswersWhatWasHeld and FreshIsKept.  In all of them nothing is lost and *)
(* no server stops or drops a peer, in the first three no server drops a   *)
(* hash; what remains is every order in which the datagrams are handled,   *)
(* repeated or not.                                                        *)
(***************************************************************************)
EXTENDS MeshProofs

Kept == PeersStay /\ DataStay

Stored(s, h, ip) == ip \in get_address_list(h, hash_table[s])

\* The two kinds of datagram that carry an address to a server that stores it.
Sharing(s, h, ip) ==
  {[header |-> hd, to |-> s, hash |-> h, addr |-> ip] : hd \in {"SHARE_PUT", "SHARE_DATA"}}

OnTheWay(s, h, ip) == \E n \in net : n \in Sharing(s, h, ip)

Has(s, h, ip) == Stored(s, h, ip) \/ OnTheWay(s, h, ip)

-----------------------------------------------------------------------------
(***************************************************************************)
(* Nothing is lost: what is stored stays, and what is on the way to a      *)
(* server that runs gets there.                                            *)
(***************************************************************************)
\* A datagram that is no longer in flight was handled, printed or discarded.
LEMMA WhatGoes ==
  ASSUME NothingLeft, [Next]_vars, NEW k \in net, k \notin net'
  PROVE  Handle(k) \/ ClientReceive(k) \/ Discard(k)
  <1>1. ASSUME NEW m, NEW out, Consume(m, out)
        PROVE  k = m
    BY <1>1 DEF Consume
  <1>2. ASSUME NEW m \in net, Handle(m)
        PROVE  k = m
    <2>1. \E out : Consume(m, out)
      BY <1>2
      DEF Handle, HandlePut, HandleGet, HandleServerGet, HandleConnectKnown, HandleConnectNew,
          HandleKeep, HandleShareData, HandleSharePut, HandleShareServer
    <2> QED
      BY <2>1, <1>1
  <1>3. ASSUME NEW m \in net, ClientReceive(m) \/ Discard(m)
        PROVE  k = m
    BY <1>1, <1>3 DEF ClientReceive, Discard
  <1>4. ~Spend("loss") /\ ~Spend("stop")
    BY DEF Spend, NothingLeft
  <1> QED
    BY <1>2, <1>3, <1>4
    DEF Next, Stop, fthread, Start, ClientPut, ClientGet, ClientTimeout, Lose, Tick, Send, vars

LEMMA StoredStays ==
  ASSUME TypeOK, NothingLeft, DataStay, [Next]_vars,
         NEW s \in Server, NEW h, NEW ip, Stored(s, h, ip)
  PROVE  Stored(s, h, ip)'
  <1>1. DataBecome(s, hash_table'[s])
    BY TablesBecome
  <1>2. ip \in get_address_list(h, hash_table[s]) /\ h \in DOMAIN hash_table[s]
    BY DEF Stored, get_address_list
  <1>3. ASSUME NEW k, NEW a
        PROVE  /\ ip \in get_address_list(h, insert_hash_addr_put(k, a, hash_table[s]))
               /\ ip \in get_address_list(h, insert_hash_addr_share(k, a, hash_table[s]))
               /\ ip \in get_address_list(h, OlderTable(hash_table[s]))
    BY <1>2, AddressLists
  <1>4. h \in DOMAIN suppression_obsolete_hash(hash_table[s])
        => ip \in get_address_list(h, suppression_obsolete_hash(hash_table[s]))
    BY <1>2 DEF get_address_list, suppression_obsolete_hash
  <1>5. h \in DOMAIN hash_table'[s]
    BY <1>2 DEF DataStay
  <1> QED
    BY <1>1, <1>2, <1>3, <1>4, <1>5 DEF DataBecome, Stored

LEMMA OnTheWayArrives ==
  ASSUME TypeOK, NothingLeft, [Next]_vars,
         NEW s \in up, NEW h, NEW ip, OnTheWay(s, h, ip)
  PROVE  Has(s, h, ip)'
  <1>1. PICK n \in net : n \in Sharing(s, h, ip)
    BY DEF OnTheWay
  <1>2. /\ n.to = s /\ n.hash = h /\ n.addr = ip
        /\ n.header \in {"SHARE_PUT", "SHARE_DATA"}
    BY <1>1 DEF Sharing
  <1>3. CASE n \in net'
    BY <1>1, <1>3 DEF Has, OnTheWay, Sharing
  <1>4. CASE n \notin net'
    <2>1. Handle(n) \/ ClientReceive(n) \/ Discard(n)
      BY <1>4, WhatGoes
    <2>2. HandleShareData(n) \/ HandleSharePut(n)
      BY <1>2, <2>1
      DEF Handle, HandlePut, HandleGet, HandleServerGet, HandleConnectKnown, HandleConnectNew,
          HandleKeep, HandleShareServer, Takes, ClientReceive, Discard, Undeliverable
    <2>3. hash_table'[s] \in {insert_hash_addr_share(h, ip, hash_table[s]),
                              insert_hash_addr_put(h, ip, hash_table[s])}
      BY <1>2, <2>2 DEF HandleShareData, HandleSharePut, TypeOK
    <2> QED
      BY <2>3, AddressLists DEF Has, Stored
  <1> QED
    BY <1>3, <1>4

(***************************************************************************)
(* Where data come from.  A server that stores an address sends it when a  *)
(* client put it there, when a new peer comes to it with a CONNECT, and    *)
(* when another server asks for it.                                        *)
(***************************************************************************)
Asking(x, y) == \E n \in net : n.header = "SERVER_GET" /\ n.to = x /\ n.from = y

PutHere(x, h, ip) ==
  /\ \E m \in net : HandlePut(m) /\ m.to = x
  /\ UNCHANGED server_table /\ Stored(x, h, ip)'
  /\ \A p \in Peers(x) : p # x => OnTheWay(p, h, ip)'

LEMMA PutShares ==
  ASSUME TypeOK, NEW m \in net, HandlePut(m)
  PROVE  /\ PutHere(m.to, m.hash, m.addr) /\ m.to \in up /\ m.to \in Server
         /\ \A n \in net' \ net :
              n.header = "SHARE_PUT" /\ n.to \in Peers(m.to) \ {m.to}
              /\ n.hash = m.hash /\ n.addr = m.addr
         /\ \A s \in Server : \A h, ip :
              Stored(s, h, ip)' => Stored(s, h, ip) \/ (s = m.to /\ h = m.hash /\ ip = m.addr)
  <1>1. /\ m.to \in up /\ m.to \in Server /\ UNCHANGED server_table
        /\ hash_table' = [hash_table EXCEPT
             ![m.to] = insert_hash_addr_put(m.hash, m.addr, hash_table[m.to])]
    BY DEF HandlePut, Takes, TypeOK
  <1>2. PICK out : out = share_put(m.to, m.hash, m.addr, Peers(m.to)) /\ Consume(m, out)
    BY DEF HandlePut
  <1>3. out \subseteq net' /\ net' \subseteq net \cup out
    BY <1>2, ConsumeNet DEF Consume
  <1>4. \A n \in net' \ net :
          n.header = "SHARE_PUT" /\ n.to \in Peers(m.to) \ {m.to}
          /\ n.hash = m.hash /\ n.addr = m.addr
    BY <1>2, <1>3 DEF share_put, others
  <1>5. \A p \in Peers(m.to) : p # m.to => OnTheWay(p, m.hash, m.addr)'
    <2>1. ASSUME NEW p \in Peers(m.to), p # m.to
          PROVE  [header |-> "SHARE_PUT", to |-> p, hash |-> m.hash, addr |-> m.addr] \in net'
      BY <2>1, <1>2, <1>3 DEF share_put, others
    <2> QED
      BY <2>1 DEF OnTheWay, Sharing
  <1>6. Stored(m.to, m.hash, m.addr)'
    BY <1>1, AddressLists DEF Stored, TypeOK
  <1>7. \A s \in Server : \A h, ip :
          Stored(s, h, ip)' => Stored(s, h, ip) \/ (s = m.to /\ h = m.hash /\ ip = m.addr)
    BY <1>1, AddressLists DEF Stored, TypeOK
  <1> QED
    BY <1>1, <1>4, <1>5, <1>6, <1>7 DEF PutHere

LEMMA DataFrom ==
  ASSUME TypeOK, NothingLeft, [Next]_vars, NEW s \in Server, NEW h, NEW ip,
         OnTheWay(s, h, ip)', ~OnTheWay(s, h, ip)
  PROVE  \E x \in up :
           \/ s # x /\ s \in Peers(x) /\ PutHere(x, h, ip)
           \/ s # x /\ s \in Peers(x)' /\ Stored(x, h, ip) /\ Stored(x, h, ip)'
           \/ Asking(x, s) /\ Stored(x, h, ip) /\ Stored(x, h, ip)'
  <1>1. PICK n \in net' : n \in Sharing(s, h, ip)
    BY DEF OnTheWay, Sharing
  <1>2. /\ n \notin net /\ n.to = s /\ n.hash = h /\ n.addr = ip
        /\ n.header \in {"SHARE_PUT", "SHARE_DATA"}
    BY <1>1 DEF OnTheWay, Sharing
  <1>3. ~Spend("loss") /\ ~Spend("stop")
    BY DEF Spend, NothingLeft
  <1>4. PICK m \in net : Handle(m)
    <2>1. ASSUME NEW m \in net, ClientReceive(m) \/ Discard(m)
          PROVE  FALSE
      BY <2>1, <1>2, ConsumeNet DEF ClientReceive, Discard
    <2>2. ASSUME NEW x \in Server, fthread(x)
          PROVE  FALSE
      BY <2>2, <1>2 DEF fthread, Send, keep
    <2>3. ASSUME NEW x \in Server, NEW c \in Server, Start(x, c)
          PROVE  FALSE
      BY <2>3, <1>2 DEF Start, Send, connect
    <2>4. CASE \/ \E x \in Server, k \in Hash, a \in Addr : ClientPut(x, k, a)
               \/ \E c \in Client, x \in Server, k \in Hash : ClientGet(c, x, k)
      BY <2>4, <1>2 DEF ClientPut, ClientGet, Send
    <2> QED
      BY <1>2, <1>3, <2>1, <2>2, <2>3, <2>4 DEF Next, Stop, Lose, Tick, ClientTimeout, vars
  <1>5. CASE HandlePut(m)
    BY <1>2, <1>5, PutShares
  <1>6. CASE HandleGet(m)
    BY <1>2, <1>6, ConsumeNet DEF HandleGet, answer_to_client, ask_others, response
  <1>7. CASE HandleServerGet(m)
    <2>1. PICK out : out = answer_to_server(m.from, m.hash, hash_table[m.to]) /\ Consume(m, out)
      BY <1>7 DEF HandleServerGet
    <2>2. n \in answer_to_server(m.from, m.hash, hash_table[m.to])
      BY <2>1, <1>2, ConsumeNet
    <2>3. s = m.from /\ Stored(m.to, h, ip)
      BY <2>2, <1>2 DEF answer_to_server, Stored
    <2> QED
      BY <2>3, <1>7 DEF HandleServerGet, Takes, Asking, servers, Stored
  <1>8. CASE HandleConnectNew(m)
    <2>1. PICK out : /\ out = share_all_servers(m.to, m.from, server_table[m.to])
                             \cup connect(m.to, {m.from})
                             \cup share_all_hashs(m.to, m.from, hash_table[m.to])
                     /\ Consume(m, out)
      BY <1>8 DEF HandleConnectNew
    <2>2. n \in out
      BY <2>1, <1>2, ConsumeNet
    <2>3. n \in share_all_hashs(m.to, m.from, hash_table[m.to])
      BY <2>1, <2>2, <1>2, LinkMessages DEF Link
    <2>4. s = m.from /\ s # m.to /\ Stored(m.to, h, ip)
      BY <2>3, <1>2 DEF share_all_hashs, others, Stored, get_address_list
    <2>5. s \in Peers(m.to)'
      BY <1>8, <2>4 DEF HandleConnectNew, Takes, insert_server, Peers, TypeOK
    <2> QED
      BY <2>4, <2>5, <1>8 DEF HandleConnectNew, Takes, Stored
  <1>9. CASE \/ HandleConnectKnown(m) \/ HandleKeep(m) \/ HandleShareData(m)
             \/ HandleSharePut(m)
    BY <1>2, <1>9, ConsumeNet DEF HandleConnectKnown, HandleKeep, HandleShareData, HandleSharePut
  <1>10. CASE HandleShareServer(m)
    <2>1. \E out : Consume(m, out) /\ \A k \in out : Link(k)
      BY <1>10, LinkMessages DEF HandleShareServer
    <2> QED
      BY <2>1, <1>2, ConsumeNet DEF Link
  <1> QED
    BY <1>4, <1>5, <1>6, <1>7, <1>8, <1>9, <1>10 DEF Handle

\* What is stored for the first time was on the way, or was put there.
LEMMA StoredFrom ==
  ASSUME TypeOK, NothingLeft, [Next]_vars, NEW s \in Server, NEW h, NEW ip,
         Stored(s, h, ip)', ~Stored(s, h, ip)
  PROVE  s \in up /\ (OnTheWay(s, h, ip) \/ PutHere(s, h, ip))
  <1>t. hash_table \in [Server -> Table] /\ net \subseteq Message
    BY DEF TypeOK
  <1>1. hash_table'[s] # hash_table[s]
    BY DEF Stored
  <1>2. ~Spend("stop")
    BY DEF Spend, NothingLeft
  <1>3. ASSUME fthread(s) \/ Tick
        PROVE  FALSE
    <2>1. hash_table'[s] \in {suppression_obsolete_hash(hash_table[s]), OlderTable(hash_table[s])}
      BY <1>3, <1>t DEF fthread, Tick
    <2> QED
      BY <2>1, AddressLists DEF Stored
  <1>4. ASSUME NEW x \in Server, fthread(x)
        PROVE  x = s
    BY <1>4, <1>1, <1>t DEF fthread
  <1>5. PICK m \in net : HandlePut(m) \/ HandleShareData(m) \/ HandleSharePut(m)
    BY <1>1, <1>2, <1>3, <1>4
    DEF Next, Handle, Stop, Start, ClientPut, ClientGet, ClientTimeout, ClientReceive, Lose,
        Discard, HandleGet, HandleServerGet, HandleConnectKnown, HandleConnectNew, HandleKeep,
        HandleShareServer, vars, servers
  <1>6. CASE HandlePut(m)
    BY <1>6, PutShares
  <1>7. CASE HandleShareData(m) \/ HandleSharePut(m)
    <2>1. s = m.to /\ s \in up /\ m.header \in {"SHARE_PUT", "SHARE_DATA"}
      BY <1>1, <1>7, <1>t DEF HandleShareData, HandleSharePut, Takes
    <2>2. hash_table'[s] \in {insert_hash_addr_share(m.hash, m.addr, hash_table[s]),
                              insert_hash_addr_put(m.hash, m.addr, hash_table[s])}
      BY <1>7, <2>1, <1>t DEF HandleShareData, HandleSharePut
    <2>3. h = m.hash /\ ip = m.addr
      BY <2>2, AddressLists DEF Stored
    <2>4. m \in Message
      BY <1>t
    <2>5. m = [header |-> m.header, to |-> s, hash |-> h, addr |-> ip]
      BY <2>1, <2>3, <2>4 DEF Message
    <2> QED
      BY <2>1, <2>5 DEF OnTheWay, Sharing
  <1> QED
    BY <1>5, <1>6, <1>7

\* A server that learns of another by its CONNECT sends it all it stores.
LEMMA SentOnMeeting ==
  ASSUME TypeOK, NothingLeft, [Next]_vars,
         NEW s \in Server, NEW t \in Peers(s)', t \notin Peers(s), ~Telling(s, t),
         NEW h, NEW ip, Stored(s, h, ip)'
  PROVE  OnTheWay(t, h, ip)'
  <1>t. server_table \in [Server -> PeerTable] /\ net \subseteq Message
    BY DEF TypeOK
  <1>1. PICK m \in net : HandleConnectNew(m)
    <2>1. ~Spend("stop")
      BY DEF Spend, NothingLeft
    <2>2. ASSUME NEW x \in Server, fthread(x)
          PROVE  FALSE
      BY <2>2, <1>t DEF fthread, Peers, suppression_dead_server
    <2>3. ASSUME NEW m \in net, HandleKeep(m)
          PROVE  FALSE
      BY <2>3, <1>t DEF HandleKeep, Peers, keep_alive_server
    <2>4. ~Tick
      BY <1>t DEF Tick, Peers, OlderPeers
    <2>5. ASSUME NEW m \in net, HandleShareServer(m)
          PROVE  FALSE
      <3>1. /\ server_table' = [server_table EXCEPT ![m.to] = insert_server(@, m.server)]
            /\ m.header = "SHARE_SERVER" /\ m \in Message
        BY <2>5, <1>t DEF HandleShareServer, Takes, Peers
      <3>2. m.to = s /\ m.server = t
        BY <3>1, <1>t DEF Peers, insert_server
      <3>3. m = [header |-> "SHARE_SERVER", to |-> s, server |-> t]
        BY <3>1, <3>2 DEF Message
      <3> QED
        BY <3>3 DEF Telling
    <2>6. server_table' # server_table
      BY DEF Peers
    <2> QED
      BY <2>1, <2>2, <2>3, <2>4, <2>5, <2>6
      DEF Next, Handle, Stop, Start, ClientPut, ClientGet, ClientTimeout, ClientReceive, Lose,
          Discard, HandlePut, HandleGet, HandleServerGet, HandleConnectKnown, HandleShareData,
          HandleSharePut, vars, servers
  <1>2. m.from # m.to /\ UNCHANGED hash_table
        /\ server_table' = [server_table EXCEPT ![m.to] = insert_server(@, m.from)]
    BY <1>1 DEF HandleConnectNew
  <1>3. s = m.to /\ t = m.from
    BY <1>2, <1>t DEF Peers, insert_server
  <1>4. share_all_hashs(m.to, m.from, hash_table[m.to]) \subseteq net'
    BY <1>1 DEF HandleConnectNew, Consume
  <1>5. h \in DOMAIN hash_table[s] /\ ip \in hash_table[s][h].address_list
    BY <1>2 DEF Stored, get_address_list
  <1>6. [header |-> "SHARE_DATA", to |-> t, hash |-> h, addr |-> ip]
          \in share_all_hashs(m.to, m.from, hash_table[m.to])
    BY <1>2, <1>3, <1>5 DEF share_all_hashs, others
  <1> QED
    BY <1>4, <1>6 DEF OnTheWay, Sharing

\* A server asks its peers.
LEMMA AskedArePeers ==
  ASSUME TypeOK, [Next]_vars,
         NEW n \in net', n \notin net, n.header = "SERVER_GET"
  PROVE  n.to \in Peers(n.from)
  <1>1. ASSUME NEW m \in net, ClientReceive(m) \/ Discard(m) \/ Lose(m)
        PROVE  FALSE
    BY <1>1, ConsumeNet DEF ClientReceive, Discard, Lose
  <1>2. ASSUME NEW x \in Server, fthread(x)
        PROVE  FALSE
    BY <1>2 DEF fthread, Send, keep
  <1>3. ASSUME NEW x \in Server, NEW c \in Server, Start(x, c)
        PROVE  FALSE
    BY <1>3 DEF Start, Send, connect
  <1>4. PICK m \in net : Handle(m)
    <2>1. CASE \/ \E x \in Server, k \in Hash, a \in Addr : ClientPut(x, k, a)
               \/ \E c \in Client, x \in Server, k \in Hash : ClientGet(c, x, k)
      BY <2>1 DEF ClientPut, ClientGet, Send
    <2> QED
      BY <1>1, <1>2, <1>3, <2>1 DEF Next, Stop, Tick, ClientTimeout, vars
  <1>5. CASE HandleGet(m)
    <2>1. n \in ask_others(m.to, m.hash, hash_table[m.to], Peers(m.to))
      BY <1>5, ConsumeNet DEF HandleGet, answer_to_client, response
    <2> QED
      BY <2>1 DEF ask_others, others
  <1>6. CASE HandlePut(m)
    <2>1. n.header = "SHARE_PUT"
      BY <1>6, PutShares
    <2> QED
      BY <2>1
  <1>7. CASE HandleServerGet(m)
    BY <1>7, ConsumeNet DEF HandleServerGet, answer_to_server
  <1>8. CASE HandleConnectNew(m)
    <2>1. PICK out : /\ out = share_all_servers(m.to, m.from, server_table[m.to])
                             \cup connect(m.to, {m.from})
                             \cup share_all_hashs(m.to, m.from, hash_table[m.to])
                     /\ Consume(m, out)
      BY <1>8 DEF HandleConnectNew
    <2>2. n \in out /\ ~Link(n)
      BY <2>1, ConsumeNet DEF Link
    <2>3. n \in share_all_hashs(m.to, m.from, hash_table[m.to])
      BY <2>1, <2>2, LinkMessages
    <2> QED
      BY <2>3 DEF share_all_hashs
  <1>9. CASE \/ HandleConnectKnown(m) \/ HandleKeep(m) \/ HandleShareData(m)
             \/ HandleSharePut(m)
    BY <1>9, ConsumeNet DEF HandleConnectKnown, HandleKeep, HandleShareData, HandleSharePut
  <1>10. CASE HandleShareServer(m)
    <2>1. \E out : Consume(m, out) /\ \A k \in out : Link(k)
      BY <1>10, LinkMessages DEF HandleShareServer
    <2> QED
      BY <2>1, ConsumeNet DEF Link
  <1> QED
    BY <1>4, <1>5, <1>6, <1>7, <1>8, <1>9, <1>10 DEF Handle

LEMMA SameStored ==
  ASSUME TypeOK, NEW s \in Server, NEW t \in Server
  PROVE  SameData(s, t) <=> \A h \in Hash, ip \in Addr : Stored(s, h, ip) <=> Stored(t, h, ip)
  <1>1. \A x \in Server : \A h : get_address_list(h, hash_table[x]) \subseteq Addr
    BY DEF TypeOK, Table, avl_node, get_address_list
  <1> QED
    BY <1>1 DEF SameData, Stored

-----------------------------------------------------------------------------
(***************************************************************************)
(* AgreementIsStable.  Servers that all know each other may disagree only  *)
(* about what is on the way to those that do not store it yet.             *)
(***************************************************************************)
AllAgree ==
  /\ up = Server
  /\ \A s, t \in Server : s = t \/ t \in Peers(s)
  /\ \A s, t \in Server : \A h \in Hash, ip \in Addr : Has(s, h, ip) => Has(t, h, ip)

LEMMA AllAgreeStep ==
  ASSUME TypeOK, NothingLeft, AllAgree, [Next]_vars, Kept
  PROVE  AllAgree'
  <1>1. up' = Server
    BY NothingLeftStep, StepType DEF AllAgree, TypeOK
  <1>2. \A s, t \in Server : s = t \/ t \in Peers(s)'
    BY DEF AllAgree, Kept, PeersStay
  <1>3. ASSUME NEW s \in Server, NEW t \in Server, NEW h \in Hash, NEW ip \in Addr,
               Has(s, h, ip)'
        PROVE  Has(t, h, ip)'
    <2>1. ASSUME NEW x \in Server, Has(x, h, ip)
          PROVE  Has(t, h, ip)'
      <3>1. Has(t, h, ip) /\ t \in up
        BY <2>1 DEF AllAgree
      <3> QED
        BY <3>1, StoredStays, OnTheWayArrives DEF Has, Kept
    <2>2. ASSUME NEW x \in Server, PutHere(x, h, ip)
          PROVE  Has(t, h, ip)'
      BY <2>2 DEF AllAgree, PutHere, Has
    <2>3. CASE Stored(s, h, ip)'
      BY <2>1, <2>2, <2>3, StoredFrom DEF Has
    <2>4. CASE OnTheWay(s, h, ip)' /\ ~OnTheWay(s, h, ip)
      <3>1. PICK x \in Server : PutHere(x, h, ip) \/ Stored(x, h, ip)
        BY <2>4, DataFrom DEF TypeOK
      <3> QED
        BY <3>1, <2>1, <2>2 DEF Has
    <2> QED
      BY <1>3, <2>1, <2>3, <2>4 DEF Has
  <1> QED
    BY <1>1, <1>2, <1>3 DEF AllAgree

\* While nothing is lost, stopped or dropped, servers that all know each other and
\* store the same data never store different data again once the network is
\* quiet: any number of servers, and puts at any of them in any order.
THEOREM AgreementKept == ASSUME Faultless PROVE Spec /\ [][Kept]_vars => AgreementIsStable
  <1>1. TypeOK /\ Agreed => AllAgree
    BY SameStored DEF Agreed, AllKnown, AllAgree, Quiet, Has, OnTheWay
  <1>2. TypeOK /\ NothingLeft /\ AllAgree /\ [Next]_vars /\ [Kept]_vars => AllAgree'
    <2>1. [Kept]_vars => Kept
      BY DEF Kept, PeersStay, DataStay, Peers, vars, servers
    <2> QED
      BY <2>1, AllAgreeStep
  <1>3. TypeOK /\ AllAgree => (Quiet => \A s, t \in Server : SameData(s, t))
    BY SameStored DEF AllAgree, Quiet, Has, OnTheWay
  <1> QED
    BY <1>1, <1>2, <1>3, TypeCorrect, NothingLeftAlways, PTL DEF Spec, AgreementIsStable

\* In particular while no second passes.
THEOREM AgreementKeptUntimed == ASSUME ~Ticking, Faultless PROVE Spec => AgreementIsStable
  <1>1. [PeersStay /\ DataStay]_vars => [Kept]_vars
    BY DEF Kept
  <1> QED
    BY <1>1, NothingExpires, AgreementKept, PTL

-----------------------------------------------------------------------------
(***************************************************************************)
(* SameDataWhenQuiet for two servers, with puts and the meeting of the two *)
(* in any order: what a server stores is stored, or on the way, at each    *)
(* peer it knows, and what is on the way to one is stored at the other.    *)
(***************************************************************************)
Pair ==
  /\ \A n \in net : n.header # "SHARE_SERVER"
  /\ \A n \in net : n.header = "SERVER_GET" => n.from # n.to
  /\ \A s \in Server : \A t \in Peers(s) : \A h \in Hash, ip \in Addr :
       Stored(s, h, ip) => Has(t, h, ip)
  /\ \A s, t \in Server : \A h \in Hash, ip \in Addr :
       s # t /\ OnTheWay(s, h, ip) => Stored(t, h, ip)

\* Between two servers there is nobody to tell of.
LEMMA NobodyToTell ==
  ASSUME NEW a, NEW b, Server = {a, b}, TypeOK, SelfInv, NothingLeft, [Next]_vars,
         \A n \in net : n.header # "SHARE_SERVER"
  PROVE  \A n \in net' : n.header # "SHARE_SERVER"
  <1>1. JoinStep
    BY JoinSteps
  <1>2. \A n \in Links : n.header # "SHARE_SERVER"
    BY DEF Links
  <1>3. \A n \in Links' : n.header # "SHARE_SERVER"
    <2>1. ASSUME NEW m \in Links, JoinConnect(m)
          PROVE  \A n \in Links' : n.header # "SHARE_SERVER"
      <3>1. \A n \in connect(m.to, {m.from}) : n.header = "CONNECT"
        BY DEF connect
      <3>2. DOMAIN server_table[m.to] = {}
        BY <2>1 DEF JoinConnect, Learns, SelfInv, NotOwnPeer, TypeOK, Peers, PeerTable
      <3>3. share_all_servers(m.to, m.from, server_table[m.to]) = {}
        BY <3>2 DEF share_all_servers
      <3> QED
        BY <2>1, <1>2, <3>1, <3>3 DEF JoinConnect, Traffic
    <2>2. ASSUME NEW x \in Server, NEW c \in Server, JoinStart(x, c)
          PROVE  \A n \in Links' : n.header # "SHARE_SERVER"
      <3>1. \A n \in connect(x, {c}) : n.header = "CONNECT"
        BY DEF connect
      <3> QED
        BY <2>2, <1>2, <3>1 DEF JoinStart, Traffic
    <2> QED
      BY <1>1, <1>2, <2>1, <2>2
      DEF JoinStep, JoinTold, JoinKnown, JoinGone, JoinOther, Traffic
  <1> QED
    BY <1>3 DEF Links, Link

LEMMA PairStep ==
  ASSUME NEW a, NEW b, Server = {a, b}, TypeOK, SelfInv, NothingLeft, KnownUp, Pair,
         [Next]_vars, Kept
  PROVE  Pair'
  <1>1. \A n \in net' : n.header # "SHARE_SERVER"
    BY NobodyToTell DEF Pair
  <1>2. \A n \in net' : n.header = "SERVER_GET" => n.from # n.to
    <2>1. ASSUME NEW n \in net', n.header = "SERVER_GET"
          PROVE  n.from \in Server
      BY <2>1, StepType, MessageFields DEF TypeOK
    <2> QED
      BY <2>1, AskedArePeers DEF Pair, SelfInv, NotOwnPeer
  <1>3. ASSUME NEW s \in Server, NEW t \in Server, NEW h \in Hash, NEW ip \in Addr,
               s # t, OnTheWay(s, h, ip)'
        PROVE  Stored(t, h, ip)'
    <2>1. CASE OnTheWay(s, h, ip)
      BY <1>3, <2>1, StoredStays DEF Pair, Kept
    <2>2. CASE ~OnTheWay(s, h, ip)
      <3>1. PICK x \in up : s # x /\ Stored(x, h, ip)'
        BY <1>3, <2>2, DataFrom DEF Pair, PutHere, Asking
      <3>2. x = t
        BY <1>3, <3>1 DEF TypeOK
      <3> QED
        BY <3>1, <3>2
    <2> QED
      BY <2>1, <2>2
  <1>4. ASSUME NEW s \in Server, NEW t \in Peers(s)', NEW h \in Hash, NEW ip \in Addr,
               Stored(s, h, ip)'
        PROVE  Has(t, h, ip)'
    <2>1. CASE t \notin Peers(s)
      BY <1>4, <2>1, SentOnMeeting DEF Pair, Has, Telling
    <2>2. CASE t \in Peers(s) /\ Stored(s, h, ip)
      <3>1. t \in up /\ t \in Server /\ Has(t, h, ip)
        BY <2>2 DEF KnownUp, TypeOK, Pair
      <3> QED
        BY <3>1, StoredStays, OnTheWayArrives DEF Has, Kept
    <2>3. CASE t \in Peers(s) /\ ~Stored(s, h, ip)
      <3>1. t \in Server /\ t # s
        BY <2>3 DEF KnownUp, TypeOK, SelfInv, NotOwnPeer
      <3>2. OnTheWay(s, h, ip) \/ PutHere(s, h, ip)
        BY <1>4, <2>3, StoredFrom
      <3>3. CASE OnTheWay(s, h, ip)
        BY <3>1, <3>3, StoredStays DEF Pair, Has, Kept
      <3>4. CASE PutHere(s, h, ip)
        BY <2>3, <3>1, <3>4 DEF PutHere, Has
      <3> QED
        BY <3>2, <3>3, <3>4
    <2> QED
      BY <2>1, <2>2, <2>3
  <1> QED
    BY <1>1, <1>2, <1>3, <1>4 DEF Pair

\* Two servers that know each other store the same data whenever no datagram is in
\* flight, as long as nothing is lost, stopped or dropped, whatever was put at
\* either of them before, while or after they met.
THEOREM SameDataOfTwo ==
  ASSUME Faultless, NEW a, NEW b, Server = {a, b}
  PROVE  Spec /\ [][Kept]_vars => []SameDataWhenQuiet
  <1>1. Init => Pair
    BY DEF Init, Pair, Peers, no_server, OnTheWay
  <1>2. TypeOK /\ SelfInv /\ NothingLeft /\ KnownUp /\ Pair /\ [Next]_vars /\ [Kept]_vars => Pair'
    <2>1. [Kept]_vars => Kept
      BY DEF Kept, PeersStay, DataStay, Peers, vars, servers
    <2> QED
      BY <2>1, PairStep
  <1>3. TypeOK /\ Mutual /\ Pair => SameDataWhenQuiet
    <2> SUFFICES ASSUME TypeOK, Mutual, Pair, Quiet, NEW s \in up, NEW t \in Peers(s) \cap up
                 PROVE  SameData(s, t)
      BY DEF SameDataWhenQuiet
    <2>1. s \in Server /\ t \in Server /\ s \in Peers(t)
      BY DEF TypeOK, Mutual, Quiet, Connecting
    <2> QED
      BY <2>1, SameStored DEF Pair, Quiet, Has, OnTheWay
  <1>4. [Kept]_vars => [PeersStay]_vars
    BY DEF Kept
  <1> QED
    BY <1>1, <1>2, <1>3, <1>4, TypeCorrect, SelfAlways, NothingLeftAlways, KnownUpAlways,
       MutualAlways, PTL DEF Spec

\* In particular while no second passes.
THEOREM SameDataOfTwoUntimed ==
  ASSUME ~Ticking, Faultless, NEW a, NEW b, Server = {a, b}
  PROVE  Spec => []SameDataWhenQuiet
  <1>1. [PeersStay /\ DataStay]_vars => [Kept]_vars
    BY DEF Kept
  <1> QED
    BY <1>1, NothingExpires, SameDataOfTwo, PTL

-----------------------------------------------------------------------------
(***************************************************************************)
(* AnswersWhatWasHeld: each address the server stored when it was asked is *)
(* printed, or on its way to the client, or will be sent when the question *)
(* arrives, because the server stores it still.                            *)
(***************************************************************************)
Question(c) ==
  [header |-> "GET", to |-> client[c].server, from |-> c, hash |-> client[c].hash]

Answer(c, ip) == [header |-> "RESPONSE", to |-> c, hash |-> client[c].hash, addr |-> ip]

Awaited(c, ip) ==
  \/ ip \in client[c].printed
  \/ Answer(c, ip) \in net
  \/ Question(c) \in net /\ Stored(client[c].server, client[c].hash, ip)

AnswerInv ==
  \A c \in Client : client[c].state = "waiting" =>
    client[c].server \in Server /\ \A ip \in client[c].held : Awaited(c, ip)

\* A client that waits has just asked, or goes on waiting for the same.
LEMMA StillWaiting ==
  ASSUME TypeOK, [Next]_vars, NEW c \in Client, client'[c].state = "waiting"
  PROVE  \/ \E s \in Server, h \in Hash : ClientGet(c, s, h)
         \/ /\ client[c].state = "waiting" /\ client'[c].server = client[c].server
            /\ client'[c].hash = client[c].hash /\ client'[c].held = client[c].held
            /\ client[c].printed \subseteq client'[c].printed
  <1>t. client \in [Client -> ClientState]
    BY DEF TypeOK
  <1>1. ASSUME NEW m \in net, ClientReceive(m)
        PROVE  /\ client[c].state = "waiting" /\ client'[c].server = client[c].server
               /\ client'[c].hash = client[c].hash /\ client'[c].held = client[c].held
               /\ client[c].printed \subseteq client'[c].printed
    <2>1. client[c] \in ClientState /\ client[m.to].state = "waiting"
      BY <1>1, <1>t DEF ClientReceive
    <2>2. client' = [client EXCEPT ![m.to].printed = @ \cup {m.addr}]
      BY <1>1 DEF ClientReceive
    <2>3. CASE c # m.to
      BY <2>2, <2>3, <1>t
    <2>4. CASE c = m.to
      BY <2>1, <2>2, <2>4, <1>t DEF ClientState
    <2> QED
      BY <2>3, <2>4
  <1>2. ASSUME NEW d \in Client, ClientTimeout(d)
        PROVE  client'[c] = client[c]
    <2>1. d # c
      BY <1>2, <1>t DEF ClientTimeout, ClientState
    <2> QED
      BY <1>2, <2>1, <1>t DEF ClientTimeout
  <1>3. ASSUME NEW d \in Client, NEW s \in Server, NEW h \in Hash, ClientGet(d, s, h)
        PROVE  d = c \/ client'[c] = client[c]
    BY <1>3, <1>t DEF ClientGet
  <1>4. CASE UNCHANGED client
    BY <1>4
  <1> QED
    BY <1>1, <1>2, <1>3, <1>4
    DEF Next, Handle, Stop, fthread, Start, ClientPut, Lose, Discard, Tick, HandlePut, HandleGet,
        HandleServerGet, HandleConnectKnown, HandleConnectNew, HandleKeep, HandleShareData,
        HandleSharePut, HandleShareServer, vars, servers

LEMMA AnswerStep ==
  ASSUME TypeOK, StoppedIsEmpty, NothingLeft, AnswerInv, [Next]_vars, DataStay
  PROVE  AnswerInv'
  <1> SUFFICES ASSUME NEW c \in Client, client'[c].state = "waiting"
               PROVE  client'[c].server \in Server
                      /\ \A ip \in client'[c].held : Awaited(c, ip)'
    BY DEF AnswerInv
  <1>1. ASSUME NEW s \in Server, NEW h \in Hash, ClientGet(c, s, h)
        PROVE  client'[c].server \in Server
               /\ \A ip \in client'[c].held : Awaited(c, ip)'
    <2>1. /\ client'[c].server = s /\ client'[c].hash = h
          /\ client'[c].held = get_address_list(h, hash_table[s])
          /\ UNCHANGED hash_table
          /\ [header |-> "GET", to |-> s, from |-> c, hash |-> h] \in net'
      BY <1>1 DEF ClientGet, Send, TypeOK, servers
    <2> QED
      BY <2>1 DEF Awaited, Question, Stored
  <1>2. ASSUME client[c].state = "waiting", client'[c].server = client[c].server,
               client'[c].hash = client[c].hash, client'[c].held = client[c].held,
               client[c].printed \subseteq client'[c].printed
        PROVE  client'[c].server \in Server
               /\ \A ip \in client'[c].held : Awaited(c, ip)'
    <2>1. client[c].server \in Server
      BY <1>2 DEF AnswerInv
    <2>2. SUFFICES ASSUME NEW ip \in client[c].held
                   PROVE  Awaited(c, ip)'
      BY <1>2, <2>1
    <2>3. Awaited(c, ip)
      BY <1>2 DEF AnswerInv
    <2>4. CASE ip \in client[c].printed
      BY <1>2, <2>4 DEF Awaited
    <2>5. CASE Answer(c, ip) \in net
      <3>1. PICK k : k = Answer(c, ip)
        OBVIOUS
      <3>2. k.header = "RESPONSE" /\ k.to = c /\ k.addr = ip /\ k \in net
        BY <2>5, <3>1 DEF Answer
      <3>3. CASE k \in net'
        BY <1>2, <3>1, <3>3 DEF Answer, Awaited
      <3>4. CASE k \notin net'
        <4>1. Handle(k) \/ ClientReceive(k) \/ Discard(k)
          BY <3>2, <3>4, WhatGoes
        <4>2. ~Handle(k)
          BY <3>2
          DEF Handle, HandlePut, HandleGet, HandleServerGet, HandleConnectKnown,
              HandleConnectNew, HandleKeep, HandleShareData, HandleSharePut, HandleShareServer,
              Takes
        <4>3. ClientReceive(k)
          BY <1>2, <3>2, <4>1, <4>2 DEF Discard, Undeliverable
        <4>4. client' = [client EXCEPT ![c].printed = @ \cup {ip}] /\ client[c] \in ClientState
          BY <3>2, <4>3 DEF ClientReceive, TypeOK
        <4>5. ip \in client'[c].printed
          BY <1>2, <4>4 DEF TypeOK, ClientState
        <4> QED
          BY <4>5 DEF Awaited
      <3> QED
        BY <3>3, <3>4
    <2>6. CASE Question(c) \in net /\ Stored(client[c].server, client[c].hash, ip)
      <3>1. PICK k : k = Question(c)
        OBVIOUS
      <3>2. /\ k.header = "GET" /\ k.to = client[c].server /\ k.from = c
            /\ k.hash = client[c].hash /\ k \in net
        BY <2>6, <3>1 DEF Question
      <3>3. client[c].server \in up
        BY <2>1, <2>6 DEF StoppedIsEmpty, Stored, get_address_list
      <3>4. CASE k \in net'
        <4>1. Stored(client[c].server, client[c].hash, ip)'
          BY <2>1, <2>6, <1>2, StoredStays DEF Stored
        <4> QED
          BY <1>2, <3>1, <3>4, <4>1 DEF Question, Awaited
      <3>5. CASE k \notin net'
        <4>1. Handle(k) \/ ClientReceive(k) \/ Discard(k)
          BY <3>2, <3>5, WhatGoes
        <4>2. HandleGet(k)
          BY <3>2, <3>3, <4>1
          DEF Handle, HandlePut, HandleServerGet, HandleConnectKnown, HandleConnectNew,
              HandleKeep, HandleShareData, HandleSharePut, HandleShareServer, Takes,
              ClientReceive, Discard, Undeliverable
        <4>3. response(c, k.hash, hash_table[k.to]) \subseteq net'
          BY <3>2, <4>2 DEF HandleGet, Consume, answer_to_client
        <4>4. Answer(c, ip) \in response(c, k.hash, hash_table[k.to])
          BY <2>6, <3>2 DEF Answer, response, Stored
        <4> QED
          BY <1>2, <4>3, <4>4 DEF Answer, Awaited
      <3> QED
        BY <3>4, <3>5
    <2> QED
      BY <2>3, <2>4, <2>5, <2>6 DEF Awaited
  <1> QED
    BY <1>1, <1>2, StillWaiting

\* A client that still waits when neither its question nor an answer is in flight
\* has printed every address its server stored when it was asked, as long as nothing
\* is lost, stopped or dropped, in whatever order the datagrams arrive.
THEOREM AnswersComplete ==
  ASSUME Faultless
  PROVE  Spec /\ [][DataStay]_vars => []AnswersWhatWasHeld
  <1>1. Init => AnswerInv
    BY DEF Init, AnswerInv
  <1>2. TypeOK /\ InTime /\ NothingLeft /\ AnswerInv /\ [Next]_vars /\ [DataStay]_vars
        => AnswerInv'
    <2>1. [DataStay]_vars => DataStay
      BY DEF DataStay, vars, servers
    <2> QED
      BY <2>1, AnswerStep DEF InTime
  <1>3. AnswerInv => AnswersWhatWasHeld
    BY DEF AnswerInv, AnswersWhatWasHeld, Awaited, Question, Answer
  <1> QED
    BY <1>1, <1>2, <1>3, TypeCorrect, InTimeAlways, NothingLeftAlways, PTL DEF Spec

\* In particular while no second passes.
THEOREM AnswersCompleteUntimed ==
  ASSUME ~Ticking, Faultless
  PROVE  Spec => []AnswersWhatWasHeld
  <1>1. [PeersStay /\ DataStay]_vars => [DataStay]_vars
    OBVIOUS
  <1> QED
    BY <1>1, NothingExpires, AnswersComplete, PTL

-----------------------------------------------------------------------------
(***************************************************************************)
(* FreshIsKept.  Once all servers know each other, a put that reaches one  *)
(* of them is either stored at another with a date no older than the last  *)
(* put of the hash, or on its way there as a SHARE_PUT, which renews the   *)
(* date.  So fthread of no server finds a hash old that was put in time.   *)
(***************************************************************************)
NoOlder(t, h, a) == h \in DOMAIN t /\ t[h].last_put <= a

Renewing(s, h) == \E n \in net : n.header = "SHARE_PUT" /\ n.to = s /\ n.hash = h

Fresh(h) == h \in DOMAIN puts /\ puts[h].last_put <= HashTTL

Renewed ==
  /\ up = Server /\ AllKnown
  /\ \A h, s : Fresh(h) /\ s \in Server =>
       NoOlder(hash_table[s], h, puts[h].last_put) \/ Renewing(s, h)

LEMMA DatesAfter ==
  ASSUME NEW t \in Table, NEW a \in Age, NEW h, NoOlder(t, h, a), NEW k, NEW ip
  PROVE  /\ NoOlder(insert_hash_addr_put(k, ip, t), h, a)
         /\ NoOlder(insert_hash_addr_share(k, ip, t), h, a)
         /\ a <= HashTTL => NoOlder(suppression_obsolete_hash(t), h, a)
         /\ NoOlder(OlderTable(t), h, Older(a))
  <1>1. /\ t[h] \in avl_node /\ h \in DOMAIN t /\ t[h].last_put <= a
        /\ t[h].last_put \in Nat /\ a \in Nat
        /\ t[h].last_put <= MaxAge /\ a <= MaxAge /\ MaxAge \in Nat
    BY MaxAgeAssumption, TableShape DEF NoOlder, avl_node, Age
  <1>2. NoOlder(insert_hash_addr_put(k, ip, t), h, a)
    BY <1>1 DEF NoOlder, insert_hash_addr_put
  <1>3. NoOlder(insert_hash_addr_share(k, ip, t), h, a)
    BY <1>1 DEF NoOlder, insert_hash_addr_share
  <1>4. a <= HashTTL => NoOlder(suppression_obsolete_hash(t), h, a)
    BY <1>1, HashMapAssumption DEF NoOlder, suppression_obsolete_hash
  <1>5. Older(t[h].last_put) <= Older(a)
    BY <1>1 DEF Older
  <1>6. NoOlder(OlderTable(t), h, Older(a))
    BY <1>1, <1>5 DEF NoOlder, OlderTable
  <1> QED
    BY <1>2, <1>3, <1>4, <1>6

\* A put of the hash dates it now.
LEMMA PutIsNow ==
  ASSUME NEW t, NEW h, NEW ip, NEW a \in Age
  PROVE  NoOlder(insert_hash_addr_put(h, ip, t), h, a)
  BY MaxAgeAssumption DEF NoOlder, insert_hash_addr_put, Age

\* What a step does to the last put of a hash that is fresh after it.
LEMMA FreshBefore ==
  ASSUME TypeOK, NothingLeft, [Next]_vars, NEW h, Fresh(h)'
  PROVE  \/ \E m \in net : HandlePut(m) /\ m.hash = h
         \/ /\ Fresh(h) /\ puts[h].last_put \in Age /\ ~Tick
            /\ h \in DOMAIN puts' /\ puts'[h].last_put = puts[h].last_put
         \/ /\ Fresh(h) /\ puts[h].last_put \in Age /\ Tick
            /\ h \in DOMAIN puts' /\ puts'[h].last_put = Older(puts[h].last_put)
  <1>1. puts \in Table
    BY DEF TypeOK
  <1>2. h \in DOMAIN puts => puts[h].last_put \in Age
    BY <1>1, TableShape DEF avl_node
  <1>3. CASE Tick
    <2>1. /\ h \in DOMAIN puts /\ h \in DOMAIN puts'
          /\ puts'[h].last_put = Older(puts[h].last_put)
      BY <1>3 DEF Tick, Fresh, OlderTable
    <2>2. puts[h].last_put <= HashTTL
      BY <2>1, <1>2, MaxAgeAssumption, HashMapAssumption DEF Fresh, Older, Age
    <2> QED
      BY <1>2, <1>3, <2>1, <2>2 DEF Fresh
  <1>4. ASSUME NEW m \in net, HandlePut(m), m.hash # h
        PROVE  /\ Fresh(h) /\ puts[h].last_put \in Age
               /\ h \in DOMAIN puts' /\ puts'[h].last_put = puts[h].last_put
    <2>1. puts' = insert_hash_addr_put(m.hash, m.addr, puts)
      BY <1>4 DEF HandlePut
    <2>2. /\ h \in DOMAIN puts /\ h \in DOMAIN puts'
          /\ puts'[h].last_put = puts[h].last_put
      BY <1>4, <2>1 DEF Fresh, insert_hash_addr_put
    <2> QED
      BY <1>2, <2>2 DEF Fresh
  <1>5. CASE UNCHANGED puts
    BY <1>2, <1>3, <1>5 DEF Fresh
  <1>6. ASSUME NEW m \in net, HandlePut(m)
        PROVE  ~Tick
    <2>1. m.to \in up /\ nap' = nap /\ m.to \in Server /\ nap[m.to] \in Nat
      BY <1>6 DEF HandlePut, Takes, TypeOK
    <2>2. Tick => nap'[m.to] = nap[m.to] - 1
      BY <2>1 DEF Tick
    <2> QED
      BY <2>1, <2>2
  <1>7. Tick \/ UNCHANGED puts \/ \E m \in net : HandlePut(m)
    BY DEF Next, Handle, Stop, fthread, Start, ClientPut, ClientGet, ClientTimeout,
           ClientReceive, Lose, Discard, HandleGet, HandleServerGet, HandleConnectKnown,
           HandleConnectNew, HandleKeep, HandleShareData, HandleSharePut, HandleShareServer,
           vars, servers
  <1> QED
    BY <1>3, <1>4, <1>5, <1>6, <1>7

LEMMA RenewedStep ==
  ASSUME TypeOK, NothingLeft, Renewed, [Next]_vars, PeersStay
  PROVE  Renewed'
  <1>t. /\ hash_table \in [Server -> Table] /\ net \subseteq Message
        /\ up \subseteq Server /\ TypeOK'
    BY StepType DEF TypeOK
  <1>1. (up = Server /\ AllKnown)'
    <2>1. up \subseteq up'
      BY NothingLeftStep
    <2> QED
      BY <2>1, <1>t DEF Renewed, AllKnown, PeersStay, TypeOK
  <1>2. SUFFICES ASSUME NEW h, NEW s \in Server, Fresh(h)'
                 PROVE  NoOlder(hash_table[s], h, puts[h].last_put)' \/ Renewing(s, h)'
    BY <1>1 DEF Renewed
  <1>a. puts'[h].last_put \in Age
    BY <1>t, <1>2, TableShape DEF TypeOK, Fresh, avl_node
  <1>3. ASSUME NEW m \in net, HandlePut(m), m.hash = h
        PROVE  NoOlder(hash_table[s], h, puts[h].last_put)' \/ Renewing(s, h)'
    <2>1. CASE s = m.to
      <3>1. hash_table'[s] = insert_hash_addr_put(h, m.addr, hash_table[s])
        BY <1>3, <1>t, <2>1 DEF HandlePut
      <3> QED
        BY <3>1, <1>a, PutIsNow
    <2>2. CASE s # m.to
      <3>1. s \in Peers(m.to)
        BY <1>3, <2>2 DEF Renewed, AllKnown, HandlePut, Takes
      <3>2. [header |-> "SHARE_PUT", to |-> s, hash |-> h, addr |-> m.addr] \in net'
        BY <1>3, <2>2, <3>1 DEF HandlePut, Consume, share_put, others
      <3> QED
        BY <3>2 DEF Renewing
    <2> QED
      BY <2>1, <2>2
  <1>4. ASSUME Fresh(h), Renewing(s, h)
        PROVE  NoOlder(hash_table[s], h, puts[h].last_put)' \/ Renewing(s, h)'
    <2>1. PICK n \in net : n.header = "SHARE_PUT" /\ n.to = s /\ n.hash = h
      BY <1>4 DEF Renewing
    <2>2. CASE n \in net'
      BY <2>1, <2>2 DEF Renewing
    <2>3. CASE n \notin net'
      <3>1. Handle(n) \/ ClientReceive(n) \/ Discard(n)
        BY <2>3, WhatGoes
      <3>2. HandleSharePut(n)
        BY <2>1, <3>1
        DEF Handle, HandlePut, HandleGet, HandleServerGet, HandleConnectKnown, HandleConnectNew,
            HandleKeep, HandleShareData, HandleShareServer, Takes, ClientReceive, Discard,
            Undeliverable, Renewed
      <3>3. hash_table'[s] = insert_hash_addr_put(h, n.addr, hash_table[s])
        BY <2>1, <3>2, <1>t DEF HandleSharePut
      <3> QED
        BY <3>3, <1>a, PutIsNow
    <2> QED
      BY <2>2, <2>3
  <1>5. ASSUME Fresh(h), puts[h].last_put \in Age, NoOlder(hash_table[s], h, puts[h].last_put),
               ~Tick, puts'[h].last_put = puts[h].last_put
        PROVE  NoOlder(hash_table[s], h, puts[h].last_put)'
    <2>1. hash_table[s] \in Table /\ puts[h].last_put <= HashTTL
      BY <1>5, <1>t DEF Fresh
    <2>2. ASSUME NEW m \in net, Handle(m)
          PROVE  \/ hash_table'[s] = hash_table[s]
                 \/ \E k, ip : hash_table'[s] \in {insert_hash_addr_put(k, ip, hash_table[s]),
                                                   insert_hash_addr_share(k, ip, hash_table[s])}
      <3>1. CASE HandlePut(m) \/ HandleSharePut(m) \/ HandleShareData(m)
        BY <3>1, <1>t DEF HandlePut, HandleSharePut, HandleShareData
      <3> QED
        BY <2>2, <3>1
        DEF Handle, HandleGet, HandleServerGet, HandleConnectKnown, HandleConnectNew, HandleKeep,
            HandleShareServer, servers
    <2>3. ASSUME NEW x \in Server, fthread(x)
          PROVE  hash_table'[s] \in {hash_table[s], suppression_obsolete_hash(hash_table[s])}
      BY <2>3, <1>t DEF fthread
    <2>4. ~Spend("stop")
      BY DEF Spend, NothingLeft
    <2>5. \/ hash_table'[s] = hash_table[s]
          \/ hash_table'[s] = suppression_obsolete_hash(hash_table[s])
          \/ \E k, ip : hash_table'[s] \in {insert_hash_addr_put(k, ip, hash_table[s]),
                                            insert_hash_addr_share(k, ip, hash_table[s])}
      BY <1>5, <2>2, <2>3, <2>4
      DEF Next, Stop, Start, ClientPut, ClientGet, ClientTimeout, ClientReceive, Lose, Discard,
          vars, servers
    <2> QED
      BY <1>5, <2>1, <2>5, DatesAfter
  <1>6. ASSUME Fresh(h), puts[h].last_put \in Age, NoOlder(hash_table[s], h, puts[h].last_put),
               Tick, puts'[h].last_put = Older(puts[h].last_put)
        PROVE  NoOlder(hash_table[s], h, puts[h].last_put)'
    <2>1. hash_table'[s] = OlderTable(hash_table[s]) /\ hash_table[s] \in Table
      BY <1>6, <1>t DEF Tick
    <2> QED
      BY <1>6, <2>1, DatesAfter
  <1> QED
    BY <1>2, <1>3, <1>4, <1>5, <1>6, FreshBefore DEF Renewed

\* Once all servers know each other and what was put within the limit is stored at
\* all of them with a date no older than the last put, this is so whenever the
\* network is quiet: a put at any server, in any order, keeps the hash at all of
\* them, while nothing is lost and no server stops or drops a peer.
THEOREM FreshKept == ASSUME Faultless PROVE Spec /\ [][PeersStay]_vars => FreshIsKept
  <1>1. up = Server /\ AllKnown /\ FreshEverywhere => Renewed
    BY DEF Renewed, FreshEverywhere, Fresh, NoOlder
  <1>2. TypeOK /\ NothingLeft /\ Renewed /\ [Next]_vars /\ [PeersStay]_vars => Renewed'
    <2>1. [PeersStay]_vars => PeersStay
      BY DEF PeersStay, Peers, vars, servers
    <2> QED
      BY <2>1, RenewedStep
  <1>3. TypeOK /\ Renewed => (Quiet => FreshEverywhere)
    BY DEF TypeOK, Renewed, FreshEverywhere, Fresh, NoOlder, Quiet, Renewing
  <1> QED
    BY <1>1, <1>2, <1>3, TypeCorrect, NothingLeftAlways, PTL DEF Spec, FreshIsKept

\* In particular for ever when datagrams are handled in the second they are sent in
\* and the sleep of fthread fits into the limit.
THEOREM FreshKeptInTime ==
  ASSUME Prompt, PERIOD <= PeerTTL, Faultless
  PROVE  Spec => FreshIsKept
  BY NobodyIsDropped, FreshKept, PTL
=============================================================================
