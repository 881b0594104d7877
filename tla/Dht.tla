-------------------------------- MODULE Dht --------------------------------
(***************************************************************************)
(* The distributed hash table of server.c and client.c: the servers, the   *)
(* UDP datagrams between them, and the clients that ask them for a hash.   *)
(*                                                                         *)
(* One action stands for one whole turn of a server's receive loop, one    *)
(* whole turn of its second thread (fthread), one command of a client, or  *)
(* something the environment does: a datagram is lost, duplicated or       *)
(* delivered to nobody, a server is started or stopped, a second passes.   *)
(***************************************************************************)
EXTENDS HashMap, PeerMap, FiniteSets

CONSTANTS
  Client,   \* runs of "client get", one request each
  ZeroHash, \* the hash whose 72 bytes are all zero
  PERIOD,   \* the sleep of fthread between two turns (5 s in the code)
  Contact,  \* Contact[s]: the servers s may be told to connect to when it is
            \* started; s itself stands for being started alone
  Budget,   \* how often each event of Effort may happen in a behaviour
  Ticking,  \* FALSE: no second ever passes
  Prompt    \* TRUE: every datagram is handled in the second it was sent in

\* The events a model must bound to be finite.
Effort == {"put", "start", "stop", "loss", "dup"}

ASSUME DhtAssumption ==
  /\ ZeroHash \in Hash
  /\ PERIOD \in Nat \ {0}
  /\ Contact \in [Server -> SUBSET Server]
  /\ Budget \in [Effort -> Nat]
  /\ Ticking \in BOOLEAN
  /\ Prompt \in BOOLEAN

VARIABLES
  up,            \* the servers that run
  server_table,  \* the peers each of them knows
  hash_table,    \* the data each of them stores
  nap,           \* the seconds that are left of fthread's sleep
  net,           \* the datagrams in flight
  client,        \* what each "client get" has done and printed
  puts,          \* history: every put a server received from a client, and the
                 \* age of the last one for each hash
  left           \* what is left of the budget

servers == <<up, server_table, hash_table, nap>>
vars == <<servers, net, client, puts, left>>

-----------------------------------------------------------------------------
(***************************************************************************)
(* Datagrams.  A port and an address are one Server or one Client, and the *)
(* source address is the field "from" of those messages whose handler      *)
(* reads it or the address the sender wrote into the message.              *)
(***************************************************************************)
Message ==
  [header : {"PUT", "SHARE_PUT", "SHARE_DATA"},
     to : Server, hash : Hash, addr : Addr]
  \cup [header : {"GET"}, to : Server, from : Client, hash : Hash]
  \cup [header : {"RESPONSE"}, to : Client, hash : Hash, addr : Addr]
  \cup [header : {"SERVER_GET"}, to : Server, from : Server, hash : Hash]
  \cup [header : {"CONNECT", "KEEP"}, to : Server, from : Server]
  \cup [header : {"SHARE_SERVER"}, to : Server, server : Server]

\* send_to_server does nothing when the addressee is the sender.
others(s, P) == P \ {s}

connect(s, P) ==
  {[header |-> "CONNECT", to |-> p, from |-> s] : p \in others(s, P)}

keep(s, P) ==
  {[header |-> "KEEP", to |-> p, from |-> s] : p \in others(s, P)}

\* Mutant: the loop over the peers ends after the first one.
share_put_one(s, h, ip, P) ==
  {[header |-> "SHARE_PUT", to |-> p, hash |-> h, addr |-> ip] :
     p \in {q \in others(s, P) : q = CHOOSE r \in others(s, P) : TRUE}}

share_put(s, h, ip, P) ==
  {[header |-> "SHARE_PUT", to |-> p, hash |-> h, addr |-> ip] :
     p \in others(s, P)}

\* Every peer of the table, to a server that is not the sender.
share_all_servers(s, to, table) ==
  {[header |-> "SHARE_SERVER", to |-> p, server |-> q] :
     p \in others(s, {to}), q \in DOMAIN table}

\* Mutant: the recursion on the two subtrees is forgotten.
share_first_hash(s, to, table) ==
  UNION {{[header |-> "SHARE_DATA", to |-> p, hash |-> h, addr |-> ip] :
            p \in others(s, {to}), ip \in table[h].address_list} :
         h \in {k \in DOMAIN table : k = CHOOSE r \in DOMAIN table : TRUE}}

\* Every address of every node, to a server that is not the sender.
share_all_hashs(s, to, table) ==
  UNION {{[header |-> "SHARE_DATA", to |-> p, hash |-> h, addr |-> ip] :
            p \in others(s, {to}), ip \in table[h].address_list} :
         h \in DOMAIN table}

(***************************************************************************)
(* The code sends SERVER_GET with the size of a bare header, one byte.     *)
(* The receiver clears its buffer first, so it reads a hash of zeros.  The *)
(* peers are asked when the server does have the hash: the test for NULL   *)
(* is the wrong way round.                                                 *)
(***************************************************************************)
ask_others(s, h, table, P) ==
  {[header |-> "SERVER_GET", to |-> p, from |-> s, hash |-> ZeroHash] :
     p \in {q \in others(s, P) : get_address_list(h, table) # {}}}

\* Mutant: only the head of the list of addresses is sent.
response_head(c, h, table) ==
  {[header |-> "RESPONSE", to |-> c, hash |-> h, addr |-> ip] :
     ip \in {a \in get_address_list(h, table) :
               a = CHOOSE b \in get_address_list(h, table) : TRUE}}

response(c, h, table) ==
  {[header |-> "RESPONSE", to |-> c, hash |-> h, addr |-> ip] :
     ip \in get_address_list(h, table)}

answer_to_client(s, c, h, table, P) ==
  ask_others(s, h, table, P) \cup response(c, h, table)

\* Mutant: the addresses of whatever node the search ended at are sent.
answer_to_server_any(to, h, table) ==
  {[header |-> "SHARE_DATA", to |-> to, hash |-> h, addr |-> ip] :
     ip \in UNION {table[k].address_list : k \in DOMAIN table}}

answer_to_server(to, h, table) ==
  {[header |-> "SHARE_DATA", to |-> to, hash |-> h, addr |-> ip] :
     ip \in get_address_list(h, table)}

-----------------------------------------------------------------------------
(***************************************************************************)
(* The network and the budget.                                             *)
(***************************************************************************)
Spend(e) == left[e] > 0 /\ left' = [left EXCEPT ![e] = @ - 1]

Send(out) == net' = net \cup out

\* m is taken from the network and out is sent.  A duplicate of m may stay.
Consume(m, out) ==
  \/ net' = (net \ {m}) \cup out /\ UNCHANGED left
  \/ Spend("dup") /\ net' = net \cup out

\* The running server m.to takes the message m with this header.
Takes(m, header) == m.header = header /\ m.to \in up

Peers(s) == DOMAIN server_table[s]

-----------------------------------------------------------------------------
(***************************************************************************)
(* Starting and stopping a server.  Its tables are in memory only.  A      *)
(* message to the server it is told to connect to is all it sends; fthread *)
(* starts with a turn of work, not with a sleep.                           *)
(***************************************************************************)
Start(s, c) ==
  /\ s \notin up /\ c \in Contact[s]
  /\ Spend("start")
  /\ up' = up \cup {s}
  /\ nap' = [nap EXCEPT ![s] = 0]
  /\ Send(connect(s, {c}))
  /\ UNCHANGED <<server_table, hash_table, client, puts>>

\* SIGINT, or a crash: nobody is told.
Stop(s) ==
  /\ s \in up
  /\ Spend("stop")
  /\ up' = up \ {s}
  /\ server_table' = [server_table EXCEPT ![s] = no_server]
  /\ hash_table' = [hash_table EXCEPT ![s] = empty_table]
  /\ nap' = [nap EXCEPT ![s] = 0]
  /\ UNCHANGED <<net, client, puts>>

(***************************************************************************)
(* The commands of the client.  A put is one datagram and no answer.  A    *)
(* get prints the addresses that come back until its second is over.       *)
(***************************************************************************)
ClientPut(s, h, ip) ==
  /\ Spend("put")
  /\ Send({[header |-> "PUT", to |-> s, hash |-> h, addr |-> ip]})
  /\ UNCHANGED <<servers, client, puts>>

ClientGet(c, s, h) ==
  /\ client[c].state = "new"
  /\ Send({[header |-> "GET", to |-> s, from |-> c, hash |-> h]})
  /\ client' = [client EXCEPT ![c] =
       [state |-> "waiting", server |-> s, hash |-> h, printed |-> {},
        held |-> get_address_list(h, hash_table[s]),
        around |-> UNION {get_address_list(h, hash_table[p]) :
                            p \in Peers(s) \cap up}]]
  /\ UNCHANGED <<servers, puts, left>>

ClientReceive(m) ==
  /\ m.header = "RESPONSE"
  /\ client[m.to].state = "waiting"
  /\ client' = [client EXCEPT ![m.to].printed = @ \cup {m.addr}]
  /\ Consume(m, {})
  /\ UNCHANGED <<servers, puts>>

ClientTimeout(c) ==
  /\ client[c].state = "waiting"
  /\ client' = [client EXCEPT ![c].state = "done"]
  /\ UNCHANGED <<servers, net, puts, left>>

-----------------------------------------------------------------------------
(***************************************************************************)
(* The receive loop: one action for each header.                           *)
(***************************************************************************)
HandlePut(m) ==
  /\ Takes(m, "PUT")
  /\ hash_table' = [hash_table EXCEPT
       ![m.to] = insert_hash_addr_put(m.hash, m.addr, @)]
  /\ Consume(m, share_put(m.to, m.hash, m.addr, Peers(m.to)))
  /\ puts' = insert_hash_addr_put(m.hash, m.addr, puts)
  /\ UNCHANGED <<up, server_table, nap, client>>

HandleGet(m) ==
  /\ Takes(m, "GET")
  /\ Consume(m, answer_to_client(m.to, m.from, m.hash, hash_table[m.to],
                                 Peers(m.to)))
  /\ UNCHANGED <<servers, client, puts>>

HandleServerGet(m) ==
  /\ Takes(m, "SERVER_GET")
  /\ Consume(m, answer_to_server(m.from, m.hash, hash_table[m.to]))
  /\ UNCHANGED <<servers, client, puts>>

\* Mutant: a known peer is answered too.
HandleConnectKnownEcho(m) ==
  /\ Takes(m, "CONNECT")
  /\ m.from = m.to \/ is_known(m.from, server_table[m.to])
  /\ Consume(m, connect(m.to, {m.from}))
  /\ UNCHANGED <<servers, client, puts>>

\* A connection from the server itself or from a peer it knows: nothing is
\* done, and the date of the peer's last sign of life stays as it is.
HandleConnectKnown(m) ==
  /\ Takes(m, "CONNECT")
  /\ m.from = m.to \/ is_known(m.from, server_table[m.to])
  /\ Consume(m, {})
  /\ UNCHANGED <<servers, client, puts>>

\* Mutant: the new server is inserted first, and sent the table afterwards.
HandleConnectNewInsertFirst(m) ==
  /\ Takes(m, "CONNECT")
  /\ m.from # m.to /\ ~is_known(m.from, server_table[m.to])
  /\ server_table' = [server_table EXCEPT ![m.to] = insert_server(@, m.from)]
  /\ Consume(m, share_all_servers(m.to, m.from, server_table'[m.to])
                \cup connect(m.to, {m.from})
                \cup share_all_hashs(m.to, m.from, hash_table[m.to]))
  /\ UNCHANGED <<up, hash_table, nap, client, puts>>

\* Mutant: the new server is answered and not inserted.
HandleConnectNewForgotten(m) ==
  /\ Takes(m, "CONNECT")
  /\ m.from # m.to /\ ~is_known(m.from, server_table[m.to])
  /\ Consume(m, share_all_servers(m.to, m.from, server_table[m.to])
                \cup connect(m.to, {m.from})
                \cup share_all_hashs(m.to, m.from, hash_table[m.to]))
  /\ UNCHANGED <<servers, client, puts>>

\* A connection from a new server: it is sent the table as it was before it
\* was inserted, then a CONNECT of ours, then all the data.
HandleConnectNew(m) ==
  /\ Takes(m, "CONNECT")
  /\ m.from # m.to /\ ~is_known(m.from, server_table[m.to])
  /\ server_table' = [server_table EXCEPT ![m.to] = insert_server(@, m.from)]
  /\ Consume(m, share_all_servers(m.to, m.from, server_table[m.to])
                \cup connect(m.to, {m.from})
                \cup share_all_hashs(m.to, m.from, hash_table[m.to]))
  /\ UNCHANGED <<up, hash_table, nap, client, puts>>

\* keep_alive_server does nothing for an unknown peer.
HandleKeep(m) ==
  /\ Takes(m, "KEEP")
  /\ server_table' = [server_table EXCEPT
       ![m.to] = IF m.from = m.to THEN @ ELSE keep_alive_server(@, m.from)]
  /\ Consume(m, {})
  /\ UNCHANGED <<up, hash_table, nap, client, puts>>

HandleShareData(m) ==
  /\ Takes(m, "SHARE_DATA")
  /\ hash_table' = [hash_table EXCEPT
       ![m.to] = insert_hash_addr_share(m.hash, m.addr, @)]
  /\ Consume(m, {})
  /\ UNCHANGED <<up, server_table, nap, client, puts>>

\* Mutant: the date of a hash that is stored already is not renewed.
HandleSharePutUndated(m) ==
  /\ Takes(m, "SHARE_PUT")
  /\ hash_table' = [hash_table EXCEPT
       ![m.to] = insert_hash_addr_share(m.hash, m.addr, @)]
  /\ Consume(m, {})
  /\ UNCHANGED <<up, server_table, nap, client, puts>>

HandleSharePut(m) ==
  /\ Takes(m, "SHARE_PUT")
  /\ hash_table' = [hash_table EXCEPT
       ![m.to] = insert_hash_addr_put(m.hash, m.addr, @)]
  /\ Consume(m, {})
  /\ UNCHANGED <<up, server_table, nap, client, puts>>

\* Mutant: the server is inserted and not told.
HandleShareServerSilent(m) ==
  /\ Takes(m, "SHARE_SERVER")
  /\ server_table' = [server_table EXCEPT ![m.to] =
       IF is_known(m.server, @) THEN @ ELSE insert_server(@, m.server)]
  /\ Consume(m, {})
  /\ UNCHANGED <<up, hash_table, nap, client, puts>>

\* The server is not compared with ourselves here.
HandleShareServer(m) ==
  /\ Takes(m, "SHARE_SERVER")
  /\ IF is_known(m.server, server_table[m.to])
       THEN Consume(m, {}) /\ UNCHANGED server_table
       ELSE /\ server_table' = [server_table EXCEPT
                 ![m.to] = insert_server(@, m.server)]
            /\ Consume(m, connect(m.to, {m.server}))
  /\ UNCHANGED <<up, hash_table, nap, client, puts>>

Handle(m) ==
  \/ HandlePut(m) \/ HandleGet(m) \/ HandleServerGet(m)
  \/ HandleConnectKnown(m) \/ HandleConnectNew(m) \/ HandleKeep(m)
  \/ HandleShareData(m) \/ HandleSharePut(m) \/ HandleShareServer(m)

-----------------------------------------------------------------------------
(***************************************************************************)
(* fthread: KEEP to every peer, the dead peers go, the obsolete hashes go, *)
(* and it sleeps.                                                          *)
(***************************************************************************)
fthread(s) ==
  /\ s \in up /\ nap[s] = 0
  /\ Send(keep(s, Peers(s)))
  /\ server_table' = [server_table EXCEPT ![s] = suppression_dead_server(@, s)]
  /\ hash_table' = [hash_table EXCEPT ![s] = suppression_obsolete_hash(@)]
  /\ nap' = [nap EXCEPT ![s] = PERIOD]
  /\ UNCHANGED <<up, client, puts, left>>

(***************************************************************************)
(* A second passes.  The code's scheduling gives fthread its turn when its *)
(* sleep is over, so time does not run past a turn that is due.            *)
(***************************************************************************)
Tick ==
  /\ Ticking
  /\ Prompt => net = {}
  /\ \A s \in up : nap[s] > 0
  /\ nap' = [s \in Server |-> IF s \in up THEN nap[s] - 1 ELSE nap[s]]
  /\ server_table' = [s \in Server |-> OlderPeers(server_table[s])]
  /\ hash_table' = [s \in Server |-> OlderTable(hash_table[s])]
  /\ puts' = OlderTable(puts)
  /\ UNCHANGED <<up, net, client, left>>

Lose(m) ==
  /\ Spend("loss")
  /\ net' = net \ {m}
  /\ UNCHANGED <<servers, client, puts>>

\* The addressee is not there any more, or not yet.
Undeliverable(m) ==
  IF m.header = "RESPONSE" THEN client[m.to].state # "waiting"
                           ELSE m.to \notin up

Discard(m) ==
  /\ Undeliverable(m)
  /\ net' = net \ {m}
  /\ UNCHANGED <<servers, client, puts, left>>

-----------------------------------------------------------------------------
Init ==
  /\ up = {}
  /\ server_table = [s \in Server |-> no_server]
  /\ hash_table = [s \in Server |-> empty_table]
  /\ nap = [s \in Server |-> 0]
  /\ net = {}
  /\ client = [c \in Client |-> [state |-> "new"]]
  /\ puts = empty_table
  /\ left = Budget

Next ==
  \/ \E s \in Server : Stop(s) \/ fthread(s)
  \/ \E s, c \in Server : Start(s, c)
  \/ \E s \in Server, h \in Hash, ip \in Addr : ClientPut(s, h, ip)
  \/ \E c \in Client, s \in Server, h \in Hash : ClientGet(c, s, h)
  \/ \E c \in Client : ClientTimeout(c)
  \/ \E m \in net : Handle(m) \/ ClientReceive(m) \/ Lose(m) \/ Discard(m)
  \/ Tick

Spec == Init /\ [][Next]_vars

\* What the program's scheduling guarantees: a datagram in flight does not
\* wait for ever in front of a receive loop (the socket's queue is first in,
\* first out), fthread gets its turn, and time goes on.
Arrive(m) == m \in net /\ (Handle(m) \/ ClientReceive(m) \/ Discard(m))

FairSpec ==
  /\ Spec
  /\ \A m \in Message : WF_vars(Arrive(m))
  /\ \A s \in Server : WF_vars(fthread(s))
  /\ WF_vars(Tick)

-----------------------------------------------------------------------------
(***************************************************************************)
(* Types.                                                                  *)
(***************************************************************************)
ClientState ==
  [state : {"new"}]
  \cup [state : {"waiting", "done"}, server : Server, hash : Hash,
        printed : SUBSET Addr, held : SUBSET Addr, around : SUBSET Addr]

\* Every variable holds a value of its kind, whatever datagram arrives in
\* whatever state (server.c, the whole receive loop).
TypeOK ==
  /\ up \subseteq Server
  /\ server_table \in [Server -> PeerTable]
  /\ hash_table \in [Server -> Table]
  /\ nap \in [Server -> 0..PERIOD]
  /\ net \subseteq Message
  /\ client \in [Client -> ClientState]
  /\ puts \in Table
  /\ left \in [Effort -> Nat]

-----------------------------------------------------------------------------
(***************************************************************************)
(* Safety.                                                                 *)
(***************************************************************************)
\* No server is told of itself: SHARE_SERVER never names its addressee,
\* because share_all_servers runs before insert_server, for a server that
\* is_known has just missed.
NoServerToldOfItself ==
  \A m \in net : m.header = "SHARE_SERVER" => m.server # m.to

\* No server is its own peer, although the SHARE_SERVER handler does not
\* compare the address it inserts with its own.
NotOwnPeer == \A s \in Server : s \notin Peers(s)

IsPut(h, ip) == ip \in get_address_list(h, puts)

\* Nothing is made up: every address that is stored under a hash, in flight
\* with it, or printed as an answer for it was received from a client under
\* that very hash, whatever is lost, repeated, forgotten or restarted.
OnlyPutData ==
  /\ \A s \in Server : \A h \in DOMAIN hash_table[s] :
       \A ip \in get_address_list(h, hash_table[s]) : IsPut(h, ip)
  /\ \A m \in net :
       m.header \in {"SHARE_PUT", "SHARE_DATA", "RESPONSE"} =>
         IsPut(m.hash, m.addr)
  /\ \A c \in Client : client[c].state # "new" =>
       \A ip \in client[c].printed : IsPut(client[c].hash, ip)

\* A silent peer is forgotten after at most 30 s and one sleep of fthread:
\* its age and what is left of the sleep never exceed that together.
PeersAreSwept ==
  \A s \in up : \A p \in Peers(s) : server_table[s][p] + nap[s] <= PeerTTL + PERIOD

\* The same for a hash nobody puts any more.
HashesAreSwept ==
  \A s \in up : \A h \in DOMAIN hash_table[s] :
    hash_table[s][h].last_put + nap[s] <= HashTTL + PERIOD

\* fthread drops a peer only if that peer has stopped.
NoFalseDeath ==
  [][\A s \in up \cap up' :
       \A p \in Peers(s) : p \notin DOMAIN server_table'[s] => p \notin up]_vars

Quiet == net = {}

\* "Tous les servers sont connectes entre eux avec une topologie full-mesh"
\* (README): when no datagram is in flight, knowing a server goes both ways,
\* and the peers of a peer are peers.
MeshWhenQuiet ==
  Quiet => \A s \in up : \A t \in Peers(s) \cap up :
             /\ s \in Peers(t)
             /\ Peers(t) \cap up \subseteq Peers(s) \cup {s}

\* Server s knows t, or will as soon as what is in flight has arrived.
Meets(s, t) ==
  \/ t \in Peers(s)
  \/ [header |-> "CONNECT", to |-> s, from |-> t] \in net
  \/ [header |-> "SHARE_SERVER", to |-> s, server |-> t] \in net

\* Some server of X meets a server outside X, and both run.
LeadsOut(X) == \E s \in X \cap up, t \in up \ X : Meets(s, t)

\* Where overlapping joins leave a hole in the mesh they do not leave two halves:
\* as long as nothing is lost and nobody stops, a chain of servers of which each
\* meets the next is never broken, whatever CONNECT and SHARE_SERVER cross each
\* other (server.c 759-823, 876-907).
NeverSplit == [][\A X \in SUBSET Server : LeadsOut(X) => LeadsOut(X)']_vars

\* No storm of messages, under loss, duplication and restarts too: a step sends a
\* new CONNECT or SHARE_SERVER only when a server is started or some server has
\* just learnt of another, so that the answers to answers dry up.
OnlyNewsIsTold ==
  [][(\E n \in net' \ net : n.header \in {"CONNECT", "SHARE_SERVER"})
       => \/ \E s \in Server : s \in up' \ up
          \/ \E s \in Server : \E t \in Server \ Peers(s) : t \in Peers(s)']_vars

SameData(s, t) ==
  \A h \in Hash : get_address_list(h, hash_table[s]) = get_address_list(h, hash_table[t])

\* "Ces donnees se retrouvent dans tous les servers" (README): when no
\* datagram is in flight, connected servers store the same data.
SameDataWhenQuiet ==
  Quiet => \A s \in up : \A t \in Peers(s) \cap up : SameData(s, t)

AllKnown == \A s, t \in Server : s = t \/ t \in Peers(s)

Agreed == Quiet /\ up = Server /\ AllKnown /\ \A s, t \in Server : SameData(s, t)

\* Once all servers know each other and store the same data, puts at any of
\* them, in any order, leave them with the same data whenever the network is
\* quiet again.
AgreementIsStable == [](Agreed => [](Quiet => \A s, t \in Server : SameData(s, t)))

\* A get that has got all its answers printed everything its server stored
\* when it was sent.
AnswersWhatWasHeld ==
  \A c \in Client :
    /\ client[c].state = "waiting"
    /\ \A m \in net : m.header = "GET" => m.from # c
    /\ \A m \in net : m.header = "RESPONSE" => m.to # c
    => client[c].held \subseteq client[c].printed

\* "Avant de repondre negativement [...] le server demande aux autres
\* servers" (README): a get is not answered with nothing when a peer of the
\* server stored the hash as the get was sent, once no datagram is in flight.
AsksOthersFirst ==
  Quiet => \A c \in Client : client[c].state = "waiting" =>
             (client[c].around # {} => client[c].printed # {})

\* Every server stores a hash that was put within the limit, with a date that
\* is no older than the last put.
FreshEverywhere ==
  \A h \in DOMAIN puts : puts[h].last_put <= HashTTL =>
    \A s \in up : /\ h \in DOMAIN hash_table[s]
                  /\ hash_table[s][h].last_put <= puts[h].last_put

\* "Un hash est considere comme obsolete si aucun server n'a recu de message
\* d'insertion [...] depuis plus de 30 secondes" (README): no server drops a
\* hash that some server received a put of within the limit.  The code keeps
\* this once all servers know each other and what is fresh is everywhere; from
\* then on a put at any server renews the date at all of them.
FreshIsKept ==
  []((up = Server /\ AllKnown /\ FreshEverywhere) => [](Quiet => FreshEverywhere))

-----------------------------------------------------------------------------
(***************************************************************************)
(* Liveness.                                                               *)
(***************************************************************************)
\* No storm of messages: while no second passes, the answers to answers come
\* to an end.
Quiesces == []<>Quiet

\* A server that has stopped is forgotten by every server that knew it.
DeadAreForgotten ==
  \A s, p \in Server :
    (s \in up /\ p \in Peers(s) /\ p \notin up) ~> (p \notin Peers(s) \/ p \in up)

\* Data nobody puts any more disappears from every server.
ObsoleteIsForgotten == <>[](\A s \in Server : hash_table[s] = empty_table)
=============================================================================
