---------------------------- MODULE AliveProofs ----------------------------
(***************************************************************************)
(* No server that runs is declared dead: NoFalseDeath, for any number of   *)
(* servers and with losses.                                                *)
(*                                                                         *)
(* A KEEP is sent once in PERIOD seconds and each loss costs one of them,  *)
(* so that a peer may be silent for PERIOD * (1 + losses).  The code has   *)
(* 5 s and a limit of 30 s: five KEEPs may be lost, but not the sixth.     *)
(***************************************************************************)
EXTENDS DhtProofs

\* A server is started only when no running server remembers it.  (The code
\* does not see to it; the run rejoin shows what happens otherwise.)
CleanStart == \A s \in up' \ up : \A t \in up : s \notin Peers(t)

\* What is lost is no CONNECT.  (A server that inserts another and whose
\* CONNECT is lost gets no KEEP from it.)
NoConnectLost ==
  left'["loss"] = left["loss"] \/ \A m \in net \ net' : m.header # "CONNECT"

Connecting(s, p) == [header |-> "CONNECT", to |-> p, from |-> s] \in net
KeepComing(s, p) == [header |-> "KEEP", to |-> s, from |-> p] \in net

\* How long a peer may have been silent, after the losses there were.
Silence == PERIOD * (1 + (Budget["loss"] - left["loss"]))

\* The peer p of s will send KEEP to s, or will do so when it has got the
\* CONNECT s has just sent; and its silence since the last one ends in time.
Heard(s, p) ==
  /\ s \in Peers(p) \/ (Connecting(s, p) /\ server_table[s][p] = 0)
  /\ \/ server_table[s][p] + nap[p] <= Silence
     \/ KeepComing(s, p) /\ server_table[s][p] <= Silence

AliveInv ==
  /\ left["loss"] <= Budget["loss"]
  /\ \A s, p \in up : p \in Peers(s) => Heard(s, p)

\* Short enough: all the KEEPs that may be lost do not add up to the limit.
KeepsSuffice == PERIOD * (1 + Budget["loss"]) <= PeerTTL

LEMMA SilenceFacts ==
  ASSUME KeepsSuffice, TypeOK, AliveInv
  PROVE  /\ Silence \in Nat /\ PERIOD <= Silence /\ Silence <= PeerTTL
         /\ left'["loss"] = left["loss"] => Silence' = Silence
         /\ Spend("loss") => Silence' = Silence + PERIOD
  <1>1. /\ PERIOD \in Nat /\ PERIOD > 0 /\ PeerTTL \in Nat
        /\ Budget["loss"] \in Nat /\ left["loss"] \in Nat
        /\ left["loss"] <= Budget["loss"]
        /\ Spend("loss") => left'["loss"] = left["loss"] - 1
    BY DhtAssumption, PeerMapAssumption DEF TypeOK, Effort, AliveInv, Spend
  <1>2. Silence = PERIOD + PERIOD * (Budget["loss"] - left["loss"])
    BY <1>1 DEF Silence
  <1>3. PERIOD * (Budget["loss"] - left["loss"]) \in Nat
    BY <1>1
  <1>4. PERIOD * (Budget["loss"] - left["loss"]) <= PERIOD * Budget["loss"]
    BY <1>1
  <1>5. PERIOD + PERIOD * Budget["loss"] <= PeerTTL
    BY <1>1 DEF KeepsSuffice
  <1>6. left'["loss"] = left["loss"] => Silence' = Silence
    BY DEF Silence
  <1>7. Spend("loss") => Silence' = Silence + PERIOD
    BY <1>1 DEF Silence
  <1>8. PERIOD * Budget["loss"] \in Nat
    BY <1>1
  <1> QED
    BY <1>1, <1>2, <1>3, <1>4, <1>5, <1>6, <1>7, <1>8

\* A datagram that is handled is the only one that goes, and what is sent is there.
LEMMA ConsumeKeeps ==
  ASSUME NEW m, NEW out, Consume(m, out)
  PROVE  net \ {m} \subseteq net' /\ out \subseteq net'
  BY DEF Consume

LEMMA ConsumeLoss ==
  ASSUME NEW m, NEW out, Consume(m, out), TypeOK
  PROVE  left'["loss"] = left["loss"]
  BY DEF Consume, Spend, TypeOK, Effort

\* What is heard of a peer does not get worse while nothing is forgotten, no
\* second passes and nothing is lost.
LEMMA StillHeard ==
  ASSUME KeepsSuffice, TypeOK, AliveInv, NEW s \in up, NEW p \in up, p \in Peers(s),
         server_table'[s][p] = server_table[s][p], nap'[p] = nap[p],
         left'["loss"] = left["loss"],
         s \in Peers(p) => s \in Peers(p)',
         Connecting(s, p) => Connecting(s, p)' \/ s \in Peers(p)',
         KeepComing(s, p) => KeepComing(s, p)'
  PROVE  Heard(s, p)'
  <1>1. Silence' = Silence
    BY SilenceFacts
  <1>2. Heard(s, p)
    BY DEF AliveInv
  <1> QED
    BY <1>1, <1>2 DEF Heard

\* A peer that was inserted this moment and is sent a CONNECT is heard of.
LEMMA NewlyHeard ==
  ASSUME KeepsSuffice, TypeOK, TypeOK', AliveInv, NEW s \in Server, NEW p \in Server,
         server_table'[s][p] = 0, left'["loss"] = left["loss"],
         s \in Peers(p)' \/ Connecting(s, p)'
  PROVE  Heard(s, p)'
  <1>1. Silence' = Silence /\ Silence \in Nat /\ PERIOD <= Silence
    BY SilenceFacts
  <1>2. nap'[p] \in Nat /\ nap'[p] <= PERIOD /\ PERIOD \in Nat
    BY DhtAssumption DEF TypeOK
  <1> QED
    BY <1>1, <1>2 DEF Heard

LEMMA HeardFacts ==
  ASSUME KeepsSuffice, TypeOK, SelfInv, AliveInv, NEW s \in up, NEW p \in up, p \in Peers(s)
  PROVE  /\ s # p /\ s \in Server /\ p \in Server
         /\ server_table[s][p] \in Nat /\ server_table[s][p] <= PeerTTL
         /\ server_table[s][p] <= Silence
  <1>1. s # p /\ s \in Server /\ p \in Server
    BY DEF SelfInv, NotOwnPeer, TypeOK
  <1>2. server_table[s] \in PeerTable
    BY <1>1 DEF TypeOK
  <1>3. server_table[s][p] \in Nat
    BY <1>2, PeerTableShape, MaxAgeAssumption DEF Peers, Age
  <1>4. Silence \in Nat /\ Silence <= PeerTTL /\ PeerTTL \in Nat
    BY SilenceFacts, PeerMapAssumption
  <1>5. nap[p] \in Nat
    BY <1>1, DhtAssumption DEF TypeOK
  <1>6. Heard(s, p)
    BY DEF AliveInv
  <1> QED
    BY <1>1, <1>3, <1>4, <1>5, <1>6 DEF Heard

LEMMA AliveStep ==
  ASSUME KeepsSuffice, Prompt, TypeOK, SelfInv, StoppedIsEmpty, AliveInv,
         [Next]_vars, CleanStart, NoConnectLost
  PROVE  AliveInv'
  <1>t. /\ up \subseteq Server
        /\ server_table \in [Server -> PeerTable]
        /\ nap \in [Server -> 0..PERIOD]
        /\ net \subseteq Message
        /\ left \in [Effort -> Nat]
        /\ TypeOK'
    BY StepType DEF TypeOK
  <1>p. PERIOD \in Nat /\ PERIOD > 0
    BY DhtAssumption
  <1>s. /\ Silence \in Nat /\ PERIOD <= Silence /\ Silence <= PeerTTL
        /\ left'["loss"] = left["loss"] => Silence' = Silence
    BY SilenceFacts
  <1>h. \A s, p \in up : p \in Peers(s) =>
          /\ Heard(s, p) /\ s # p /\ s \in Server /\ p \in Server
          /\ server_table[s][p] \in Nat /\ server_table[s][p] <= PeerTTL
          /\ server_table[s][p] <= Silence
    BY HeardFacts DEF AliveInv
  <1>l. left["loss"] \in Nat /\ Budget["loss"] \in Nat /\ left["loss"] <= Budget["loss"]
    BY <1>t, DhtAssumption DEF AliveInv, Effort
  \* A step that leaves the tables, the sleeps and what may be lost alone.
  <1>u. ASSUME UNCHANGED <<server_table, nap>>, left'["loss"] = left["loss"], up' \subseteq up,
               \A n \in net \ net' : n.header \notin {"CONNECT", "KEEP"}
        PROVE  AliveInv'
    <2>1. ASSUME NEW s \in up', NEW p \in up', p \in Peers(s)'
          PROVE  Heard(s, p)'
      <3>1. s \in up /\ p \in up /\ p \in Peers(s) /\ s \in Server /\ p \in Server
        BY <2>1, <1>u, <1>t DEF Peers
      <3>2. /\ Connecting(s, p) => Connecting(s, p)'
            /\ KeepComing(s, p) => KeepComing(s, p)'
        BY <1>u DEF Connecting, KeepComing
      <3> QED
        BY <3>1, <3>2, <1>u, StillHeard DEF Peers
    <2> QED
      BY <2>1, <1>u, <1>l DEF AliveInv
  <1>1. ASSUME NEW x \in Server, Stop(x)
        PROVE  AliveInv'
    <2>1. left'["loss"] = left["loss"]
      BY <1>1, <1>t DEF Stop, Spend, Effort
    <2>2. ASSUME NEW s \in up', NEW p \in up', p \in Peers(s)'
          PROVE  Heard(s, p)'
      <3>1. s \in up /\ p \in up /\ s # x /\ p # x
        BY <1>1, <2>2 DEF Stop
      <3>2. /\ server_table'[s] = server_table[s] /\ server_table'[p] = server_table[p]
            /\ nap'[p] = nap[p] /\ net' = net
        BY <1>1, <1>t, <3>1 DEF Stop
      <3> QED
        BY <2>1, <2>2, <3>1, <3>2, StillHeard DEF Peers, Connecting, KeepComing
    <2> QED
      BY <2>1, <2>2, <1>l DEF AliveInv
  <1>2. ASSUME NEW x \in Server, fthread(x)
        PROVE  AliveInv'
    <2>1. /\ x \in up /\ nap[x] = 0 /\ nap'[x] = PERIOD
          /\ \A r \in Server \ {x} : nap'[r] = nap[r] /\ server_table'[r] = server_table[r]
          /\ server_table'[x] = suppression_dead_server(server_table[x], x)
          /\ net' = net \cup keep(x, Peers(x))
          /\ UNCHANGED <<up, left>>
      BY <1>2, <1>t DEF fthread, Send
    \* Who runs is not forgotten.
    <2>2. /\ \A q \in up : q \in Peers(x) => q \in Peers(x)'
          /\ \A q \in Peers(x)' : q \in Peers(x) /\ server_table'[x][q] = server_table[x][q]
      BY <2>1, <1>h, PeerMapAssumption DEF Peers, suppression_dead_server
    <2>3. ASSUME NEW s \in up', NEW p \in up', p \in Peers(s)'
          PROVE  Heard(s, p)'
      <3>1. s \in up /\ p \in up /\ p \in Peers(s) /\ s \in Server /\ p \in Server
        BY <2>1, <2>2, <2>3, <1>t DEF Peers
      <3>2. server_table'[s][p] = server_table[s][p]
        BY <2>1, <2>2, <2>3, <3>1 DEF Peers
      <3>3. s \in Peers(p) => s \in Peers(p)'
        BY <2>1, <2>2, <3>1 DEF Peers
      <3>4. /\ Connecting(s, p) => Connecting(s, p)'
            /\ KeepComing(s, p) => KeepComing(s, p)'
        BY <2>1 DEF Connecting, KeepComing
      <3>5. CASE p # x
        BY <2>1, <3>1, <3>2, <3>3, <3>4, <3>5, StillHeard
      <3>6. CASE p = x
        <4>1. Heard(s, p) /\ s # p /\ server_table[s][p] \in Nat
              /\ server_table[s][p] <= Silence
          BY <1>h, <3>1
        <4>2. Silence' = Silence
          BY <1>s, <2>1
        <4>3. CASE s \in Peers(p)
          <5>1. KeepComing(s, p)'
            BY <2>1, <3>6, <4>1, <4>3 DEF keep, others, KeepComing
          <5> QED
            BY <5>1, <3>2, <3>3, <4>1, <4>2, <4>3 DEF Heard
        <4>4. CASE s \notin Peers(p)
          <5>1. Connecting(s, p) /\ server_table[s][p] = 0
            BY <4>1, <4>4 DEF Heard
          <5> QED
            BY <5>1, <1>t, <2>1, <3>1, <3>2, <3>4, NewlyHeard
        <4> QED
          BY <4>3, <4>4
      <3> QED
        BY <3>5, <3>6
    <2> QED
      BY <2>1, <2>3, <1>l DEF AliveInv
  <1>3. ASSUME NEW x \in Server, NEW c \in Server, Start(x, c)
        PROVE  AliveInv'
    <2>1. /\ x \notin up /\ up' = up \cup {x} /\ server_table' = server_table
          /\ \A r \in Server \ {x} : nap'[r] = nap[r]
          /\ net \subseteq net' /\ left'["loss"] = left["loss"]
      BY <1>3, <1>t DEF Start, Send, Spend, Effort
    <2>2. ASSUME NEW s \in up', NEW p \in up', p \in Peers(s)'
          PROVE  Heard(s, p)'
      <3>1. p \in Peers(s) /\ s \in Server /\ p \in Server /\ s # p
        BY <2>1, <2>2, <1>t DEF Peers, SelfInv, NotOwnPeer
      <3>2. s # x
        BY <2>1, <3>1 DEF StoppedIsEmpty, Peers, no_server
      <3>3. s \in up
        BY <2>1, <2>2, <3>2
      <3>4. p # x
        BY <2>1, <3>1, <3>3, CleanStart DEF CleanStart
      <3> QED
        BY <2>1, <2>2, <3>1, <3>2, <3>3, <3>4, StillHeard DEF Peers, Connecting, KeepComing
    <2> QED
      BY <2>1, <2>2, <1>l DEF AliveInv
  <1>4. CASE \/ \E s \in Server, h \in Hash, ip \in Addr : ClientPut(s, h, ip)
             \/ \E c \in Client, s \in Server, h \in Hash : ClientGet(c, s, h)
             \/ \E c \in Client : ClientTimeout(c)
    <2>1. /\ UNCHANGED <<up, server_table, nap>> /\ left'["loss"] = left["loss"]
          /\ net \subseteq net'
      BY <1>4, <1>t DEF ClientPut, ClientGet, ClientTimeout, servers, Spend, Send, Effort
    <2> QED
      BY <2>1, <1>u
  \* x inserts y, because of m, and sends it a CONNECT.
  <1>n. ASSUME NEW m \in net, NEW x \in up, NEW y \in Server, x # y, y \notin Peers(x),
               server_table' = [server_table EXCEPT ![x] = insert_server(@, y)],
               UNCHANGED <<up, nap>>, left'["loss"] = left["loss"],
               net \ {m} \subseteq net', connect(x, {y}) \subseteq net',
               m.header # "KEEP", m.header = "CONNECT" => m.to = x /\ m.from = y
        PROVE  AliveInv'
    <2>1. /\ x \in Server
          /\ Peers(x)' = Peers(x) \cup {y} /\ server_table'[x][y] = 0
          /\ \A q \in Peers(x) : server_table'[x][q] = server_table[x][q]
          /\ \A r \in Server \ {x} : server_table'[r] = server_table[r]
      BY <1>n, <1>t DEF insert_server, Peers
    <2>2. ASSUME NEW s \in up', NEW p \in up', p \in Peers(s)'
          PROVE  Heard(s, p)'
      <3>1. s \in up /\ p \in up /\ s \in Server /\ p \in Server
        BY <1>n, <2>2, <1>t
      <3>2. CASE s = x /\ p = y
        <4>1. Connecting(s, p)'
          BY <1>n, <3>2 DEF connect, others, Connecting
        <4> QED
          BY <4>1, <3>1, <3>2, <2>1, <1>n, <1>t, NewlyHeard
      <3>3. CASE ~(s = x /\ p = y)
        <4>1. p \in Peers(s) /\ server_table'[s][p] = server_table[s][p]
          BY <2>1, <2>2, <3>1, <3>3 DEF Peers
        <4>2. s \in Peers(p) => s \in Peers(p)'
          BY <2>1, <3>1 DEF Peers
        <4>3. Connecting(s, p) => Connecting(s, p)' \/ s \in Peers(p)'
          <5>1. SUFFICES ASSUME [header |-> "CONNECT", to |-> p, from |-> s] = m
                         PROVE  s \in Peers(p)'
            BY <1>n DEF Connecting
          <5> QED
            BY <5>1, <1>n, <2>1
        <4>4. KeepComing(s, p) => KeepComing(s, p)'
          BY <1>n DEF KeepComing
        <4> QED
          BY <1>n, <3>1, <4>1, <4>2, <4>3, <4>4, StillHeard
      <3> QED
        BY <3>2, <3>3
    <2> QED
      BY <1>n, <2>2, <1>l DEF AliveInv
  <1>5. ASSUME NEW m \in net, Handle(m)
        PROVE  AliveInv'
    <2>m. m \in Message
      BY <1>t
    \* Who handles a CONNECT, a SHARE_SERVER or a KEEP.
    <2>1. CASE \/ HandlePut(m) \/ HandleGet(m) \/ HandleServerGet(m)
               \/ HandleShareData(m) \/ HandleSharePut(m)
      <3>1. /\ UNCHANGED <<up, server_table, nap>>
            /\ \E out : Consume(m, out)
            /\ m.header \notin {"CONNECT", "KEEP"}
        BY <2>1 DEF HandlePut, HandleGet, HandleServerGet, HandleShareData, HandleSharePut,
                    Takes, servers
      <3> QED
        BY <3>1, <1>u, ConsumeKeeps, ConsumeLoss
    <2>2. CASE HandleConnectKnown(m)
      <3>1. /\ UNCHANGED <<up, server_table, nap>> /\ left'["loss"] = left["loss"]
            /\ net \ {m} \subseteq net'
            /\ m.header = "CONNECT" /\ (m.from = m.to \/ m.from \in Peers(m.to))
        BY <2>2, ConsumeKeeps, ConsumeLoss DEF HandleConnectKnown, Takes, servers, is_known, Peers
      <3>2. ASSUME NEW s \in up', NEW p \in up', p \in Peers(s)'
            PROVE  Heard(s, p)'
        <4>1. s \in up /\ p \in up /\ p \in Peers(s) /\ s # p
          BY <3>1, <3>2, <1>h DEF Peers
        <4>2. Connecting(s, p) => Connecting(s, p)' \/ s \in Peers(p)'
          BY <3>1, <4>1 DEF Connecting, Peers
        <4>3. KeepComing(s, p) => KeepComing(s, p)'
          BY <3>1 DEF KeepComing
        <4> QED
          BY <3>1, <4>1, <4>2, <4>3, StillHeard, <1>t DEF Peers
      <3> QED
        BY <3>1, <3>2, <1>l DEF AliveInv
    <2>3. CASE HandleConnectNew(m)
      <3>1. /\ m.to \in up /\ m.from \in Server /\ m.header = "CONNECT"
            /\ m.from # m.to /\ m.from \notin Peers(m.to)
            /\ server_table' = [server_table EXCEPT ![m.to] = insert_server(@, m.from)]
            /\ UNCHANGED <<up, nap>>
        BY <2>3, <2>m, MessageFields DEF HandleConnectNew, Takes, is_known, Peers
      <3>2. /\ left'["loss"] = left["loss"] /\ net \ {m} \subseteq net'
            /\ connect(m.to, {m.from}) \subseteq net'
        BY <2>3, ConsumeKeeps, ConsumeLoss DEF HandleConnectNew
      <3> QED
        BY <3>1, <3>2, <1>n
    <2>4. CASE HandleKeep(m)
      <3>1. /\ m.to \in up /\ m.to \in Server /\ m.from \in Server /\ m.header = "KEEP"
            /\ UNCHANGED <<up, nap>> /\ left'["loss"] = left["loss"]
            /\ net \ {m} \subseteq net'
        BY <2>4, <2>m, <1>t, ConsumeKeeps, ConsumeLoss, MessageFields DEF HandleKeep, Takes
      <3>2. /\ \A r \in Server : Peers(r)' = Peers(r)
            /\ \A r \in Server : \A q \in Peers(r) :
                 \/ server_table'[r][q] = server_table[r][q] /\ (r # m.to \/ q # m.from \/ q = r)
                 \/ server_table'[r][q] = 0
        BY <2>4, <3>1, <1>t DEF HandleKeep, keep_alive_server, Peers
      <3>3. ASSUME NEW s \in up', NEW p \in up', p \in Peers(s)'
            PROVE  Heard(s, p)'
        <4>1. s \in up /\ p \in up /\ p \in Peers(s) /\ s # p /\ s \in Server /\ p \in Server
              /\ Heard(s, p)
          BY <3>1, <3>2, <3>3, <1>h, <1>t
        <4>2. (s \in Peers(p) => s \in Peers(p)') /\ (Connecting(s, p) => Connecting(s, p)')
          BY <3>1, <3>2, <4>1 DEF Connecting
        <4>3. CASE server_table'[s][p] = 0
          BY <3>1, <4>1, <4>2, <4>3, <1>t, NewlyHeard DEF Heard
        <4>4. CASE server_table'[s][p] # 0
          <5>1. server_table'[s][p] = server_table[s][p] /\ (s # m.to \/ p # m.from)
            BY <3>2, <4>1, <4>4
          <5>2. KeepComing(s, p) => KeepComing(s, p)'
            BY <3>1, <5>1 DEF KeepComing
          <5> QED
            BY <3>1, <4>1, <4>2, <5>1, <5>2, StillHeard
        <4> QED
          BY <4>3, <4>4
      <3> QED
        BY <3>1, <3>3, <1>l DEF AliveInv
    <2>5. CASE HandleShareServer(m)
      <3>1. /\ m.to \in up /\ m.server \in Server /\ m.header = "SHARE_SERVER"
            /\ m.server # m.to /\ UNCHANGED <<up, nap>>
        BY <2>5, <2>m, MessageFields DEF HandleShareServer, Takes, SelfInv, NoServerToldOfItself
      <3>2. CASE is_known(m.server, server_table[m.to])
        <4>1. UNCHANGED server_table /\ left'["loss"] = left["loss"]
              /\ net \ {m} \subseteq net'
          BY <2>5, <3>2, ConsumeKeeps, ConsumeLoss DEF HandleShareServer
        <4> QED
          BY <3>1, <4>1, <1>u
      <3>3. CASE ~is_known(m.server, server_table[m.to])
        <4>1. /\ server_table' = [server_table EXCEPT ![m.to] = insert_server(@, m.server)]
              /\ Consume(m, connect(m.to, {m.server}))
          BY <2>5, <3>3 DEF HandleShareServer
        <4>2. /\ left'["loss"] = left["loss"] /\ net \ {m} \subseteq net'
              /\ connect(m.to, {m.server}) \subseteq net'
          BY <4>1, ConsumeKeeps, ConsumeLoss
        <4> QED
          BY <3>1, <3>3, <4>1, <4>2, <1>n DEF is_known, Peers
      <3> QED
        BY <3>2, <3>3
    <2> QED
      BY <1>5, <2>1, <2>2, <2>3, <2>4, <2>5 DEF Handle
  <1>6. ASSUME NEW m \in net, ClientReceive(m)
        PROVE  AliveInv'
    <2>1. /\ UNCHANGED <<up, server_table, nap>> /\ left'["loss"] = left["loss"]
          /\ net \ {m} \subseteq net' /\ m.header = "RESPONSE"
      BY <1>6, ConsumeKeeps, ConsumeLoss DEF ClientReceive, servers
    <2> QED
      BY <2>1, <1>u
  <1>7. ASSUME NEW m \in net, Lose(m)
        PROVE  AliveInv'
    <2>1. /\ UNCHANGED <<up, server_table, nap>> /\ net' = net \ {m}
          /\ left'["loss"] = left["loss"] - 1 /\ Spend("loss")
      BY <1>7, <1>t DEF Lose, servers, Spend, Effort
    <2>2. m.header # "CONNECT"
      BY <2>1, <1>l, NoConnectLost DEF NoConnectLost
    <2>3. Silence' = Silence + PERIOD
      BY <2>1, SilenceFacts
    <2>4. ASSUME NEW s \in up', NEW p \in up', p \in Peers(s)'
          PROVE  Heard(s, p)'
      <3>1. s \in up /\ p \in up /\ p \in Peers(s) /\ p \in Server
        BY <2>1, <2>4, <1>t DEF Peers
      <3>2. Heard(s, p) /\ server_table[s][p] \in Nat /\ server_table[s][p] <= Silence
        BY <1>h, <3>1
      <3>3. Connecting(s, p) => Connecting(s, p)'
        BY <2>1, <2>2 DEF Connecting
      <3>4. nap[p] \in Nat /\ nap[p] <= PERIOD
        BY <1>t, <1>p, <3>1
      <3>5. server_table'[s][p] + nap'[p] <= Silence'
        BY <2>1, <2>3, <3>2, <3>4, <1>s, <1>p
      <3> QED
        BY <2>1, <3>2, <3>3, <3>5 DEF Heard, Peers
    <2> QED
      BY <2>1, <2>4, <1>l DEF AliveInv
  <1>8. ASSUME NEW m \in net, Discard(m)
        PROVE  AliveInv'
    <2>1. /\ UNCHANGED <<up, server_table, nap, left>> /\ net' = net \ {m}
          /\ m.header # "RESPONSE" => m.to \notin up
      BY <1>8 DEF Discard, servers, Undeliverable
    <2>2. ASSUME NEW s \in up', NEW p \in up', p \in Peers(s)'
          PROVE  Heard(s, p)'
      <3>1. s \in up /\ p \in up /\ p \in Peers(s)
        BY <2>1, <2>2 DEF Peers
      <3>2. /\ Connecting(s, p) => Connecting(s, p)'
            /\ KeepComing(s, p) => KeepComing(s, p)'
        BY <2>1, <3>1 DEF Connecting, KeepComing
      <3> QED
        BY <2>1, <3>1, <3>2, StillHeard DEF Peers
    <2> QED
      BY <2>1, <2>2, <1>l DEF AliveInv
  <1>9. CASE Tick
    <2>1. /\ net = {} /\ UNCHANGED <<up, net, left>>
          /\ \A s \in up : nap[s] > 0 /\ nap'[s] = nap[s] - 1
          /\ \A s \in Server : server_table'[s] = OlderPeers(server_table[s])
      BY <1>9, <1>t, Prompt DEF Tick
    <2>2. ASSUME NEW s \in up', NEW p \in up', p \in Peers(s)'
          PROVE  Heard(s, p)'
      <3>1. s \in up /\ p \in up /\ s \in Server /\ p \in Server /\ p \in Peers(s)
        BY <2>1, <2>2, <1>t DEF Peers, OlderPeers
      <3>2. s \in Peers(p) /\ server_table[s][p] + nap[p] <= Silence
        BY <1>h, <2>1, <3>1 DEF Heard, Connecting, KeepComing
      <3>3. server_table'[s][p] \in Nat /\ server_table'[s][p] <= server_table[s][p] + 1
        <4>1. server_table[s][p] \in Age
          BY <3>1, <1>t, PeerTableShape DEF Peers
        <4>2. server_table'[s][p] = Older(server_table[s][p])
          BY <2>1, <3>1 DEF OlderPeers, Peers
        <4> QED
          BY <4>1, <4>2, AgeFacts, MaxAgeAssumption DEF Age
      <3>4. nap[p] \in Nat /\ nap[p] > 0 /\ nap'[p] = nap[p] - 1
        BY <2>1, <3>1, <1>t, <1>p
      <3>5. server_table'[s][p] + nap'[p] <= Silence'
        BY <1>h, <1>s, <2>1, <3>1, <3>2, <3>3, <3>4
      <3>6. s \in Peers(p)'
        BY <2>1, <3>1, <3>2 DEF Peers, OlderPeers
      <3> QED
        BY <3>5, <3>6 DEF Heard
    <2> QED
      BY <2>1, <2>2, <1>l DEF AliveInv
  <1>10. CASE UNCHANGED vars
    BY <1>10, <1>u DEF vars, servers
  <1> QED
    BY <1>1, <1>2, <1>3, <1>4, <1>5, <1>6, <1>7, <1>8, <1>9, <1>10 DEF Next

\* Only fthread forgets a peer while the server goes on, and only a silent one.
LEMMA LivingStay ==
  ASSUME KeepsSuffice, TypeOK, SelfInv, AliveInv, [Next]_vars
  PROVE  \A s \in up \cap up' :
           \A p \in Peers(s) : p \notin DOMAIN server_table'[s] => p \notin up
  <1> SUFFICES ASSUME NEW s \in up, s \in up', NEW p \in Peers(s),
                      p \notin DOMAIN server_table'[s]
               PROVE  p \notin up
    OBVIOUS
  <1>t. s \in Server /\ server_table \in [Server -> PeerTable] /\ net \subseteq Message
    BY DEF TypeOK
  <1>1. \E x \in Server : fthread(x)
    <2>1. server_table' # server_table
      BY DEF Peers
    <2>2. ~ \E x \in Server : Stop(x)
      <3>1. ASSUME NEW x \in Server, Stop(x) PROVE FALSE
        BY <3>1, <1>t DEF Stop, Peers
      <3> QED
        BY <3>1
    <2>3. ~ Tick
      BY <1>t DEF Tick, OlderPeers, Peers
    <2>4. ASSUME NEW m \in net, Handle(m) PROVE FALSE
      <3>1. \/ HandleConnectNew(m) \/ HandleKeep(m) \/ HandleShareServer(m)
        BY <2>1, <2>4
        DEF Handle, HandlePut, HandleGet, HandleServerGet, HandleConnectKnown,
            HandleShareData, HandleSharePut, servers
      <3>2. DOMAIN server_table[s] \subseteq DOMAIN server_table'[s]
        BY <3>1, <1>t
        DEF HandleConnectNew, HandleKeep, HandleShareServer, insert_server, keep_alive_server
      <3> QED
        BY <3>2 DEF Peers
    <2> QED
      BY <2>1, <2>2, <2>3, <2>4
      DEF Next, Start, ClientPut, ClientGet, ClientTimeout, ClientReceive, Lose, Discard,
          servers, vars
  <1>2. PICK x \in Server : fthread(x)
    BY <1>1
  <1>3. s = x /\ (p = s \/ server_table[s][p] > PeerTTL)
    BY <1>2, <1>t DEF fthread, suppression_dead_server, Peers
  <1>4. ASSUME p \in up PROVE FALSE
    <2>1. p # s /\ server_table[s][p] \in Nat /\ server_table[s][p] <= PeerTTL
      BY <1>4, HeardFacts
    <2> QED
      BY <2>1, <1>3, PeerMapAssumption
  <1> QED
    BY <1>4

LEMMA AliveInit == ASSUME KeepsSuffice PROVE Init => AliveInv
  BY DhtAssumption DEF Init, AliveInv, Effort

LEMMA AliveAlways ==
  ASSUME KeepsSuffice, Prompt
  PROVE  Spec /\ [][CleanStart /\ NoConnectLost]_vars => []AliveInv
  <1>1. TypeOK /\ SelfInv /\ InTime /\ AliveInv
        /\ [Next]_vars /\ [CleanStart /\ NoConnectLost]_vars => AliveInv'
    <2> SUFFICES ASSUME TypeOK, SelfInv, InTime, AliveInv, [Next]_vars,
                        [CleanStart /\ NoConnectLost]_vars
                 PROVE  AliveInv'
      OBVIOUS
    <2>1. CleanStart /\ NoConnectLost
      BY DEF vars, servers, CleanStart, NoConnectLost
    <2> QED
      BY <2>1, AliveStep DEF InTime
  <1> QED
    BY <1>1, AliveInit, TypeCorrect, SelfAlways, InTimeAlways, PTL DEF Spec

\* fthread never drops a server that runs: with prompt delivery, when servers
\* come back only after they have been forgotten and what is lost are too few
\* KEEPs to reach the limit (or anything else but a CONNECT).
THEOREM LivingAreKept ==
  ASSUME KeepsSuffice, Prompt
  PROVE  Spec /\ [][CleanStart /\ NoConnectLost]_vars => NoFalseDeath
  <1>1. TypeOK /\ SelfInv /\ AliveInv /\ [Next]_vars
        => [\A s \in up \cap up' :
              \A p \in Peers(s) : p \notin DOMAIN server_table'[s] => p \notin up]_vars
    BY LivingStay
  <1> QED
    BY <1>1, AliveAlways, TypeCorrect, SelfAlways, PTL DEF Spec, NoFalseDeath
=============================================================================
