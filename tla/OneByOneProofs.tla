-------------------------- MODULE OneByOneProofs --------------------------
(***************************************************************************)
(* Servers that join one after the other: each is started only when no     *)
(* CONNECT and no SHARE_SERVER is in flight, and may be told to connect to *)
(* whatever server it likes.  Then MeshWhenQuiet holds for any number of   *)
(* servers, and SameDataWhenQuiet too if a server handles no put while it  *)
(* is joining (the runs mesh4 and data3 leave these conditions out and     *)
(* find both broken).                                                      *)
(***************************************************************************)
EXTENDS DataProofs

OneByOne == up' # up => Links = {}

-----------------------------------------------------------------------------
(***************************************************************************)
(* A join has three phases: nothing is in flight; the CONNECT of the new   *)
(* server x is on its way to c; c has let it in, and x and those c knows   *)
(* are learning of each other.  Meanwhile all the others know each other   *)
(* in closed groups.                                                       *)
(***************************************************************************)
Closed(X) ==
  \A s \in Server \ X : \A t \in Peers(s) \ X :
    s \in Peers(t) /\ \A u \in Peers(t) \ X : u = s \/ u \in Peers(s)

\* The group x joins: c and those c knows.
Hosts(x, c) == Circle(c) \ {x}

Joined == Links = {} /\ Closed({})

Knocking(x, c) ==
  /\ x # c /\ Links = {[header |-> "CONNECT", to |-> c, from |-> x]}
  /\ Peers(x) = {} /\ \A s \in Server : x \notin Peers(s)
  /\ Closed({})

JoinLink(n, x, c) ==
  /\ n.header = "CONNECT" => \/ n.to = x /\ n.from \in Hosts(x, c)
                             \/ n.from = x /\ n.to \in Hosts(x, c)
  /\ n.header = "SHARE_SERVER" => \/ n.to = x /\ n.server \in Hosts(x, c)
                                  \/ n.to \in Hosts(x, c) /\ n.server \in Peers(n.to)

Entering(x, c) ==
  /\ x # c /\ x \in Peers(c) /\ Closed({x})
  /\ Peers(x) \subseteq Hosts(x, c)
  /\ \A s \in Server : x \in Peers(s) => s \in Hosts(x, c)
  /\ \A n \in Links : JoinLink(n, x, c)
  /\ \A q \in Hosts(x, c) : q \in Peers(x) \/ Telling(x, q) \/ Connecting(q, x)

Joining == Joined \/ \E x, c \in Server : Knocking(x, c) \/ Entering(x, c)

\* The hosts all know each other, and nobody but x besides.
LEMMA HostsKnow ==
  ASSUME KnownUp, TypeOK, NEW x \in Server, NEW c \in Server, Entering(x, c)
  PROVE  /\ Hosts(x, c) \subseteq Server \ {x} /\ Hosts(x, c) \subseteq up
         /\ \A p, q \in Hosts(x, c) : p = q \/ p \in Peers(q)
         /\ \A q \in Hosts(x, c) : Peers(q) \ {x} \subseteq Hosts(x, c)
         /\ \A s \in Server \ {x} : \A q \in Peers(s) : q \in Hosts(x, c) => s \in Hosts(x, c)
  <1>1. Peers(c) \subseteq up /\ c \in up /\ up \subseteq Server
    BY DEF KnownUp, TypeOK, Entering
  <1>2. Hosts(x, c) \subseteq Server \ {x} /\ Hosts(x, c) \subseteq up
    BY <1>1 DEF Hosts, Circle
  <1>3. ASSUME NEW q \in Peers(c), q # x
        PROVE  c \in Peers(q) /\ \A u \in Peers(q) \ {x} : u = c \/ u \in Peers(c)
    BY <1>1, <1>3 DEF Entering, Closed
  <1>4. \A q \in Hosts(x, c) : Peers(q) \ {x} \subseteq Hosts(x, c)
    BY <1>3 DEF Hosts, Circle
  <1>5. ASSUME NEW p \in Hosts(x, c), NEW q \in Hosts(x, c), p # q
        PROVE  p \in Peers(q)
    <2>1. CASE p = c \/ q = c
      BY <1>3, <1>5, <2>1 DEF Hosts, Circle
    <2>2. CASE p # c /\ q # c
      <3>1. q \in Server \ {x} /\ c \in Peers(q) \ {x} /\ p \in Peers(c) \ {x}
        BY <1>2, <1>3, <2>2 DEF Hosts, Circle, Entering
      <3> QED
        BY <3>1, <1>5 DEF Entering, Closed
    <2> QED
      BY <2>1, <2>2
  <1>6. ASSUME NEW s \in Server \ {x}, NEW q \in Peers(s), q \in Hosts(x, c)
        PROVE  s \in Hosts(x, c)
    <2>1. s \in Peers(q)
      BY <1>2, <1>6 DEF Entering, Closed
    <2> QED
      BY <2>1, <1>4, <1>6
  <1> QED
    BY <1>2, <1>4, <1>5, <1>6

LEMMA NoLinks ==
  ASSUME Links = {}
  PROVE  \A s, t : ~Telling(s, t) /\ ~Connecting(s, t)
  <1>1. ASSUME NEW s, NEW t, Telling(s, t)
        PROVE  [header |-> "SHARE_SERVER", to |-> s, server |-> t] \in Links
    BY <1>1 DEF Telling, Links, Link
  <1>2. ASSUME NEW s, NEW t, Connecting(s, t)
        PROVE  [header |-> "CONNECT", to |-> t, from |-> s] \in Links
    BY <1>2 DEF Connecting, Links, Link
  <1> QED
    BY <1>1, <1>2

\* Groups stay closed while only the peers in X come and go.
LEMMA ClosedStays ==
  ASSUME TypeOK, KnownUp, NEW X, Closed(X),
         \A s \in Server \ X : Peers(s)' \ X = Peers(s) \ X
  PROVE  Closed(X)'
  <1>1. SUFFICES ASSUME NEW s \in Server \ X, NEW t \in Peers(s)' \ X
                 PROVE  s \in Peers(t)' /\ \A u \in Peers(t)' \ X : u = s \/ u \in Peers(s)'
    BY DEF Closed
  <1>2. t \in Peers(s) /\ t \in Server \ X
    BY DEF KnownUp, TypeOK
  <1>3. s \in Peers(t) /\ \A u \in Peers(t) \ X : u = s \/ u \in Peers(s)
    BY <1>2 DEF Closed
  <1> QED
    BY <1>2, <1>3

\* When no link is in flight the join is over.
LEMMA JoinIsOver ==
  ASSUME KnownUp, TypeOK, Mutual, NEW x \in Server, NEW c \in Server, Entering(x, c),
         Links = {}
  PROVE  Joined /\ Peers(x) = Hosts(x, c) /\ \A q \in Hosts(x, c) : x \in Peers(q)
  <1>1. Peers(x) = Hosts(x, c)
    BY NoLinks DEF Entering
  <1>2. \A q \in Hosts(x, c) : x \in Peers(q)
    BY <1>1, NoLinks DEF Mutual
  <1>3. ASSUME NEW s \in Server, NEW t \in Peers(s)
        PROVE  s \in Peers(t) /\ \A u \in Peers(t) : u = s \/ u \in Peers(s)
    <2>t. t \in Server
      BY DEF KnownUp, TypeOK
    <2>1. CASE s = x
      BY <2>1, <1>1, <1>2, HostsKnow
    <2>2. CASE t = x
      BY <2>2, <1>1, <1>2, HostsKnow DEF Entering
    <2>3. CASE s # x /\ t # x
      <3>1. s \in Peers(t) /\ \A u \in Peers(t) \ {x} : u = s \/ u \in Peers(s)
        BY <2>t, <2>3 DEF Entering, Closed
      <3>2. x \in Peers(t) => x \in Peers(s)
        BY <2>t, <2>3, <1>2, HostsKnow DEF Entering
      <3> QED
        BY <3>1, <3>2
    <2> QED
      BY <2>1, <2>2, <2>3
  <1> QED
    BY <1>1, <1>2, <1>3 DEF Joined, Closed

\* A step of a join that starts nobody keeps it in its phase or takes it to the next.
LEMMA JoinedStep ==
  ASSUME TypeOK, KnownUp, Joined, JoinStep, PeersStay, UNCHANGED up
  PROVE  Joined' /\ \A s \in Server : Peers(s)' = Peers(s)
  <1>1. JoinOther
    BY DEF Joined, JoinStep, JoinStart
  <1>2. \A s \in Server : Peers(s)' = Peers(s)
    BY <1>1 DEF JoinOther, PeersStay
  <1>3. Links' = {}
    BY <1>1 DEF JoinOther, Traffic, Joined
  <1> QED
    BY <1>2, <1>3, ClosedStays DEF Joined

LEMMA StartStep ==
  ASSUME TypeOK, KnownUp, Joined, JoinStep, up' # up
  PROVE  /\ \A s \in Server : Peers(s)' = Peers(s)
         /\ Joined' \/ \E x \in Server, c \in Server : x \notin up /\ Knocking(x, c)'
  <1>1. PICK x \in Server, c \in Server : JoinStart(x, c)
    BY DEF JoinStep, JoinConnect, JoinTold, Learns, JoinKnown, JoinGone, SamePeers, JoinOther
  <1>2. \A s \in Server : Peers(s)' = Peers(s)
    BY <1>1 DEF JoinStart
  <1>3. Closed({})'
    BY <1>2, ClosedStays DEF Joined
  <1>4. Links' = connect(x, {c})
    BY <1>1 DEF JoinStart, Traffic, Joined
  <1>5. x \notin up /\ Peers(x) = {} /\ \A s \in Server : x \notin Peers(s)
    BY <1>1 DEF JoinStart, KnownUp
  <1>6. CASE x = c
    <2>1. Links' = {}
      BY <1>4, <1>6 DEF connect, others
    <2> QED
      BY <1>2, <1>3, <2>1 DEF Joined
  <1>7. CASE x # c
    <2>1. Links' = {[header |-> "CONNECT", to |-> c, from |-> x]}
      BY <1>4, <1>7 DEF connect, others
    <2> QED
      BY <1>2, <1>3, <1>5, <1>7, <2>1 DEF Knocking
  <1> QED
    BY <1>2, <1>6, <1>7

LEMMA KnockingStep ==
  ASSUME TypeOK, SelfInv, KnownUp, NEW x \in Server, NEW c \in Server, Knocking(x, c),
         JoinStep, PeersStay, UNCHANGED up
  PROVE  \/ (Joined' \/ Knocking(x, c)') /\ \A s \in Server : Peers(s)' = Peers(s)
         \/ /\ Entering(x, c)' /\ Peers(c)' = Peers(c) \cup {x} /\ ~Telling(c, x)
            /\ \A s \in Server \ {c} : Peers(s)' = Peers(s)
  <1>k. PICK k : k = [header |-> "CONNECT", to |-> c, from |-> x]
    OBVIOUS
  <1>1. Links = {k} /\ k.header = "CONNECT" /\ k.to = c /\ k.from = x /\ x # c
    BY <1>k DEF Knocking
  <1>2. ASSUME \A s \in Server : Peers(s)' = Peers(s), Traffic({k}, {}) \/ Traffic({}, {})
        PROVE  Joined' \/ Knocking(x, c)'
    <2>1. Links' = {} \/ Links' = {k}
      BY <1>1, <1>2 DEF Traffic
    <2>2. Closed({})'
      BY <1>2, ClosedStays DEF Knocking
    <2> QED
      BY <1>k, <1>2, <2>1, <2>2 DEF Joined, Knocking
  <1>3. CASE JoinOther
    BY <1>2, <1>3 DEF JoinOther, PeersStay
  <1>4. CASE JoinKnown(k) \/ JoinGone(k)
    BY <1>2, <1>4 DEF JoinKnown, JoinGone, SamePeers
  <1>5. CASE JoinConnect(k)
    <2>1. /\ Peers(c)' = Peers(c) \cup {x} /\ x \notin Peers(c) /\ c \in up
          /\ \A s \in Server \ {c} : Peers(s)' = Peers(s)
      BY <1>1, <1>5 DEF JoinConnect, Learns
    <2>2. /\ \A n \in connect(c, {x}) : n.header = "CONNECT" /\ n.to = x /\ n.from = c
          /\ [header |-> "CONNECT", to |-> x, from |-> c] \in connect(c, {x})
      BY <1>1, SentConnect
    <2>3. /\ \A n \in share_all_servers(c, x, server_table[c]) :
               n.header = "SHARE_SERVER" /\ n.to = x /\ n.server \in Peers(c)
          /\ \A q \in Peers(c) : [header |-> "SHARE_SERVER", to |-> x, server |-> q]
                                   \in share_all_servers(c, x, server_table[c])
      BY <1>1, SentTable DEF Peers
    <2>4. Traffic({k}, connect(c, {x}) \cup share_all_servers(c, x, server_table[c]))
      BY <1>1, <1>5 DEF JoinConnect
    <2>5. c \in Hosts(x, c)' /\ Hosts(x, c)' = Peers(c) \cup {c}
      BY <1>1, <2>1 DEF Hosts, Circle
    <2>6. \A n \in Links' : JoinLink(n, x, c)'
      BY <1>1, <2>2, <2>3, <2>4, <2>5 DEF Traffic, JoinLink
    <2>7. \A q \in Hosts(x, c)' : Telling(x, q)' \/ Connecting(q, x)'
      BY <2>2, <2>3, <2>4, <2>5 DEF Traffic, Links, Telling, Connecting
    <2>8. /\ Closed({x})' /\ Peers(x)' = {}
          /\ \A s \in Server : x \in Peers(s)' => s \in Hosts(x, c)'
      <3>1. Closed({x})
        BY DEF Closed, Knocking
      <3>2. Closed({x})'
        BY <2>1, <3>1, ClosedStays
      <3> QED
        BY <1>1, <2>1, <2>5, <3>2 DEF Knocking
    <2>9. ~Telling(c, x)
      BY <1>1 DEF Telling, Links, Link
    <2> QED
      BY <1>1, <2>1, <2>6, <2>7, <2>8, <2>9 DEF Entering
  <1> QED
    BY <1>1, <1>2, <1>3, <1>4, <1>5 DEF JoinStep, JoinStart, JoinTold

\* While x is entering, only x and a host learn of each other.
LearnsOfJoin(x, c) ==
  \/ \A s \in Server : Peers(s)' = Peers(s)
  \/ \E q \in Hosts(x, c) : Peers(x)' = Peers(x) \cup {q}
                            /\ \A s \in Server \ {x} : Peers(s)' = Peers(s)
  \/ \E q \in Hosts(x, c) : Peers(q)' = Peers(q) \cup {x}
                            /\ \A s \in Server \ {q} : Peers(s)' = Peers(s)

LEMMA EnteringLearns ==
  ASSUME TypeOK, SelfInv, KnownUp, NEW x \in Server, NEW c \in Server, Entering(x, c),
         JoinStep, PeersStay, UNCHANGED up
  PROVE  LearnsOfJoin(x, c) /\ \A n \in Links' \ Links : JoinLink(n, x, c)
  <1>h. /\ Hosts(x, c) \subseteq Server \ {x}
        /\ \A p, q \in Hosts(x, c) : p = q \/ p \in Peers(q)
        /\ \A q \in Hosts(x, c) : Peers(q) \ {x} \subseteq Hosts(x, c)
    BY HostsKnow
  <1>1. CASE JoinOther
    BY <1>1 DEF JoinOther, PeersStay, Traffic, LearnsOfJoin
  <1>2. ASSUME NEW m \in Links, JoinKnown(m) \/ JoinGone(m)
        PROVE  LearnsOfJoin(x, c) /\ \A n \in Links' \ Links : JoinLink(n, x, c)
    BY <1>2 DEF JoinKnown, JoinGone, SamePeers, Traffic, LearnsOfJoin
  <1>3. ASSUME NEW m \in Links, JoinConnect(m)
        PROVE  LearnsOfJoin(x, c) /\ \A n \in Links' \ Links : JoinLink(n, x, c)
    <2>1. m.header = "CONNECT" /\ Learns(m.to, m.from) /\ JoinLink(m, x, c)
      BY <1>3 DEF JoinConnect, Entering
    <2>2. \A n \in connect(m.to, {m.from}) :
            n.header = "CONNECT" /\ n.to = m.from /\ n.from = m.to
      BY DEF connect, others
    <2>3. \A n \in share_all_servers(m.to, m.from, server_table[m.to]) :
            n.header = "SHARE_SERVER" /\ n.to = m.from /\ n.server \in Peers(m.to)
      BY DEF share_all_servers, others, Peers
    <2>4. \A n \in Links' \ Links :
            \/ n.header = "CONNECT" /\ n.to = m.from /\ n.from = m.to
            \/ n.header = "SHARE_SERVER" /\ n.to = m.from /\ n.server \in Peers(m.to)
      BY <1>3, <2>2, <2>3 DEF JoinConnect, Traffic
    <2>5. CASE m.to = x /\ m.from \in Hosts(x, c)
      <3>1. LearnsOfJoin(x, c)
        BY <2>1, <2>5 DEF Learns, LearnsOfJoin
      <3>2. \A p \in Peers(x) : p \in Hosts(x, c) /\ p # m.from
        BY <2>1, <2>5 DEF Learns, Entering
      <3>3. \A p \in Peers(x) : p \in Peers(m.from)
        BY <1>h, <2>5, <3>2
      <3> QED
        BY <2>4, <2>5, <3>1, <3>3 DEF JoinLink
    <2>6. CASE m.from = x /\ m.to \in Hosts(x, c)
      <3>1. LearnsOfJoin(x, c)
        BY <2>1, <2>6 DEF Learns, LearnsOfJoin
      <3>2. Peers(m.to) \subseteq Hosts(x, c)
        BY <1>h, <2>1, <2>6 DEF Learns
      <3> QED
        BY <2>4, <2>6, <3>1, <3>2 DEF JoinLink
    <2> QED
      BY <2>1, <2>5, <2>6 DEF JoinLink
  <1>4. ASSUME NEW m \in Links, JoinTold(m)
        PROVE  LearnsOfJoin(x, c) /\ \A n \in Links' \ Links : JoinLink(n, x, c)
    <2>1. m.header = "SHARE_SERVER" /\ Learns(m.to, m.server) /\ JoinLink(m, x, c)
      BY <1>4 DEF JoinTold, Entering
    <2>2. m.to = x /\ m.server \in Hosts(x, c)
      BY <2>1 DEF JoinLink, Learns
    <2>3. \A n \in connect(m.to, {m.server}) :
            n.header = "CONNECT" /\ n.to = m.server /\ n.from = m.to
      BY DEF connect, others
    <2>4. \A n \in Links' \ Links : n.header = "CONNECT" /\ n.to = m.server /\ n.from = m.to
      BY <1>4, <2>3 DEF JoinTold, Traffic
    <2> QED
      BY <2>1, <2>2, <2>4 DEF Learns, LearnsOfJoin, JoinLink
  <1>5. ~\E y, d \in Server : JoinStart(y, d)
    BY DEF JoinStart
  <1> QED
    BY <1>1, <1>2, <1>3, <1>4, <1>5 DEF JoinStep

LEMMA EnteringStep ==
  ASSUME TypeOK, SelfInv, KnownUp, NEW x \in Server, NEW c \in Server, Entering(x, c),
         JoinStep, PeersStay, UNCHANGED up
  PROVE  Entering(x, c)' /\ Hosts(x, c)' = Hosts(x, c)
  <1>h. Hosts(x, c) \subseteq Server \ {x} /\ Hosts(x, c) \subseteq up /\ c \in Hosts(x, c)
    BY HostsKnow DEF Entering, Hosts, Circle
  <1>1. LearnsOfJoin(x, c) /\ \A n \in Links' \ Links : JoinLink(n, x, c)
    BY EnteringLearns
  <1>2. \A s \in Server \ {x} : Peers(s)' \ {x} = Peers(s) \ {x}
    BY <1>h, <1>1 DEF LearnsOfJoin
  <1>3. Closed({x})'
    BY <1>2, ClosedStays DEF Entering
  <1>4. Hosts(x, c)' = Hosts(x, c)
    BY <1>2, <1>h DEF Hosts, Circle
  <1>5. Peers(x)' \subseteq Hosts(x, c)
    BY <1>h, <1>1 DEF LearnsOfJoin, Entering
  <1>6. \A s \in Server : x \in Peers(s)' => s \in Hosts(x, c)
    BY <1>h, <1>1 DEF LearnsOfJoin, Entering
  <1>7. \A n \in Links' : JoinLink(n, x, c)'
    <2>1. \A n \in Links' : JoinLink(n, x, c)
      BY <1>1 DEF Entering
    <2> QED
      BY <2>1, <1>h, <1>4 DEF JoinLink, PeersStay
  <1>8. ASSUME NEW q \in Hosts(x, c)
        PROVE  q \in Peers(x)' \/ Telling(x, q)' \/ Connecting(q, x)'
    <2>1. q \in Peers(x) \/ Telling(x, q) \/ Connecting(q, x)
      BY DEF Entering
    <2>2. x \in up /\ q \in Server /\ q # x
      BY <1>h DEF Entering, KnownUp
    <2> QED
      BY <2>1, <2>2, NothingIsLost
  <1> QED
    BY <1>h, <1>3, <1>4, <1>5, <1>6, <1>7, <1>8 DEF Entering, PeersStay

LEMMA JoiningStep ==
  ASSUME TypeOK, SelfInv, KnownUp, Mutual, Joining, JoinStep, PeersStay, OneByOne
  PROVE  Joining'
  <1>1. CASE Joined /\ UNCHANGED up
    BY <1>1, JoinedStep DEF Joining
  <1>2. CASE up' # up
    <2>1. Joined
      BY <1>2, JoinIsOver DEF Joining, OneByOne, Knocking
    <2> QED
      BY <1>2, <2>1, StartStep DEF Joining
  <1>3. ASSUME NEW x \in Server, NEW c \in Server, Knocking(x, c), UNCHANGED up
        PROVE  Joining'
    BY <1>3, KnockingStep DEF Joining
  <1>4. ASSUME NEW x \in Server, NEW c \in Server, Entering(x, c), UNCHANGED up
        PROVE  Joining'
    BY <1>4, EnteringStep DEF Joining
  <1> QED
    BY <1>1, <1>2, <1>3, <1>4 DEF Joining

LEMMA JoiningMesh ==
  ASSUME TypeOK, KnownUp, Mutual, Joining
  PROVE  MeshWhenQuiet
  <1> SUFFICES ASSUME Links = {}
               PROVE  MeshWhenQuiet
    BY DEF MeshWhenQuiet, Quiet, Links
  <1>1. Joined
    BY JoinIsOver DEF Joining, Knocking
  <1> QED
    BY <1>1 DEF Joined, Closed, MeshWhenQuiet, TypeOK

LEMMA JoiningAlways ==
  ASSUME Faultless
  PROVE  Spec /\ [][PeersStay]_vars /\ [][OneByOne]_vars => []Joining
  <1>1. Init => Joining
    BY DEF Init, Joining, Joined, Closed, Links, Peers, no_server
  <1>2. TypeOK /\ SelfInv /\ NothingLeft /\ KnownUp /\ Mutual /\ Joining
        /\ [Next]_vars /\ [PeersStay]_vars /\ [OneByOne]_vars => Joining'
    <2>1. ([PeersStay]_vars => PeersStay) /\ ([OneByOne]_vars => OneByOne)
      BY DEF PeersStay, Peers, OneByOne, vars, servers
    <2> QED
      BY <2>1, JoinSteps, JoiningStep
  <1> QED
    BY <1>1, <1>2, TypeCorrect, SelfAlways, NothingLeftAlways, KnownUpAlways, MutualAlways,
       PTL DEF Spec

\* With no losses and no server that stops, the full mesh is closed whenever no
\* datagram is in flight, for any number of servers that join one after the other,
\* each through a server of its choice, as long as none of them drops a peer.
THEOREM MeshOneByOne ==
  ASSUME Faultless
  PROVE  Spec /\ [][PeersStay]_vars /\ [][OneByOne]_vars => []MeshWhenQuiet
  BY JoiningMesh, JoiningAlways, TypeCorrect, KnownUpAlways, MutualAlways, PTL

\* In particular while no second passes,
THEOREM MeshOneByOneUntimed ==
  ASSUME ~Ticking, Faultless
  PROVE  Spec /\ [][OneByOne]_vars => []MeshWhenQuiet
  <1>1. [PeersStay /\ DataStay]_vars => [PeersStay]_vars
    OBVIOUS
  <1> QED
    BY <1>1, NothingExpires, MeshOneByOne, PTL

\* and for ever when datagrams are handled in the second they are sent in.
THEOREM MeshOneByOneInTime ==
  ASSUME Prompt, PERIOD <= PeerTTL, Faultless
  PROVE  Spec /\ [][OneByOne]_vars => []MeshWhenQuiet
  BY NobodyIsDropped, MeshOneByOne, PTL

-----------------------------------------------------------------------------
(***************************************************************************)
(* The data.  In a closed group what one server has they all have, where   *)
(* to have is to store or to be about to.  What x has its hosts have; what *)
(* a host has x has, or a host that x does not know of yet stores it and   *)
(* will send it to x when they meet.                                       *)
(***************************************************************************)
\* No link to s, and no CONNECT of s, is in flight.
Settled(s) == \A n \in Links : n.to # s /\ (n.header = "CONNECT" => n.from # s)

PutsWhenSettled == \A m \in net : HandlePut(m) => Settled(m.to)

AskedPeers == \A n \in net : n.header = "SERVER_GET" => n.to \in Peers(n.from)

HaveUp ==
  \A s \in Server : \A h \in Hash, ip \in Addr : Has(s, h, ip) => s \in up

\* What is on the way to a server is stored at a server one of them knows.
HaveSource ==
  \A s \in Server : \A h \in Hash, ip \in Addr : OnTheWay(s, h, ip) =>
    \E t \in Server : Stored(t, h, ip) /\ (s \in Peers(t) \/ t \in Peers(s))

Alike(X) ==
  \A s \in Server \ X : \A t \in Peers(s) \ X : \A h \in Hash, ip \in Addr :
    Has(s, h, ip) => Has(t, h, ip)

JoinedData == Joined /\ Alike({})

KnockingData(x, c) ==
  Knocking(x, c) /\ Alike({}) /\ \A h \in Hash, ip \in Addr : ~Has(x, h, ip)

\* x has it, or will be sent it.
Coming(x, c, h, ip) ==
  Has(x, h, ip) \/ \E t \in Hosts(x, c) : Stored(t, h, ip) /\ x \notin Peers(t)

EnteringData(x, c) ==
  /\ Entering(x, c) /\ Alike({x})
  /\ \A q \in Hosts(x, c) : \A h \in Hash, ip \in Addr :
       /\ Has(x, h, ip) => Has(q, h, ip)
       /\ Has(q, h, ip) => Coming(x, c, h, ip)

JoiningData ==
  JoinedData \/ \E x, c \in Server : KnockingData(x, c) \/ EnteringData(x, c)

DataFacts == AskedPeers /\ HaveUp /\ HaveSource

\* Where what a server did not have comes from.
NewAt(y, s, h, ip) ==
  \/ PutHere(y, h, ip) /\ Settled(y) /\ (s = y \/ s \in Peers(y))
  \/ Stored(y, h, ip) /\ Stored(y, h, ip)' /\ (s \in Peers(y)' \/ y \in Peers(s))

LEMMA Origin ==
  ASSUME TypeOK, NothingLeft, AskedPeers, [Next]_vars, PutsWhenSettled,
         NEW s \in Server, NEW h, NEW ip, Has(s, h, ip)', ~Has(s, h, ip)
  PROVE  \E y \in up : NewAt(y, s, h, ip)
  <1>1. \A y : PutHere(y, h, ip) => Settled(y)
    BY DEF PutHere, PutsWhenSettled
  <1>2. CASE OnTheWay(s, h, ip)'
    <2>1. PICK y \in up :
            \/ s # y /\ s \in Peers(y) /\ PutHere(y, h, ip)
            \/ s # y /\ s \in Peers(y)' /\ Stored(y, h, ip) /\ Stored(y, h, ip)'
            \/ Asking(y, s) /\ Stored(y, h, ip) /\ Stored(y, h, ip)'
      BY <1>2, DataFrom DEF Has
    <2>2. Asking(y, s) => y \in Peers(s)
      BY DEF Asking, AskedPeers
    <2> QED
      BY <1>1, <2>1, <2>2 DEF NewAt
  <1>3. CASE Stored(s, h, ip)'
    BY <1>1, <1>3, StoredFrom DEF Has, NewAt
  <1> QED
    BY <1>2, <1>3 DEF Has

LEMMA HasStays ==
  ASSUME TypeOK, NothingLeft, HaveUp, DataStay, [Next]_vars,
         NEW s \in Server, NEW h \in Hash, NEW ip \in Addr, Has(s, h, ip)
  PROVE  Has(s, h, ip)'
  BY StoredStays, OnTheWayArrives DEF Has, HaveUp

LEMMA DataFactsStep ==
  ASSUME TypeOK, NothingLeft, KnownUp, KnownUp', StoppedIsEmpty', DataFacts, [Next]_vars, Kept
  PROVE  DataFacts'
  <1>1. AskedPeers'
    <2>1. ASSUME NEW n \in net', n.header = "SERVER_GET"
          PROVE  n.to \in Peers(n.from)'
      <3>1. n.from \in Server
        BY <2>1, StepType, MessageFields DEF TypeOK
      <3> QED
        BY <2>1, <3>1, AskedArePeers DEF DataFacts, AskedPeers, Kept, PeersStay
    <2> QED
      BY <2>1 DEF AskedPeers
  <1>2. ASSUME NEW s \in Server, NEW h \in Hash, NEW ip \in Addr, OnTheWay(s, h, ip)'
        PROVE  s \in up' /\ \E t \in Server : Stored(t, h, ip)' /\ (s \in Peers(t)' \/ t \in Peers(s)')
    <2>1. CASE OnTheWay(s, h, ip)
      <3>1. PICK t \in Server : Stored(t, h, ip) /\ (s \in Peers(t) \/ t \in Peers(s))
        BY <2>1 DEF DataFacts, HaveSource
      <3> QED
        BY <3>1, StoredStays DEF Kept, PeersStay, KnownUp
    <2>2. CASE ~OnTheWay(s, h, ip)
      <3>1. PICK y \in up : Stored(y, h, ip)' /\ (s \in Peers(y) \/ s \in Peers(y)' \/ Asking(y, s))
        BY <1>2, <2>2, DataFrom DEF PutHere
      <3>2. Asking(y, s) => y \in Peers(s)
        BY DEF Asking, DataFacts, AskedPeers
      <3>3. y \in Server /\ (s \in Peers(y)' \/ y \in Peers(s)')
        BY <3>1, <3>2 DEF Kept, PeersStay, TypeOK
      <3> QED
        BY <3>1, <3>3 DEF KnownUp
    <2> QED
      BY <2>1, <2>2
  <1>3. HaveUp'
    BY <1>2 DEF HaveUp, Has, Stored, StoppedIsEmpty, get_address_list
  <1> QED
    BY <1>1, <1>2, <1>3 DEF DataFacts, HaveSource

\* In a closed group all get what one is given by a client or by one of them.
LEMMA Spread ==
  ASSUME TypeOK, NothingLeft, KnownUp, HaveUp, Kept, [Next]_vars, NEW X, Closed(X), Alike(X),
         NEW s \in Server \ X, NEW t \in Peers(s) \ X, NEW h \in Hash, NEW ip \in Addr,
         NEW y \in Server \ X,
         \/ PutHere(y, h, ip) /\ (s = y \/ s \in Peers(y))
         \/ Has(y, h, ip) /\ (s = y \/ s \in Peers(y) \/ y \in Peers(s))
  PROVE  Has(t, h, ip)'
  <1>1. t \in Server
    BY DEF KnownUp, TypeOK
  <1>2. y = s \/ (s \in Peers(y) /\ y \in Peers(s))
    BY DEF Closed
  <1>3. t = y \/ t \in Peers(y)
    BY <1>2 DEF Closed
  <1>4. CASE PutHere(y, h, ip)
    BY <1>3, <1>4 DEF PutHere, Has
  <1>5. CASE Has(y, h, ip)
    <2>1. Has(t, h, ip)
      BY <1>3, <1>5 DEF Alike
    <2> QED
      BY <1>1, <2>1, HasStays DEF Kept
  <1> QED
    BY <1>4, <1>5

\* A step of nobody's join.
LEMMA AlikeStep ==
  ASSUME TypeOK, NothingLeft, KnownUp, DataFacts, Kept, [Next]_vars, PutsWhenSettled,
         Closed({}), Alike({}), \A s \in Server : Peers(s)' = Peers(s)
  PROVE  Alike({})'
  <1>1. SUFFICES ASSUME NEW s \in Server, NEW t \in Peers(s), NEW h \in Hash, NEW ip \in Addr,
                        Has(s, h, ip)'
                 PROVE  Has(t, h, ip)'
    BY DEF Alike
  <1>2. CASE Has(s, h, ip)
    BY <1>2, Spread DEF DataFacts
  <1>3. CASE ~Has(s, h, ip)
    <2>1. PICK y \in Server : NewAt(y, s, h, ip)
      BY <1>1, <1>3, Origin DEF DataFacts, TypeOK
    <2> QED
      BY <2>1, Spread DEF NewAt, Has, DataFacts
  <1> QED
    BY <1>2, <1>3

\* What a server that has just been started has.
LEMMA NewHasNothing ==
  ASSUME TypeOK, NothingLeft, KnownUp, DataFacts, [Next]_vars, PutsWhenSettled,
         NEW x \in Server, Peers(x)' = {}, \A s \in Server : x \notin Peers(s)',
         PeersStay, x \notin up \/ ~Settled(x),
         NEW h \in Hash, NEW ip \in Addr, ~Has(x, h, ip)
  PROVE  ~Has(x, h, ip)'
  <1> SUFFICES ASSUME Has(x, h, ip)'
               PROVE  FALSE
    OBVIOUS
  <1>1. PICK y \in up : NewAt(y, x, h, ip)
    BY Origin DEF DataFacts
  <1>2. y \in Server /\ Peers(x) = {} /\ x \notin Peers(y) /\ x \notin Peers(y)'
    BY DEF TypeOK, PeersStay
  <1> QED
    BY <1>1, <1>2 DEF NewAt

LEMMA KnockingDataStep ==
  ASSUME TypeOK, SelfInv, NothingLeft, KnownUp, DataFacts, Kept, [Next]_vars, PutsWhenSettled,
         NEW x \in Server, NEW c \in Server, KnockingData(x, c), JoinStep, UNCHANGED up
  PROVE  JoinedData' \/ KnockingData(x, c)' \/ EnteringData(x, c)'
  <1>k. /\ x # c /\ Closed({}) /\ Alike({}) /\ ~Settled(x) /\ Peers(x) = {}
        /\ \A s \in Server : x \notin Peers(s)
        /\ \A h \in Hash, ip \in Addr : ~Has(x, h, ip)
    BY DEF KnockingData, Knocking, Settled
  <1>1. CASE \A s \in Server : Peers(s)' = Peers(s)
    <2>1. Alike({})'
      BY <1>1, <1>k, AlikeStep
    <2>2. \A h \in Hash, ip \in Addr : ~Has(x, h, ip)'
      BY <1>1, <1>k, NewHasNothing DEF Kept
    <2>3. Joined' \/ Knocking(x, c)'
      BY <1>1, <1>k, KnockingStep DEF KnockingData, Kept
    <2> QED
      BY <2>1, <2>2, <2>3 DEF JoinedData, KnockingData
  <1>2. CASE /\ Entering(x, c)' /\ Peers(c)' = Peers(c) \cup {x} /\ ~Telling(c, x)
             /\ \A s \in Server \ {c} : Peers(s)' = Peers(s)
    <2>1. Hosts(x, c)' = Circle(c) /\ Circle(c) \subseteq Server \ {x}
      BY <1>2, <1>k DEF Hosts, Circle, KnownUp, TypeOK
    <2>2. \A y, h, ip : ~PutHere(y, h, ip)
      BY <1>2, <1>k DEF PutHere, Peers
    \* Nobody but x gets anything new.
    <2>3. ASSUME NEW s \in Server, s # x, NEW h \in Hash, NEW ip \in Addr, Has(s, h, ip)'
          PROVE  Has(s, h, ip)
      <3>1. SUFFICES ASSUME ~Has(s, h, ip)
                     PROVE  FALSE
        OBVIOUS
      <3>2. PICK y \in Server : NewAt(y, s, h, ip)
        BY <2>3, <3>1, Origin DEF DataFacts, TypeOK
      <3>3. Has(y, h, ip) /\ (s \in Peers(y) \/ y \in Peers(s))
        BY <1>2, <2>2, <2>3, <3>2 DEF NewAt, Has
      <3>4. s \in Peers(y)
        BY <3>3, <1>k DEF Closed
      <3> QED
        BY <3>1, <3>3, <3>4, <1>k DEF Alike
    <2>4. ASSUME NEW s \in Server \ {x}, NEW t \in Peers(s)' \ {x}, NEW h \in Hash, NEW ip \in Addr,
                 Has(s, h, ip)'
          PROVE  Has(t, h, ip)'
      <3>1. t \in Peers(s) /\ Has(s, h, ip)
        BY <1>2, <2>3, <2>4
      <3> QED
        BY <3>1, <1>k, Spread DEF DataFacts
    <2>5. ASSUME NEW q \in Circle(c), NEW h \in Hash, NEW ip \in Addr
          PROVE  /\ Has(x, h, ip)' => Has(q, h, ip)'
                 /\ Has(q, h, ip)' => Coming(x, c, h, ip)'
      <3>1. q \in Server /\ q # x /\ (q = c \/ (q \in Peers(c) /\ c \in Peers(q)))
        BY <1>k, <2>1 DEF Circle, Closed
      <3>2. ASSUME Has(x, h, ip)'
            PROVE  Has(q, h, ip)'
        <4>1. PICK y \in Server : NewAt(y, x, h, ip)
          BY <1>k, <3>2, Origin DEF DataFacts, TypeOK
        <4>2. Stored(y, h, ip) /\ x \in Peers(y)'
          BY <1>k, <2>2, <4>1 DEF NewAt
        <4>3. y = c
          BY <1>2, <1>k, <4>2
        <4>4. Has(q, h, ip)
          BY <1>k, <3>1, <4>2, <4>3 DEF Has, Alike
        <4> QED
          BY <3>1, <4>4, HasStays DEF DataFacts, Kept
      <3>3. ASSUME Has(q, h, ip)'
            PROVE  Coming(x, c, h, ip)'
        <4>1. Has(c, h, ip)
          BY <1>k, <2>3, <3>1, <3>3 DEF Alike
        <4>2. CASE Stored(c, h, ip)
          <5>1. Stored(c, h, ip)'
            BY <4>2, StoredStays DEF Kept
          <5>2. OnTheWay(x, h, ip)'
            BY <1>2, <1>k, <5>1, SentOnMeeting
          <5> QED
            BY <5>2 DEF Coming, Has
        <4>3. CASE ~Stored(c, h, ip)
          <5>1. PICK t \in Server : Stored(t, h, ip) /\ (c \in Peers(t) \/ t \in Peers(c))
            BY <4>1, <4>3 DEF Has, DataFacts, HaveSource
          <5>2. t \in Peers(c) /\ t # c
            BY <4>3, <5>1, <1>k DEF Closed
          <5>3. t \in Hosts(x, c)' /\ x \notin Peers(t)' /\ Stored(t, h, ip)'
            BY <1>2, <1>k, <2>1, <5>1, <5>2, StoredStays DEF Circle, Kept
          <5> QED
            BY <5>3 DEF Coming
        <4> QED
          BY <4>2, <4>3
      <3> QED
        BY <3>2, <3>3
    <2> QED
      BY <1>2, <2>1, <2>4, <2>5 DEF EnteringData, Alike
  <1> QED
    BY <1>1, <1>2, KnockingStep DEF KnockingData, Kept

LEMMA EnteringDataStep ==
  ASSUME TypeOK, SelfInv, NothingLeft, KnownUp, DataFacts, Kept, [Next]_vars, PutsWhenSettled,
         NEW x \in Server, NEW c \in Server, EnteringData(x, c), JoinStep, UNCHANGED up
  PROVE  EnteringData(x, c)'
  <1>e. Entering(x, c) /\ Alike({x})
    BY DEF EnteringData
  <1>h. /\ Hosts(x, c) \subseteq Server \ {x} /\ Hosts(x, c) \subseteq up
        /\ \A p, q \in Hosts(x, c) : p = q \/ p \in Peers(q)
        /\ \A q \in Hosts(x, c) : Peers(q) \ {x} \subseteq Hosts(x, c)
        /\ \A s \in Server \ {x} : \A q \in Peers(s) : q \in Hosts(x, c) => s \in Hosts(x, c)
    BY <1>e, HostsKnow
  <1>n. Entering(x, c)' /\ Hosts(x, c)' = Hosts(x, c)
    BY <1>e, EnteringStep DEF Kept
  <1>p. \A s \in Server \ {x} : Peers(s)' \ {x} = Peers(s) \ {x}
    BY <1>e, <1>h, EnteringLearns DEF LearnsOfJoin, Kept
  \* Whom x knows, and who knows x, is a host, before the step and after it.
  <1>x. \A s \in Server : /\ s \in Peers(x) \/ s \in Peers(x)' => s \in Hosts(x, c)
                          /\ x \in Peers(s) \/ x \in Peers(s)' => s \in Hosts(x, c)
    BY <1>e, <1>n DEF Entering
  <1>s. Settled(x) => Hosts(x, c) \subseteq Peers(x)
    <2>1. ASSUME NEW q \in Hosts(x, c), Settled(x), Telling(x, q) \/ Connecting(q, x)
          PROVE  FALSE
      <3>1. \/ [header |-> "SHARE_SERVER", to |-> x, server |-> q] \in Links
            \/ [header |-> "CONNECT", to |-> x, from |-> q] \in Links
        BY <2>1 DEF Telling, Connecting, Links, Link
      <3> QED
        BY <2>1, <3>1 DEF Settled
    <2> QED
      BY <2>1, <1>e DEF Entering
  <1>d. \A q \in Hosts(x, c) : \A h \in Hash, ip \in Addr :
          /\ Has(x, h, ip) => Has(q, h, ip)
          /\ Has(q, h, ip) => Coming(x, c, h, ip)
    BY DEF EnteringData
  <1>1. ASSUME NEW s \in Server \ {x}, NEW t \in Peers(s)' \ {x}, NEW h \in Hash, NEW ip \in Addr,
               Has(s, h, ip)'
        PROVE  Has(t, h, ip)'
    <2>1. t \in Peers(s) /\ t \in Server
      BY <1>p DEF KnownUp, TypeOK
    <2>2. CASE Has(s, h, ip)
      <3>1. Has(t, h, ip)
        BY <1>e, <2>1, <2>2 DEF Alike
      <3> QED
        BY <2>1, <3>1, HasStays DEF DataFacts, Kept
    <2>3. CASE ~Has(s, h, ip)
      <3>1. PICK y \in Server : NewAt(y, s, h, ip)
        BY <1>1, <2>3, Origin DEF DataFacts, TypeOK
      <3>2. CASE y # x
        <4>1. s \in Peers(y)' => s \in Peers(y)
          BY <1>p, <3>2
        <4> QED
          BY <1>e, <2>1, <3>1, <3>2, <4>1, Spread DEF NewAt, Has, DataFacts, Entering
      <3>3. CASE y = x
        <4>1. s \in Hosts(x, c) /\ t \in Hosts(x, c)
          BY <1>h, <1>x, <2>1, <3>1, <3>3 DEF NewAt
        <4>2. CASE PutHere(x, h, ip) /\ Settled(x)
          BY <1>h, <1>s, <4>1, <4>2 DEF PutHere, Has
        <4>3. CASE Stored(x, h, ip)
          <5>1. Has(t, h, ip)
            BY <1>d, <4>1, <4>3 DEF Has
          <5> QED
            BY <2>1, <5>1, HasStays DEF DataFacts, Kept
        <4> QED
          BY <3>1, <3>3, <4>2, <4>3 DEF NewAt
      <3> QED
        BY <3>2, <3>3
    <2> QED
      BY <2>2, <2>3
  <1>2. ASSUME NEW q \in Hosts(x, c), NEW h \in Hash, NEW ip \in Addr, Has(x, h, ip)'
        PROVE  Has(q, h, ip)'
    <2>1. CASE Has(q, h, ip)
      BY <1>h, <2>1, HasStays DEF DataFacts, Kept
    <2>2. CASE ~Has(q, h, ip)
      <3>1. ~Has(x, h, ip)
        BY <1>d, <2>2
      <3>2. PICK y \in Server : NewAt(y, x, h, ip)
        BY <1>2, <3>1, Origin DEF DataFacts, TypeOK
      <3>3. CASE PutHere(y, h, ip) /\ Settled(y) /\ y = x
        BY <1>h, <1>s, <3>3 DEF PutHere, Has
      <3>4. CASE PutHere(y, h, ip) /\ y # x
        <4>1. y \in Hosts(x, c)
          BY <1>x, <3>2, <3>4 DEF NewAt, PutHere, Peers
        <4> QED
          BY <1>h, <3>4, <4>1 DEF PutHere, Has
      <3>5. CASE Stored(y, h, ip)
        <4>1. y \in Hosts(x, c) /\ y # x /\ Has(y, h, ip)
          BY <1>x, <3>1, <3>2, <3>5 DEF NewAt, Has
        <4>2. q = y \/ q \in Peers(y)
          BY <1>h, <4>1
        <4> QED
          BY <1>e, <1>h, <2>2, <4>1, <4>2 DEF Alike
      <3> QED
        BY <3>2, <3>3, <3>4, <3>5 DEF NewAt
    <2> QED
      BY <2>1, <2>2
  \* What is coming to x comes.
  <1>3. ASSUME NEW h \in Hash, NEW ip \in Addr, Coming(x, c, h, ip)
        PROVE  Coming(x, c, h, ip)'
    <2>1. CASE Has(x, h, ip)
      BY <2>1, HasStays DEF DataFacts, Kept, Coming
    <2>2. ASSUME NEW t \in Hosts(x, c), Stored(t, h, ip), x \notin Peers(t)
          PROVE  Coming(x, c, h, ip)'
      <3>1. Stored(t, h, ip)' /\ t \in Server /\ t # x
        BY <1>h, <2>2, StoredStays DEF Kept
      <3>2. CASE x \notin Peers(t)'
        BY <1>n, <3>1, <3>2 DEF Coming
      <3>3. CASE x \in Peers(t)'
        <4>1. ~Telling(t, x)
          <5>1. SUFFICES ASSUME Telling(t, x)
                         PROVE  FALSE
            OBVIOUS
          <5>2. [header |-> "SHARE_SERVER", to |-> t, server |-> x] \in Links
            BY <5>1 DEF Telling, Links, Link
          <5> QED
            BY <1>e, <2>2, <3>1, <5>2 DEF Entering, JoinLink
        <4>2. OnTheWay(x, h, ip)'
          BY <2>2, <3>1, <3>3, <4>1, SentOnMeeting
        <4> QED
          BY <4>2 DEF Coming, Has
      <3> QED
        BY <3>2, <3>3
    <2> QED
      BY <1>3, <2>1, <2>2 DEF Coming
  <1>4. ASSUME NEW q \in Hosts(x, c), NEW h \in Hash, NEW ip \in Addr, Has(q, h, ip)'
        PROVE  Coming(x, c, h, ip)'
    <2>1. CASE Has(q, h, ip)
      BY <1>3, <1>d, <2>1
    <2>2. CASE ~Has(q, h, ip)
      <3>1. q \in Server /\ q # x
        BY <1>h
      <3>2. PICK y \in Server : NewAt(y, q, h, ip)
        BY <1>4, <2>2, <3>1, Origin DEF DataFacts, TypeOK
      <3>3. CASE PutHere(y, h, ip)
        <4>1. y = x \/ y \in Hosts(x, c)
          BY <1>h, <3>2, <3>3 DEF NewAt, PutHere, Peers
        <4>2. CASE y = x
          BY <3>3, <4>2 DEF PutHere, Coming, Has
        <4>3. CASE y \in Hosts(x, c) /\ x \in Peers(y)
          BY <1>h, <3>3, <4>3 DEF PutHere, Coming, Has
        <4>4. CASE y \in Hosts(x, c) /\ x \notin Peers(y)
          BY <1>n, <3>3, <4>4 DEF PutHere, Peers, Coming
        <4> QED
          BY <4>1, <4>2, <4>3, <4>4
      <3>4. CASE Stored(y, h, ip) /\ y = x
        BY <1>3, <3>4 DEF Coming, Has
      <3>5. CASE Stored(y, h, ip) /\ y # x
        <4>1. q \in Peers(y) \/ y \in Peers(q)
          BY <1>p, <3>1, <3>2, <3>5, <2>2 DEF NewAt, PutHere, Has
        <4>2. q \in Peers(y)
          BY <1>e, <3>1, <3>5, <4>1 DEF Entering, Closed
        <4> QED
          BY <1>e, <2>2, <3>1, <3>5, <4>2 DEF Alike, Has
      <3> QED
        BY <3>2, <3>3, <3>4, <3>5 DEF NewAt
    <2> QED
      BY <2>1, <2>2
  <1>5. Alike({x})'
    BY <1>1 DEF Alike
  <1> QED
    BY <1>n, <1>2, <1>4, <1>5 DEF EnteringData

\* When no link is in flight x has what its hosts have.
LEMMA JoinIsOverData ==
  ASSUME KnownUp, TypeOK, Mutual, NEW x \in Server, NEW c \in Server, EnteringData(x, c),
         Links = {}
  PROVE  JoinedData
  <1>1. /\ Joined /\ Peers(x) = Hosts(x, c) /\ Hosts(x, c) \subseteq Server \ {x}
        /\ \A q \in Hosts(x, c) : x \in Peers(q)
        /\ \A s \in Server : x \in Peers(s) => s \in Hosts(x, c)
    BY JoinIsOver, HostsKnow DEF EnteringData, Entering
  <1>2. ASSUME NEW s \in Server, NEW t \in Peers(s), NEW h \in Hash, NEW ip \in Addr,
               Has(s, h, ip)
        PROVE  Has(t, h, ip)
    <2>1. CASE s = x
      BY <1>1, <1>2, <2>1 DEF EnteringData
    <2>2. CASE t = x
      BY <1>1, <1>2, <2>2 DEF EnteringData, Coming
    <2>3. CASE s # x /\ t # x
      BY <1>2, <2>3 DEF EnteringData, Alike
    <2> QED
      BY <2>1, <2>2, <2>3
  <1> QED
    BY <1>1, <1>2 DEF JoinedData, Alike

LEMMA JoiningDataStep ==
  ASSUME TypeOK, SelfInv, NothingLeft, KnownUp, Mutual, DataFacts, JoiningData, Kept,
         [Next]_vars, JoinStep, OneByOne, PutsWhenSettled
  PROVE  JoiningData'
  <1>1. ASSUME JoinedData, UNCHANGED up
        PROVE  JoiningData'
    <2>1. Joined' /\ \A s \in Server : Peers(s)' = Peers(s)
      BY <1>1, JoinedStep DEF JoinedData, Kept
    <2> QED
      BY <1>1, <2>1, AlikeStep DEF JoinedData, Joined, JoiningData
  <1>2. ASSUME JoinedData, up' # up
        PROVE  JoiningData'
    <2>1. /\ \A s \in Server : Peers(s)' = Peers(s)
          /\ Joined' \/ \E x \in Server, c \in Server : x \notin up /\ Knocking(x, c)'
      BY <1>2, StartStep DEF JoinedData
    <2>2. Alike({})'
      BY <1>2, <2>1, AlikeStep DEF JoinedData, Joined
    <2>3. ASSUME NEW x \in Server, NEW c \in Server, x \notin up, Knocking(x, c)',
                 NEW h \in Hash, NEW ip \in Addr
          PROVE  ~Has(x, h, ip)'
      <3>1. ~Has(x, h, ip)
        BY <2>3 DEF DataFacts, HaveUp
      <3> QED
        BY <2>3, <3>1, NewHasNothing DEF Knocking, Kept
    <2> QED
      BY <2>1, <2>2, <2>3 DEF JoiningData, JoinedData, KnockingData
  <1>3. ASSUME NEW x \in Server, NEW c \in Server, KnockingData(x, c)
        PROVE  JoiningData'
    <2>1. UNCHANGED up
      BY <1>3 DEF KnockingData, Knocking, OneByOne
    <2> QED
      BY <1>3, <2>1, KnockingDataStep DEF JoiningData
  <1>4. ASSUME NEW x \in Server, NEW c \in Server, EnteringData(x, c)
        PROVE  JoiningData'
    <2>1. CASE UNCHANGED up
      BY <1>4, <2>1, EnteringDataStep DEF JoiningData
    <2>2. CASE up' # up
      BY <1>2, <1>4, <2>2, JoinIsOverData DEF OneByOne
    <2> QED
      BY <2>1, <2>2
  <1> QED
    BY <1>1, <1>2, <1>3, <1>4 DEF JoiningData

LEMMA JoiningSameData ==
  ASSUME TypeOK, KnownUp, Mutual, JoiningData
  PROVE  SameDataWhenQuiet
  <1> SUFFICES ASSUME Quiet, NEW s \in up, NEW t \in Peers(s) \cap up
               PROVE  SameData(s, t)
    BY DEF SameDataWhenQuiet
  <1>1. Links = {} /\ \A x, h, ip : ~OnTheWay(x, h, ip)
    BY DEF Quiet, Links, OnTheWay
  <1>2. JoinedData
    BY <1>1, JoinIsOverData DEF JoiningData, KnockingData, Knocking
  <1>3. s \in Server /\ t \in Server /\ s \in Peers(t)
    BY <1>2 DEF TypeOK, JoinedData, Joined, Closed
  <1> QED
    BY <1>1, <1>2, <1>3, SameStored DEF JoinedData, Alike, Has

\* Servers that know each other store the same data whenever no datagram is in
\* flight, for any number of servers that join one after the other, each through a
\* server of its choice, while clients put what they like where they like, as long
\* as no server handles a put while it is joining and nothing is lost, stopped or
\* dropped.
THEOREM SameDataOneByOne ==
  ASSUME Faultless
  PROVE  Spec /\ [][Kept]_vars /\ [][OneByOne]_vars /\ [][PutsWhenSettled]_vars
         => []SameDataWhenQuiet
  <1>1. Init => JoiningData /\ DataFacts
    BY DEF Init, JoiningData, JoinedData, Joined, Closed, Alike, Links, Peers, no_server,
           DataFacts, AskedPeers, HaveUp, HaveSource, Has, Stored, OnTheWay, empty_table,
           get_address_list
  <1>2. TypeOK /\ SelfInv /\ NothingLeft /\ KnownUp /\ KnownUp' /\ InTime' /\ Mutual
        /\ DataFacts /\ JoiningData /\ [Next]_vars /\ [Kept]_vars /\ [OneByOne]_vars
        /\ [PutsWhenSettled]_vars => DataFacts' /\ JoiningData'
    <2> SUFFICES ASSUME TypeOK, SelfInv, NothingLeft, KnownUp, KnownUp', InTime', Mutual,
                        DataFacts, JoiningData, [Next]_vars, [Kept]_vars, [OneByOne]_vars,
                        [PutsWhenSettled]_vars
                 PROVE  DataFacts' /\ JoiningData'
      OBVIOUS
    <2>1. Kept /\ OneByOne /\ StoppedIsEmpty'
      BY DEF Kept, PeersStay, DataStay, Peers, OneByOne, InTime, vars, servers
    <2>2. DataFacts'
      BY <2>1, DataFactsStep
    <2>3. CASE PutsWhenSettled
      <3>1. JoinStep
        BY JoinSteps
      <3> QED
        BY <2>1, <2>2, <2>3, <3>1, JoiningDataStep
    <2>4. CASE UNCHANGED vars
      <3>1. ASSUME NEW m \in net, HandlePut(m)
            PROVE  FALSE
        <4>1. m \notin share_put(m.to, m.hash, m.addr, Peers(m.to))
          BY <3>1 DEF HandlePut, Takes, share_put
        <4>2. Spend("dup")
          BY <2>4, <3>1, <4>1 DEF HandlePut, Consume, vars, servers
        <4> QED
          BY <2>4, <4>2 DEF Spend, TypeOK, Effort, vars
      <3> QED
        BY <2>3, <3>1 DEF PutsWhenSettled
    <2> QED
      BY <2>2, <2>3, <2>4
  <1>3. [Kept]_vars => [PeersStay]_vars
    BY DEF Kept
  <1> QED
    BY <1>1, <1>2, <1>3, JoiningSameData, TypeCorrect, SelfAlways, NothingLeftAlways,
       KnownUpAlways, MutualAlways, InTimeAlways, PTL DEF Spec

\* In particular while no second passes.
THEOREM SameDataOneByOneUntimed ==
  ASSUME ~Ticking, Faultless
  PROVE  Spec /\ [][OneByOne]_vars /\ [][PutsWhenSettled]_vars => []SameDataWhenQuiet
  <1>1. [PeersStay /\ DataStay]_vars => [Kept]_vars
    BY DEF Kept
  <1> QED
    BY <1>1, NothingExpires, SameDataOneByOne, PTL
=============================================================================
