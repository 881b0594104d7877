# A verified model of the distributed hash table

This directory is the TLA+ development kept beside the C program in `src/`: two
commands, `server` and `client`, which together are a hash table spread over
servers that talk UDP over IPv6. It holds specifications (`*.tla`), the TLC
configurations that check them on small instances (`*.cfg`) and machine-checked
proofs (`DhtProofs.tla`, `AliveProofs.tla`, `MeshProofs.tla`, `DataProofs.tla`,
`OneByOneProofs.tla`, `ServerThreadsProofs.tla`, `ServerThreadsRefinement.tla`,
`AvlProofs.tla`). `PROJECT.json` is the index: which definition models
which lines, which run checks which property, which hazard each property is for.

    tlc -config mesh3.cfg MCDht        # one run
    tlapm DhtProofs.tla                # the proofs of one module

## 1. The system

| part | state | operations | code |
|---|---|---|---|
| receive loop | `hash_table`, `server_table` (globals) | one branch for each header: PUT, GET, SERVER_GET, CONNECT, KEEP, SHARE_DATA, SHARE_PUT, SHARE_SERVER | `server.c` `main` |
| `fthread` | the same globals, its sleep | KEEP to every peer, removal of dead peers, removal of obsolete hashes, `sleep(5)` | `server.c` 505-565 |
| hash table | a tree of nodes: hash, list of addresses, date of the last put | insert with and without a new date, search, expiry, balancing | `hash_table.c` |
| table of servers | a linked list: address, port, date of the last sign of life | insert, keep alive, remove the dead, search | `distributed_server.c` |
| client | none after it ends | `put`: one datagram; `get`: one datagram, then one second of answers | `client.c` |
| semaphores, signals | `sem_server`, `sem_hash`, `end_signal` | wait and post around each use of a global; SIGINT ends the loop, SIGUSR1 ends `fthread` | `server.c` 50-91, 505-565, 689-939 |
| conversions | none | text to hash and address and back, `compare_hash` | `addr_and_hash.c` |
| printing | none | messages for the user | `affichage.c` |

**Interaction.** A client sends PUT or GET to a server. A server that gets a PUT
stores it and sends SHARE_PUT to every peer; one that gets a GET sends a RESPONSE
for each address. A server that is started with the address of another sends it
CONNECT. The receiver of a CONNECT from a stranger sends its list of peers
(SHARE_SERVER, one datagram each), adds the stranger to the list, answers with a
CONNECT of its own and sends its whole table (SHARE_DATA). The receiver of a
SHARE_SERVER that names a stranger adds it and sends it a CONNECT. `fthread` sends
KEEP to every peer; a peer silent for more than 30 s is removed, and so is a hash
whose last put is older than 30 s. The two threads of a server share the two
globals under `sem_server` and `sem_hash`.

**What is hard.** Nothing is acknowledged, numbered or sent again, so every
guarantee depends on the order in which datagrams arrive. Joins overlap with each
other and with puts. Time runs on different servers against the same limits.
Servers come back without their memory while others remember them. The tree
balances itself with a loop that has no obvious measure. The threads of one server
read and free the same list, one of them is ended by a signal wherever it is, and
the test for a server, the sending of the list and the insertion are critical
sections of their own.

**What makes each part correct.**

- *Mesh*: when the exchange is over, knowing each other is symmetric and
  transitive; where overlapping joins leave a hole the servers are still in one
  piece; the exchange is over at some time; no server is its own peer.
- *Data*: connected servers store the same; what is stored, sent or printed was
  put by a client; an agreement once reached is not lost by further puts.
- *Ages*: the living are not declared dead, data that is put again is not dropped, the
  dead and the obsolete go, and within a bounded time.
- *Client*: a get prints all its server held; peers are asked before the answer
  is "nothing".
- *Tree*: it is a map, it holds each hash and address once, every call on it
  returns.
- *Threads*: two threads are never in sections for the same table; the list is a
  map whatever falls between the pointer operations on it; freed memory is not
  used; the two never wait for each other in a circle; unless a call on the tree never
  returns, the loop comes back to its socket after each message and SIGINT ends the
  program.
- *Conversions*: a text of a hash is the number it writes, `compare_hash` orders
  hashes as these numbers, printing and reading are inverse.

## 2. Modules

| module | models | role |
|---|---|---|
| `Dates` | `time(NULL)` and the differences of dates | ages in seconds, saturated at `MaxAge` |
| `HashMap` | the operations of `hash_table.c` on the map the tree stands for | used by `Dht`, `HashTable` |
| `PeerMap` | the operations of `distributed_server.c` on the map the list stands for | used by `Dht` |
| `Dht` | `server.c`, `client.c`, the network | the system |
| `MCDht` | values of the constants | runs of `Dht` |
| `DhtProofs` | what holds of `Dht` whatever is lost, repeated or restarted | TLAPS |
| `AliveProofs` | that those who run are not declared dead | TLAPS, extends `DhtProofs` |
| `MeshProofs` | the full mesh, for servers that join through one; that servers stay in one piece however they join; that messages dry up | TLAPS, extends `AliveProofs` |
| `DataProofs` | where the data are, the answers of a get, the dates | TLAPS, extends `MeshProofs` |
| `OneByOneProofs` | mesh and data, for servers that join one after the other | TLAPS, extends `DataProofs` |
| `ServerTable` | what `distributed_server.c` promises, from the operators of `PeerMap` | abstract specification |
| `ServerThreads` | the two threads of one server, semaphores, signals, the list in memory | implements `ServerTable` |
| `MCServerThreads` | values of the constants | runs of `ServerThreads` |
| `ServerThreadsProofs` | safety theorems about `ServerThreads` | TLAPS |
| `ServerThreadsRefinement` | that it implements `ServerTable` | TLAPS |
| `HashTable` | what `hash_table.c` promises | abstract specification |
| `HashCodec` | the conversions and the comparison of hashes in `addr_and_hash.c` | operators |
| `AvlNode` | what `hash_table.c` does to one node: its list of addresses, the rotations | operators, extends `HashCodec` |
| `AvlTree` | the recursive algorithms of `hash_table.c` on trees | operators, extends `AvlNode` |
| `AvlTable` | the tree as the server uses it | implements `HashTable` |
| `MCAvl` | values of the constants | runs of `AvlTable` |
| `AvlProofs` | theorems about `HashCodec` and `AvlNode` | TLAPS |

### Dht

Names follow the code: `share_all_servers`, `share_all_hashs`, `answer_to_client`,
`fthread` and so on are the functions of the same name, and `HandleX` is the branch
of the receive loop for the header `X_HEADER`. State:

- `server_table[s]`, `hash_table[s]`: the two globals of server `s`, as maps.
- `nap[s]`: the seconds left of `sleep(5)` in `fthread` (5 is `PERIOD`).
- `up`: the servers that run. `Start` is `main` up to the first `receive_m`; its
  parameter `c` is the server named on the command line, and `c = s` stands for
  being started alone, since `send_to_server` ignores a message to oneself. `Stop`
  is SIGINT or a crash: in both cases nobody is told and the memory is gone. After
  SIGINT the loop may still take one datagram and throws it away; in the model that
  datagram is addressed to a server that is down and discarded.
- `net`: the set of datagrams in flight; they are delivered in any order.
- `client[c]`: a run of `client get`: where it stands, what it printed and, for
  the properties only, what its server (`held`) and its server's peers (`around`)
  stored when it asked.
- `puts`: history for the properties only: the puts servers received from clients,
  with the age of the last one.
- `left`: what is left of `Budget` (see Bounds).

**Data that is abstracted.** A server is an address with a port; hashes and
addresses are members of small sets. One hash, `ZeroHash`, is special: the code
sends SERVER_GET as a single byte (`sizeof(msg_t)`), and the receiver, whose buffer
was cleared, reads the hash of zeros from it. `ask_others` is written that way.

**Grain.** A turn of the receive loop is one action and so is a turn of `fthread`.
`fthread`'s turn consists of three critical sections, and the receive loop may run
between them; `ServerThreads` takes the turns apart and shows that the operations on
`server_table` still act on it one after the other, as the actions of `Dht` do.

**Identical datagrams.** `net` is a set: two equal datagrams in flight are one.
A duplicate matters when it arrives after the first was handled; `Consume` lets it
stay for that (the event `dup`).

**Time.** `Tick` ages everything by one second. Time does not run past a turn of
`fthread` that is due. With `Prompt` no second passes while a datagram is in
flight, which stands for a network that is fast compared with seconds; without it
a datagram may be in flight for any time. Runs with `Ticking = FALSE` ask what the
exchange of datagrams alone establishes.

### ServerThreads

One server from the inside. Each thread is in a `section` (the critical section, or
the place outside of any, named after what is done there) and at a `step` of it;
`After` gives the order of the sections in each branch of the loop and in the turn
of `fthread`. One step is what lies between two points where the other thread can
do something that matters: a `sem_wait`, a `sem_post`, one element of a walk, one
`free`, one assignment of a pointer that outlives it. `main` and `fthread` are the
disjunctions of the steps of the two threads.

- `cell`, `live`, `head`: the list in memory. A `Cell` is a place where `malloc`
  puts an element. `suppression_dead_server` is there with its locals (`list` is its
  parameter, `tmp` the element it saved, `prev` and `rest` the element before the
  freed one and the one behind it in `suppression_server`): the loop (`DeadTest`),
  the free (`DeadFree`), the assignments on the way back (`DeadRelink`), and the
  return to the global (`DeadReturn`) are four actions, because `fthread` can be
  ended between any two of them.
- `tree` says of the hash table only whether it is empty, all of it is `fresh`, some
  of it is `old` (obsolete), or it is `torn`: the removal of obsolete nodes frees
  before the new root is stored, and when there is none to be removed, or no node at
  all, it does nothing (`ObsoleteNone`). Which hash a message names is left out, so that
  a put may renew the last old one or not (`Entered`).
- Insertion and removal end in `balance_avl`, which may turn for ever (`avl7`), with
  `sem_hash` taken: in `HashInsert` (where there was a tree; one node needs no
  balancing) and in `ObsoleteDo` the call returns or the thread goes to the step
  `balance`, which no action leaves but the signal that ends `fthread`. This is coarser
  than the code, which returns for every tree of up to six hashes.
- Using freed memory has no meaning in C. `Use` records the section in `bad` and
  lets the process go on or crash; a walk that goes on finds an element or the end
  (freed blocks keep the field `next`, or `malloc` gave the block to another element).
- `terminer_thread` is SIGUSR1 in `fthread`, at any step; the semaphore it holds
  stays taken. `DefaultAction` is the same signal before `fthread` has installed its
  handler: it ends the process. `init_thread_signal` leaves `sa_flags` without a value;
  no value of it changes what a handler that never returns does. `terminer_processus`
  is SIGINT. It interrupts `select`, after which `recvfrom` (`MSG_DONTWAIT`) finds
  nothing and the loop ends; `sem_wait` is restarted (`SA_RESTART`).
- `Received`: messages of a server to itself are compared with its address and
  ignored, but for SHARE_SERVER, which never names its addressee; that is
  `NoServerToldOfItself`, proved of `Dht`.

What the sections send is left to `Dht`, and what they do to the tree to `AvlTable`.
`malloc` must find a cell: a run needs at least as many cells as there are peers.

`ImplementsPeers` states that `ServerThreads` implements `ServerTable`, whose state is
the map `Dht` uses. `AsMap` reads the map from the list; the removals of a call of
`suppression_dead_server` count as done when it reads the time (`doomed` is decided
there, since dates do not change while `sem_server` is held). Both record the last
call: a keep that is lost would otherwise be a stutter.

### AvlNode, AvlTree and AvlTable

Trees are nested records. `AvlNode` and `AvlTree` have the functions of `hash_table.c`
one by one (`AvlNode` those that are not recursive, so that they can be proved about),
with the balance value `eq` that the rotations read when it may be out of date.
`balance_avl` loops until `is_avl` holds; a turn of the loop is a function of the
tree, so a tree that comes back proves that the loop never ends, and the call
"returns" `DIVERGES`. In `AvlTable` such a call makes the server `stuck`.
`remove_hash` reads the left subtree from a node it has just freed; the allocator
the program is built with (glibc) keeps its own data in the first 16 bytes of a
freed block, and the pointer lies behind 72 bytes of hash, so the value read is the
old one, and the model says so. `remove_hash_addr`, `root_avl`, `is_in_avl` and
`is_sorted_avl` are called by nobody.

The hashes in the tree are arrays of words as `HashCodec` reads them from texts, and
the tree compares them with `HashCodec`'s `compare_hash`; the map `HashTable` is one
from numbers. So `ImplementsMap` says that what is put under one spelling of a number
is found under another. `TextIsNumber` says of the conversions that what is read from a
text is the number it writes (`OthersAreRefused`, `NumbersAreRead`), that comparing keeps
that, and that what is printed of the tree is read as the hash it was printed from;
`TreeIsInOrder` says of the tree that its hashes, printed from left to right, are
increasing numbers. Texts longer than the array (144 digits in the code) are not
looked at: the code writes before the array for them.

`ImplementsMap` states that `AvlTable` implements `HashTable` under the mapping
`AsMap`, which is what `find_node` finds for each hash: a node that a rotation lost
or put on the wrong side is not in the map. Both record the last call: without
it, a put whose effect is lost would count as a stutter. `HashTable` is built from the operators
of `HashMap`, the ones `Dht` uses; this is what justifies `Dht`'s use of a map.

## 3. Runs

| run | instance | checks | states |
|---|---|---|---|
| `mesh3` | 3 servers, 1 put, no time | `MeshWhenQuiet`, `NotOwnPeer`, `NoServerToldOfItself`, `NeverSplit`, `AgreementIsStable` | 842 k |
| `pair_timed` | 2 servers, 2 puts, 1 stop, 1 duplicate, limits 3 and 2 s, period 2 s | `NoFalseDeath`, `FreshIsKept`, `DeadAreForgotten`, `ObsoleteIsForgotten`, `Quiesces` | 39 k |
| `pair_faults` | 2 servers, 1 client, 1 put, 1 restart, 1 loss, 1 duplicate, limits 1 s | `TypeOK`, `OnlyPutData`, `PeersAreSwept`, `HashesAreSwept`, `OnlyNewsIsTold` | 5.89 M |
| `pair_data` | 2 servers, 1 client, 2 puts over 2 hashes and 2 addresses, no time | `SameDataWhenQuiet`, `AnswersWhatWasHeld` | 615 k |
| `avl` | 6 hashes of two words, one of them written in 2 ways and with 2 addresses, every order of put, share, sweep, tick; 1096 texts | `EachOnce`, `EveryCallReturns`, `TreeIsInOrder`, `TextIsNumber`, `ImplementsMap` | 68 k |
| `threads` | 2 peers, 2 cells, limit 0 s, SIGINT at any moment | `TypeOK`, `MutualExclusion`, `NoCircularWait`, `EachPeerOnce`, `GuardedIsSafe`, `ImplementsPeers`, `MessagesAreHandled`, `Stops` | 403 k |

What they show. With two servers the data agrees whenever the network is quiet,
for every order of puts and of the connection; with three servers the mesh closes in
every order, servers that are linked stay linked on the way there, and once everybody
knows everybody no put ever breaks the agreement. A message that is not about a new
server is answered by none that is, so that no storm of CONNECT and SHARE_SERVER
arises, not even when datagrams come twice or a server restarts.
With prompt delivery nobody who runs is declared dead, whatever is duplicated; the
dead and the obsolete go; and once the servers know each other, a put at one of them
renews the hash at the other. The tree is a map for every sequence of calls on up to
six hashes, including those that start from the unbalanced trees a sweep leaves.
Inside a server the semaphores do what they are for wherever the code takes them:
the list is a map, and a thread that waits waits for one that does not. As long as the
calls on the tree return, every message is handled to its end and SIGINT ends the
program from every state of the two threads. When a call never returns (`Hung`; seven
hashes are enough, see `avl7`) that is lost: `main` stays in `balance_avl`, or waits for
the semaphore `fthread` holds there, and tests `end_signal` no more. `MessagesAreHandled`
and `Stops` have `Hung` as the one exception; a `fthread` that is in such a call while
`main` needs no hash does not keep SIGINT from ending the program.

Six runs show statements of the documents that the code does not keep in general,
one of them because a function does not always return:

| run | statement | what happens |
|---|---|---|
| `mesh4` | README 41-42, full mesh | four overlapping joins leave two servers that never hear of each other |
| `data3` | README 46-48, data reaches every server | a put during the join of a third server never reaches it |
| `ask_others` | README 57-60, other servers are asked | the test for the absent hash is inverted: a get that comes before the SHARE_PUT of a peer gets nothing, and the peer is not asked |
| `rejoin` | README 51-55 and 79-82 | a server that restarts within the limit is ignored by its peer, then dropped |
| `avl7` | README 113-114, insertion is fast | seven hashes put in increasing order, among others: `balance_avl` never returns (the compiled `hash_table.c` does the same) |
| `race` | `distributed_server.h` 24-26, the semaphores make the operations on the tables safe | `answer_to_client` takes `sem_hash` and walks the list of servers, and is at an element that `fthread`, with `sem_server`, frees |

Two more things in this code are not what a run shows. Where the other servers are asked,
`server.c` 363 sends one byte of the question, and the receiver answers for the hash of
zeros; `ask_others` ends before, at the test. And SIGUSR1 ends `fthread` also between the
free of an element, or of a node, and the assignment that takes it out of the table, after
which `main` frees the table from where it was (`server.c` 926-927, against 47-48, "terminer
proprement"): `GuardedIsSafe` excepts `free_avl` and `free_server_tab` for that reason, and
holds only with these exceptions.

`FreshIsKept` speaks of servers that know each other already, and README 32-34 (a hash is
obsolete when *no server* got a put of it for 30 s) does not hold before: server 1 stores
a hash; server 2 starts, and a second put of the same hash reaches it while its CONNECT
is in flight; it has no peer to forward the put to, and 30 s after the first put `fthread`
of server 1 drops the hash. Had server 2 sent it with SHARE_DATA, it would have been
dropped too: `insert_hash_addr_share` (`hash_table.c` 292-312) leaves the date of a hash
that is there alone. The statement that no server ever drops a hash put within the limit
is violated by the instance of `pair_timed` without the stop and the duplicate. It is the
same gap as that of `data3`, seen by two servers and a clock.

Why `is_avl` fails: it asks that the farthest and nearest leaf be less than two
levels apart, which is more than an AVL guarantees and more than the rotations can
achieve for some shapes of seven nodes; with up to six nodes they can.

**Bounds and why they are enough.** `Budget` bounds puts, starts, stops, losses and
duplicates; everything else the code does is unbounded and its state is finite.
Ages stop at `MaxAge`, which every module that compares assumes above its limit, so
two ages the code tells apart are told apart. The code's 30 s and 5 s become limits
of 1 to 3 and a period of 1 or 2: what matters is that a period passes inside the
peers' limit (`pair_timed`: 2 < 3, so that KEEPs are needed and suffice), that
limits are reached, and that the strict comparison is met on both sides. Two servers
are enough for what concerns a server and its peer; three for what is transitive;
four is where the mesh breaks. In `avl`, six hashes reach every kind of removal
(no, one, two subtrees, the maximum inside the left subtree) and both double
rotations at every depth a table of six can have. `Alike` (symmetry) permutes
addresses, which nothing orders, and is used for invariants only. In `threads` two
peers make lists of two elements, in which the first, the last or both die, during
every step of the loop; while one of them is away, a peer that comes back is put into
the block that was freed or into another. A limit of 0 s and ages of 0 and 1 give both
outcomes of the comparison. An element that dies between two others needs three peers, for which the run takes too long with
liveness; the theorems below are about lists of any length. `race` needs no more than
`threads`. The six hashes of `avl` lie on both sides of the border between two words,
and the texts of at most six digits have every length modulo four, in one word and in
two.

Deadlock is not checked in the runs of `Dht`: when all datagrams are handled and
the budget is spent, a model without time has stopped, as the system waits. It is
left on in `avl`, where a server that is `stuck` would be one, and in `threads`, where
it says nothing, since time can always go on: that the threads do not wait for each
other is `NoCircularWait`.

**Fairness** (`FairSpec`, used by `pair_timed`). Weak fairness of the delivery of
each datagram: the loop takes the oldest datagram of the socket's queue each time,
so one that arrived is handled after finitely many others; losses are a bounded
event outside fairness. Weak fairness of each server's `fthread`, a thread that
sleeps and wakes. Weak fairness of `Tick`: time goes on. Client commands, starts,
stops and losses have no fairness.

`FairSpec` of `ServerThreads` (used by `threads`): weak fairness of `main` and of
`fthread` (both are scheduled) and of the delivery of a signal that was sent; strong
fairness of the waits of `main` for a semaphore. The last is what the `sleep(5)` gives:
`fthread` holds a semaphore for part of each turn and sleeps 5 s without one, so a
thread that waits finds it free, unless `fthread` is in a call that never returns: then
the wait is never possible again, and the fairness says nothing of it. SIGINT and time have no fairness.

## 4. Proofs

`DhtProofs` proves about `Dht`, for any sets of servers, clients, hashes and
addresses (finite or not), any limits, contacts and budgets, prompt delivery or not:

| theorem | states | argument |
|---|---|---|
| `TypeCorrect` | `TypeOK` | inductive as it stands; one lemma per operator of the maps and of the messages, one step per action |
| `NeverOwnPeer` | `NotOwnPeer` | inductive with `NoServerToldOfItself` (`SelfInv`): SHARE_SERVER does not test its argument, so one has to know that no such message names its addressee; that holds because a table is sent before its receiver is inserted in it, to a server that is not in it |
| `NothingMadeUp` | `OnlyPutData` | inductive with `Matching`: where an address is stored, sent or printed under a hash, the history of puts has it |
| `ToldOfOthers` | `NoServerToldOfItself` | the other half of `SelfInv` |
| `PeersSweptInTime`, `HashesSweptInTime` | `PeersAreSwept`, `HashesAreSwept` | inductive with `StoppedIsEmpty` (`InTime`): age plus what is left of the sleep stays below limit plus period; a server that starts has empty tables |

The assumptions are those named in `Dates`, `HashMap`, `PeerMap` and `Dht`
(limits are natural numbers below `MaxAge`, the period is positive, contacts and
budgets are functions of the right kind). TLC checks the same invariants in
`pair_faults`, and in `mesh3` those about SHARE_SERVER, which only three servers send.

The documents' larger promises (nobody who runs is dropped, a full mesh, the same data
everywhere) do not hold of the code in general: `rejoin`, `mesh4` and `data3` refute them.
The next theorems give conditions under which they do hold, for any number of servers:

| theorem | states | when | argument |
|---|---|---|---|
| `LivingAreKept` | `NoFalseDeath` | prompt; `PERIOD * (1 + losses) <= PeerTTL`; `CleanStart`, `NoConnectLost` | a peer is silent for at most the sleeps whose KEEPs were lost: its age plus what is left of *its* `fthread`'s sleep is bounded by `Silence`, unless its KEEP, or the CONNECT that will make it send one, is in flight |
| `MeshThroughOne` | `MeshWhenQuiet` | `Faultless`, all contacts are one server `r`, `PeersStay` | `KnownUp` (peers run), `Mutual` (who knows is known, or a CONNECT is in flight) and `StarInv`: whoever is known or named in flight is known to `r` (`Circle`), but for a CONNECT on its way to `r`; of two that `r` knows, one knows the other or a SHARE_SERVER will tell it (`Introduced`) |
| `MeshOneByOne` | `MeshWhenQuiet` | `Faultless`, any contacts, `OneByOne`, `PeersStay` | a join has three phases (`Joined`, `Knocking`, `Entering`); in each, the others are closed groups (`Closed`), and the new server and the group it joins are told of each other by datagrams in flight |
| `NeverSplits` | `NeverSplit` | `Faultless`, any contacts, joins that overlap, `PeersStay` | `Meets(s, t)`: `s` knows `t`, or a CONNECT of `t` or a SHARE_SERVER that names it is on its way to `s`. `NothingIsLost`: a message whose handler takes it out of the network leaves the peer, or the next message, in its place; so what one server meets it goes on meeting (`MeetsStays`) |
| `OneGroupAlways` | `OneGroupWhenQuiet`: no group of servers that run is without a peer outside it | as `NeverSplits`, with `JoinsRunning` | inductive as `OneGroup`: of each group, it or the rest `LeadsOut`; a newcomer meets the server it was told of, and `Mutual` turns what is met into what is known when the network is quiet |
| `AgreementKept` | `AgreementIsStable` | `Faultless`, `Kept` | `AllAgree`: what one server stores, or has in flight towards it, every other stores or has in flight (`Has`) |
| `SameDataOfTwo` | `SameDataWhenQuiet` | `Faultless`, two servers, `Kept` | `Pair`: what a server stores its peer `Has`, and what is on the way to one the other stores; the whole table goes out in the step in which a peer is inserted |
| `SameDataOneByOne` | `SameDataWhenQuiet` | `Faultless`, `OneByOne`, `PutsWhenSettled`, `Kept` | the phases of `MeshOneByOne` with the data of each: `c` sends its table to the newcomer, the newcomer has nothing of its own, and no put falls between |
| `AnswersComplete` | `AnswersWhatWasHeld` | `Faultless`, `DataStay` | `AnswerInv`: each address the server held is printed, in flight, or stored still while the question is in flight; with `StoppedIsEmpty`, so that the question finds its server up |
| `FreshKept` | `FreshIsKept` | `Faultless`, `PeersStay`, time passes | `Renewed`: at each server a fresh hash has a date no older than the last put, or a SHARE_PUT is on its way to it |

The hypotheses, and why each is there:

- `Faultless`: no stops and no losses; duplicates and every order of delivery remain.
  A lost CONNECT or SHARE_PUT is never sent again, so that mesh and data do not survive one.
  (`LivingAreKept` needs no `Faultless`: it counts the losses.)
- `PeersStay`, `DataStay`, `Kept`: no step drops a peer, a hash, either of them. They are action
  properties of the behaviour, as `[][PeersStay]_vars` beside `Spec`, and are discharged:
  the theorems named `...Untimed` need none of them because no second passes
  (`NothingExpires`), those named `...InTime` need no `PeersStay` because delivery is
  prompt and `PERIOD <= PeerTTL` (`NobodyIsDropped`, which is `LivingAreKept` without losses).
  `Steady` is the disjunction of the two; under it `NeverSplitsSteady` and
  `OneGroupSteady` need no `PeersStay` either.
- `JoinsRunning`: a server that is started while others run is told to connect to one of
  them. Without it two groups are started that have no reason to meet.
- `CleanStart`: a server starts when no running server remembers it; `rejoin` is what
  happens otherwise. `NoConnectLost`: one that inserted a peer whose CONNECT back was lost
  hears no KEEP from it. With the code's 5 s and 30 s, `KeepsSuffice` allows five lost
  KEEPs. It is tight: with a period of 2, one loss and a limit of 3 instead of 4 TLC finds a
  server that runs declared dead.
- One server `r`, or `OneByOne`, for the full mesh (a server is started when no CONNECT and no SHARE_SERVER is
  in flight): `mesh4` has neither, and what is left of the mesh
  then is `OneGroupAlways`: two servers may never hear of each other, but a chain of peers
  leads from one to the other. A user meets the second by waiting a moment between two
  starts.
- `PutsWhenSettled`: a server handles no put while a CONNECT of its own, or a message by which
  it will learn of a server, is in flight; `data3` is such a put.

`MeshProofs` also has `LinksCarryNews`, which states `OnlyNewsIsTold` and needs none of
these hypotheses: under losses, duplicates, restarts and any timing, a CONNECT or
SHARE_SERVER that was not in flight already is sent only in a step in which a server
starts or a table gets an entry it did not have. It is why the answers to answers end.

The inductive invariants were run through TLC before they were proved: with four servers,
and with three and a duplicate, for the mesh; with three servers and two puts for the data.
The hypotheses on steps restrict when a server starts, a put is handled or a peer is
dropped, and never what a handler does; a behaviour in which servers start one after the
other, wait until the network is quiet, and are put data then meets all of them.

`ServerThreadsProofs` and `ServerThreadsRefinement` prove about `ServerThreads`, for any
set of servers, any memory and lists of any length:

| theorem | states | argument |
|---|---|---|
| `ThreadTypes`, `ThreadsExclude` | `TypeOK`, `MutualExclusion` | inductive as `Control`: each section has its steps (`Placed`), a thread that is past its wait has taken the semaphore, which is then 0 (`Locked`), and `fthread` is ended only when `main` has left its loop (`KilledLast`) |
| `ThreadsNeverWaitInCircle` | `NoCircularWait` | `Control` with its converse `Taken`: as long as `fthread` was not ended by a signal, a semaphore that is 0 is held by a thread that is past its wait. PUT waits for `sem_hash` inside `sem_server`, but the holder of `sem_hash` waits for nothing |
| `ListHasEachOnce` | `EachPeerOnce` | with `Heap`: as long as `fthread` is there, the list as it will be once the pointer a removal is about to write is written (`front`, `next`) holds exactly the allocated elements (`ListClosed`, `ListReached`) and does not branch (`ListStraight`), no two are for the same server, and a server found unknown stays so until it is inserted (`StillUnknown`), since only `main` inserts |
| `GuardedSectionsAreSafe` | `GuardedIsSafe` | with `WalkersAlive`: a walk under `sem_server`, and the loop of the removal, point at allocated elements; with `TreeTorn` for the tree |
| `ThreadsImplementTable` | `ImplementsPeers` | with `Removal`: the old head still reaches all that stays (`ThereIsLive`), what is doomed and not freed lies in front of the loop (`DoomedAhead`), and the freed element is what is bypassed (`Bypassing`); then each step is a call of `ServerTable` or leaves map and call alone, also after `fthread` was ended in the middle |

The list has no recursive definition: `Chain(p)` is the least set of cells that is
closed under `next`, and "is in the list" is used through that. This is what brings lists
of any length within the provers' reach.

`AvlProofs` proves about the conversions and about single nodes, for hashes of any number
of words, lists of any length and trees of any height:

| theorem | states | argument |
|---|---|---|
| `CompareIsTotalOrder` | `compare_hash` is 0 exactly for equal hashes, antisymmetric and transitive | the first word that differs is found by the well-foundedness of the natural numbers |
| `HashIsNumber` | `OthersAreRefused` and `NumbersAreRead`, the part of `TextIsNumber` that speaks of texts | what is read from a text is what is read from it with zeros in front to the full length (`PaddedIsPrinted`), word by word; the number of a full text is determined by its words, the first that differs decides (`CompareIs`), and printing gives the full text back |
| `PrintedIsRead` | any hash is printed as digits that are read as it, the part of `TextIsNumber` that speaks of the tree | the four digits of a word give the word back (`DigitsOfWord`) |
| `AddressesOnce` | `with_addr` keeps a list without repetition, loses no address and leaves the date alone | `head_insert_list` after `is_in`; this is the half of `EachOnce` that speaks of lists, for the operation |
| `RotationsKeepOrder` | the four rotations give a tree with the same nodes in the same order, whatever balance values they read | `inorder` lists a tree from left to right; a rotation moves two rows of it past a bracket. A node that is lost or put on the wrong side would be missing in the list or out of order |

The library's induction theorems take the induction hypothesis as an operator, which the
provers cannot instantiate. These proofs take it as a set instead: the numbers for which
the claim holds are a set that has 0 and with each number the next, and were there numbers
outside it, the least of them (`WFMin`) would contradict that (lemma `Induction`). `Tree` is the union of its levels, and that the
recursive definitions of `Level` and `inorder` define what they seem to is proved
(`LevelIs`, `InorderIs`).

Assumptions: `ServerThreadsAssumption` (this server is a server, `NULL` is no cell, the
limit is below `MaxAge`) and those of `Dates`; `HashCodecAssumption` (a hash has a word,
`NULL` is no hash, the texts fit into the array); `NullIsNoNode` (`NULL` is no record, a
hypothesis of `RotationsKeepOrder`).

Only model-checked:

- liveness (`Quiesces`, `DeadAreForgotten`, `ObsoleteIsForgotten`, `MessagesAreHandled`,
  `Stops`), which is out of the prover's reach;
- the tree as a whole (`EachOnce`, `TreeIsInOrder`, `ImplementsMap`, and in `TextIsNumber`
  that the tree holds hashes): insertion, search,
  removal and balancing are recursive operators, which the provers do not take, and the
  turns of the loop of `balance_avl` have no measure to reason along. What is proved is
  what the algorithm is made of: the order, the list of a node, the rotations;
- `EveryCallReturns`, which holds for six hashes and is false for seven (`avl7`);
- the statements the six violations refute. They are false of the code in general; of those
  that hold under conditions, the theorems above give the conditions.

## 5. Not modelled

- Sockets and name resolution (`open_my_socket`, `get_address_info`): system calls in a
  straight line. `get_address_info` opens a descriptor for each datagram that is sent and
  nothing closes it; when there is none left `send_to_server` reads from `NULL`. Both
  happen on every run that is long enough, in whatever order the rest happens, so a
  model of them would restate two lines. A crash is `Stop` of `Dht`.
- The texts of addresses: they are read and written by the C library. One consequence
  the models do not see: `char_to_in6_addr` takes a text that `inet_pton` refuses for an
  address, because only the result -1 is looked at. `compare_addr` is used for equality
  only and is equality of set members.
- Locks inside the C library that `fthread` holds when it is ended (`malloc`, `printf`).
- Texts of hashes longer than the array.
- `affichage.c` and all printing, the command line, `test.sh`.
- Functions nobody calls: `count_server`, `remove_hash_addr`, `root_avl`, `is_in_avl`,
  `is_sorted_avl`, `disp_crescent_avl`.

The models stay apart where composing them would multiply states and show nothing new:
`Dht` uses the maps that `ServerThreads` and `AvlTable` are shown to implement.
