--------------------------- MODULE ServerThreads ---------------------------
(***************************************************************************)
(* One server from the inside: the receive loop (main) and fthread, step   *)
(* by step between their operations on the semaphores, the signals SIGINT  *)
(* and SIGUSR1, and the linked list server_table in memory that is         *)
(* allocated and freed.                                                    *)
(*                                                                         *)
(* A thread is in a section of the code: a critical section is named after *)
(* what is done in it.  What a branch of the loop sends is left out: Dht   *)
(* has it.  Of the tree only matters whether it is empty, has something to *)
(* be removed, and is in one piece.  AvlTable has the rest; it shows that  *)
(* balance_avl may turn for ever, so that a call may not return here.      *)
(***************************************************************************)
EXTENDS Dates

CONSTANTS
  Server,   \* the servers, one for each pair of an address and a port
  me,       \* this one
  Cell,     \* the places in memory where malloc puts an element of the list
  NULL,
  PeerTTL   \* the age above which a server is dead (30 s in the code)

ASSUME ServerThreadsAssumption ==
  /\ me \in Server
  /\ NULL \notin Cell
  /\ PeerTTL \in Nat /\ PeerTTL < MaxAge

VARIABLES
  section,   \* for each thread the section it is in
  step,      \* and the step that is next there
  sem,       \* the values of sem_server and sem_hash
  msg,       \* main: the message it handles
  connue,    \* main: what is_known answered
  at,        \* for each thread the pointer with which it walks the list
  head,      \* the global server_table
  cell,      \* the memory of the list
  live,      \* the cells that are allocated
  tree,      \* the global hash_table: "empty", "fresh", "old" when some hash
             \* is obsolete, "torn" when a freed node may still be in it
  list,      \* suppression_dead_server: its parameter, the head so far
  tmp,       \* its local tmp, the element to look at next
  prev,      \* suppression_server: the element before the freed one, and
  rest,      \* the one behind it, which it returns
  doomed,    \* the elements that were dead when the call read the time
  end_signal, usr1,   \* SIGINT was received; SIGUSR1 is on its way
  process,   \* "runs", or how it ended
  bad,       \* history: the sections that have used freed memory
  call       \* the last call on the list, for the comparison with ServerTable

control == <<section, step>>
turn == <<msg, connue>>
heap == <<head, cell, live>>
supp == <<list, tmp, prev, rest, doomed>>
signals == <<end_signal, usr1>>
memory == <<process, bad>>
vars == <<control, sem, turn, at, heap, tree, supp, signals, memory, call>>

Thread == {"main", "fthread"}
Peer == Server \ {me}
Pointer == Cell \cup {NULL}
blank == [server |-> me, age |-> 0, next |-> NULL]

-----------------------------------------------------------------------------
(***************************************************************************)
(* The critical sections and their order.                                  *)
(***************************************************************************)
HashSection == {"put", "get", "data", "all", "obsolete"}
ServerSection == {"share", "known", "tell", "insert", "keep", "keeps", "dead"}

\* The messages whose hash is inserted.
Insertion == {"PUT", "SHARE_DATA", "SHARE_PUT"}

\* Mutant: fthread takes the wrong semaphore for its last section.
Guard_obsolete(s) ==
  IF s \in HashSection \ {"obsolete"} THEN "hash" ELSE "server"

\* Mutant: sem_hash is still taken when PUT takes it the second time.
Guard_again(s) ==
  IF s \in HashSection \cup {"share"} THEN "hash" ELSE "server"

\* The semaphore a section waits for first.
Guard(s) == IF s \in HashSection THEN "hash" ELSE "server"

\* The branch of the loop a message is dispatched to.
Branch(m) ==
  CASE m.header = "PUT" -> "put"
    [] m.header = "GET" -> "get"
    [] m.header \in {"SERVER_GET", "SHARE_DATA", "SHARE_PUT"} -> "data"
    [] m.header \in {"CONNECT", "SHARE_SERVER"} -> "known"
    [] m.header = "KEEP" -> "keep"

\* Messages from itself are compared with my_addr and my_port and ignored,
\* but for SHARE_SERVER, which never names its addressee (see Dht).
Received ==
  [header : {"PUT", "GET", "SERVER_GET", "SHARE_DATA", "SHARE_PUT"}, from : {me}]
  \cup [header : {"CONNECT", "SHARE_SERVER", "KEEP"}, from : Peer]

EMPTY == [header |-> "EMPTY", from |-> me]

\* Where a thread goes after the section s.
After(s) ==
  CASE s = "put" -> "share"
    [] s = "known" /\ ~connue /\ msg.header = "CONNECT" -> "tell"
    [] s = "known" /\ ~connue /\ msg.header = "SHARE_SERVER" -> "insert"
    [] s = "tell" -> "insert"
    [] s = "insert" /\ msg.header = "CONNECT" -> "all"
    [] s = "keeps" -> "dead"
    [] s = "dead" -> "obsolete"
    [] s = "obsolete" -> "sleep"
    [] OTHER -> "receive"

Goto(t, s, i) ==
  /\ section' = [section EXCEPT ![t] = s]
  /\ step' = [step EXCEPT ![t] = i]

Step(t, i) == step' = [step EXCEPT ![t] = i] /\ UNCHANGED section

At(t, s, i) == section[t] = s /\ step[t] = i

-----------------------------------------------------------------------------
(***************************************************************************)
(* Memory.                                                                 *)
(***************************************************************************)
\* The elements of the list that starts at p: the least set that is closed.
Closed(S, p) ==
  /\ p \in S \cup {NULL}
  /\ \A c \in S : cell[c].next \in S \cup {NULL}

Chain(p) == {c \in Cell : \A S \in SUBSET Cell : Closed(S, p) => c \in S}

\* The first element of the list p for the server s, if there is one.
First(p, s) ==
  {c \in Chain(p) : /\ cell[c].server = s
                    /\ \A d \in Chain(p) : cell[d].server = s => d \in Chain(c)}

\* What the section w does with memory is allowed, or it goes on with whatever
\* it finds there, or the process crashes.
Use(w, allowed) ==
  IF allowed THEN UNCHANGED memory
             ELSE bad' = bad \cup {w} /\ process' \in {"runs", "crashed"}

-----------------------------------------------------------------------------
(***************************************************************************)
(* Semaphores, and the walks along the list.                               *)
(***************************************************************************)
sem_wait(s) == sem[s] > 0 /\ sem' = [sem EXCEPT ![s] = @ - 1]

sem_post(s) == sem' = [sem EXCEPT ![s] = @ + 1]

\* A thread enters its section.
Wait(t) ==
  /\ section[t] \in HashSection \cup ServerSection
  /\ step[t] = "wait"
  /\ sem_wait(Guard(section[t]))
  /\ IF section[t] \in {"tell", "keeps"}
       THEN Step(t, "walk") /\ at' = [at EXCEPT ![t] = head]
       ELSE /\ Step(t, IF section[t] = "share" THEN "wait_hash" ELSE "do")
            /\ UNCHANGED at
  /\ UNCHANGED <<turn, heap, tree, supp, signals, memory, call>>

\* Mutant: the branch ends early when the server is known, without the post.
Post_early(t) ==
  /\ section[t] \in HashSection \cup ServerSection
  /\ step[t] = "post"
  /\ IF t = "main" /\ connue THEN UNCHANGED sem ELSE sem_post(Guard(section[t]))
  /\ Goto(t, After(section[t]), "wait")
  /\ IF After(section[t]) = "receive"
       THEN msg' = EMPTY /\ connue' = FALSE
       ELSE UNCHANGED turn
  /\ UNCHANGED <<at, heap, tree, supp, signals, memory, call>>

\* It leaves it.
Post(t) ==
  /\ section[t] \in HashSection \cup ServerSection
  /\ step[t] = "post"
  /\ sem_post(Guard(section[t]))
  /\ Goto(t, After(section[t]), "wait")
  /\ IF After(section[t]) = "receive"
       THEN msg' = EMPTY /\ connue' = FALSE
       ELSE UNCHANGED turn
  /\ UNCHANGED <<at, heap, tree, supp, signals, memory, call>>

\* One element of the list: a message is sent to the server it names.  The
\* allocator leaves the field next of a freed block as it was, so that a walk
\* which survives it comes to some element, or to the end.
Walk(t) ==
  /\ step[t] = "walk" /\ at[t] # NULL
  /\ Use(section[t], at[t] \in live)
  /\ \E next \in IF at[t] \in live THEN {cell[at[t]].next} ELSE live \cup {NULL} :
       at' = [at EXCEPT ![t] = next]
  /\ UNCHANGED <<control, sem, turn, heap, tree, supp, signals, call>>

WalkEnd(t) ==
  /\ step[t] = "walk" /\ at[t] = NULL
  /\ Step(t, IF section[t] = "share" THEN "post_hash" ELSE "post")
  /\ UNCHANGED <<sem, turn, at, heap, tree, supp, signals, memory, call>>

-----------------------------------------------------------------------------
(***************************************************************************)
(* The receive loop.                                                       *)
(***************************************************************************)
Receive(m) ==
  /\ section["main"] = "receive" /\ ~end_signal
  /\ msg' = m
  /\ Goto("main", Branch(m), "wait")
  /\ UNCHANGED <<sem, connue, at, heap, tree, supp, signals, memory, call>>

\* data, all: the tree is read, for a SERVER_GET or for a new server.
HashRead ==
  /\ section["main"] \in {"data", "all"} /\ step["main"] = "do"
  /\ msg.header \notin Insertion
  /\ Use(section["main"], tree # "torn")
  /\ Step("main", "post")
  /\ UNCHANGED <<sem, turn, at, heap, tree, supp, signals, call>>

\* The tree after an insertion.  All but SHARE_DATA renew the date of a hash.
Entered ==
  IF tree = "empty" THEN {"fresh"}
  ELSE {tree} \cup {t \in {"fresh"} : tree = "old" /\ msg.header # "SHARE_DATA"}

\* put, data: a hash is inserted.  Where there was a tree, it is balanced on
\* the way back, and balance_avl may turn for ever: no action leaves "balance".
HashInsert ==
  /\ section["main"] \in {"put", "data"} /\ step["main"] = "do"
  /\ msg.header \in Insertion
  /\ Use(section["main"], tree # "torn")
  /\ \/ Step("main", "post") /\ tree' \in Entered
     \/ tree # "empty" /\ Step("main", "balance") /\ UNCHANGED tree
  /\ UNCHANGED <<sem, turn, at, heap, supp, signals, call>>

\* answer_to_client: if the hash is found the list is walked, without
\* sem_server.
GetDo ==
  /\ At("main", "get", "do")
  /\ Use("get", tree # "torn")
  /\ \/ Step("main", "post") /\ UNCHANGED at
     \/ tree # "empty" /\ Step("main", "walk") /\ at' = [at EXCEPT !["main"] = head]
  /\ UNCHANGED <<sem, turn, heap, tree, supp, signals, call>>

\* PUT takes the second semaphore inside the first, and gives it back first.
ShareWait ==
  /\ At("main", "share", "wait_hash")
  /\ sem_wait("hash")
  /\ Step("main", "walk")
  /\ at' = [at EXCEPT !["main"] = head]
  /\ UNCHANGED <<turn, heap, tree, supp, signals, memory, call>>

\* Mutant: the outer semaphore is given back in place of the inner one.
SharePost_outer ==
  /\ At("main", "share", "post_hash")
  /\ sem_post("server")
  /\ Step("main", "post")
  /\ UNCHANGED <<turn, at, heap, tree, supp, signals, memory, call>>

SharePost ==
  /\ At("main", "share", "post_hash")
  /\ sem_post("hash")
  /\ Step("main", "post")
  /\ UNCHANGED <<turn, at, heap, tree, supp, signals, memory, call>>

\* Mutant: only the first element is compared.
is_known_first(s) == head # NULL /\ cell[head].server = s

is_known(s) == \E c \in Chain(head) : cell[c].server = s

KnownDo ==
  /\ At("main", "known", "do")
  /\ Use("known", Chain(head) \subseteq live)
  /\ connue' = is_known(msg.from)
  /\ Step("main", "post")
  /\ UNCHANGED <<sem, msg, at, heap, tree, supp, signals, call>>

\* A new element in front of the list.
InsertDo ==
  /\ At("main", "insert", "do")
  /\ \E c \in Cell \ live :
       /\ cell' = [cell EXCEPT ![c] = [server |-> msg.from, age |-> 0, next |-> head]]
       /\ live' = live \cup {c}
       /\ head' = c
  /\ call' = <<"insert", msg.from>>
  /\ Step("main", "post")
  /\ UNCHANGED <<sem, turn, at, tree, supp, signals, memory>>

\* Mutant: the search does not go past the first element.
KeepDo_first ==
  /\ At("main", "keep", "do")
  /\ Use("keep", Chain(head) \subseteq live)
  /\ cell' = [c \in Cell |-> IF c = head /\ cell[c].server = msg.from
                             THEN [cell[c] EXCEPT !.age = 0] ELSE cell[c]]
  /\ call' = <<"keep", msg.from>>
  /\ Step("main", "post")
  /\ UNCHANGED <<sem, turn, at, head, live, tree, supp, signals>>

KeepDo ==
  /\ At("main", "keep", "do")
  /\ Use("keep", Chain(head) \subseteq live)
  /\ cell' = [c \in Cell |-> IF c \in First(head, msg.from)
                             THEN [cell[c] EXCEPT !.age = 0] ELSE cell[c]]
  /\ call' = <<"keep", msg.from>>
  /\ Step("main", "post")
  /\ UNCHANGED <<sem, turn, at, head, live, tree, supp, signals>>

(***************************************************************************)
(* The end: the loop is left, fthread is told and waited for, and both     *)
(* tables are freed without a semaphore.                                   *)
(***************************************************************************)
Leave ==
  /\ section["main"] = "receive" /\ end_signal
  /\ Goto("main", "stop", "kill")
  /\ UNCHANGED <<sem, turn, at, heap, tree, supp, signals, memory, call>>

\* Mutant: fthread is waited for and not told.
Kill_unsent ==
  /\ At("main", "stop", "kill")
  /\ Step("main", "join")
  /\ UNCHANGED <<sem, turn, at, heap, tree, supp, signals, memory, call>>

Kill ==
  /\ At("main", "stop", "kill")
  /\ usr1' = TRUE
  /\ Step("main", "join")
  /\ UNCHANGED <<sem, turn, at, heap, tree, supp, end_signal, memory, call>>

Join ==
  /\ At("main", "stop", "join") /\ section["fthread"] = "gone"
  /\ Step("main", "free_avl")
  /\ UNCHANGED <<sem, turn, at, heap, tree, supp, signals, memory, call>>

free_avl ==
  /\ At("main", "stop", "free_avl")
  /\ Use("free_avl", tree # "torn")
  /\ Step("main", "free_server_tab")
  /\ UNCHANGED <<sem, turn, at, heap, tree, supp, signals, call>>

free_server_tab ==
  /\ At("main", "stop", "free_server_tab")
  /\ live' = live \ Chain(head)
  /\ IF Chain(head) \subseteq live
       THEN process' = "exited" /\ UNCHANGED bad
       ELSE bad' = bad \cup {"free_server_tab"} /\ process' \in {"exited", "crashed"}
  /\ UNCHANGED <<control, sem, turn, at, head, cell, tree, supp, signals, call>>

-----------------------------------------------------------------------------
(***************************************************************************)
(* fthread.                                                                *)
(***************************************************************************)
init_thread_signal ==
  /\ section["fthread"] = "init"
  /\ Goto("fthread", "keeps", "wait")
  /\ UNCHANGED <<sem, turn, at, heap, tree, supp, signals, memory, call>>

\* suppression_dead_server reads the time once.  No date can change before it
\* returns, for sem_server is held, so the test of the loop is decided here.
DeadDo ==
  /\ At("fthread", "dead", "do")
  /\ doomed' = {c \in Chain(head) : cell[c].server = me \/ cell[c].age > PeerTTL}
  /\ list' = head
  /\ at' = [at EXCEPT !["fthread"] = head]
  /\ call' = <<"suppress">>
  /\ Step("fthread", "test")
  /\ UNCHANGED <<sem, turn, heap, tree, tmp, prev, rest, signals, memory>>

\* One turn of its loop.
DeadTest ==
  /\ At("fthread", "dead", "test") /\ at["fthread"] # NULL
  /\ LET server == at["fthread"] IN
       /\ Use("dead", server \in live)
       /\ IF server \in doomed
            THEN /\ tmp' = cell[server].next
                 /\ Step("fthread", "free")
                 /\ UNCHANGED at
            ELSE /\ at' = [at EXCEPT !["fthread"] = cell[server].next]
                 /\ UNCHANGED <<control, tmp>>
  /\ UNCHANGED <<sem, turn, heap, tree, list, prev, rest, doomed, signals, call>>

\* suppression_server goes along the list to the first element with the
\* address and port of the dead one, and frees it.
DeadFree ==
  /\ At("fthread", "dead", "free")
  /\ \E c \in First(list, cell[at["fthread"]].server) :
       /\ Use("dead", (Chain(list) \ Chain(c)) \cup {c} \subseteq live)
       /\ live' = live \ {c}
       /\ rest' = cell[c].next
       /\ prev' \in IF c = list THEN {NULL} ELSE {d \in Chain(list) : cell[d].next = c}
  /\ Step("fthread", "relink")
  /\ UNCHANGED <<sem, turn, at, head, cell, tree, list, tmp, doomed, signals, call>>

\* Mutant: the loop reads next after the removal, from the freed element.
DeadRelink_next ==
  /\ At("fthread", "dead", "relink")
  /\ Use("dead", at["fthread"] \in live)
  /\ IF prev = NULL
       THEN list' = rest /\ UNCHANGED cell
       ELSE cell' = [cell EXCEPT ![prev].next = rest] /\ UNCHANGED list
  /\ at' = [at EXCEPT !["fthread"] = cell[at["fthread"]].next]
  /\ tmp' = NULL /\ prev' = NULL /\ rest' = NULL
  /\ Step("fthread", "test")
  /\ UNCHANGED <<sem, turn, head, live, tree, doomed, signals, call>>

\* Coming back it writes next in every element in front, of which only the
\* last gets a new value, or returns the new head.
DeadRelink ==
  /\ At("fthread", "dead", "relink")
  /\ IF prev = NULL
       THEN list' = rest /\ UNCHANGED <<cell, memory>>
       ELSE /\ Use("dead", prev \in live)
            /\ cell' = [cell EXCEPT ![prev].next = rest]
            /\ UNCHANGED list
  /\ at' = [at EXCEPT !["fthread"] = tmp]
  /\ tmp' = NULL /\ prev' = NULL /\ rest' = NULL
  /\ Step("fthread", "test")
  /\ UNCHANGED <<sem, turn, head, live, tree, doomed, signals, call>>

\* The result of suppression_dead_server is assigned to server_table.  From
\* now on nothing is assumed of the content of what was freed.
DeadReturn ==
  /\ At("fthread", "dead", "test") /\ at["fthread"] = NULL
  /\ head' = list
  /\ list' = NULL /\ doomed' = {}
  /\ cell' = [c \in Cell |-> IF c \in doomed \ live THEN blank ELSE cell[c]]
  /\ Step("fthread", "post")
  /\ UNCHANGED <<sem, turn, at, live, tree, tmp, prev, rest, signals, memory, call>>

\* suppression_obsolete_hash: nothing is to be removed.
ObsoleteNone ==
  /\ At("fthread", "obsolete", "do") /\ tree \in {"empty", "fresh"}
  /\ Step("fthread", "post")
  /\ UNCHANGED <<sem, turn, at, heap, tree, supp, signals, memory, call>>

\* Or nodes are freed before the new root is assigned to hash_table.  Each
\* removal ends in balance_avl, which may turn for ever.
ObsoleteDo ==
  /\ At("fthread", "obsolete", "do") /\ tree = "old"
  /\ tree' = "torn"
  /\ Step("fthread", "return") \/ Step("fthread", "balance")
  /\ UNCHANGED <<sem, turn, at, heap, supp, signals, memory, call>>

\* Each node was compared with the time when the call came to it, so that some
\* may be obsolete by now.
ObsoleteReturn ==
  /\ At("fthread", "obsolete", "return")
  /\ tree' \in {"empty", "fresh", "old"}
  /\ Step("fthread", "post")
  /\ UNCHANGED <<sem, turn, at, heap, supp, signals, memory, call>>

\* The 5 s are over.
Wake ==
  /\ section["fthread"] = "sleep"
  /\ Goto("fthread", "keeps", "wait")
  /\ UNCHANGED <<sem, turn, at, heap, tree, supp, signals, memory, call>>

-----------------------------------------------------------------------------
(***************************************************************************)
(* Signals and time.                                                       *)
(***************************************************************************)
terminer_processus ==
  /\ ~end_signal
  /\ end_signal' = TRUE
  /\ UNCHANGED <<control, sem, turn, at, heap, tree, supp, usr1, memory, call>>

\* SIGUSR1 reaches fthread between any two of its steps.  It does not give
\* back the semaphore it holds.
terminer_thread ==
  /\ usr1 /\ section["fthread"] \notin {"init", "gone"}
  /\ usr1' = FALSE
  /\ Goto("fthread", "gone", "wait")
  /\ at' = [at EXCEPT !["fthread"] = NULL]
  /\ list' = NULL /\ tmp' = NULL /\ prev' = NULL /\ rest' = NULL
  /\ UNCHANGED <<sem, turn, heap, tree, doomed, end_signal, memory, call>>

\* Before init_thread_signal the signal ends the process.
DefaultAction ==
  /\ usr1 /\ section["fthread"] = "init"
  /\ process' = "killed"
  /\ UNCHANGED <<control, sem, turn, at, heap, tree, supp, signals, bad, call>>

Tick ==
  /\ cell' = [c \in Cell |-> IF c \in live THEN [cell[c] EXCEPT !.age = Older(@)]
                                           ELSE cell[c]]
  /\ tree' \in {tree} \cup {t \in {"old"} : tree = "fresh"}
  /\ call' = <<"tick">>
  /\ UNCHANGED <<control, sem, turn, at, head, live, supp, signals, memory>>

-----------------------------------------------------------------------------
Init ==
  /\ section = [main |-> "receive", fthread |-> "init"]
  /\ step = [t \in Thread |-> "wait"]
  /\ sem = [server |-> 1, hash |-> 1]
  /\ msg = EMPTY /\ connue = FALSE
  /\ at = [t \in Thread |-> NULL]
  /\ head = NULL /\ live = {}
  /\ cell = [c \in Cell |-> blank]
  /\ tree = "empty"
  /\ list = NULL /\ tmp = NULL /\ prev = NULL /\ rest = NULL /\ doomed = {}
  /\ end_signal = FALSE /\ usr1 = FALSE
  /\ process = "runs" /\ bad = {} /\ call = << >>

main ==
  /\ process = "runs"
  /\ \/ Wait("main") \/ Post("main") \/ Walk("main") \/ WalkEnd("main")
     \/ \E m \in Received : Receive(m)
     \/ HashRead \/ HashInsert \/ GetDo \/ ShareWait \/ SharePost
     \/ KnownDo \/ InsertDo \/ KeepDo
     \/ Leave \/ Kill \/ Join \/ free_avl \/ free_server_tab

fthread ==
  /\ process = "runs"
  /\ \/ Wait("fthread") \/ Post("fthread") \/ Walk("fthread") \/ WalkEnd("fthread")
     \/ init_thread_signal
     \/ DeadDo \/ DeadTest \/ DeadFree \/ DeadRelink \/ DeadReturn
     \/ ObsoleteNone \/ ObsoleteDo \/ ObsoleteReturn \/ Wake
     \/ terminer_thread \/ DefaultAction

Next ==
  \/ main
  \/ fthread
  \/ process = "runs" /\ (terminer_processus \/ Tick)
  \/ process # "runs" /\ UNCHANGED vars

Spec == Init /\ [][Next]_vars

\* Both threads are scheduled and a signal that was sent is delivered.  fthread
\* sleeps with the semaphores free, so a wait of main that is possible again
\* and again comes to an end.
FairSpec ==
  /\ Spec
  /\ WF_vars(main) /\ WF_vars(fthread)
  /\ WF_vars(process = "runs" /\ terminer_thread)
  /\ SF_vars(process = "runs" /\ (Wait("main") \/ ShareWait))

-----------------------------------------------------------------------------
(***************************************************************************)
(* Properties.                                                             *)
(***************************************************************************)
TypeOK ==
  /\ section \in [Thread -> HashSection \cup ServerSection
                            \cup {"receive", "stop", "init", "sleep", "gone"}]
  /\ step \in [Thread -> {"wait", "wait_hash", "walk", "do", "test", "free", "relink",
                          "balance", "return", "post_hash", "post", "kill", "join",
                          "free_avl", "free_server_tab"}]
  /\ sem \in [{"server", "hash"} -> {0, 1}]
  /\ msg \in Received \cup {EMPTY} /\ connue \in BOOLEAN
  /\ at \in [Thread -> Pointer]
  /\ head \in Pointer /\ live \subseteq Cell
  /\ cell \in [Cell -> [server : Server, age : Age, next : Pointer]]
  /\ tree \in {"empty", "fresh", "old", "torn"}
  /\ {list, tmp, prev, rest} \subseteq Pointer /\ doomed \subseteq Cell
  /\ end_signal \in BOOLEAN /\ usr1 \in BOOLEAN
  /\ process \in {"runs", "exited", "killed", "crashed"}

\* The tables a section reads or writes under a semaphore.
Touches ==
  [server |-> {"share", "known", "tell", "insert", "keep", "keeps", "dead"},
   hash |-> {"put", "get", "data", "all", "obsolete"}]

Inside(t, x) == section[t] \in Touches[x] /\ step[t] # "wait"

\* The two threads are never both inside a section that is meant to have the
\* same table for itself.
MutualExclusion ==
  \A x \in DOMAIN Touches : ~(Inside("main", x) /\ Inside("fthread", x))

\* The thread t has taken the semaphore x and not given it back.
Holds(t, x) ==
  \/ section[t] \in HashSection \cup ServerSection /\ step[t] # "wait" /\ x = Guard(section[t])
  \/ section[t] = "share" /\ step[t] \in {"walk", "post_hash"} /\ x = "hash"

\* The thread t can only go on when it gets the semaphore x, and x is taken.
Blocked(t, x) ==
  /\ sem[x] = 0
  /\ \/ section[t] \in HashSection \cup ServerSection /\ step[t] = "wait" /\ x = Guard(section[t])
     \/ At(t, "share", "wait_hash") /\ x = "hash"

\* A thread that waits for a semaphore waits for the other one, which has it and
\* waits for none: the two never wait in a circle although PUT takes sem_hash
\* within sem_server (server.c 711), no thread waits for itself, and no section
\* that was left, or ended by SIGUSR1, has kept what somebody still waits for.
\* (The other one may be in a call on the tree that never returns: see Hung.)
NoCircularWait ==
  \A t \in Thread, x \in DOMAIN sem : Blocked(t, x) =>
    \E u \in Thread \ {t} : Holds(u, x) /\ \A y \in DOMAIN sem : ~Blocked(u, y)

\* No server is twice in the list although is_known and insert_server are two
\* critical sections, and outside of a removal no element is out of its reach.
EachPeerOnce ==
  /\ \A c, d \in live : cell[c].server = cell[d].server => c = d
  /\ section["fthread"] \notin {"dead", "gone"} => live \subseteq Chain(head)

\* "Les semaphore permettant [...] d'effectuer les operations [...] en toute
\* securite" (distributed_server.h 24-25): what the two threads do with the
\* tables between a sem_wait and a sem_post uses no freed memory.
OperationsAreSafe == bad \cap (HashSection \cup ServerSection) = {}

\* Freed memory is used at most where the code takes no semaphore: in the walk of
\* answer_to_client, and after fthread was killed within a removal.
GuardedIsSafe == bad \subseteq {"get", "free_avl", "free_server_tab"}

\* The list as the map of ServerTable.  The removals of one call of
\* suppression_dead_server count as done when it reads the time.
AsMap ==
  LET there == Chain(head) \ doomed
  IN  [p \in {cell[c].server : c \in there} |->
         (CHOOSE a \in {cell[c].age : c \in {d \in there : cell[d].server = p}} : TRUE)]

Peers == INSTANCE ServerTable WITH server_table <- AsMap

\* The list is the map Dht takes it for, whatever steps of the two threads
\* fall between each other: no call is lost, none acts on another server.
ImplementsPeers == Peers!Spec

\* A call on the tree does not return and main is in it, or waits for the
\* semaphore with which fthread is in it.  Neither comes to an end.
Hung ==
  \/ step["main"] = "balance"
  \/ step["fthread"] = "balance" /\ Blocked("main", "hash")

\* The receive loop comes back to its socket after every message, nested
\* semaphores and early ends of the branches included, unless a call on the
\* tree never returns (see EveryCallReturns of AvlTable).
MessagesAreHandled ==
  section["main"] # "receive" ~>
    (section["main"] \in {"receive", "stop"} \/ process # "runs" \/ Hung)

\* "Pour terminer le programme il faut lui envoyer un signal SIGINT"
\* (man/server.1): wherever the threads are, also when fthread is in a call that
\* never returns, it ends, unless main itself is held by such a call.
Stops == end_signal ~> (process # "runs" \/ Hung)
=============================================================================
