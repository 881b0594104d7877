------------------------ MODULE ServerThreadsProofs ------------------------
(***************************************************************************)
(* Theorems about ServerThreads, for any servers and any memory: the two   *)
(* threads exclude each other, the list holds each server once, and no     *)
(* section that takes the semaphores uses memory that was freed.           *)
(***************************************************************************)
EXTENDS ServerThreads, TLAPS

(***************************************************************************)
(* The inductive invariant, part one: control.                             *)
(***************************************************************************)
MainSection ==
  {"receive", "stop", "put", "get", "data", "all", "share", "known", "tell",
   "insert", "keep"}
FthreadSection == {"init", "sleep", "gone", "keeps", "dead", "obsolete"}

\* The steps of each section.
StepIn(s, i) ==
  /\ s \in {"receive", "init", "sleep", "gone"} => i = "wait"
  /\ s = "stop" => i \in {"kill", "join", "free_avl", "free_server_tab"}
  /\ s \in {"put", "data"} => i \in {"wait", "do", "balance", "post"}
  /\ s \in {"all", "known", "insert", "keep"} => i \in {"wait", "do", "post"}
  /\ s = "get" => i \in {"wait", "do", "walk", "post"}
  /\ s = "share" => i \in {"wait", "wait_hash", "walk", "post_hash", "post"}
  /\ s \in {"tell", "keeps"} => i \in {"wait", "walk", "post"}
  /\ s = "dead" => i \in {"wait", "do", "test", "free", "relink", "post"}
  /\ s = "obsolete" => i \in {"wait", "do", "balance", "return", "post"}

Placed ==
  /\ section["main"] \in MainSection /\ section["fthread"] \in FthreadSection
  /\ \A t \in Thread : StepIn(section[t], step[t])

Locked ==
  \A x \in {"server", "hash"} :
    /\ \A t \in Thread : Holds(t, x) => sem[x] = 0
    /\ ~(Holds("main", x) /\ Holds("fthread", x))

\* fthread is killed only when main has left its loop, and the tables are freed
\* only when it is gone.
KilledLast ==
  /\ usr1 \/ section["fthread"] = "gone" =>
       section["main"] = "stop" /\ step["main"] # "kill"
  /\ section["main"] = "stop" /\ step["main"] \in {"free_avl", "free_server_tab"} =>
       section["fthread"] = "gone"

Control == TypeOK /\ Placed /\ Locked /\ KilledLast

(***************************************************************************)
(* Part two: the tree, and the list as it is when a removal that is under  *)
(* way has written the pointer it is about to write.                       *)
(***************************************************************************)
Removing == section["fthread"] = "dead" /\ step["fthread"] \in {"test", "free", "relink"}
Relinking == section["fthread"] = "dead" /\ step["fthread"] = "relink"

front == IF Relinking /\ prev = NULL THEN rest ELSE IF Removing THEN list ELSE head
next(c) == IF Relinking /\ c = prev THEN rest ELSE cell[c].next

\* The pointers stay among the allocated elements.
ListClosed ==
  /\ front \in live \cup {NULL}
  /\ \A c \in live : next(c) \in live \cup {NULL}

\* The pointers stay in no smaller set: every allocated element is reached.
ListReached ==
  \A S \in SUBSET live :
    front \in S \cup {NULL} /\ (\A c \in S : next(c) \in S \cup {NULL}) => live \subseteq S

\* No element is pointed to twice.
ListStraight ==
  /\ \A c, d \in live : next(c) = next(d) /\ next(c) # NULL => c = d
  /\ \A c \in live : next(c) = front => front = NULL

OnePerServer == \A c, d \in live : cell[c].server = cell[d].server => c = d

\* The pointers the threads walk with.
WalkersAlive ==
  /\ \A t \in Thread : step[t] = "walk" /\ section[t] # "get" => at[t] \in live \cup {NULL}
  /\ Removing /\ ~Relinking => at["fthread"] \in live \cup {NULL}
  /\ Removing /\ step["fthread"] = "free" =>
       at["fthread"] \in live /\ tmp = cell[at["fthread"]].next
  /\ Relinking => {tmp, prev, rest} \subseteq live \cup {NULL}

\* From is_known to insert_server nobody else inserts.
StillUnknown ==
  \/ section["main"] = "tell"
  \/ section["main"] = "insert" /\ step["main"] # "post"
  \/ section["main"] = "known" /\ step["main"] = "post" /\ ~connue
  => \A c \in live : cell[c].server # msg.from

TreeTorn ==
  tree = "torn" =>
    \/ section["fthread"] = "obsolete" /\ step["fthread"] \in {"balance", "return"}
    \/ section["fthread"] = "gone"

Listed == ListClosed /\ ListReached /\ ListStraight

Heap ==
  /\ section["fthread"] # "gone" => Listed /\ WalkersAlive
  /\ OnePerServer /\ StillUnknown /\ TreeTorn /\ GuardedIsSafe

-----------------------------------------------------------------------------
(***************************************************************************)
(* Control: types, the place in the code, the semaphores.                  *)
(***************************************************************************)
\* A list is made of cells.
LEMMA ChainInMemory ==
  ASSUME NEW p PROVE Chain(p) \subseteq Cell
BY DEF Chain

LEMMA FirstInChain ==
  ASSUME NEW p, NEW s PROVE First(p, s) \subseteq Chain(p)
BY DEF First

LEMMA ControlInit == Init => Control
<1> SUFFICES ASSUME Init PROVE Control
  OBVIOUS
<1>1. section \in [Thread -> {"receive", "init"}] /\ sem \in [{"server", "hash"} -> {1}]
  BY DEF Init, Thread
<1>2. section["main"] = "receive" /\ section["fthread"] = "init"
  BY DEF Init
<1>3. EMPTY \in Received \cup {EMPTY} /\ blank \in [server : Server, age : Age, next : Pointer]
  BY ServerThreadsAssumption, MaxAgeAssumption DEF blank, Age, Pointer
<1>4. TypeOK
  BY <1>1, <1>3 DEF Init, TypeOK, Thread, Pointer
<1>5. Placed /\ Locked /\ KilledLast
  BY <1>1, <1>2 DEF Init, Placed, Locked, KilledLast, MainSection, FthreadSection, StepIn,
     Thread, Holds, HashSection, ServerSection
<1> QED BY <1>4, <1>5 DEF Control

LEMMA TypeNext == Control /\ [Next]_vars => TypeOK'
<1> SUFFICES ASSUME Control, [Next]_vars PROVE TypeOK'
  OBVIOUS
<1> USE DEF Control, TypeOK, control, turn, heap, supp, signals, memory, Goto, Step, At, Thread
<1>1. ASSUME NEW t \in Thread, Wait(t) \/ Walk(t) \/ WalkEnd(t) PROVE TypeOK'
  <2>1. CASE Wait(t)
    <3>1. sem' \in [{"server", "hash"} -> {0, 1}]
      <4>1. Guard(section[t]) \in {"server", "hash"}
        BY DEF Guard
      <4>2. /\ sem[Guard(section[t])] > 0
            /\ sem' = [sem EXCEPT ![Guard(section[t])] = sem[Guard(section[t])] - 1]
        BY <2>1 DEF Wait, sem_wait
      <4>3. sem[Guard(section[t])] - 1 = 0
        BY <4>1, <4>2
      <4> QED BY <4>1, <4>2, <4>3
    <3>2. step' \in [Thread -> {step[u] : u \in Thread} \cup {"walk", "wait_hash", "do"}]
      BY <2>1 DEF Wait
    <3>3. at' \in [Thread -> Pointer]
      BY <2>1 DEF Wait
    <3> QED BY <2>1, <3>1, <3>2, <3>3 DEF Wait
  <2>2. CASE Walk(t)
    BY <2>2 DEF Walk, Use, Pointer
  <2>3. CASE WalkEnd(t)
    BY <2>3 DEF WalkEnd
  <2> QED BY <1>1, <2>1, <2>2, <2>3
<1>2. ASSUME NEW t \in Thread, Post(t) PROVE TypeOK'
  <2>1. sem[Guard(section[t])] = 0
    BY <1>2 DEF Post, Locked, Holds, Guard
  <2>2. Guard(section[t]) \in {"server", "hash"}
    BY DEF Guard
  <2>3. sem' \in [{"server", "hash"} -> {0, 1}]
    BY <1>2, <2>1, <2>2 DEF Post, sem_post
  <2>4. After(section[t]) \in HashSection \cup ServerSection \cup {"receive", "sleep"}
    BY DEF After, HashSection, ServerSection
  <2>5. section' \in [Thread -> HashSection \cup ServerSection
                               \cup {"receive", "stop", "init", "sleep", "gone"}]
    BY <1>2, <2>4 DEF Post
  <2> QED BY <1>2, <2>3, <2>5 DEF Post
<1>3. ASSUME NEW m \in Received, Receive(m) PROVE TypeOK'
  BY <1>3 DEF Receive, Branch, Received, HashSection, ServerSection
<1>4. ASSUME HashRead \/ HashInsert \/ GetDo PROVE TypeOK'
  BY <1>4 DEF HashRead, HashInsert, GetDo, Use, Entered
<1>5. ASSUME ShareWait \/ SharePost PROVE TypeOK'
  BY <1>5 DEF ShareWait, SharePost, sem_wait, sem_post, Placed, StepIn, Locked, Holds, Guard,
              HashSection, ServerSection
<1>6. ASSUME KnownDo PROVE TypeOK'
  <2>1. is_known(msg.from) \in BOOLEAN
    BY DEF is_known
  <2> QED BY <1>6, <2>1 DEF KnownDo, Use
<1>7. ASSUME InsertDo PROVE TypeOK'
  <2>1. PICK c \in Cell \ live :
           /\ cell' = [cell EXCEPT ![c] = [server |-> msg.from, age |-> 0, next |-> head]]
           /\ live' = live \cup {c}
           /\ head' = c
    BY <1>7 DEF InsertDo
  <2>2. msg.from \in Server /\ 0 \in Age
    BY ServerThreadsAssumption, MaxAgeAssumption DEF Received, EMPTY, Peer, Age
  <2>3. [server |-> msg.from, age |-> 0, next |-> head]
          \in [server : Server, age : Age, next : Pointer]
    BY <2>2
  <2>4. cell' \in [Cell -> [server : Server, age : Age, next : Pointer]]
    BY <2>1, <2>3
  <2> QED BY <1>7, <2>1, <2>4 DEF InsertDo, Pointer
<1>8. ASSUME KeepDo \/ Tick PROVE TypeOK'
  <2>1. ASSUME NEW c \in Cell
        PROVE  /\ [cell[c] EXCEPT !.age = 0] \in [server : Server, age : Age, next : Pointer]
               /\ [cell[c] EXCEPT !.age = Older(@)] \in [server : Server, age : Age, next : Pointer]
    BY MaxAgeAssumption DEF Age, Older
  <2>2. cell' \in [Cell -> [server : Server, age : Age, next : Pointer]]
    <3>1. CASE KeepDo
      BY <3>1, <2>1 DEF KeepDo
    <3>2. CASE Tick
      BY <3>2, <2>1 DEF Tick
    <3> QED BY <1>8, <3>1, <3>2
  <2> QED BY <1>8, <2>2 DEF KeepDo, Tick, Use
<1>9. ASSUME Leave \/ Kill \/ Join \/ free_avl \/ free_server_tab PROVE TypeOK'
  BY <1>9 DEF Leave, Kill, Join, free_avl, free_server_tab, Use
<1>10. ASSUME DeadDo \/ DeadTest PROVE TypeOK'
  BY <1>10, ChainInMemory DEF DeadDo, DeadTest, Use, Pointer
<1>11. ASSUME DeadFree PROVE TypeOK'
  <2>1. PICK c \in First(list, cell[at["fthread"]].server) :
           /\ Use("dead", (Chain(list) \ Chain(c)) \cup {c} \subseteq live)
           /\ live' = live \ {c}
           /\ rest' = cell[c].next
           /\ prev' \in IF c = list THEN {NULL} ELSE {d \in Chain(list) : cell[d].next = c}
    BY <1>11 DEF DeadFree
  <2>2. c \in Cell /\ prev' \in Pointer
    BY <2>1, FirstInChain, ChainInMemory DEF Pointer
  <2> QED BY <1>11, <2>1, <2>2 DEF DeadFree, Use
<1>12. ASSUME DeadRelink PROVE TypeOK'
  <2>1. ASSUME prev # NULL PROVE prev \in Cell /\ [cell[prev] EXCEPT !.next = rest]
                                   \in [server : Server, age : Age, next : Pointer]
    BY <2>1 DEF Pointer
  <2>2. cell' \in [Cell -> [server : Server, age : Age, next : Pointer]]
    BY <1>12, <2>1 DEF DeadRelink
  <2> QED BY <1>12, <2>2 DEF DeadRelink, Use, Pointer
<1>13. ASSUME DeadReturn PROVE TypeOK'
  <2>1. blank \in [server : Server, age : Age, next : Pointer]
    BY ServerThreadsAssumption, MaxAgeAssumption DEF blank, Age, Pointer
  <2>2. cell' \in [Cell -> [server : Server, age : Age, next : Pointer]]
    BY <1>13, <2>1 DEF DeadReturn
  <2> QED BY <1>13, <2>2 DEF DeadReturn, Pointer
<1>14. ASSUME ObsoleteNone \/ ObsoleteDo \/ ObsoleteReturn \/ init_thread_signal \/ Wake PROVE TypeOK'
  <2>1. CASE ObsoleteNone \/ ObsoleteDo \/ ObsoleteReturn
    BY <2>1 DEF ObsoleteNone, ObsoleteDo, ObsoleteReturn
  <2>2. CASE init_thread_signal \/ Wake
    BY <2>2 DEF init_thread_signal, Wake, ServerSection
  <2> QED BY <1>14, <2>1, <2>2
<1>15. ASSUME terminer_processus \/ terminer_thread \/ DefaultAction PROVE TypeOK'
  <2>1. CASE terminer_processus \/ DefaultAction
    BY <2>1 DEF terminer_processus, DefaultAction
  <2>2. CASE terminer_thread
    BY <2>2 DEF terminer_thread, Pointer
  <2> QED BY <1>15, <2>1, <2>2
<1>16. CASE UNCHANGED vars
  BY <1>16 DEF vars
<1> QED
  BY <1>1, <1>2, <1>3, <1>4, <1>5, <1>6, <1>7, <1>8, <1>9, <1>10, <1>11, <1>12, <1>13, <1>14,
     <1>15, <1>16 DEF Next, main, fthread

LEMMA ControlNext == Control /\ [Next]_vars => Control'
<1> SUFFICES ASSUME Control, [Next]_vars PROVE (Placed /\ Locked /\ KilledLast)'
  BY TypeNext DEF Control
<1> USE DEF Control, control, turn, heap, supp, signals, memory, Goto, Step, At, Thread
<1>1. TypeOK /\ TypeOK'
  BY TypeNext
<1>2. ASSUME NEW t \in Thread, Wait(t) PROVE (Placed /\ Locked /\ KilledLast)'
  BY <1>1, <1>2 DEF Wait, sem_wait, Placed, StepIn, MainSection, FthreadSection, Locked, Holds,
     Guard, HashSection, ServerSection, KilledLast, TypeOK
<1>3. ASSUME NEW t \in Thread, Post(t) PROVE (Placed /\ Locked /\ KilledLast)'
  BY <1>1, <1>3 DEF Post, sem_post, After, Placed, StepIn, MainSection, FthreadSection, Locked, Holds,
     Guard, HashSection, ServerSection, KilledLast, TypeOK
<1>4. ASSUME ShareWait \/ SharePost PROVE (Placed /\ Locked /\ KilledLast)'
  BY <1>1, <1>4 DEF ShareWait, SharePost, sem_wait, sem_post, Placed, StepIn, MainSection,
     FthreadSection, Locked, Holds, Guard, HashSection, ServerSection, KilledLast, TypeOK
<1>5. ASSUME UNCHANGED <<control, sem, usr1>> PROVE (Placed /\ Locked /\ KilledLast)'
  BY <1>5 DEF Placed, StepIn, Locked, Holds, KilledLast
<1>6. ASSUME NEW t \in Thread, NEW i, Step(t, i), UNCHANGED <<sem, usr1>>,
             step[t] # "wait", i # "wait", section[t] \notin {"share", "stop"}, StepIn(section[t], i)
      PROVE (Placed /\ Locked /\ KilledLast)'
  BY <1>1, <1>6 DEF TypeOK, Placed, StepIn, Locked, Holds, KilledLast
<1>7. ASSUME NEW t \in Thread, Walk(t) \/ WalkEnd(t) PROVE (Placed /\ Locked /\ KilledLast)'
  BY <1>1, <1>7 DEF Walk, WalkEnd, Placed, StepIn, MainSection, FthreadSection, Locked, Holds,
     Guard, HashSection, ServerSection, KilledLast, TypeOK
<1>8. ASSUME NEW m \in Received, Receive(m) PROVE (Placed /\ Locked /\ KilledLast)'
  BY <1>1, <1>8 DEF Receive, Branch, Received, Placed, StepIn, MainSection, FthreadSection, Locked,
     Holds, Guard, HashSection, ServerSection, KilledLast, TypeOK
<1>9. ASSUME HashRead \/ HashInsert \/ GetDo \/ KnownDo \/ InsertDo \/ KeepDo
      PROVE (Placed /\ Locked /\ KilledLast)'
  BY <1>6, <1>9 DEF HashRead, HashInsert, GetDo, KnownDo, InsertDo, KeepDo, Placed, StepIn
<1>10. ASSUME Leave \/ Kill \/ Join \/ free_avl PROVE (Placed /\ Locked /\ KilledLast)'
  BY <1>1, <1>10 DEF Leave, Kill, Join, free_avl, Placed, StepIn, MainSection, Locked, Holds,
     HashSection, ServerSection, KilledLast, TypeOK
<1>11. ASSUME DeadDo \/ DeadFree \/ DeadRelink \/ DeadReturn \/ ObsoleteNone \/ ObsoleteDo \/ ObsoleteReturn
       PROVE (Placed /\ Locked /\ KilledLast)'
  BY <1>6, <1>11 DEF DeadDo, DeadFree, DeadRelink, DeadReturn, ObsoleteNone, ObsoleteDo, ObsoleteReturn,
     Placed, StepIn
<1>12. ASSUME DeadTest PROVE (Placed /\ Locked /\ KilledLast)'
  BY <1>5, <1>6, <1>12 DEF DeadTest, Placed, StepIn
<1>13. ASSUME init_thread_signal \/ Wake \/ terminer_thread
       PROVE (Placed /\ Locked /\ KilledLast)'
  BY <1>1, <1>13 DEF init_thread_signal, Wake, terminer_thread, Placed, StepIn, FthreadSection,
     Locked, Holds, HashSection, ServerSection, KilledLast, TypeOK
<1>14. ASSUME free_server_tab \/ terminer_processus \/ DefaultAction \/ Tick \/ UNCHANGED vars
       PROVE (Placed /\ Locked /\ KilledLast)'
  BY <1>5, <1>14 DEF free_server_tab, terminer_processus, DefaultAction, Tick, vars
<1> QED
  BY <1>2, <1>3, <1>4, <1>7, <1>8, <1>9, <1>10, <1>11, <1>12, <1>13, <1>14
  DEF Next, main, fthread

-----------------------------------------------------------------------------
(***************************************************************************)
(* The list.                                                               *)
(***************************************************************************)
\* Unless a removal has yet to write its pointer, the list has every allocated
\* element and no other.
LEMMA ChainIsLive ==
  ASSUME Control, ListClosed, ListReached, ~Relinking
  PROVE  Chain(front) = live
<1>1. /\ live \subseteq Cell
      /\ Closed(live, front)
  BY DEF Control, TypeOK, ListClosed, Closed, next
<1>2. ASSUME NEW S \in SUBSET Cell, Closed(S, front) PROVE live \subseteq S
  <2>1. S \cap live \in SUBSET live
    OBVIOUS
  <2>2. front \in (S \cap live) \cup {NULL}
    BY <1>1, <1>2 DEF Closed
  <2>3. \A c \in S \cap live : next(c) \in (S \cap live) \cup {NULL}
    BY <1>1, <1>2 DEF Closed, next
  <2>4. live \subseteq S \cap live
    BY <2>1, <2>2, <2>3 DEF ListReached
  <2> QED BY <2>4
<1> QED BY <1>1, <1>2 DEF Chain

\* While main is in a section that takes sem_server, fthread is in none.
LEMMA Alone ==
  ASSUME Control, Heap,
         section["main"] \in ServerSection, step["main"] # "wait"
  PROVE  /\ ~Removing /\ ~Relinking
         /\ section["fthread"] # "gone"
         /\ Chain(head) = live
<1>1. /\ ~Removing /\ ~Relinking
      /\ section["fthread"] # "gone"
  BY DEF Control, TypeOK, Placed, StepIn, Locked, Holds, KilledLast, Guard, HashSection, ServerSection,
         Removing, Relinking, Thread
<1>2. front = head
  BY <1>1 DEF front
<1>3. ListClosed /\ ListReached
  BY <1>1 DEF Heap, Listed
<1> QED BY <1>1, <1>2, <1>3, ChainIsLive

LEMMA ListKept ==
  ASSUME Listed, live' = live, front' = front, \A c \in live : next(c)' = next(c)
  PROVE  Listed'
<1>1. ListClosed' /\ ListStraight'
  BY DEF Listed, ListClosed, ListStraight
<1>2. ASSUME NEW S \in SUBSET live,
             front \in S \cup {NULL}, \A c \in S : next(c)' \in S \cup {NULL}
      PROVE  live \subseteq S
  <2>1. \A c \in S : next(c) \in S \cup {NULL}
    BY <1>2
  <2> QED BY <1>2, <2>1 DEF Listed, ListReached
<1>3. ListReached'
  BY <1>2 DEF ListReached
<1> QED BY <1>1, <1>3 DEF Listed

\* A new element in front of the list.
LEMMA InsertListed ==
  ASSUME Control, Heap, InsertDo PROVE Listed'
<1>1. PICK c \in Cell \ live :
         /\ cell' = [cell EXCEPT ![c] = [server |-> msg.from, age |-> 0, next |-> head]]
         /\ live' = live \cup {c}
         /\ head' = c
  BY DEF InsertDo
<1>2. ~Removing /\ ~Relinking /\ Listed
  BY Alone DEF InsertDo, At, ServerSection, Heap
<1>3. ~Removing' /\ ~Relinking'
  BY <1>2 DEF InsertDo, Step, At, Removing, Relinking, Control, TypeOK, Thread
<1>4. front = head /\ front' = c
  BY <1>1, <1>2, <1>3 DEF front
<1>5. /\ c \notin live \cup {NULL}
      /\ live \subseteq Cell
  BY ServerThreadsAssumption DEF Control, TypeOK
<1>6. next(c)' = front
  BY <1>1, <1>3, <1>4 DEF next, Control, TypeOK
<1>7. \A d \in live : next(d)' = next(d)
  BY <1>1, <1>2, <1>3, <1>5 DEF next, Control, TypeOK
<1>8. ListClosed'
  BY <1>1, <1>2, <1>4, <1>6, <1>7 DEF Listed, ListClosed
<1>9. ASSUME NEW S \in SUBSET live',
             c \in S \cup {NULL}, \A d \in S : next(d)' \in S \cup {NULL}
      PROVE  live' \subseteq S
  <2>1. c \in S
    BY <1>5, <1>9
  <2>2. front \in (S \cap live) \cup {NULL}
    BY <1>2, <1>6, <1>9, <2>1 DEF Listed, ListClosed
  <2>3. \A d \in S \cap live : next(d) \in (S \cap live) \cup {NULL}
    BY <1>2, <1>7, <1>9 DEF Listed, ListClosed
  <2>4. live \subseteq S \cap live
    BY <1>2, <2>2, <2>3 DEF Listed, ListReached
  <2> QED BY <1>1, <2>1, <2>4
<1>10. ListReached'
  BY <1>4, <1>9 DEF ListReached
<1>11. ListStraight'
  <2>1. ASSUME NEW d \in live', NEW e \in live', next(d)' = next(e)', next(d)' # NULL PROVE d = e
    BY <1>1, <1>2, <1>6, <1>7, <2>1 DEF Listed, ListStraight
  <2>2. ASSUME NEW d \in live' PROVE next(d)' # c
    BY <1>1, <1>2, <1>5, <1>6, <1>7 DEF Listed, ListClosed
  <2> QED BY <1>4, <2>1, <2>2 DEF ListStraight
<1> QED BY <1>8, <1>10, <1>11 DEF Listed

\* The dead element is freed: it is the one the loop is at, its neighbours are
\* others, and the pointer to it is all that has to be written.
LEMMA DeadFreed ==
  ASSUME Control, Heap, DeadFree
  PROVE  LET c == at["fthread"] IN
         /\ c \in live /\ live' = live \ {c} /\ UNCHANGED memory
         /\ rest' = next(c) /\ rest' \in live' \cup {NULL}
         /\ IF front = c THEN prev' = NULL
                         ELSE prev' \in live' /\ next(prev') = c
<1> DEFINE c == at["fthread"]
<1>1. /\ Removing /\ ~Relinking /\ front = list
      /\ Listed /\ WalkersAlive
  BY DEF DeadFree, At, Removing, Relinking, front, Heap
<1>2. /\ c \in live /\ live \subseteq Cell
      /\ NULL \notin live
  BY <1>1, ServerThreadsAssumption DEF WalkersAlive, DeadFree, At, Control, TypeOK
<1>3. Chain(list) = live
  BY <1>1, ChainIsLive DEF Listed
<1>4. \A d \in First(list, cell[c].server) : d = c
  BY <1>2, <1>3 DEF First, Heap, OnePerServer
<1>5. /\ Use("dead", (Chain(list) \ Chain(c)) \cup {c} \subseteq live)
      /\ live' = live \ {c}
      /\ rest' = cell[c].next
      /\ prev' \in IF c = list THEN {NULL} ELSE {d \in Chain(list) : cell[d].next = c}
  BY <1>4 DEF DeadFree
<1>6. UNCHANGED memory
  BY <1>2, <1>3, <1>5 DEF Use
<1>7. \A d \in live : next(d) = cell[d].next
  BY <1>1 DEF next
<1>8. \A d \in live : next(d) = c => d # c
  <2>1. SUFFICES ASSUME next(c) = c PROVE FALSE
    OBVIOUS
  <2>2. /\ front # c
        /\ \A d \in live \ {c} : next(d) # c
    BY <1>1, <1>2, <2>1 DEF Listed, ListStraight
  <2>3. /\ front \in (live \ {c}) \cup {NULL}
        /\ \A d \in live \ {c} : next(d) \in (live \ {c}) \cup {NULL}
    BY <1>1, <2>2 DEF Listed, ListClosed
  <2>4. live \subseteq live \ {c}
    BY <1>1, <2>3 DEF Listed, ListReached
  <2> QED BY <1>2, <2>4
<1>9. rest' = next(c) /\ rest' \in live' \cup {NULL}
  BY <1>1, <1>2, <1>5, <1>7, <1>8 DEF Listed, ListClosed
<1>10. IF front = c THEN prev' = NULL ELSE prev' \in live' /\ next(prev') = c
  BY <1>1, <1>3, <1>5, <1>7, <1>8
<1> QED BY <1>2, <1>5, <1>6, <1>9, <1>10

LEMMA DeadFreeListed ==
  ASSUME Control, Heap, DeadFree PROVE Listed'
<1> DEFINE c == at["fthread"]
<1>1. /\ c \in live /\ live' = live \ {c}
      /\ rest' = next(c) /\ rest' \in live' \cup {NULL}
      /\ IF front = c THEN prev' = NULL ELSE prev' \in live' /\ next(prev') = c
  BY DeadFreed
<1>2. /\ Removing /\ ~Relinking /\ Relinking' /\ Removing'
      /\ Listed /\ UNCHANGED <<list, cell>>
  BY DEF DeadFree, At, Step, Removing, Relinking, Heap, Control, TypeOK, Thread
<1>3. live \subseteq Cell /\ NULL \notin live /\ NULL \notin live'
  BY <1>1, ServerThreadsAssumption DEF Control, TypeOK
<1>4. front' = IF prev' = NULL THEN next(c) ELSE front
  BY <1>1, <1>2 DEF front
<1>5. /\ \A d \in live' : next(d)' = IF d = prev' THEN next(c) ELSE next(d)
      /\ prev' # NULL => prev' \in live' /\ next(prev') = c /\ front # c
      /\ prev' = NULL => front = c
  BY <1>1, <1>2, <1>3 DEF next
<1> HIDE DEF c
\* By ListStraight nothing else points to c.
<1>6. /\ \A d \in live' : next(d) = c => d = prev'
      /\ next(c) # c
  BY <1>1, <1>2, <1>3, <1>5 DEF Listed, ListStraight
<1>7. ListClosed'
  <2>1. front' \in live' \cup {NULL}
    BY <1>1, <1>2, <1>4, <1>5 DEF Listed, ListClosed
  <2>2. ASSUME NEW d \in live' PROVE next(d)' \in live' \cup {NULL}
    BY <1>1, <1>2, <1>5, <1>6 DEF Listed, ListClosed
  <2> QED BY <2>1, <2>2 DEF ListClosed
<1>8. ListStraight'
  <2>1. ASSUME NEW d \in live', NEW e \in live', next(d)' = next(e)', next(d)' # NULL PROVE d = e
    BY <1>1, <1>2, <1>5, <1>6, <2>1 DEF Listed, ListStraight
  <2>2. ASSUME NEW d \in live', next(d)' = front', front' # NULL PROVE FALSE
    <3>1. CASE prev' = NULL
      BY <1>1, <1>2, <1>3, <1>4, <1>5, <2>2, <3>1 DEF Listed, ListStraight
    <3>2. CASE prev' # NULL
      BY <1>1, <1>2, <1>3, <1>4, <1>5, <2>2, <3>2 DEF Listed, ListStraight
    <3> QED BY <3>1, <3>2
  <2> QED BY <2>1, <2>2 DEF ListStraight
\* A set that the new pointers stay in is one the old ones stay in, with c added
\* where they pass through it.
<1>9. ASSUME NEW S \in SUBSET live',
             front' \in S \cup {NULL}, \A d \in S : next(d)' \in S \cup {NULL}
      PROVE  live' \subseteq S
  <2>1. ASSUME front = c \/ prev' \in S PROVE live \subseteq S \cup {c}
    <3>1. S \cup {c} \in SUBSET live /\ front \in (S \cup {c}) \cup {NULL}
      BY <1>1, <1>4, <1>5, <1>9
    <3>2. next(c) \in S \cup {NULL}
      BY <1>1, <1>4, <1>5, <1>9, <2>1
    <3>3. ASSUME NEW d \in S PROVE next(d) \in (S \cup {c}) \cup {NULL}
      BY <1>1, <1>3, <1>5, <1>9, <3>2, <3>3
    <3> QED BY <1>2, <3>1, <3>2, <3>3 DEF Listed, ListReached
  <2>2. ASSUME front # c, prev' \notin S PROVE live \subseteq S
    <3>1. S \in SUBSET live /\ front \in S \cup {NULL}
      BY <1>1, <1>3, <1>4, <1>5, <1>9, <2>2
    <3>2. ASSUME NEW d \in S PROVE next(d) \in S \cup {NULL}
      BY <1>5, <1>9, <2>2, <3>2
    <3> QED BY <1>2, <3>1, <3>2 DEF Listed, ListReached
  <2> QED BY <1>1, <2>1, <2>2
<1>10. ListReached'
  BY <1>9 DEF ListReached
<1> QED BY <1>7, <1>8, <1>10 DEF Listed

\* The pointer that was missing is written.
LEMMA DeadRelinkListed ==
  ASSUME Control, Heap, DeadRelink PROVE Listed' /\ UNCHANGED memory
<1>1. /\ Removing /\ Relinking /\ Removing' /\ ~Relinking'
      /\ Listed /\ WalkersAlive
  BY DEF DeadRelink, At, Step, Removing, Relinking, Heap, Control, TypeOK, Thread
<1>2. live' = live /\ live \subseteq Cell /\ NULL \notin live
  BY ServerThreadsAssumption DEF DeadRelink, Control, TypeOK
<1>3. prev \in live \cup {NULL}
  BY <1>1 DEF WalkersAlive
<1>4. UNCHANGED memory
  BY <1>2, <1>3 DEF DeadRelink, Use, memory
<1>5. front' = front
  BY <1>1, <1>2, <1>3 DEF DeadRelink, front
<1>6. ASSUME NEW c \in live PROVE next(c)' = next(c)
  <2>1. CASE prev = NULL
    BY <1>1, <1>2, <2>1 DEF DeadRelink, next
  <2>2. CASE prev # NULL
    BY <1>1, <1>2, <1>3, <2>2 DEF DeadRelink, next, Control, TypeOK
  <2> QED BY <2>1, <2>2
<1> QED BY <1>1, <1>2, <1>4, <1>5, <1>6, ListKept

LEMMA ListedNext ==
  ASSUME Control, Heap, [Next]_vars, section'["fthread"] # "gone" PROVE Listed'
<1> USE DEF control, turn, heap, supp, signals, memory
<1>1. Control'
  BY ControlNext
<1>2. ASSUME section["fthread"] # "gone", live' = live, front' = front, \A c \in live : next(c)' = next(c)
      PROVE  Listed'
  BY <1>2, ListKept DEF Heap
<1>3. ASSUME section["fthread"] # "gone", UNCHANGED <<heap, supp>>,
             Removing' <=> Removing, Relinking' <=> Relinking
      PROVE  Listed'
  BY <1>2, <1>3 DEF front, next
<1>4. ASSUME NEW t \in Thread, Wait(t) \/ Post(t) \/ WalkEnd(t) \/ Walk(t) PROVE Listed'
  <2>1. section["fthread"] # "gone" /\ (Removing' <=> Removing) /\ (Relinking' <=> Relinking)
    BY <1>4 DEF Wait, Post, WalkEnd, Walk, Goto, Step, Removing, Relinking, Control, TypeOK, Thread,
       HashSection, ServerSection, After, Placed, StepIn
  <2> QED BY <1>3, <1>4, <2>1 DEF Wait, Post, WalkEnd, Walk
<1>5. ASSUME \/ \E m \in Received : Receive(m)
             \/ HashRead \/ HashInsert \/ GetDo \/ ShareWait \/ SharePost \/ KnownDo \/ Leave
             \/ Kill \/ Join
             \/ free_avl \/ terminer_processus \/ DefaultAction \/ UNCHANGED vars
      PROVE  Listed'
  <2>1. /\ UNCHANGED <<heap, supp>>
        /\ section'["fthread"] = section["fthread"]
        /\ step'["fthread"] = step["fthread"]
    BY <1>5 DEF Receive, HashRead, HashInsert, GetDo, ShareWait, SharePost, KnownDo, Leave, Kill,
       Join, free_avl, terminer_processus, DefaultAction, vars, Goto, Step, Control, TypeOK, Thread
  <2> QED BY <1>3, <2>1 DEF Removing, Relinking
<1>6. ASSUME init_thread_signal \/ ObsoleteNone \/ ObsoleteDo \/ ObsoleteReturn \/ Wake PROVE Listed'
  <2>1. /\ UNCHANGED <<heap, supp>>
        /\ section["fthread"] # "gone"
        /\ ~Removing /\ ~Relinking /\ ~Removing' /\ ~Relinking'
    BY <1>6 DEF init_thread_signal, ObsoleteNone, ObsoleteDo, ObsoleteReturn, Wake, Goto, Step, At,
       Removing, Relinking, Control, TypeOK, Thread
  <2> QED BY <1>3, <2>1
<1>7. ASSUME KeepDo \/ Tick PROVE Listed'
  <2>1. /\ UNCHANGED <<head, live, supp>>
        /\ section'["fthread"] = section["fthread"]
        /\ step'["fthread"] = step["fthread"]
    BY <1>7 DEF KeepDo, Tick, Step, Control, TypeOK, Thread
  <2>2. ASSUME NEW c \in Cell PROVE cell'[c].next = cell[c].next
    BY <1>7 DEF KeepDo, Tick, Control, TypeOK
  <2>3. front' = front /\ \A c \in live : next(c)' = next(c)
    BY <2>1, <2>2 DEF front, next, Removing, Relinking, Control, TypeOK
  <2> QED BY <1>2, <2>1, <2>3
<1>8. CASE InsertDo
  BY <1>8, InsertListed
<1>9. CASE free_server_tab
  BY <1>9 DEF free_server_tab, At, Control, KilledLast
<1>10. ASSUME DeadDo \/ DeadTest PROVE Listed'
  <2>1. /\ section["fthread"] # "gone"
        /\ ~Relinking /\ ~Relinking' /\ Removing'
        /\ UNCHANGED heap
    BY <1>10 DEF DeadDo, DeadTest, At, Step, Removing, Relinking, Control, TypeOK, Thread
  <2>2. front' = front /\ \A c \in live : next(c)' = next(c)
    BY <1>10, <2>1 DEF DeadDo, DeadTest, At, front, next, Removing
  <2> QED BY <1>2, <2>1, <2>2
<1>11. CASE DeadFree
  BY <1>11, DeadFreeListed
<1>12. CASE DeadRelink
  BY <1>12, DeadRelinkListed
<1>13. CASE DeadReturn
  <2>1. /\ section["fthread"] # "gone"
        /\ ~Relinking /\ ~Relinking' /\ Removing /\ ~Removing'
        /\ live' = live /\ live \subseteq Cell
    BY <1>13 DEF DeadReturn, At, Step, Removing, Relinking, Control, TypeOK, Thread
  <2>2. front' = front /\ \A c \in live : next(c)' = next(c)
    BY <1>13, <2>1 DEF DeadReturn, front, next
  <2> QED BY <1>2, <2>1, <2>2
<1>14. CASE terminer_thread
  BY <1>14 DEF terminer_thread, Goto, Control, TypeOK, Thread
<1> QED
  BY <1>4, <1>5, <1>6, <1>7, <1>8, <1>9, <1>10, <1>11, <1>12, <1>13, <1>14
  DEF Next, main, fthread, Thread

-----------------------------------------------------------------------------
(***************************************************************************)
(* The walks, and what is known of the servers in the list.                *)
(***************************************************************************)
LEMMA WalkersNext ==
  ASSUME Control, Heap, [Next]_vars, section'["fthread"] # "gone" PROVE WalkersAlive'
<1> USE DEF control, turn, heap, supp, signals, memory, Control, Thread, Goto, Step, At
<1>1. Control'
  BY ControlNext
<1>2. /\ section["fthread"] # "gone" => Listed /\ WalkersAlive
      /\ \A c \in live : ~Relinking /\ section["fthread"] # "gone" => cell[c].next \in live \cup {NULL}
      /\ head \in live \cup {NULL} \/ Removing \/ section["fthread"] = "gone"
  BY DEF Heap, Listed, ListClosed, next, front, Relinking, Removing
\* While fthread removes, main walks nowhere but in answer_to_client.
<1>3. ASSUME Removing PROVE step["main"] = "walk" => section["main"] = "get"
  BY <1>3 DEF Removing, TypeOK, Placed, StepIn, MainSection, Locked, Holds, Guard, HashSection,
     ServerSection
<1>4. ASSUME Removing' PROVE step'["main"] = "walk" => section'["main"] = "get"
  BY <1>1, <1>4 DEF Removing, TypeOK, Placed, StepIn, MainSection, Locked, Holds, Guard, HashSection,
     ServerSection
<1>6. ASSUME NEW t \in Thread, Wait(t) PROVE WalkersAlive'
  <2>1. section["fthread"] # "gone" /\ ~(t = "fthread" /\ Removing)
    BY <1>6 DEF Wait, Placed, StepIn, HashSection, ServerSection, Removing
  <2>2. CASE section[t] \in {"tell", "keeps"}
    BY <1>2, <1>3, <1>4, <1>6, <2>1, <2>2 DEF Wait, WalkersAlive, Removing, Relinking, TypeOK
  <2>3. CASE section[t] \notin {"tell", "keeps"}
    BY <1>2, <1>6, <2>1, <2>3 DEF Wait, WalkersAlive, Removing, Relinking, TypeOK
  <2> QED BY <2>2, <2>3
<1>7. ASSUME NEW t \in Thread, Post(t) \/ WalkEnd(t) PROVE WalkersAlive'
  BY <1>2, <1>7 DEF Post, WalkEnd, WalkersAlive, Removing, Relinking, TypeOK, After, HashSection,
     ServerSection, Placed, StepIn
<1>8. ASSUME NEW t \in Thread, Walk(t) PROVE WalkersAlive'
  <2>1. /\ section["fthread"] # "gone"
        /\ ~(t = "fthread" /\ Removing)
        /\ UNCHANGED <<control, heap, supp>>
    BY <1>8 DEF Walk, Placed, StepIn, Removing
  <2>2. at[t] \in live /\ ~Removing => at'[t] \in live \cup {NULL}
    BY <1>2, <1>8, <2>1 DEF Walk, Relinking, Removing, TypeOK
  <2>3. \A u \in Thread : u # t => at'[u] = at[u]
    BY <1>8 DEF Walk, TypeOK
  <2>4. section[t] # "get" => at[t] \in live
    BY <1>2, <1>8, <2>1 DEF Walk, WalkersAlive
  <2> QED BY <1>2, <1>3, <1>8, <2>1, <2>2, <2>3, <2>4 DEF Walk, WalkersAlive, Removing, Relinking,
     TypeOK
<1>9. ASSUME \/ \E m \in Received : Receive(m)
             \/ HashRead \/ HashInsert \/ SharePost \/ KnownDo \/ Leave \/ Kill \/ Join \/ free_avl
             \/ KeepDo \/ InsertDo
      PROVE  WalkersAlive'
  <2>1. /\ UNCHANGED <<at, supp>> /\ live \subseteq live'
        /\ section'["fthread"] = section["fthread"] /\ step'["fthread"] = step["fthread"]
        /\ step'["main"] # "walk"
    BY <1>9 DEF Receive, HashRead, HashInsert, SharePost, KnownDo, Leave, Kill, Join, free_avl,
       KeepDo, InsertDo, TypeOK
  <2>2. Removing => UNCHANGED cell
    BY <1>9, Alone DEF Receive, HashRead, HashInsert, SharePost, KnownDo, Leave, Kill, Join, free_avl,
       KeepDo, InsertDo, ServerSection
  <2> QED BY <1>2, <2>1, <2>2 DEF WalkersAlive, Removing, Relinking
<1>10. ASSUME GetDo PROVE WalkersAlive'
  BY <1>2, <1>10 DEF GetDo, WalkersAlive, Removing, Relinking, TypeOK
<1>11. ASSUME ShareWait PROVE WalkersAlive'
  <2>1. ~Removing /\ section["fthread"] # "gone"
    BY <1>11, Alone DEF ShareWait, ServerSection
  <2> QED BY <1>2, <1>11, <2>1 DEF ShareWait, WalkersAlive, Removing, Relinking, TypeOK
<1>12. ASSUME free_server_tab PROVE WalkersAlive'
  BY <1>12 DEF free_server_tab, KilledLast
<1>13. ASSUME init_thread_signal \/ ObsoleteNone \/ ObsoleteDo \/ ObsoleteReturn \/ Wake \/ DeadReturn
       PROVE  WalkersAlive'
  <2>1. /\ section["fthread"] # "gone" /\ ~Removing' /\ step'["fthread"] # "walk"
        /\ UNCHANGED <<at, live>>
        /\ section'["main"] = section["main"] /\ step'["main"] = step["main"]
    BY <1>13 DEF init_thread_signal, ObsoleteNone, ObsoleteDo, ObsoleteReturn, Wake, DeadReturn,
       TypeOK, Removing
  <2> QED BY <1>2, <2>1 DEF WalkersAlive, Removing, Relinking
<1>14. ASSUME DeadDo PROVE WalkersAlive'
  BY <1>2, <1>4, <1>14 DEF DeadDo, WalkersAlive, Removing, Relinking, TypeOK
<1>15. ASSUME DeadTest PROVE WalkersAlive'
  <2>1. /\ Removing /\ ~Relinking /\ Removing' /\ ~Relinking' /\ section["fthread"] # "gone"
        /\ at["fthread"] \in live
    BY <1>2, <1>15 DEF DeadTest, Removing, Relinking, TypeOK, WalkersAlive
  <2> QED BY <1>2, <1>4, <1>15, <2>1 DEF DeadTest, WalkersAlive, TypeOK, Relinking
<1>16. ASSUME DeadFree PROVE WalkersAlive'
  <2>1. /\ Removing /\ ~Relinking /\ Removing' /\ Relinking' /\ section["fthread"] # "gone"
    BY <1>16 DEF DeadFree, Removing, Relinking, TypeOK
  <2>2. /\ live' = live \ {at["fthread"]}
        /\ rest' = next(at["fthread"]) /\ rest' \in live' \cup {NULL}
        /\ prev' \in live' \cup {NULL}
    BY <1>16, DeadFreed
  <2>3. tmp' = rest'
    BY <1>2, <1>16, <2>1, <2>2 DEF DeadFree, WalkersAlive, next
  <2> QED BY <1>4, <1>16, <2>1, <2>2, <2>3 DEF DeadFree, WalkersAlive, TypeOK, Relinking
<1>17. ASSUME DeadRelink PROVE WalkersAlive'
  BY <1>2, <1>4, <1>17 DEF DeadRelink, WalkersAlive, Removing, Relinking, TypeOK
<1>18. ASSUME terminer_processus \/ DefaultAction \/ Tick \/ UNCHANGED vars PROVE WalkersAlive'
  <2>1. /\ UNCHANGED <<at, live, control, supp>> /\ section["fthread"] # "gone"
        /\ \A c \in Cell : cell'[c].next = cell[c].next
    BY <1>18 DEF terminer_processus, DefaultAction, Tick, vars, TypeOK
  <2> QED BY <1>2, <2>1 DEF WalkersAlive, Removing, Relinking, TypeOK
<1>19. CASE terminer_thread
  BY <1>19 DEF terminer_thread, TypeOK
<1> QED
  BY <1>6, <1>7, <1>8, <1>9, <1>10, <1>11, <1>12, <1>13, <1>14, <1>15, <1>16, <1>17, <1>18, <1>19
  DEF Next, main, fthread

\* Elements are inserted only by main, and what is allocated keeps its server.
LEMMA SameServers ==
  ASSUME Control, Heap, [Next]_vars, ~InsertDo
  PROVE  live' \subseteq live /\ \A c \in live' : cell'[c].server = cell[c].server
<1> USE DEF Control, TypeOK, control, turn, heap, supp, signals, memory
<1>1. ASSUME UNCHANGED heap
      PROVE  live' \subseteq live /\ \A c \in live' : cell'[c].server = cell[c].server
  BY <1>1
<1>2. CASE KeepDo \/ Tick
  BY <1>2 DEF KeepDo, Tick
<1>3. CASE free_server_tab
  BY <1>3 DEF free_server_tab
<1>4. CASE DeadFree
  BY <1>4 DEF DeadFree
<1>5. CASE DeadRelink
  BY <1>5 DEF DeadRelink
<1>6. CASE DeadReturn
  BY <1>6 DEF DeadReturn
<1>7. ASSUME NEW t \in Thread, Wait(t) \/ Post(t) \/ Walk(t) \/ WalkEnd(t) PROVE UNCHANGED heap
  BY <1>7 DEF Wait, Post, Walk, WalkEnd
<1>8. ASSUME \/ \E m \in Received : Receive(m)
             \/ HashRead \/ HashInsert \/ GetDo \/ ShareWait \/ SharePost \/ KnownDo
             \/ Leave \/ Kill \/ Join \/ free_avl
      PROVE  UNCHANGED heap
  BY <1>8 DEF Receive, HashRead, HashInsert, GetDo, ShareWait, SharePost, KnownDo, Leave, Kill, Join,
     free_avl
<1>9. ASSUME \/ init_thread_signal \/ DeadDo \/ DeadTest \/ ObsoleteNone \/ ObsoleteDo \/ ObsoleteReturn \/ Wake
             \/ terminer_thread \/ DefaultAction \/ terminer_processus \/ UNCHANGED vars
      PROVE  UNCHANGED heap
  BY <1>9 DEF init_thread_signal, DeadDo, DeadTest, ObsoleteNone, ObsoleteDo, ObsoleteReturn, Wake,
     terminer_thread, DefaultAction, terminer_processus, vars
<1> QED
  BY <1>1, <1>2, <1>3, <1>4, <1>5, <1>6, <1>7, <1>8, <1>9 DEF Next, main, fthread, Thread

LEMMA OnePerServerNext ==
  ASSUME Control, Heap, [Next]_vars PROVE OnePerServer'
<1>1. CASE InsertDo
  <2>1. PICK c \in Cell \ live :
           /\ cell' = [cell EXCEPT ![c] = [server |-> msg.from, age |-> 0, next |-> head]]
           /\ live' = live \cup {c}
    BY <1>1 DEF InsertDo
  <2>2. \A d \in live : cell[d].server # msg.from
    BY <1>1 DEF InsertDo, At, Heap, StillUnknown
  <2>3. cell'[c].server = msg.from /\ \A d \in live : cell'[d].server = cell[d].server
    BY <2>1 DEF Control, TypeOK
  <2> QED BY <2>1, <2>2, <2>3 DEF OnePerServer, Heap
<1>2. CASE ~InsertDo
  BY <1>2, SameServers DEF OnePerServer, Heap
<1> QED BY <1>1, <1>2

LEMMA StillUnknownNext ==
  ASSUME Control, Heap, [Next]_vars PROVE StillUnknown'
<1> USE DEF Control, control, turn, heap, supp, signals, memory, Thread, Goto, Step, At
<1>1. ASSUME StillUnknown, ~InsertDo, msg' = msg,
             section'["main"] = section["main"], step'["main"] = step["main"], connue' = connue
      PROVE  StillUnknown'
  BY <1>1, SameServers DEF StillUnknown
<1>2. ASSUME NEW t \in Thread, Wait(t) \/ Walk(t) \/ WalkEnd(t) PROVE StillUnknown'
  BY <1>2 DEF Wait, Walk, WalkEnd, StillUnknown, Heap, TypeOK, Placed, StepIn
<1>3. ASSUME NEW t \in Thread, Post(t) PROVE StillUnknown'
  BY <1>3 DEF Post, StillUnknown, Heap, TypeOK, Placed, StepIn, After, HashSection, ServerSection,
     FthreadSection
<1>4. ASSUME NEW m \in Received, Receive(m) PROVE StillUnknown'
  BY <1>4 DEF Receive, Branch, StillUnknown, TypeOK, Received
<1>5. ASSUME HashRead \/ HashInsert \/ GetDo \/ ShareWait \/ SharePost \/ KeepDo \/ InsertDo
             \/ Leave \/ Kill \/ Join \/ free_avl \/ free_server_tab
      PROVE  StillUnknown'
  BY <1>5 DEF HashRead, HashInsert, GetDo, ShareWait, SharePost, KeepDo, InsertDo, Leave, Kill, Join,
     free_avl, free_server_tab, StillUnknown, TypeOK
<1>6. ASSUME KnownDo PROVE StillUnknown'
  <2>1. Chain(head) = live
    BY <1>6, Alone DEF KnownDo, ServerSection
  <2>2. connue' <=> \E c \in live : cell[c].server = msg.from
    BY <1>6, <2>1 DEF KnownDo, is_known
  <2> QED BY <1>6, <2>2 DEF KnownDo, StillUnknown, TypeOK
<1>7. ASSUME \/ fthread /\ ~(\E t \in Thread : Wait(t) \/ Post(t) \/ Walk(t) \/ WalkEnd(t))
             \/ terminer_processus \/ Tick \/ UNCHANGED vars
      PROVE  StillUnknown'
  <2>1. /\ UNCHANGED turn
        /\ section'["main"] = section["main"] /\ step'["main"] = step["main"]
    BY <1>7 DEF fthread, init_thread_signal, DeadDo, DeadTest, DeadFree, DeadRelink, DeadReturn,
       ObsoleteNone, ObsoleteDo, ObsoleteReturn, Wake, terminer_thread, DefaultAction,
       terminer_processus, Tick, vars, TypeOK
  <2>2. ~InsertDo
    BY <1>7 DEF fthread, init_thread_signal, DeadDo, DeadTest, DeadFree, DeadRelink, DeadReturn,
       ObsoleteNone, ObsoleteDo, ObsoleteReturn, Wake, terminer_thread, DefaultAction,
       terminer_processus, Tick, vars, InsertDo, TypeOK
  <2> QED BY <1>1, <2>1, <2>2 DEF Heap
<1> QED
  BY <1>2, <1>3, <1>4, <1>5, <1>6, <1>7 DEF Next, main

\* main meets no torn tree: fthread leaves it torn only inside its section,
\* or when it is killed there.
LEMMA TreeNext ==
  ASSUME Control, Heap, [Next]_vars PROVE TreeTorn'
<1> USE DEF Control, control, turn, heap, supp, signals, memory, Thread, Goto, Step, At
<1>1. CASE ObsoleteNone \/ ObsoleteDo \/ ObsoleteReturn
  BY <1>1 DEF ObsoleteNone, ObsoleteDo, ObsoleteReturn, Heap, TreeTorn, TypeOK
<1>2. ASSUME tree' = "torn" => tree = "torn",
             \/ section'["fthread"] = section["fthread"] /\ step'["fthread"] = step["fthread"]
             \/ /\ ~(section["fthread"] = "obsolete" /\ step["fthread"] \in {"balance", "return"})
                /\ section["fthread"] # "gone"
             \/ section'["fthread"] = "gone"
      PROVE  TreeTorn'
  BY <1>2 DEF Heap, TreeTorn
<1>3. ASSUME NEW t \in Thread, Wait(t) \/ Post(t) \/ Walk(t) \/ WalkEnd(t) PROVE TreeTorn'
  BY <1>2, <1>3 DEF Wait, Post, Walk, WalkEnd, TypeOK, Placed, StepIn, HashSection, ServerSection
<1>4. ASSUME \/ \E m \in Received : Receive(m)
             \/ HashRead \/ HashInsert \/ GetDo \/ ShareWait \/ SharePost \/ KnownDo \/ InsertDo
             \/ KeepDo
             \/ Leave \/ Kill \/ Join \/ free_avl \/ free_server_tab
             \/ terminer_processus \/ Tick \/ DefaultAction \/ UNCHANGED vars
      PROVE  TreeTorn'
  BY <1>2, <1>4 DEF Receive, HashRead, HashInsert, GetDo, ShareWait, SharePost, KnownDo, InsertDo,
     KeepDo, Leave, Kill, Join, free_avl, free_server_tab, terminer_processus, Tick, DefaultAction,
     vars, Entered, TypeOK
<1>5. ASSUME \/ init_thread_signal \/ DeadDo \/ DeadTest \/ DeadFree \/ DeadRelink \/ DeadReturn
             \/ Wake \/ terminer_thread
      PROVE  TreeTorn'
  BY <1>2, <1>5 DEF init_thread_signal, DeadDo, DeadTest, DeadFree, DeadRelink, DeadReturn, Wake,
     terminer_thread, TypeOK
<1> QED BY <1>1, <1>3, <1>4, <1>5 DEF Next, main, fthread

LEMMA GuardedNext ==
  ASSUME Control, Heap, [Next]_vars PROVE GuardedIsSafe'
<1> USE DEF Control, control, turn, heap, supp, signals, memory, Thread, Goto, Step, At
<1>1. ASSUME bad' = bad \/ bad' \subseteq bad \cup {"get", "free_avl", "free_server_tab"}
      PROVE  GuardedIsSafe'
  BY <1>1 DEF Heap, GuardedIsSafe
<1>2. ASSUME NEW t \in Thread, Walk(t) PROVE GuardedIsSafe'
  <2>1. section["fthread"] # "gone" \/ section[t] = "get"
    BY <1>2 DEF Walk, TypeOK, Placed, StepIn, KilledLast
  <2>2. section[t] = "get" \/ at[t] \in live
    BY <1>2, <2>1 DEF Walk, Heap, WalkersAlive
  <2> QED BY <1>1, <1>2, <2>2 DEF Walk, Use
<1>3. CASE HashRead \/ HashInsert
  <2>1. tree # "torn"
    BY <1>3 DEF HashRead, HashInsert, Heap, TreeTorn, TypeOK, Locked, Holds, Guard, HashSection,
       ServerSection, KilledLast
  <2> QED BY <1>1, <1>3, <2>1 DEF HashRead, HashInsert, Use
<1>4. CASE KnownDo \/ KeepDo
  <2>1. Chain(head) = live
    BY <1>4, Alone DEF KnownDo, KeepDo, ServerSection
  <2> QED BY <1>1, <1>4, <2>1 DEF KnownDo, KeepDo, Use
<1>5. CASE GetDo \/ free_avl \/ free_server_tab
  BY <1>1, <1>5 DEF GetDo, free_avl, free_server_tab, Use
<1>6. CASE DeadTest
  <2>1. at["fthread"] \in live
    BY <1>6 DEF DeadTest, Heap, WalkersAlive, Removing, Relinking
  <2> QED BY <1>1, <1>6, <2>1 DEF DeadTest, Use
<1>7. CASE DeadFree
  BY <1>1, <1>7, DeadFreed
<1>8. CASE DeadRelink
  BY <1>1, <1>8, DeadRelinkListed
<1>9. ASSUME NEW t \in Thread, Wait(t) \/ Post(t) \/ WalkEnd(t) PROVE GuardedIsSafe'
  BY <1>1, <1>9 DEF Wait, Post, WalkEnd
<1>10. ASSUME \/ \E m \in Received : Receive(m)
              \/ ShareWait \/ SharePost \/ InsertDo \/ Leave \/ Kill \/ Join
              \/ init_thread_signal \/ DeadDo \/ DeadReturn \/ ObsoleteNone \/ ObsoleteDo
              \/ ObsoleteReturn \/ Wake
              \/ terminer_thread \/ DefaultAction \/ terminer_processus \/ Tick \/ UNCHANGED vars
       PROVE  bad' = bad
  BY <1>10 DEF Receive, ShareWait, SharePost, InsertDo, Leave, Kill, Join, init_thread_signal, DeadDo,
     DeadReturn, ObsoleteNone, ObsoleteDo, ObsoleteReturn, Wake, terminer_thread, DefaultAction,
     terminer_processus, Tick, vars
<1> QED
  BY <1>1, <1>2, <1>3, <1>4, <1>5, <1>6, <1>7, <1>8, <1>9, <1>10 DEF Next, main, fthread

LEMMA HeapInit == Init => Heap
<1> SUFFICES ASSUME Init PROVE Heap
  OBVIOUS
<1>1. /\ live = {} /\ head = NULL /\ ~Removing /\ ~Relinking
      /\ section["main"] = "receive" /\ section["fthread"] = "init"
      /\ \A t \in Thread : step[t] = "wait"
  BY DEF Init, Removing, Relinking
<1>2. Listed /\ WalkersAlive
  BY <1>1 DEF Listed, ListClosed, ListReached, ListStraight, WalkersAlive, front
<1> QED
  BY <1>1, <1>2 DEF Init, Heap, OnePerServer, StillUnknown, TreeTorn, GuardedIsSafe

LEMMA HeapNext == Control /\ Heap /\ [Next]_vars => Heap'
BY ListedNext, WalkersNext, OnePerServerNext, StillUnknownNext, TreeNext, GuardedNext DEF Heap

LEMMA Invariance == Spec => [](Control /\ Heap)
<1>1. Init => Control /\ Heap
  BY ControlInit, HeapInit
<1>2. (Control /\ Heap) /\ [Next]_vars => (Control /\ Heap)'
  BY ControlNext, HeapNext
<1> QED BY <1>1, <1>2, PTL DEF Spec

-----------------------------------------------------------------------------
\* The variables have their types; no semaphore is ever above one.
THEOREM ThreadTypes == Spec => []TypeOK
<1>1. Control /\ Heap => TypeOK
  BY DEF Control
<1> QED BY <1>1, Invariance, PTL

\* The semaphores of the code keep the threads apart wherever they are taken.
THEOREM ThreadsExclude == Spec => []MutualExclusion
<1>1. Control /\ Heap => MutualExclusion
  BY DEF Control, TypeOK, Placed, StepIn, Locked, Holds, Guard, HashSection, ServerSection,
     MutualExclusion, Inside, Touches, MainSection, FthreadSection, Thread
<1> QED BY <1>1, Invariance, PTL

\* No server is twice in the list, whatever falls between is_known and
\* insert_server, and no element is lost from it.
THEOREM ListHasEachOnce == Spec => []EachPeerOnce
<1>1. Control /\ Heap => EachPeerOnce
  <2> SUFFICES ASSUME Control, Heap PROVE EachPeerOnce
    OBVIOUS
  <2>1. ASSUME section["fthread"] \notin {"dead", "gone"} PROVE live \subseteq Chain(head)
    <3>1. front = head /\ ~Relinking /\ Listed
      BY <2>1 DEF front, Removing, Relinking, Heap
    <3> QED BY <3>1, ChainIsLive DEF Listed
  <2> QED BY <2>1 DEF EachPeerOnce, Heap, OnePerServer
<1> QED BY <1>1, Invariance, PTL

\* Sections that take the semaphores never use memory that was freed.
THEOREM GuardedSectionsAreSafe == Spec => []GuardedIsSafe
<1>1. Control /\ Heap => GuardedIsSafe
  BY DEF Heap
<1> QED BY <1>1, Invariance, PTL

-----------------------------------------------------------------------------
(***************************************************************************)
(* Waiting.                                                                *)
(***************************************************************************)
\* A semaphore that is taken was taken by a thread that still has it, unless
\* fthread was ended within a section.
Taken ==
  section["fthread"] # "gone" =>
    \A x \in {"server", "hash"} : sem[x] = 0 => \E t \in Thread : Holds(t, x)

LEMMA TakenNext == Control /\ Taken /\ [Next]_vars => Taken'
<1> SUFFICES ASSUME Control, Taken, [Next]_vars PROVE Taken'
  OBVIOUS
<1>1. Control' /\ TypeOK /\ Placed /\ Locked
  BY ControlNext DEF Control
<1> USE DEF control, turn, heap, supp, signals, memory, Goto, Step, At, Thread
<1>2. ASSUME NEW t \in Thread, Wait(t) PROVE Taken'
  BY <1>1, <1>2 DEF Wait, sem_wait, Placed, StepIn, MainSection, FthreadSection, Taken, Holds,
     Guard, HashSection, ServerSection, TypeOK
<1>3. ASSUME NEW t \in Thread, Post(t) PROVE Taken'
  BY <1>1, <1>3 DEF Post, sem_post, After, Placed, StepIn, MainSection, FthreadSection, Taken, Holds,
     Guard, HashSection, ServerSection, TypeOK
<1>4. ASSUME ShareWait \/ SharePost PROVE Taken'
  BY <1>1, <1>4 DEF ShareWait, SharePost, sem_wait, sem_post, Placed, StepIn, MainSection,
     FthreadSection, Taken, Holds, Guard, HashSection, ServerSection, TypeOK
<1>5. ASSUME UNCHANGED <<control, sem>> PROVE Taken'
  BY <1>5 DEF Taken, Holds
<1>6. ASSUME NEW t \in Thread, NEW i, Step(t, i), UNCHANGED sem, i # "wait",
             section[t] # "share"
      PROVE Taken'
  BY <1>1, <1>6 DEF TypeOK, Taken, Holds
<1>7. ASSUME NEW t \in Thread, Walk(t) \/ WalkEnd(t) PROVE Taken'
  BY <1>1, <1>7 DEF Walk, WalkEnd, Placed, StepIn, MainSection, FthreadSection, Taken, Holds,
     Guard, HashSection, ServerSection, TypeOK
<1>8. ASSUME NEW m \in Received, Receive(m) PROVE Taken'
  BY <1>1, <1>8 DEF Receive, Branch, Received, Placed, StepIn, MainSection, FthreadSection, Taken,
     Holds, Guard, HashSection, ServerSection, TypeOK
<1>9. ASSUME HashRead \/ HashInsert \/ GetDo \/ KnownDo \/ InsertDo \/ KeepDo PROVE Taken'
  BY <1>6, <1>9 DEF HashRead, HashInsert, GetDo, KnownDo, InsertDo, KeepDo
<1>10. ASSUME Leave \/ Kill \/ Join \/ free_avl PROVE Taken'
  BY <1>1, <1>10 DEF Leave, Kill, Join, free_avl, Placed, StepIn, MainSection, Taken, Holds,
     HashSection, ServerSection, TypeOK
<1>11. ASSUME DeadDo \/ DeadFree \/ DeadRelink \/ DeadReturn \/ ObsoleteNone \/ ObsoleteDo \/ ObsoleteReturn
       PROVE Taken'
  BY <1>6, <1>11 DEF DeadDo, DeadFree, DeadRelink, DeadReturn, ObsoleteNone, ObsoleteDo, ObsoleteReturn
<1>12. ASSUME DeadTest PROVE Taken'
  BY <1>5, <1>6, <1>12 DEF DeadTest
<1>13. ASSUME init_thread_signal \/ Wake \/ terminer_thread PROVE Taken'
  BY <1>1, <1>13 DEF init_thread_signal, Wake, terminer_thread, Placed, StepIn, FthreadSection,
     Taken, Holds, HashSection, ServerSection, TypeOK
<1>14. ASSUME free_server_tab \/ terminer_processus \/ DefaultAction \/ Tick \/ UNCHANGED vars
       PROVE Taken'
  BY <1>5, <1>14 DEF free_server_tab, terminer_processus, DefaultAction, Tick, vars
<1> QED
  BY <1>2, <1>3, <1>4, <1>7, <1>8, <1>9, <1>10, <1>11, <1>12, <1>13, <1>14
  DEF Next, main, fthread

\* Whoever waits for a semaphore waits for the other thread, which has it and
\* waits for nothing: no order of the steps of the two threads, with signals at
\* any point, lets them wait for each other for ever.
THEOREM ThreadsNeverWaitInCircle == Spec => []NoCircularWait
<1>1. Init => Control /\ Taken
  <2>1. Init => Taken
    BY DEF Init, Taken
  <2> QED BY <2>1, ControlInit
<1>2. Control /\ Taken /\ [Next]_vars => (Control /\ Taken)'
  BY ControlNext, TakenNext
<1>3. Control /\ Taken => NoCircularWait
  <2> SUFFICES ASSUME Control, Taken, NEW t \in Thread, NEW x \in DOMAIN sem, Blocked(t, x)
      PROVE  \E u \in Thread \ {t} : Holds(u, x) /\ \A y \in DOMAIN sem : ~Blocked(u, y)
    BY DEF NoCircularWait
  <2>1. x \in {"server", "hash"} /\ DOMAIN sem = {"server", "hash"} /\ sem[x] = 0
    BY DEF Control, TypeOK, Blocked
  <2>2. section["fthread"] # "gone"
    BY DEF Control, KilledLast, Placed, StepIn, MainSection, FthreadSection, Blocked, At,
       HashSection, ServerSection, Thread
  <2>3. PICK u \in Thread : Holds(u, x)
    BY <2>1, <2>2 DEF Taken
  <2>4. u # t
    BY <2>3 DEF Blocked, Holds, At, Guard, HashSection, ServerSection
  <2>5. ASSUME NEW y \in DOMAIN sem, Blocked(u, y) PROVE FALSE
    <3>1. section[u] = "share" /\ step[u] = "wait_hash" /\ y = "hash" /\ x = "server" /\ sem["hash"] = 0
      BY <2>3, <2>5 DEF Blocked, Holds, At, Guard, HashSection, ServerSection
    <3>2. u = "main" /\ t = "fthread"
      BY <2>4, <3>1 DEF Control, Placed, FthreadSection, Thread
    <3>3. Holds("main", "hash") \/ Holds("fthread", "hash")
      BY <2>2, <3>1 DEF Taken, Thread
    <3>4. ~Holds("main", "hash")
      BY <3>1, <3>2 DEF Holds, Guard, HashSection
    <3>5. step["fthread"] = "wait"
      BY <3>2 DEF Blocked, At, Control, Placed, FthreadSection
    <3>6. ~Holds("fthread", "hash")
      BY <3>5 DEF Holds
    <3> QED BY <3>3, <3>4, <3>6
  <2> QED BY <2>3, <2>4, <2>5
<1> QED BY <1>1, <1>2, <1>3, PTL DEF Spec
=============================================================================
