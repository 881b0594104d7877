----------------------- MODULE ServerThreadsRefinement -----------------------
(***************************************************************************)
(* The two threads implement ServerTable, for any servers and any memory:  *)
(* what the list holds changes only by whole operations on a map, also     *)
(* while a removal is under way and after fthread was killed within one.   *)
(***************************************************************************)
EXTENDS ServerThreadsProofs

(***************************************************************************)
(* The inductive invariant, part three: a call of suppression_dead_server  *)
(* that is under way.                                                      *)
(***************************************************************************)
\* The list as server_table has it is the allocated elements, but for those that
\* are doomed.
ThereIsLive == process = "runs" => Chain(head) \ doomed = live \ doomed

\* The pointer the loop goes on with.
onward == IF Relinking THEN tmp ELSE at["fthread"]

\* What is doomed and not yet freed is still in front of the loop.
DoomedAhead ==
  \A S \in SUBSET live :
    onward \in S \cup {NULL} /\ (\A c \in S : next(c) \in S \cup {NULL}) =>
      doomed \cap live \subseteq S

\* The element that is freed and not yet bypassed.
Bypassing ==
  /\ at["fthread"] \in doomed \ live
  /\ cell[at["fthread"]].next = rest
  /\ prev # NULL => cell[prev].next = at["fthread"]

Removal ==
  /\ ThereIsLive
  /\ section["fthread"] # "gone" =>
       /\ ~Removing => doomed = {}
       /\ Removing => DoomedAhead
       /\ Removing /\ step["fthread"] = "free" => at["fthread"] \in doomed
       /\ Relinking => Bypassing

-----------------------------------------------------------------------------
LEMMA StepRuns == [Next]_vars => process = "runs" \/ UNCHANGED vars
BY DEF Next, main, fthread

LEMMA ChainOutside ==
  Control /\ ListClosed /\ ListReached /\ ~Removing => Chain(head) = live
<1>1. ~Removing => ~Relinking /\ front = head
  BY DEF Removing, Relinking, front
<1> QED BY <1>1, ChainIsLive

\* The same of the next state.
LEMMA ChainOutsideNext ==
  (Control /\ ListClosed /\ ListReached /\ ~Removing => Chain(head) = live)'
BY ChainOutside, PTL

LEMMA ChainIsLiveNext ==
  ASSUME Control, Heap, [Next]_vars, section'["fthread"] # "gone", ~Removing'
  PROVE  Chain(head)' = live'
<1>1. Control' /\ Listed'
  BY ControlNext, ListedNext
<1>2. ListClosed' /\ ListReached'
  BY <1>1 DEF Listed
<1> QED BY <1>1, <1>2, ChainOutsideNext

\* Dates are not pointers.
LEMMA ChainKept ==
  ASSUME head' = head, \A c \in Cell : cell'[c].next = cell[c].next
  PROVE  Chain(head)' = Chain(head)
<1>1. ASSUME NEW S \in SUBSET Cell PROVE Closed(S, head)' <=> Closed(S, head)
  BY DEF Closed
<1> QED BY <1>1 DEF Chain

\* Bypassing a freed element takes it out of the list and nothing else.
LEMMA ChainBypassed ==
  ASSUME Control, Heap, Removal, DeadRelink, process = "runs"
  PROVE  Chain(head)' \ doomed = Chain(head) \ doomed
<1> DEFINE c == at["fthread"]
<1>1. /\ Relinking /\ WalkersAlive /\ Bypassing
  BY DEF DeadRelink, At, Relinking, Removing, Heap, Removal
<1>2. /\ c \in doomed /\ c \in Cell /\ c # prev
      /\ cell[c].next = rest
      /\ prev # NULL => cell[prev].next = c /\ prev \in Cell
      /\ NULL \notin Cell /\ head' = head
  BY <1>1, ServerThreadsAssumption DEF WalkersAlive, Bypassing, DeadRelink, Control, TypeOK
<1>3. ASSUME prev = NULL PROVE Chain(head)' = Chain(head)
  BY <1>2, <1>3, ChainKept DEF DeadRelink
<1>4. ASSUME prev # NULL PROVE \A d \in Cell : cell'[d].next = IF d = prev THEN rest ELSE cell[d].next
  BY <1>2, <1>4 DEF DeadRelink, Control, TypeOK
<1> HIDE DEF c
<1>5. ASSUME prev # NULL, NEW S \in SUBSET Cell, Closed(S, head) PROVE Closed(S, head)'
  BY <1>2, <1>4, <1>5 DEF Closed
<1>6. ASSUME prev # NULL, NEW S \in SUBSET Cell, Closed(S, head)'
      PROVE  Closed(S, head) \/ Closed(S \cup {c}, head)
  <2>1. CASE prev \in S
    BY <1>2, <1>4, <1>6, <2>1 DEF Closed
  <2>2. CASE prev \notin S
    BY <1>2, <1>4, <1>6, <2>2 DEF Closed
  <2> QED BY <2>1, <2>2
<1>7. ASSUME prev # NULL PROVE Chain(head)' \subseteq Chain(head) /\ Chain(head) \subseteq Chain(head)' \cup {c}
  <2>1. ASSUME NEW d \in Chain(head)' PROVE d \in Chain(head)
    BY <1>5, <1>7, <2>1 DEF Chain
  <2>2. ASSUME NEW d \in Chain(head), d # c PROVE d \in Chain(head)'
    <3>1. ASSUME NEW S \in SUBSET Cell, Closed(S, head)' PROVE d \in S
      <4>1. S \cup {c} \in SUBSET Cell
        BY <1>2
      <4> QED BY <1>6, <1>7, <2>2, <3>1, <4>1 DEF Chain
    <3> QED BY <2>2, <3>1 DEF Chain
  <2> QED BY <2>1, <2>2
<1> QED BY <1>2, <1>3, <1>7

\* The steps that leave the list and the removal alone.
Aside ==
  \/ \E t \in Thread : Wait(t) \/ Post(t) \/ Walk(t) \/ WalkEnd(t)
  \/ \E m \in Received : Receive(m)
  \/ HashRead \/ HashInsert \/ GetDo \/ ShareWait \/ SharePost \/ KnownDo \/ Leave \/ Kill
  \/ Join \/ free_avl
  \/ init_thread_signal \/ ObsoleteNone \/ ObsoleteDo \/ ObsoleteReturn \/ Wake
  \/ terminer_processus \/ DefaultAction \/ UNCHANGED vars

LEMMA AsideKeeps ==
  ASSUME Control, Aside
  PROVE  /\ UNCHANGED <<heap, supp, call>>
         /\ section'["fthread"] = "gone" <=> section["fthread"] = "gone"
         /\ (Removing' <=> Removing) /\ (Relinking' <=> Relinking)
         /\ Removing => UNCHANGED <<at["fthread"], step["fthread"]>>
<1> USE DEF Control, TypeOK, Thread, Goto, Step, At, heap, supp, control, turn, memory, signals,
            Removing, Relinking
<1>1. CASE \E t \in Thread : Wait(t) \/ Post(t) \/ Walk(t) \/ WalkEnd(t)
  BY <1>1 DEF Wait, Post, Walk, WalkEnd, After, HashSection, ServerSection, Placed, StepIn
<1>2. CASE \E m \in Received : Receive(m)
  BY <1>2 DEF Receive
<1>3. CASE \/ HashRead \/ HashInsert \/ GetDo \/ ShareWait \/ SharePost \/ KnownDo \/ Leave \/ Kill \/ Join \/ free_avl
  BY <1>3 DEF HashRead, HashInsert, GetDo, ShareWait, SharePost, KnownDo, Leave, Kill, Join, free_avl
<1>4. CASE init_thread_signal \/ ObsoleteNone \/ ObsoleteDo \/ ObsoleteReturn \/ Wake
  BY <1>4 DEF init_thread_signal, ObsoleteNone, ObsoleteDo, ObsoleteReturn, Wake
<1>5. CASE terminer_processus \/ DefaultAction \/ UNCHANGED vars
  BY <1>5 DEF terminer_processus, DefaultAction, vars
<1> QED BY <1>1, <1>2, <1>3, <1>4, <1>5 DEF Aside

LEMMA NextSplit ==
  [Next]_vars =>
    \/ Aside
    \/ process = "runs" /\ ( \/ InsertDo \/ KeepDo \/ Tick \/ free_server_tab \/ terminer_thread
                             \/ DeadDo \/ DeadTest \/ DeadFree \/ DeadRelink \/ DeadReturn )
BY DEF Next, main, fthread, Aside, Thread

LEMMA RemovalInit == Init => Removal
<1>1. ASSUME Init PROVE Chain(head) = {}
  <2>1. Closed({}, head)
    BY <1>1 DEF Init, Closed
  <2> QED BY <2>1 DEF Chain
<1>2. ASSUME Init PROVE live = {} /\ doomed = {} /\ section["fthread"] = "init"
  BY <1>2 DEF Init
<1>3. ASSUME Init PROVE ~Removing /\ ~Relinking
  BY <1>2, <1>3 DEF Removing, Relinking
<1> QED BY <1>1, <1>2, <1>3 DEF Removal, ThereIsLive

LEMMA ThereNext ==
  ASSUME Control, Heap, Removal, [Next]_vars PROVE ThereIsLive'
<1> USE DEF Control, TypeOK, Thread, Goto, Step, At, heap, supp, memory, signals
<1> SUFFICES ASSUME process' = "runs" PROVE Chain(head)' \ doomed' = live' \ doomed'
  BY DEF ThereIsLive
<1>1. process = "runs" \/ UNCHANGED vars
  BY StepRuns
<1>2. CASE UNCHANGED vars
  BY <1>2 DEF vars, Removal, ThereIsLive, Chain, Closed
<1>3. CASE process = "runs" /\ Aside
  <2>1. UNCHANGED <<heap, supp>>
    BY <1>3, AsideKeeps
  <2> QED BY <1>3, <2>1, ChainKept DEF Removal, ThereIsLive
<1>4. CASE InsertDo \/ DeadReturn
  <2>1. /\ section'["fthread"] # "gone" /\ ~Removing' /\ doomed' = {}
    BY <1>4, Alone DEF InsertDo, DeadReturn, Removing, ServerSection, Removal
  <2> QED BY <2>1, ChainIsLiveNext
<1>5. CASE process = "runs" /\ (KeepDo \/ Tick)
  <2>1. /\ UNCHANGED <<head, live, doomed>>
        /\ \A c \in Cell : cell'[c].next = cell[c].next
    BY <1>5 DEF KeepDo, Tick
  <2> QED BY <1>5, <2>1, ChainKept DEF Removal, ThereIsLive
<1>6. CASE free_server_tab
  BY <1>6 DEF free_server_tab
<1>7. CASE process = "runs" /\ (terminer_thread \/ DeadTest)
  BY <1>7, ChainKept DEF terminer_thread, DeadTest, Removal, ThereIsLive
<1>8. CASE process = "runs" /\ DeadDo
  <2>1. /\ Chain(head) = live
        /\ UNCHANGED heap
    BY <1>8, ChainOutside DEF DeadDo, Removing, Heap, Listed
  <2> QED BY <2>1, ChainKept
<1>9. CASE process = "runs" /\ DeadFree
  <2>1. /\ at["fthread"] \in doomed /\ live' = live \ {at["fthread"]}
        /\ UNCHANGED <<head, cell, doomed>>
    BY <1>9, DeadFreed DEF DeadFree, Removing, Removal
  <2> QED BY <1>9, <2>1, ChainKept DEF Removal, ThereIsLive
<1>10. CASE process = "runs" /\ DeadRelink
  BY <1>10, ChainBypassed DEF DeadRelink, Removal, ThereIsLive
<1> QED
  BY <1>1, <1>2, <1>3, <1>4, <1>5, <1>6, <1>7, <1>8, <1>9, <1>10, NextSplit

LEMMA AheadNext ==
  ASSUME Control, Heap, Removal, [Next]_vars, section'["fthread"] # "gone", Removing'
  PROVE  DoomedAhead'
<1> USE DEF Control, TypeOK, Thread, Goto, Step, At, heap, supp
<1>1. ASSUME Removing, section["fthread"] # "gone", live' = live, doomed' = doomed, onward' = onward,
             \A c \in live : next(c)' = next(c)
      PROVE  DoomedAhead'
  <2>1. ASSUME NEW S \in SUBSET live,
               onward \in S \cup {NULL}, \A c \in S : next(c)' \in S \cup {NULL}
        PROVE  doomed \cap live \subseteq S
    <3>1. \A c \in S : next(c) \in S \cup {NULL}
      BY <1>1, <2>1
    <3> QED BY <1>1, <2>1, <3>1 DEF Removal, DoomedAhead
  <2> QED BY <1>1, <2>1 DEF DoomedAhead
<1>2. CASE Aside
  <2>1. /\ UNCHANGED <<heap, supp>> /\ section["fthread"] # "gone"
        /\ Removing /\ (Relinking' <=> Relinking) /\ at'["fthread"] = at["fthread"]
    BY <1>2, AsideKeeps
  <2> QED BY <1>1, <2>1 DEF onward, next
<1>3. CASE InsertDo \/ KeepDo
  BY <1>3, Alone DEF InsertDo, KeepDo, Removing, ServerSection
<1>4. CASE Tick
  <2>1. /\ UNCHANGED <<live, doomed, prev, rest, tmp, at, section, step>>
        /\ \A c \in Cell : cell'[c].next = cell[c].next
    BY <1>4 DEF Tick, control
  <2> QED BY <1>1, <2>1 DEF onward, next, Removing, Relinking
<1>5. CASE free_server_tab \/ terminer_thread \/ DeadReturn
  BY <1>5 DEF free_server_tab, terminer_thread, DeadReturn, Removing, KilledLast, control
<1>6. CASE DeadDo
  <2>1. /\ ~Removing /\ ~Relinking /\ ~Relinking' /\ section["fthread"] # "gone"
        /\ front = head /\ onward' = head /\ UNCHANGED heap
    BY <1>6 DEF DeadDo, Removing, Relinking, front, onward
  <2>2. ASSUME NEW S \in SUBSET live,
               head \in S \cup {NULL}, \A c \in S : next(c)' \in S \cup {NULL}
        PROVE  live \subseteq S
    <3>1. \A c \in S : next(c) \in S \cup {NULL}
      BY <2>1, <2>2 DEF next
    <3> QED BY <2>1, <2>2, <3>1 DEF Heap, Listed, ListReached
  <2> QED BY <2>1, <2>2 DEF DoomedAhead
<1>7. CASE DeadTest
  <2>1. /\ Removing /\ ~Relinking /\ ~Relinking' /\ section["fthread"] # "gone"
        /\ UNCHANGED <<heap, doomed>> /\ live \subseteq Cell
    BY <1>7 DEF DeadTest, Removing, Relinking, control
  <2>2. /\ onward = at["fthread"] /\ onward' = at'["fthread"]
        /\ \A c \in live : next(c) = cell[c].next /\ next(c)' = cell[c].next
    BY <2>1 DEF onward, next
  <2>3. at["fthread"] \in live
    BY <1>7, <2>1 DEF DeadTest, Heap, WalkersAlive
  <2>4. CASE at["fthread"] \in doomed
    BY <1>1, <1>7, <2>1, <2>2, <2>4 DEF DeadTest
  <2>5. CASE at["fthread"] \notin doomed
    <3>1. ASSUME NEW S \in SUBSET live,
                 onward' \in S \cup {NULL}, \A c \in S : next(c)' \in S \cup {NULL}
          PROVE  doomed \cap live \subseteq S
      <4>1. onward' = cell[at["fthread"]].next
        BY <1>7, <2>2, <2>5 DEF DeadTest
      <4>2. /\ S \cup {at["fthread"]} \in SUBSET live
            /\ \A c \in S \cup {at["fthread"]} : next(c) \in (S \cup {at["fthread"]}) \cup {NULL}
        BY <2>1, <2>2, <2>3, <3>1, <4>1
      <4>3. doomed \cap live \subseteq S \cup {at["fthread"]}
        BY <2>1, <2>2, <4>2 DEF Removal, DoomedAhead
      <4> QED BY <2>5, <4>3
    <3> QED BY <2>1, <3>1 DEF DoomedAhead
  <2> QED BY <2>4, <2>5
<1>8. CASE DeadFree
  <2> DEFINE c == at["fthread"]
  <2>1. /\ Removing /\ ~Relinking /\ Relinking' /\ section["fthread"] # "gone"
        /\ UNCHANGED <<cell, doomed, tmp>>
        /\ onward = c /\ onward' = tmp /\ tmp = cell[c].next
    BY <1>8 DEF DeadFree, Removing, Relinking, Heap, WalkersAlive, onward
  <2>2. /\ c \in live /\ live' = live \ {c} /\ live \subseteq Cell /\ NULL \notin live
        /\ rest' = cell[c].next
        /\ prev' \in live' => next(prev') = c
    BY <1>8, <2>1, DeadFreed, ServerThreadsAssumption DEF next
  <2>3. \A d \in live' : next(d) = cell[d].next /\ (d # prev' => next(d)' = next(d))
    BY <2>1, <2>2 DEF next
  <2>4. next(c) = tmp
    BY <2>1 DEF next
  <2> HIDE DEF c
  <2>5. ASSUME NEW S \in SUBSET live',
               tmp \in S \cup {NULL}, \A d \in S : next(d)' \in S \cup {NULL}
        PROVE  doomed \cap live' \subseteq S
    <3>1. S \cup {c} \in SUBSET live
      BY <2>2
    <3>2. \A d \in S \cup {c} : next(d) \in (S \cup {c}) \cup {NULL}
      BY <2>2, <2>3, <2>4, <2>5
    <3>3. doomed \cap live \subseteq S \cup {c}
      BY <2>1, <3>1, <3>2 DEF Removal, DoomedAhead
    <3> QED BY <2>2, <3>3
  <2> QED BY <2>1, <2>5 DEF DoomedAhead
<1>9. CASE DeadRelink
  <2>1. /\ Removing /\ Relinking /\ ~Relinking' /\ section["fthread"] # "gone"
        /\ UNCHANGED <<live, doomed>> /\ live \subseteq Cell /\ NULL \notin Cell
        /\ onward = tmp /\ onward' = tmp
    BY <1>9, ServerThreadsAssumption DEF DeadRelink, Removing, Relinking, onward
  <2>2. ASSUME NEW d \in live PROVE next(d)' = next(d)
    <3>1. CASE prev = NULL
      BY <1>9, <2>1, <3>1 DEF DeadRelink, next
    <3>2. CASE prev # NULL
      BY <1>9, <2>1, <3>2 DEF DeadRelink, next
    <3> QED BY <3>1, <3>2
  <2> QED BY <1>1, <2>1, <2>2
<1> QED BY <1>2, <1>3, <1>4, <1>5, <1>6, <1>7, <1>8, <1>9, NextSplit

LEMMA RemovalNext ==
  ASSUME Control, Heap, Removal, [Next]_vars PROVE Removal'
<1> USE DEF Control, TypeOK, Thread, Goto, Step, At, heap, supp
<1>1. ASSUME section'["fthread"] # "gone"
      PROVE  /\ ~Removing' => doomed' = {}
             /\ Removing' /\ step'["fthread"] = "free" => at'["fthread"] \in doomed'
             /\ Relinking' => Bypassing'
  <2>1. CASE Aside
    <3>1. /\ UNCHANGED <<heap, supp>> /\ section["fthread"] # "gone"
          /\ (Removing' <=> Removing) /\ (Relinking' <=> Relinking)
          /\ Removing => UNCHANGED <<at["fthread"], step["fthread"]>>
      BY <1>1, <2>1, AsideKeeps
    <3>2. Relinking => Removing
      BY DEF Relinking, Removing
    <3> QED BY <3>1, <3>2 DEF Removal, Bypassing
  <2>2. CASE InsertDo \/ KeepDo
    <3>1. ~Removing /\ ~Removing' /\ ~Relinking' /\ doomed' = doomed /\ section["fthread"] # "gone"
      BY <2>2, Alone DEF InsertDo, KeepDo, Removing, Relinking, ServerSection
    <3> QED BY <3>1 DEF Removal
  <2>3. CASE Tick
    <3>1. /\ UNCHANGED <<live, prev, rest, doomed, at, section, step>>
          /\ \A c \in Cell : cell'[c].next = cell[c].next
      BY <2>3 DEF Tick, control
    <3>2. Relinking => at["fthread"] \in Cell /\ (prev # NULL => prev \in Cell)
      BY DEF Removal, Bypassing, Relinking, Pointer
    <3> QED BY <1>1, <3>1, <3>2 DEF Removal, Bypassing, Removing, Relinking
  <2>4. CASE free_server_tab \/ terminer_thread
    BY <1>1, <2>4 DEF free_server_tab, terminer_thread, KilledLast, control
  <2>5. CASE DeadDo \/ DeadReturn
    BY <2>5 DEF DeadDo, DeadReturn, Removing, Relinking
  <2>6. CASE DeadTest
    BY <1>1, <2>6 DEF DeadTest, Removing, Relinking, control, Removal
  <2>7. CASE DeadFree
    <3> DEFINE c == at["fthread"]
    <3>1. /\ Removing /\ ~Relinking /\ Relinking' /\ section["fthread"] # "gone"
          /\ c \in doomed /\ UNCHANGED <<at, cell, doomed>> /\ step'["fthread"] = "relink"
      BY <2>7 DEF DeadFree, Removing, Relinking, Removal
    <3>2. /\ c \notin live' /\ rest' = cell[c].next
          /\ prev' # NULL => cell[prev'].next = c
      BY <2>7, <3>1, DeadFreed, ServerThreadsAssumption DEF next
    <3> QED BY <3>1, <3>2 DEF Bypassing, Removing, Relinking
  <2>8. CASE DeadRelink
    BY <2>8 DEF DeadRelink, Removing, Relinking
  <2> QED
    BY <2>1, <2>2, <2>3, <2>4, <2>5, <2>6, <2>7, <2>8, NextSplit
<1> QED BY <1>1, ThereNext, AheadNext DEF Removal

-----------------------------------------------------------------------------
(***************************************************************************)
(* The map a set D of elements stands for, the memory being f.             *)
(***************************************************************************)
MapOf(D, f) ==
  [p \in {f[c].server : c \in D} |->
     CHOOSE a \in {f[c].age : c \in {d \in D : f[d].server = p}} : TRUE]

LEMMA MapOfValue ==
  ASSUME NEW D, NEW f, \A c, d \in D : f[c].server = f[d].server => c = d,
         NEW c \in D
  PROVE  MapOf(D, f)[f[c].server] = f[c].age
<1>1. {d \in D : f[d].server = f[c].server} = {c}
  OBVIOUS
<1>2. {f[e].age : e \in {c}} = {f[c].age}
  OBVIOUS
<1>3. (CHOOSE a \in {f[c].age} : TRUE) = f[c].age
  OBVIOUS
<1> QED BY <1>1, <1>2, <1>3 DEF MapOf

\* A map that says of each element of D what the memory says is the map.
LEMMA MapOfIs ==
  ASSUME NEW D, NEW f, \A c, d \in D : f[c].server = f[d].server => c = d,
         NEW g, g = [p \in DOMAIN g |-> g[p]],
         DOMAIN g = {f[c].server : c \in D},
         \A c \in D : g[f[c].server] = f[c].age
  PROVE  MapOf(D, f) = g
<1>1. DOMAIN MapOf(D, f) = DOMAIN g
  BY DEF MapOf
<1>2. ASSUME NEW p \in DOMAIN g PROVE MapOf(D, f)[p] = g[p]
  BY MapOfValue
<1>3. MapOf(D, f) = [p \in DOMAIN MapOf(D, f) |-> MapOf(D, f)[p]]
  BY DEF MapOf
<1> QED BY <1>1, <1>2, <1>3

LEMMA AsMapIs ==
  ASSUME Control, Heap, Removal, process = "runs"
  PROVE  /\ AsMap = MapOf(live \ doomed, cell)
         /\ \A c, d \in live : cell[c].server = cell[d].server => c = d
BY DEF AsMap, MapOf, Removal, ThereIsLive, Heap, OnePerServer

-----------------------------------------------------------------------------
(***************************************************************************)
(* Each step is one of the map, or none.                                   *)
(***************************************************************************)
LEMMA InsertRefines ==
  ASSUME Control, Heap, Removal, [Next]_vars, process = "runs", InsertDo
  PROVE  Peers!Insert(msg.from)
<1> DEFINE p == msg.from
<1>1. PICK c \in Cell \ live :
         /\ cell' = [cell EXCEPT ![c] = [server |-> p, age |-> 0, next |-> head]]
         /\ live' = live \cup {c}
  BY DEF InsertDo
<1>2. /\ section'["fthread"] # "gone" /\ ~Removing' /\ doomed = {} /\ doomed' = {}
      /\ \A d \in live : cell[d].server # p
  BY Alone DEF InsertDo, At, Step, supp, Removing, ServerSection, Removal, Heap, StillUnknown, Control,
     TypeOK, Thread
<1>3. Chain(head)' = live'
  BY <1>2, ChainIsLiveNext
<1>4. AsMap' = MapOf(live', cell')
  BY <1>2, <1>3 DEF AsMap, MapOf
<1>5. /\ AsMap = MapOf(live, cell)
      /\ \A d, e \in live : cell[d].server = cell[e].server => d = e
  BY <1>2, AsMapIs
<1>6. /\ cell'[c].server = p /\ cell'[c].age = 0
      /\ \A d \in live : cell'[d] = cell[d]
  BY <1>1 DEF Control, TypeOK
<1> HIDE DEF p
<1>7. DOMAIN AsMap = {cell[d].server : d \in live}
  BY <1>5 DEF MapOf
<1>8. \A d \in live : AsMap[cell[d].server] = cell[d].age
  BY <1>5, MapOfValue
<1> DEFINE g == [q \in DOMAIN AsMap \cup {p} |-> IF q = p THEN 0 ELSE AsMap[q]]
<1>9. MapOf(live', cell') = g
  <2>1. \A d, e \in live' : cell'[d].server = cell'[e].server => d = e
    BY <1>1, <1>2, <1>5, <1>6
  <2>2. DOMAIN g = {cell'[d].server : d \in live'}
    BY <1>1, <1>6, <1>7
  <2>3. \A d \in live' : g[cell'[d].server] = cell'[d].age
    BY <1>1, <1>2, <1>6, <1>7, <1>8
  <2>4. g = [q \in DOMAIN g |-> g[q]]
    OBVIOUS
  <2> HIDE DEF g
  <2> QED BY <2>1, <2>2, <2>3, <2>4, MapOfIs
<1>10. p \notin DOMAIN AsMap
  BY <1>2, <1>7
<1> QED
  BY <1>4, <1>9, <1>10 DEF Peers!Insert, Peers!is_known, Peers!insert_server, InsertDo, p

LEMMA KeepRefines ==
  ASSUME Control, Heap, Removal, [Next]_vars, process = "runs", KeepDo
  PROVE  Peers!KeepAlive(msg.from)
<1> DEFINE p == msg.from
<1>1. /\ section'["fthread"] # "gone" /\ ~Removing' /\ doomed = {} /\ doomed' = {}
      /\ Chain(head) = live /\ live' = live /\ live \subseteq Cell
  BY Alone DEF KeepDo, At, Step, supp, Removing, ServerSection, Removal, Control, TypeOK, Thread
<1>2. AsMap' = MapOf(live, cell')
  BY <1>1, ChainIsLiveNext DEF AsMap, MapOf
<1>3. /\ AsMap = MapOf(live, cell)
      /\ \A d, e \in live : cell[d].server = cell[e].server => d = e
  BY <1>1, AsMapIs
<1>4. ASSUME NEW c \in live PROVE c \in First(head, p) <=> cell[c].server = p
  <2>1. c \in Chain(c)
    BY <1>1, ServerThreadsAssumption DEF Chain, Closed
  <2> QED BY <1>1, <1>3, <2>1 DEF First
<1>5. \A c \in live : /\ cell'[c].server = cell[c].server
                      /\ cell'[c].age = IF cell[c].server = p THEN 0 ELSE cell[c].age
  BY <1>1, <1>4 DEF KeepDo, Control, TypeOK
<1> HIDE DEF p
<1>6. /\ DOMAIN AsMap = {cell[d].server : d \in live}
      /\ \A d \in live : AsMap[cell[d].server] = cell[d].age
  BY <1>3, MapOfValue DEF MapOf
<1> DEFINE g == [q \in DOMAIN AsMap |-> IF q = p THEN 0 ELSE AsMap[q]]
<1>7. MapOf(live, cell') = g
  <2>1. \A d, e \in live : cell'[d].server = cell'[e].server => d = e
    BY <1>3, <1>5
  <2>2. DOMAIN g = {cell'[d].server : d \in live}
    BY <1>5, <1>6
  <2>3. \A d \in live : g[cell'[d].server] = cell'[d].age
    BY <1>5, <1>6
  <2>4. g = [q \in DOMAIN g |-> g[q]]
    OBVIOUS
  <2> HIDE DEF g
  <2> QED BY <2>1, <2>2, <2>3, <2>4, MapOfIs
<1> QED BY <1>2, <1>7 DEF Peers!KeepAlive, Peers!keep_alive_server, KeepDo, p

\* All the removals of the call at once.
LEMMA SuppressRefines ==
  ASSUME Control, Heap, Removal, [Next]_vars, process = "runs", DeadDo
  PROVE  Peers!Suppress
<1>1. /\ section["fthread"] # "gone" /\ ~Removing /\ doomed = {}
      /\ UNCHANGED <<head, cell, live>> /\ live \subseteq Cell
  BY DEF DeadDo, At, heap, Removing, Removal, Control, TypeOK
<1>2. Chain(head) = live
  BY <1>1, ChainOutside DEF Heap, Listed
<1>3. Chain(head)' = live
  BY <1>1, <1>2, ChainKept
<1>4. doomed' = {c \in live : cell[c].server = me \/ cell[c].age > PeerTTL}
  BY <1>2 DEF DeadDo
<1>5. AsMap' = MapOf(live \ doomed', cell)
  BY <1>1, <1>3 DEF AsMap, MapOf
<1>6. /\ AsMap = MapOf(live, cell)
      /\ \A d, e \in live : cell[d].server = cell[e].server => d = e
  BY <1>1, AsMapIs
<1>7. /\ DOMAIN AsMap = {cell[d].server : d \in live}
      /\ \A d \in live : AsMap[cell[d].server] = cell[d].age
  BY <1>6, MapOfValue DEF MapOf
<1> DEFINE keeps == {p \in DOMAIN AsMap : ~(p = me \/ AsMap[p] > PeerTTL)}
           g == [q \in keeps |-> AsMap[q]]
<1>8. MapOf(live \ doomed', cell) = g
  <2>1. \A d, e \in live \ doomed' : cell[d].server = cell[e].server => d = e
    BY <1>6
  <2>2. DOMAIN g = {cell[d].server : d \in live \ doomed'}
    <3>1. \A d \in live : cell[d].server \in keeps <=> d \notin doomed'
      BY <1>4, <1>7
    <3>2. keeps \subseteq {cell[d].server : d \in live}
      BY <1>7
    <3> HIDE DEF keeps
    <3> QED BY <3>1, <3>2
  <2>3. \A d \in live \ doomed' : g[cell[d].server] = cell[d].age
    BY <1>7, <2>2
  <2>4. g = [q \in DOMAIN g |-> g[q]]
    OBVIOUS
  <2> HIDE DEF g
  <2> QED BY <2>1, <2>2, <2>3, <2>4, MapOfIs
<1> QED BY <1>5, <1>8 DEF Peers!Suppress, Peers!suppression_dead_server, DeadDo

LEMMA TickRefines ==
  ASSUME Control, Heap, Removal, [Next]_vars, process = "runs", Tick
  PROVE  Peers!Tick
<1>1. /\ UNCHANGED <<head, live, doomed>> /\ live \subseteq Cell
      /\ \A c \in Cell : cell'[c].next = cell[c].next
  BY DEF Tick, supp, Control, TypeOK
<1>2. Chain(head)' \ doomed' = live \ doomed
  BY <1>1, ChainKept DEF Removal, ThereIsLive
<1> DEFINE D == live \ doomed
<1>3. AsMap' = MapOf(D, cell')
  BY <1>2 DEF AsMap, MapOf
<1>4. /\ AsMap = MapOf(D, cell)
      /\ \A d, e \in D : cell[d].server = cell[e].server => d = e
  BY AsMapIs
<1>5. \A c \in D : cell'[c].server = cell[c].server /\ cell'[c].age = Older(cell[c].age)
  BY <1>1 DEF Tick, Control, TypeOK
<1> HIDE DEF D
<1>6. /\ DOMAIN AsMap = {cell[d].server : d \in D}
      /\ \A d \in D : AsMap[cell[d].server] = cell[d].age
  BY <1>4, MapOfValue DEF MapOf
<1> DEFINE g == [q \in DOMAIN AsMap |-> Older(AsMap[q])]
<1>7. MapOf(D, cell') = g
  <2>1. \A d, e \in D : cell'[d].server = cell'[e].server => d = e
    BY <1>4, <1>5
  <2>2. DOMAIN g = {cell'[d].server : d \in D}
    BY <1>5, <1>6
  <2>3. \A d \in D : g[cell'[d].server] = cell'[d].age
    BY <1>5, <1>6
  <2>4. g = [q \in DOMAIN g |-> g[q]]
    OBVIOUS
  <2> HIDE DEF g
  <2> QED BY <2>1, <2>2, <2>3, <2>4, MapOfIs
<1>8. \A a : Peers!Older(a) = Older(a)
  BY DEF Peers!Older, Older
<1> QED BY <1>3, <1>7, <1>8 DEF Peers!Tick, Peers!OlderPeers, Tick

\* The other steps are none of the map's.
LEMMA OthersStutter ==
  ASSUME Control, Heap, Removal, [Next]_vars, process = "runs",
         ~InsertDo, ~KeepDo, ~DeadDo, ~Tick
  PROVE  UNCHANGED <<AsMap, call>>
<1> USE DEF heap, supp
<1>1. ASSUME UNCHANGED <<cell, doomed, head>> PROVE AsMap' = AsMap
  BY <1>1, ChainKept DEF AsMap
<1>2. CASE Aside
  BY <1>1, <1>2, AsideKeeps
<1>3. CASE free_server_tab \/ terminer_thread \/ DeadTest \/ DeadFree
  BY <1>1, <1>3 DEF free_server_tab, terminer_thread, DeadTest, DeadFree
<1>4. CASE DeadRelink
  <2>1. Chain(head)' \ doomed' = Chain(head) \ doomed
    BY <1>4, ChainBypassed DEF DeadRelink
  <2>2. \A c \in Cell : cell'[c].server = cell[c].server /\ cell'[c].age = cell[c].age
    BY <1>4 DEF DeadRelink, Control, TypeOK
  <2> QED BY <1>4, <2>1, <2>2, ChainInMemory DEF DeadRelink, AsMap
<1>5. CASE DeadReturn
  <2>1. /\ Removing /\ section["fthread"] # "gone" /\ onward = NULL
        /\ section'["fthread"] # "gone" /\ ~Removing' /\ live' = live /\ doomed' = {}
    BY <1>5 DEF DeadReturn, At, Step, Removing, Relinking, onward, Control, TypeOK, Thread
  <2>2. doomed \cap live = {}
    BY <2>1 DEF Removal, DoomedAhead
  <2>3. /\ Chain(head)' \ doomed' = live
        /\ Chain(head) \ doomed = live
    BY <2>1, <2>2, ChainIsLiveNext DEF Removal, ThereIsLive
  <2>4. \A c \in live : cell'[c] = cell[c]
    BY <1>5 DEF DeadReturn, Control, TypeOK
  <2>5. AsMap = MapOf(live, cell) /\ AsMap' = MapOf(live, cell')
    BY <2>3 DEF AsMap, MapOf
  <2>6. MapOf(live, cell) = MapOf(live, cell')
    BY <2>4 DEF MapOf
  <2> QED BY <1>5, <2>5, <2>6 DEF DeadReturn
<1> QED BY <1>2, <1>3, <1>4, <1>5, NextSplit

\* A server never inserts itself, nor writes its own date.
NotItself == section["main"] \in {"known", "tell", "insert", "keep"} => msg.from \in Peer

LEMMA NotItselfNext ==
  ASSUME Control, NotItself, [Next]_vars PROVE NotItself'
<1> USE DEF Control, TypeOK, Thread, Goto, Step, At, turn, control
<1>1. ASSUME msg' = msg, section'["main"] = section["main"] PROVE NotItself'
  BY <1>1 DEF NotItself
<1>2. ASSUME NEW t \in Thread, Post(t) PROVE NotItself'
  <2>1. CASE t = "main"
    BY <1>2, <2>1 DEF Post, After, NotItself, HashSection, ServerSection
  <2>2. CASE t = "fthread"
    <3>1. section["fthread"] \in {"keeps", "dead", "obsolete"}
      BY <1>2, <2>2 DEF Post, Placed, StepIn, FthreadSection
    <3>2. After(section["fthread"]) # "receive"
      BY <3>1 DEF After
    <3> QED BY <1>1, <1>2, <2>2, <3>2 DEF Post
  <2> QED BY <2>1, <2>2
<1>3. ASSUME NEW m \in Received, Receive(m) PROVE NotItself'
  BY <1>3 DEF Receive, Branch, Received, NotItself
<1>4. ASSUME NEW t \in Thread, Wait(t) \/ Walk(t) \/ WalkEnd(t) PROVE NotItself'
  BY <1>1, <1>4 DEF Wait, Walk, WalkEnd
<1>5. CASE Leave
  BY <1>5 DEF Leave, NotItself
<1>6. ASSUME \/ HashRead \/ HashInsert \/ GetDo \/ ShareWait \/ SharePost \/ KnownDo \/ InsertDo \/ KeepDo
             \/ Kill \/ Join \/ free_avl \/ free_server_tab
             \/ terminer_processus \/ Tick \/ UNCHANGED vars
      PROVE  NotItself'
  BY <1>1, <1>6 DEF HashRead, HashInsert, GetDo, ShareWait, SharePost, KnownDo, InsertDo, KeepDo,
     Kill, Join, free_avl, free_server_tab, terminer_processus, Tick, vars
<1>7. ASSUME \/ init_thread_signal \/ DeadDo \/ DeadTest \/ DeadFree \/ DeadRelink \/ DeadReturn
             \/ ObsoleteNone \/ ObsoleteDo \/ ObsoleteReturn \/ Wake \/ terminer_thread
             \/ DefaultAction
      PROVE  NotItself'
  BY <1>1, <1>7 DEF init_thread_signal, DeadDo, DeadTest, DeadFree, DeadRelink, DeadReturn,
     ObsoleteNone, ObsoleteDo, ObsoleteReturn, Wake, terminer_thread, DefaultAction
<1> QED BY <1>2, <1>3, <1>4, <1>5, <1>6, <1>7 DEF Next, main, fthread

RefinementInv == Control /\ Heap /\ Removal /\ NotItself

LEMMA InitRefines == Init => Peers!Init
<1> SUFFICES ASSUME Init PROVE Peers!Init
  OBVIOUS
<1>1. Chain(head) = {}
  <2>1. Closed({}, head)
    BY DEF Init, Closed
  <2> QED BY <2>1 DEF Chain
<1>2. AsMap = [p \in {} |-> 0]
  BY <1>1 DEF AsMap
<1> QED BY <1>2 DEF Init, Peers!Init, Peers!no_server

LEMMA NextRefines ==
  RefinementInv /\ [Next]_vars => [Peers!Next]_<<AsMap, call>>
<1> SUFFICES ASSUME RefinementInv, [Next]_vars PROVE [Peers!Next]_<<AsMap, call>>
  OBVIOUS
<1> USE DEF RefinementInv
<1>1. CASE process = "runs" /\ InsertDo
  BY <1>1, InsertRefines DEF Peers!Next, InsertDo, At, NotItself, Peer
<1>2. CASE process = "runs" /\ KeepDo
  BY <1>2, KeepRefines DEF Peers!Next, KeepDo, At, NotItself, Peer
<1>3. CASE process = "runs" /\ DeadDo
  BY <1>3, SuppressRefines DEF Peers!Next
<1>4. CASE process = "runs" /\ Tick
  BY <1>4, TickRefines DEF Peers!Next
<1>5. CASE process = "runs" /\ ~InsertDo /\ ~KeepDo /\ ~DeadDo /\ ~Tick
  BY <1>5, OthersStutter
<1>6. CASE UNCHANGED vars
  BY <1>6 DEF vars, heap, supp, AsMap, Chain, Closed
<1> QED BY <1>1, <1>2, <1>3, <1>4, <1>5, <1>6, StepRuns

\* The list, with its removals step by step and a kill in the middle of them, is
\* the map ServerTable promises: no call of either thread is lost, none acts on
\* another server than the one it names.
THEOREM ThreadsImplementTable == Spec => ImplementsPeers
<1>1. Init => RefinementInv
  BY ControlInit, HeapInit, RemovalInit DEF RefinementInv, NotItself, Init
<1>2. RefinementInv /\ [Next]_vars => RefinementInv'
  BY ControlNext, HeapNext, RemovalNext, NotItselfNext DEF RefinementInv
<1> QED BY <1>1, <1>2, InitRefines, NextRefines, PTL DEF Spec, ImplementsPeers, Peers!Spec
=============================================================================
