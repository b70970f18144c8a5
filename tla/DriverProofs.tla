---------------------------- MODULE DriverProofs ----------------------------
(***************************************************************************)
(* The SDO queues of src/sdo_req.c with workers, callbacks and a driver    *)
(* that is loaded and unloaded (src/driver.c, src/master.c): for any       *)
(* number of nodes, workers, requests and loads, and any limit, the queues *)
(* are in order, requests have the references they should have, and        *)
(* nothing calls a driver that is gone.                                    *)
(***************************************************************************)
EXTENDS Driver, TLAPS

\* Leaves that need arithmetic, or much about records, cite SMT.
USE Zenon

(***************************************************************************)
(* The invariant.  A request is in the service of one queue, one client or *)
(* the callback that ends its transfer, or of none; besides, one worker    *)
(* may wait for it, and the driver may hold it.                            *)
(***************************************************************************)
Listed(n) == Elems(queue[n].list)

Active(r) == \E n \in Nodes : r \in Listed(n) \/ client[n] = r
Served(r) == Active(r) \/ main.arg = r
Waited(r) == \E w \in Workers : worker[w].req = r

DriverTypes ==
    /\ drv \in [phase: {"none", "loaded", "init", "ready"}, dso: Nat, fns: Nat, loads: Nat]
    /\ code \in [Reqs -> Nat]
    /\ held \in SUBSET Reqs

LoopInv ==
    /\ idle # <<>>
    /\ main.arg # NoReq <=> main.pc = "copy"
    /\ main.pc = "process" => /\ client[Head(idle)] = NoReq
                              /\ queue[Head(idle)].list # <<>>
    /\ drv.phase = "init" => main.pc = "events"
    /\ \A w \in Workers : worker[w].pc = "free" <=> worker[w].req = NoReq

QueueInv ==
    \A n \in Nodes : /\ queue[n].size = Len(queue[n].list)
                     /\ queue[n].size <= Limit
                     /\ ~queue[n].locked

PlaceInv ==
    /\ \A r \in Reqs : \A m, n \in Nodes :
           /\ r \in Listed(m) /\ r \in Listed(n) => m = n
           /\ client[m] = r /\ client[n] = r => m = n
           /\ client[m] = r => r \notin Listed(n)
           /\ r \in Listed(m) \/ client[m] = r => main.arg # r
    /\ \A r \in Reqs : \A v, w \in Workers :
           worker[v].req = r /\ worker[w].req = r => v = w

Started == {q \in Reqs : req[q].order > 0}

OrderInv ==
    /\ \A n \in Nodes : \A i, j \in 1..Len(queue[n].list) :
           i < j => req[queue[n].list[i]].order < req[queue[n].list[j]].order
    /\ \A n \in Nodes : \A j \in 1..Len(queue[n].list) :
           client[n] # NoReq => req[client[n]].order < req[queue[n].list[j]].order
    /\ \A r \in Reqs : req[r].order <= Cardinality(Started)

Stage(r) ==
    /\ ~req[r].made => /\ req[r] = Unmade /\ code[r] = NoCodeLoaded
                       /\ ~Served(r) /\ ~Waited(r) /\ r \notin held
    /\ req[r].order = 0 => ~Served(r) /\ req[r].status = "PENDING" /\ req[r].called = 0
    /\ Active(r) => req[r].status = "PENDING" /\ req[r].called = 0
    /\ main.arg = r => req[r].status \in {"OK", "ABORT"} /\ req[r].called = 0
    /\ Waited(r) /\ req[r].status = "PENDING" => Active(r)

StageInv == \A r \in Reqs : Stage(r)

One(p) == IF p THEN 1 ELSE 0

CountInv ==
    \A r \in Reqs : req[r].ref = One(Served(r)) + One(Waited(r)) + One(r \in held)

CodeInv ==
    /\ drv.phase = "none" => drv.dso = NoCodeLoaded
    /\ drv.fns \in {NoCodeLoaded, drv.dso}
    /\ \A r \in Reqs : code[r] # NoCodeLoaded =>
           /\ ~Waited(r)
           /\ \A n \in Nodes : r \in Listed(n) \/ client[n] = r => n = DriverNode
           /\ req[r].ref > 0 => code[r] = drv.dso

Inv ==
    /\ TypeOK /\ DriverTypes /\ LoopInv /\ QueueInv /\ PlaceInv /\ OrderInv /\ StageInv
    /\ CountInv /\ CodeInv /\ CallbackOnce

-----------------------------------------------------------------------------
(* Lists. *)

LEMMA ElemsEmpty == Elems(<<>>) = {}
BY SMT DEF Elems

LEMMA ElemsAppend ==
    ASSUME NEW S, NEW s \in Seq(S), NEW e \in S
    PROVE  Elems(Append(s, e)) = Elems(s) \union {e}
<1>1. /\ DOMAIN Append(s, e) = 1..(Len(s) + 1) /\ DOMAIN s = 1..Len(s) /\ Len(s) \in Nat
      /\ \A i \in 1..Len(s) : Append(s, e)[i] = s[i]
      /\ Append(s, e)[Len(s) + 1] = e
  BY SMT
<1> QED  BY <1>1, SMT DEF Elems

LEMMA ElemsTail ==
    ASSUME NEW S, NEW s \in Seq(S), s # <<>>
    PROVE  /\ Head(s) \in S /\ Tail(s) \in Seq(S) /\ Len(Tail(s)) = Len(s) - 1
           /\ Len(s) \in Nat /\ Len(s) > 0 /\ Head(s) = s[1]
           /\ \A i \in 1..Len(Tail(s)) : Tail(s)[i] = s[i + 1]
           /\ Elems(s) = Elems(Tail(s)) \union {Head(s)}
<1>1. /\ Head(s) \in S /\ Tail(s) \in Seq(S) /\ Len(Tail(s)) = Len(s) - 1
      /\ Len(s) \in Nat /\ Len(s) > 0 /\ Head(s) = s[1]
      /\ \A i \in 1..Len(Tail(s)) : Tail(s)[i] = s[i + 1]
      /\ DOMAIN s = 1..Len(s) /\ DOMAIN Tail(s) = 1..Len(Tail(s))
  BY SMT
<1>2. \A i \in 1..Len(s) : i = 1 \/ (i - 1 \in 1..Len(Tail(s)) /\ s[i] = Tail(s)[i - 1])
  BY <1>1, SMT
<1>3. \A i \in 1..Len(Tail(s)) : i + 1 \in 1..Len(s) /\ s[i + 1] = Tail(s)[i]
  BY <1>1, SMT
<1>4. Elems(s) \subseteq Elems(Tail(s)) \union {Head(s)}
  <2> SUFFICES ASSUME NEW i \in 1..Len(s), i # 1 PROVE s[i] \in Elems(Tail(s))
    BY <1>1, SMT DEF Elems
  <2> QED  BY <1>1, <1>2 DEF Elems
<1>5. Elems(Tail(s)) \subseteq Elems(s)  BY <1>1, <1>3, SMT DEF Elems
<1>6. Head(s) \in Elems(s)
  BY <1>1, SMT DEF Elems
<1> QED  BY <1>1, <1>4, <1>5, <1>6

LEMMA ElemsOf ==
    ASSUME NEW S, NEW s \in Seq(S)
    PROVE  /\ Elems(s) \subseteq S /\ Len(s) \in Nat
           /\ \A x \in Elems(s) : \E i \in 1..Len(s) : x = s[i]
           /\ \A i \in 1..Len(s) : s[i] \in Elems(s) /\ s[i] \in S
BY SMT DEF Elems

\* A list in order stays so without its head, which comes before all others.
LEMMA OrderedTail ==
    ASSUME NEW s \in Seq(Reqs), s # <<>>, NEW o \in [Reqs -> Nat],
           \A i, j \in 1..Len(s) : i < j => o[s[i]] < o[s[j]]
    PROVE  /\ \A i \in 1..Len(Tail(s)) : o[Head(s)] < o[Tail(s)[i]]
           /\ \A i, j \in 1..Len(Tail(s)) : i < j => o[Tail(s)[i]] < o[Tail(s)[j]]
           /\ Head(s) \notin Elems(Tail(s))
<1>1. /\ Head(s) \in Reqs /\ Tail(s) \in Seq(Reqs) /\ Len(Tail(s)) = Len(s) - 1
      /\ Len(s) \in Nat /\ Len(s) > 0 /\ Head(s) = s[1]
      /\ \A i \in 1..Len(Tail(s)) : Tail(s)[i] = s[i + 1]
  BY ElemsTail
<1>2. ASSUME NEW i \in 1..Len(Tail(s))
      PROVE  i + 1 \in 1..Len(s) /\ 1 \in 1..Len(s) /\ 1 < i + 1 /\ Tail(s)[i] = s[i + 1]
  BY <1>1, SMT
<1>3. \A i \in 1..Len(Tail(s)) : o[Head(s)] < o[Tail(s)[i]]
  BY <1>1, <1>2
<1>4. \A i, j \in 1..Len(Tail(s)) : i < j => o[Tail(s)[i]] < o[Tail(s)[j]]
  BY <1>1, <1>2, SMT
<1>5. \A x \in Elems(Tail(s)) : \E i \in 1..Len(Tail(s)) : x = Tail(s)[i]
  BY <1>1, ElemsOf
<1>6. Head(s) \notin Elems(Tail(s))
  BY <1>1, <1>3, <1>5, SMT
<1> QED  BY <1>3, <1>4, <1>6

LEMMA RotatedIdle ==
    ASSUME idle \in Seq(Nodes), idle # <<>>
    PROVE  Rotated \in Seq(Nodes) /\ Rotated # <<>> /\ Head(idle) \in Nodes
<1>1. Head(idle) \in Nodes /\ Tail(idle) \in Seq(Nodes)  BY ElemsTail
<1> QED  BY <1>1, SMT DEF Rotated

\* The requests in the queues.
LEMMA Lists ==
    ASSUME TypeOK
    PROVE  \A n \in Nodes :
              /\ queue[n].list \in Seq(Reqs) /\ Len(queue[n].list) \in Nat
              /\ Listed(n) \subseteq Reqs
              /\ \A i \in 1..Len(queue[n].list) :
                     queue[n].list[i] \in Reqs /\ queue[n].list[i] \in Listed(n)
<1> SUFFICES ASSUME NEW n \in Nodes
             PROVE  /\ queue[n].list \in Seq(Reqs) /\ Len(queue[n].list) \in Nat
                    /\ Listed(n) \subseteq Reqs
                    /\ \A i \in 1..Len(queue[n].list) :
                           queue[n].list[i] \in Reqs /\ queue[n].list[i] \in Listed(n)
  OBVIOUS
<1>1. queue[n].list \in Seq(Reqs)  BY DEF TypeOK
<1> QED  BY <1>1, ElemsOf DEF Listed

-----------------------------------------------------------------------------
(* Steps. *)

\* A step that moves no request keeps most of the invariant.
LEMMA NothingMoved ==
    ASSUME Inv, UNCHANGED <<req, queue, client, code, held>>, main'.arg = main.arg,
           \A w \in Workers : worker'[w].req = worker[w].req
    PROVE  (QueueInv /\ PlaceInv /\ OrderInv /\ StageInv /\ CountInv /\ CallbackOnce)'
<1>1. /\ \A n : Listed(n)' = Listed(n)
      /\ \A r : Active(r)' = Active(r) /\ Served(r)' = Served(r) /\ Waited(r)' = Waited(r)
      /\ Started' = Started
  BY DEF Listed, Active, Served, Waited, Started
<1>2. QueueInv'  BY DEF Inv, QueueInv
<1>3. PlaceInv'  BY <1>1, SMT DEF Inv, PlaceInv
<1>4. OrderInv'  BY <1>1 DEF Inv, OrderInv
<1>5. StageInv'  BY <1>1 DEF Inv, StageInv, Stage
<1>6. CountInv'  BY <1>1 DEF Inv, CountInv
<1>7. CallbackOnce'  BY DEF Inv, CallbackOnce
<1> QED  BY <1>2, <1>3, <1>4, <1>5, <1>6, <1>7

\* Sets of requests can be counted, as there are finitely many.
Countable ==
    \A S \in SUBSET Reqs :
        /\ Cardinality(S) \in Nat
        /\ \A r \in Reqs \ S : Cardinality(S \union {r}) = Cardinality(S) + 1

-----------------------------------------------------------------------------
(* The main loop and lists of requests. *)

\* An event is handled on the main loop while no transfer is ending.
LEMMA EventsMain ==
    ASSUME Inv, HandlesEvents, main' = [main EXCEPT !.pc = "events"]
    PROVE  /\ main'.pc = "events" /\ main.arg = NoReq /\ main'.arg = NoReq
           /\ main' \in [pc: {"check", "block", "events", "copy", "idle", "process"},
                          arg: Reqs \union {NoReq}]
<1>1. /\ main \in [pc: {"check", "block", "events", "copy", "idle", "process"},
                   arg: Reqs \union {NoReq}]
      /\ main.arg # NoReq <=> main.pc = "copy"
  BY DEF Inv, TypeOK, LoopInv
<1> QED  BY <1>1 DEF HandlesEvents

\* What an event handler leaves alone keeps the loop in order.
LEMMA EventsLoop ==
    ASSUME Inv, HandlesEvents, main' = [main EXCEPT !.pc = "events"], UNCHANGED idle,
           \A w \in Workers : worker'[w].pc = "free" <=> worker'[w].req = NoReq
    PROVE  LoopInv'
<1>1. main'.pc = "events" /\ main'.arg = NoReq  BY EventsMain
<1> QED  BY <1>1 DEF Inv, LoopInv

LEMMA NoList == <<>> \in Seq(Reqs)
BY SMT

LEMMA WithList ==
    ASSUME NEW queues \in [Nodes -> [list: Seq(Reqs), size: Nat, locked: BOOLEAN]],
           NEW n \in Nodes, NEW list \in Seq(Reqs), NEW size \in Nat
    PROVE  [queues EXCEPT ![n].list = list, ![n].size = size]
           \in [Nodes -> [list: Seq(Reqs), size: Nat, locked: BOOLEAN]]
OBVIOUS

LEMMA TheDriverNode == DriverNode \in Nodes
BY SdoReqAssumption, SMT DEF Nodes, DriverNode

\* What steps need to know of the sizes of sets: a lemma of its own gets it from
\* the finiteness of the sets.
SmallSets ==
    /\ Cardinality({}) = 0
    /\ \A x : Cardinality({x}) = 1
    /\ \A x, y : x # y => Cardinality({x} \union {y}) = 2

-----------------------------------------------------------------------------
(* The first state, and what the invariant says of the queues, the requests and *)
(* the driver. *)

LEMMA InitialInv ==
    ASSUME SmallSets, Init, DriverInit
    PROVE  Inv
<1>1. /\ req = [r \in Reqs |-> Unmade] /\ main = [pc |-> "check", arg |-> NoReq] /\ wake = FALSE
      /\ worker = [w \in Workers |-> [pc |-> "free", req |-> NoReq]]
      /\ client = [n \in Nodes |-> NoReq] /\ idle = [n \in Nodes |-> n]
      /\ queue = [n \in Nodes |-> [list |-> <<>>, size |-> 0, locked |-> FALSE]]
      /\ code = [r \in Reqs |-> NoCodeLoaded] /\ held = {} /\ drv = NoDriver(0)
  BY DEF Init, DriverInit, sdo_req_queues_init
<1>2. idle \in Seq(Nodes) /\ idle # <<>>
  BY <1>1, SdoReqAssumption, SMT DEF Nodes
<1>3. Unmade \in Request  BY DEF Unmade, Request, Status
<1>4. TypeOK  BY <1>1, <1>2, <1>3, NoList DEF TypeOK
<1>5. DriverTypes  BY <1>1 DEF DriverTypes, NoDriver, NoCodeLoaded
<1>6. /\ \A n \in Nodes : queue[n].list = <<>> /\ Listed(n) = {} /\ client[n] = NoReq
      /\ \A r \in Reqs : req[r] = Unmade
      /\ \A w \in Workers : worker[w].pc = "free" /\ worker[w].req = NoReq
      /\ main.arg = NoReq /\ NoReq \notin Reqs /\ drv.phase = "none"
      /\ drv.dso = NoCodeLoaded /\ drv.fns = NoCodeLoaded
  BY <1>1, ElemsEmpty, SdoReqAssumption DEF Listed, NoDriver
<1>7. \A r \in Reqs : ~Active(r) /\ ~Served(r) /\ ~Waited(r)
  BY <1>6 DEF Active, Served, Waited
<1>8. LoopInv  BY <1>1, <1>2, <1>6 DEF LoopInv
<1>9. QueueInv  BY <1>1, SdoReqAssumption, SMT DEF QueueInv
<1>10. PlaceInv  BY <1>6 DEF PlaceInv
<1>11. OrderInv
  <2>1. Started = {}  BY <1>6, SMT DEF Started, Unmade
  <2>2. Cardinality(Started) = 0  BY <2>1 DEF SmallSets
  <2>3. \A r \in Reqs : req[r].order = 0  BY <1>6, SMT DEF Unmade
  <2>4. \A n \in Nodes : Len(queue[n].list) = 0  BY <1>6, SMT
  <2> QED  BY <2>2, <2>3, <2>4, SMT DEF OrderInv
<1>12. StageInv
  BY <1>1, <1>6, <1>7 DEF StageInv, Stage, Unmade
<1>13. CountInv  BY <1>1, <1>6, <1>7, SMT DEF One, Unmade, CountInv
<1>14. CodeInv  BY <1>1, <1>6 DEF CodeInv
<1>15. CallbackOnce  BY <1>6, SMT DEF CallbackOnce, Unmade
<1> QED
  BY <1>4, <1>5, <1>8, <1>9, <1>10, <1>11, <1>12, <1>13, <1>14, <1>15 DEF Inv

LEMMA InvQueuesInOrder ==
    ASSUME Inv
    PROVE  QueuesInOrder
<1>1. TypeOK  BY DEF Inv
<1>2. SizeIsLength  BY DEF Inv, QueueInv, SizeIsLength
<1>3. QueueUnlocked  BY DEF Inv, QueueInv, LoopInv, QueueUnlocked
<1>4. FifoOrder
  <2> SUFFICES ASSUME NEW n \in Nodes
               PROVE  LET line == (IF client[n] = NoReq THEN <<>> ELSE <<client[n]>>)
                                  \o queue[n].list
                      IN  \A i, j \in DOMAIN line :
                              i < j => req[line[i]].order < req[line[j]].order
    BY DEF FifoOrder
  <2>1. PICK list \in Seq(Reqs) : list = queue[n].list  BY <1>1, SMTT(30), SMT DEF TypeOK
  <2>2. /\ \A i, j \in 1..Len(list) : i < j => req[list[i]].order < req[list[j]].order
        /\ \A j \in 1..Len(list) :
               client[n] # NoReq => req[client[n]].order < req[list[j]].order
    BY <2>1 DEF Inv, OrderInv
  <2>3. CASE client[n] = NoReq
    <3>1. <<>> \o list = list /\ DOMAIN list = 1..Len(list)  BY SMTT(30), SMT
    <3> QED  BY <2>1, <2>2, <2>3, <3>1
  <2>4. CASE client[n] # NoReq
    <3>1. PICK c \in Reqs : c = client[n]  BY <1>1, <2>4 DEF TypeOK
    <3>2. PICK line \in Seq(Reqs) : line = <<c>> \o list
      <4>1. <<c>> \in Seq(Reqs)  BY SMT
      <4>2. <<c>> \o list \in Seq(Reqs)  BY <4>1, SMT
      <4> QED  BY <4>2
    <3>3. /\ DOMAIN line = 1..(Len(list) + 1) /\ line[1] = c /\ Len(list) \in Nat
          /\ \A i \in 2..(Len(list) + 1) : line[i] = list[i - 1]
      BY <3>2, SMT
    <3>4. ASSUME NEW i \in 1..(Len(list) + 1), NEW j \in 1..(Len(list) + 1), i < j
          PROVE  req[line[i]].order < req[line[j]].order
      <4>1. j \in 2..(Len(list) + 1) /\ j - 1 \in 1..Len(list) /\ line[j] = list[j - 1]
        BY <3>3, <3>4, SMT
      <4>2. CASE i = 1
        <5>1. req[client[n]].order < req[list[j - 1]].order  BY <2>2, <2>4, <4>1
        <5> QED  BY <3>1, <3>3, <4>1, <4>2, <5>1
      <4>3. CASE i # 1
        <5>1. i \in 2..(Len(list) + 1) /\ i - 1 \in 1..Len(list) /\ i - 1 < j - 1
          BY <3>3, <3>4, <4>3, SMT
        <5>2. req[list[i - 1]].order < req[list[j - 1]].order  BY <2>2, <4>1, <5>1, SMTT(30), SMT
        <5> QED  BY <3>3, <4>1, <5>1, <5>2
      <4> QED  BY <4>2, <4>3
    <3>5. (IF client[n] = NoReq THEN <<>> ELSE <<client[n]>>) \o queue[n].list = line
      BY <2>1, <2>4, <3>1, <3>2
    <3> QED  BY <3>3, <3>4, <3>5
  <2> QED  BY <2>3, <2>4
<1> QED  BY <1>1, <1>2, <1>3, <1>4 DEF QueuesInOrder

\* A request has at most one holder that serves it and one that waits for it.
LEMMA HoldersCounted ==
    ASSUME SmallSets, Inv, NEW r \in Reqs
    PROVE  Cardinality(Holders(r)) = One(Served(r)) + One(Waited(r))
<1> DEFINE serving == {<<"queue", n>> : n \in {m \in Nodes : r \in Elems(queue[m].list)}}
                      \union {<<"client", n>> : n \in {m \in Nodes : client[m] = r}}
                      \union (IF main.arg = r THEN {<<"main", 0>>} ELSE {})
           waiting == {<<"worker", w>> : w \in {v \in Workers : worker[v].req = r}}
<1>1. Holders(r) = serving \union waiting  BY DEF Holders
<1>2. ~Served(r) => serving = {}  BY DEF Served, Active, Listed
<1>3. Served(r) => \E x : serving = {x} /\ \A w : x # <<"worker", w>>
  <2>1. ASSUME NEW n \in Nodes, r \in Listed(n)
        PROVE  serving = {<<"queue", n>>}
    BY <2>1, SMT DEF Inv, PlaceInv, Listed
  <2>2. ASSUME NEW n \in Nodes, client[n] = r
        PROVE  serving = {<<"client", n>>}
    BY <2>2, SMT DEF Inv, PlaceInv, Listed
  <2>3. ASSUME main.arg = r
        PROVE  serving = {<<"main", 0>>}
    BY <2>3 DEF Inv, PlaceInv, Listed
  <2>4. \A w, n : /\ <<"queue", n>> # <<"worker", w>> /\ <<"client", n>> # <<"worker", w>>
                  /\ <<"main", 0>> # <<"worker", w>>
    OBVIOUS
  <2> HIDE DEF serving
  <2> DEFINE Goal == \E x : serving = {x} /\ \A w : x # <<"worker", w>>
  <2>5. ASSUME NEW n \in Nodes, r \in Listed(n) PROVE Goal
    <3>1. serving = {<<"queue", n>>}  BY <2>1, <2>5
    <3>2. \A w : <<"queue", n>> # <<"worker", w>>  BY <2>4
    <3> QED  BY <3>1, <3>2
  <2>6. ASSUME NEW n \in Nodes, client[n] = r PROVE Goal
    <3>1. serving = {<<"client", n>>}  BY <2>2, <2>6
    <3>2. \A w : <<"client", n>> # <<"worker", w>>  BY <2>4
    <3> QED  BY <3>1, <3>2
  <2>7. ASSUME main.arg = r PROVE Goal  BY <2>3, <2>4, <2>7
  <2> HIDE DEF Goal
  <2>8. Served(r) => Goal  BY <2>5, <2>6, <2>7 DEF Served, Active
  <2> QED  BY <2>8 DEF Goal
<1>4. ~Waited(r) => waiting = {}  BY DEF Waited
<1>5. Waited(r) => \E w : waiting = {<<"worker", w>>}  BY SMT DEF Waited, Inv, PlaceInv
<1> HIDE DEF serving, waiting
<1>6. CASE Served(r) /\ Waited(r)
  <2>1. PICK x, y : serving = {x} /\ waiting = {y} /\ x # y  BY <1>3, <1>5, <1>6
  <2>3. Cardinality({x} \union {y}) = 2  BY <2>1 DEF SmallSets
  <2>4. One(Served(r)) = 1 /\ One(Waited(r)) = 1  BY <1>6 DEF One
  <2> QED  BY <1>1, <2>1, <2>3, <2>4, SMT
<1>7. CASE Served(r) /\ ~Waited(r)
  <2>1. PICK x : Holders(r) = {x}  BY <1>1, <1>3, <1>4, <1>7
  <2>2. One(Served(r)) = 1 /\ One(Waited(r)) = 0  BY <1>7 DEF One
  <2>3. Cardinality({x}) = 1  BY DEF SmallSets
  <2> QED  BY <2>1, <2>2, <2>3, SMT
<1>8. CASE ~Served(r) /\ Waited(r)
  <2>1. PICK x : Holders(r) = {x}  BY <1>1, <1>2, <1>5, <1>8
  <2>2. One(Served(r)) = 0 /\ One(Waited(r)) = 1  BY <1>8 DEF One
  <2>3. Cardinality({x}) = 1  BY DEF SmallSets
  <2> QED  BY <2>1, <2>2, <2>3, SMT
<1>9. CASE ~Served(r) /\ ~Waited(r)
  BY <1>1, <1>2, <1>4, <1>9, SMT DEF One, SmallSets
<1> QED  BY <1>6, <1>7, <1>8, <1>9

LEMMA InvRequestsOwned ==
    ASSUME SmallSets, Inv
    PROVE  RequestsOwned
<1>1. RefCounted(held)  BY HoldersCounted DEF Inv, CountInv, One, RefCounted
<1>2. PendingIsOwned
  <2> SUFFICES ASSUME NEW w \in Workers, worker[w].pc = "wait",
                      req[worker[w].req].status = "PENDING"
               PROVE  Cardinality(Holders(worker[w].req)) = 2
    BY DEF PendingIsOwned
  <2>1. PICK r \in Reqs : r = worker[w].req  BY DEF Inv, TypeOK, LoopInv
  <2>2. Waited(r) /\ Served(r)
    BY <2>1 DEF Inv, StageInv, Stage, Waited, Served
  <2>3. One(Waited(r)) = 1 /\ One(Served(r)) = 1  BY <2>2 DEF One
  <2> QED  BY <2>1, <2>3, HoldersCounted, SMT
<1> QED  BY <1>1, <1>2 DEF RequestsOwned, RequestsOwnedWith, Inv

LEMMA InvCodeIsLoaded ==
    ASSUME Inv
    PROVE  CodeIsLoaded
<1>1. \A r \in Reqs : req[r].ref > 0 => code[r] \in {NoCodeLoaded, drv.dso}
  BY DEF Inv, CodeInv
<1>2. \A object \in DriverObjects : mux_on_frame(object) \in {NoCodeLoaded, drv.dso}
  BY DEF Inv, CodeInv, mux_on_frame, handle_with_new_driver, handle_not_loaded, handle_emcy
<1> QED  BY <1>1, <1>2 DEF CodeIsLoaded, co__sdo_req_on_done

-----------------------------------------------------------------------------
(***************************************************************************)
(* The main loop, the wait of a worker and the load of a driver keep the   *)
(* invariant: requests end, and the next ones are taken from the queues.   *)
(***************************************************************************)
\* What the loop does between two requests.
LEMMA LoopSteps ==
    ASSUME Inv, drv.phase # "init", UNCHANGED drvvars,
           MainCheck \/ MainWake \/ EventsDone \/ IdleJob
    PROVE  Inv'
<1>1. /\ UNCHANGED <<req, queue, client, code, held, worker, drv>> /\ main'.arg = main.arg
      /\ idle' \in Seq(Nodes) /\ idle' # <<>> /\ wake' \in BOOLEAN
      /\ main'.pc \in {"events", "block", "idle", "process", "check"} /\ main.pc # "copy"
      /\ main'.pc = "process" => idle' = idle /\ sdo_req__have_req(Head(idle))
      /\ main' \in [pc: {"check", "block", "events", "copy", "idle", "process"},
                    arg: Reqs \union {NoReq}]
  <2>1. /\ main \in [pc: {"check", "block", "events", "copy", "idle", "process"},
                     arg: Reqs \union {NoReq}]
        /\ idle \in Seq(Nodes) /\ idle # <<>> /\ wake \in BOOLEAN
    BY DEF Inv, TypeOK, LoopInv
  <2>2. CASE MainCheck  BY <2>1, <2>2 DEF MainCheck, drvvars
  <2>3. CASE MainWake  BY <2>1, <2>3 DEF MainWake, HandlesEvents, drvvars
  <2>4. CASE EventsDone  BY <2>1, <2>4 DEF EventsDone, drvvars
  <2>5. CASE IdleJob
    BY <2>1, <2>5, RotatedIdle DEF IdleJob, drvvars
  <2> QED  BY <2>2, <2>3, <2>4, <2>5
<1>2. TypeOK' /\ DriverTypes'  BY <1>1, SMTT(30), SMT DEF Inv, TypeOK, DriverTypes
<1>3. LoopInv'  BY <1>1 DEF Inv, LoopInv, sdo_req__have_req
<1>4. CodeInv'
  BY <1>1 DEF Inv, CodeInv, Waited, Listed
<1> QED  BY <1>1, <1>2, <1>3, <1>4, NothingMoved DEF Inv

\* Requests end: the client gives up the request, first to the callback.
LEMMA OnDoneStatusStep ==
    ASSUME Inv, drv.phase # "init", UNCHANGED drvvars,
           NEW n \in Nodes, NEW status \in {"OK", "ABORT"}, OnDoneStatus(n, status)
    PROVE  Inv'
<1> DEFINE r == client[n]
<1>1. /\ r \in Reqs /\ main.arg = NoReq /\ main.pc \in {"block", "events"}
      /\ req \in [Reqs -> Request] /\ req' = [req EXCEPT ![r].status = status]
      /\ client \in [Nodes -> Reqs \union {NoReq}] /\ client' = [client EXCEPT ![n] = NoReq]
      /\ main' = [pc |-> "copy", arg |-> r]
      /\ UNCHANGED <<queue, idle, wake, worker, drv, code, held>>
  BY DEF Inv, TypeOK, LoopInv, OnDoneStatus, HandlesEvents, drvvars
<1>2. req' \in [Reqs -> Request] /\ client' \in [Nodes -> Reqs \union {NoReq}]
  BY <1>1, SMT DEF Request, Status
<1>3. /\ \A q \in Reqs : q # r => req'[q] = req[q]
      /\ req'[r] = [req[r] EXCEPT !.status = status]
      /\ \A q \in Reqs : /\ req'[q].ref = req[q].ref /\ req'[q].made = req[q].made
                        /\ req'[q].order = req[q].order /\ req'[q].called = req[q].called
                        /\ req'[q].type = req[q].type /\ req'[q].copied = req[q].copied
      /\ req'[r].status = status
  BY <1>1, SMT DEF Request
<1>4. /\ \A m : Listed(m)' = Listed(m)
      /\ \A m \in Nodes : client'[m] = IF m = n THEN NoReq ELSE client[m]
      /\ \A q : Waited(q)' = Waited(q)
      /\ Started' = Started
  BY <1>1, <1>3 DEF Listed, Waited, Started
<1>5. /\ \A q \in Reqs : Active(q)' <=> Active(q) /\ q # r
      /\ \A q \in Reqs : Served(q)' <=> Served(q)
      /\ Active(r) /\ NoReq \notin Reqs
  BY <1>1, <1>4, SdoReqAssumption, SMT DEF Inv, Active, Served, PlaceInv
<1>6. TypeOK' /\ DriverTypes'  BY <1>1, <1>2 DEF Inv, TypeOK, DriverTypes
<1>7. LoopInv'  BY <1>1, <1>5 DEF Inv, LoopInv
<1>8. QueueInv'  BY <1>1 DEF Inv, QueueInv
<1>9. PlaceInv'  BY <1>1, <1>4, <1>5, SMT DEF Inv, PlaceInv
<1>10. OrderInv'  BY <1>1, <1>3, <1>4, Lists, SMT DEF Inv, OrderInv
<1>11. StageInv'
  BY <1>1, <1>3, <1>4, <1>5, SMT DEF Inv, StageInv, Stage, Served
<1>12. CountInv'
  BY <1>1, <1>3, <1>4, <1>5, SMT DEF Inv, CountInv, One
<1>13. CodeInv'
  BY <1>1, <1>3, <1>4, <1>5, SMT DEF Inv, CodeInv
<1>14. CallbackOnce'
  BY <1>1, <1>3, <1>4, <1>5, SMT DEF Inv, CallbackOnce, StageInv, Stage
<1> QED
  BY <1>6, <1>7, <1>8, <1>9, <1>10, <1>11, <1>12, <1>13, <1>14 DEF Inv

\* Then the callback ends it.
LEMMA OnDoneDataStep ==
    ASSUME Inv, drv.phase # "init", UNCHANGED drvvars, OnDoneData
    PROVE  Inv'
<1>0. PICK r \in Reqs : r = main.arg
  BY DEF Inv, TypeOK, LoopInv, OnDoneData
<1>1. PICK ok \in BOOLEAN : req' = Done(r, ok)
  BY <1>0 DEF OnDoneData
<1>2. /\ main.arg = r /\ main.pc = "copy" /\ req \in [Reqs -> Request]
      /\ client \in [Nodes -> Reqs \union {NoReq}]
      /\ main' = [pc |-> "events", arg |-> NoReq] /\ wake' = TRUE
      /\ UNCHANGED <<queue, client, idle, worker, drv, code, held>>
  BY <1>0 DEF Inv, TypeOK, LoopInv, OnDoneData, drvvars
<1>3. ~Active(r) /\ Served(r) /\ NoReq \notin Reqs /\ req[r].ref > 0
  BY <1>2, SdoReqAssumption, SMT DEF Inv, PlaceInv, Active, Served, CountInv, One
<1>4. /\ \A q \in Reqs : q # r => req'[q] = req[q]
      /\ req'[r].ref = req[r].ref - 1 /\ req'[r].order = req[r].order
      /\ req'[r].made = req[r].made /\ req'[r].type = req[r].type
      /\ req'[r].copied = (ok /\ req[r].type = "UPLOAD")
      /\ req'[r].status = IF ok THEN req[r].status ELSE "NOMEM"
      /\ req'[r].called \in {req[r].called, req[r].called + 1}
      /\ req' \in [Reqs -> Request]
  <2> DEFINE more == IF req[r].callback THEN 1 ELSE 0
             status == IF ok THEN req[r].status ELSE "NOMEM"
             new == [req[r] EXCEPT !.copied = (ok /\ req[r].type = "UPLOAD"),
                                   !.status = status,
                                   !.called = req[r].called + more,
                                   !.ref = req[r].ref - 1]
  <2>1. /\ req[r] \in Request /\ req[r].ref - 1 \in Nat
        /\ more \in {0, 1} /\ req[r].called + more \in Nat
        /\ status \in Status /\ (ok /\ req[r].type = "UPLOAD") \in BOOLEAN
    BY <1>2, <1>3, SMT DEF Request, Status
  <2>2. req' = [req EXCEPT ![r] = new]
    BY <1>1, <1>2, SMT DEF Done, Request
  <2> HIDE DEF more, status
  <2>3. /\ new.ref = req[r].ref - 1 /\ new.order = req[r].order
        /\ new.made = req[r].made /\ new.type = req[r].type
        /\ new.copied = (ok /\ req[r].type = "UPLOAD") /\ new.status = status
        /\ new.called \in {req[r].called, req[r].called + 1}
    BY <2>1, SMT DEF Request
  <2>4. new \in Request
    BY <2>1 DEF Request
  <2> HIDE DEF new
  <2> QED  BY <1>2, <2>2, <2>3, <2>4 DEF status
<1>5. \A q \in Reqs : req'[q].ref > 0 => req[q].ref > 0
  BY <1>2, <1>3, <1>4 DEF Request
<1>55. req[r].made /\ req[r].order # 0 /\ req[r].called = 0 /\ req[r].status \in {"OK", "ABORT"}
  BY <1>2, <1>3 DEF Inv, StageInv, Stage
<1>6. /\ \A m : Listed(m)' = Listed(m)
      /\ \A q : Waited(q)' = Waited(q) /\ Active(q)' = Active(q)
      /\ Started' = Started
  BY <1>2, <1>4, SMT DEF Listed, Waited, Active, Started
<1>7. \A q \in Reqs : Served(q)' <=> Served(q) /\ q # r
  BY <1>2, <1>3, <1>6 DEF Served
<1>8. TypeOK' /\ DriverTypes'  BY <1>2, <1>3, <1>4 DEF Inv, TypeOK, DriverTypes
<1>9. LoopInv'  BY <1>2, <1>3 DEF Inv, LoopInv
<1>10. QueueInv'  BY <1>2 DEF Inv, QueueInv
<1>11. PlaceInv'  BY <1>2, <1>3, <1>6, SMTT(30), SMT DEF Inv, PlaceInv
<1>12. OrderInv'
  <2>1. \A q \in Reqs : req'[q].order = req[q].order  BY <1>4
  <2> QED  BY <1>2, <1>6, <2>1, Lists, SMT DEF Inv, OrderInv
<1>13. StageInv'
  <2>1. req'[r].status # "PENDING" /\ main'.arg = NoReq  BY <1>2, <1>4, <1>55
  <2>2. Stage(r)'
    BY <1>2, <1>3, <1>4, <1>55, <1>6, <1>7, <2>1 DEF Stage
  <2>3. ASSUME NEW q \in Reqs, q # r
        PROVE  Stage(q)'
    BY <1>2, <1>3, <1>4, <1>6, <1>7, <2>1, <2>3, SMT DEF Inv, StageInv, Stage
  <2> QED  BY <2>2, <2>3 DEF StageInv
<1>14. CountInv'
  BY <1>2, <1>3, <1>4, <1>6, <1>7, SMT DEF Inv, CountInv, One
<1>15. CodeInv'
  BY <1>2, <1>5, <1>6 DEF Inv, CodeInv
<1>16. CallbackOnce'
  BY <1>2, <1>4, <1>55, SMT DEF Inv, CallbackOnce, Request
<1> QED
  BY <1>8, <1>9, <1>10, <1>11, <1>12, <1>13, <1>14, <1>15, <1>16 DEF Inv

\* The idle job of a node moves the first request of its queue to its client.
LEMMA ProcessQueueStep ==
    ASSUME Inv, drv.phase # "init", UNCHANGED drvvars, sdo_req__process_queue
    PROVE  Inv'
<1>1. PICK n \in Nodes : n = Head(idle)
  BY RotatedIdle DEF Inv, TypeOK, LoopInv
<1>2. PICK list \in Seq(Reqs) : list = queue[n].list
  BY DEF Inv, TypeOK
<1>3. /\ main.pc = "process" /\ main.arg = NoReq /\ client[n] = NoReq /\ list # <<>>
      /\ queue \in [Nodes -> [list: Seq(Reqs), size: Nat, locked: BOOLEAN]]
      /\ client \in [Nodes -> Reqs \union {NoReq}]
      /\ req \in [Reqs -> Request]
    BY <1>1, <1>2 DEF Inv, TypeOK, LoopInv, sdo_req__process_queue
<1>4. PICK r \in Reqs, tail \in Seq(Reqs) :
        /\ r = Head(list) /\ tail = Tail(list) /\ Len(tail) = Len(list) - 1
        /\ Len(list) \in Nat /\ Elems(list) = Elems(tail) \union {r}
        /\ \A i \in 1..Len(tail) : tail[i] = list[i + 1]
  <2>1. /\ Head(list) \in Reqs /\ Tail(list) \in Seq(Reqs) /\ Len(list) \in Nat
        /\ Len(Tail(list)) = Len(list) - 1
        /\ Elems(list) = Elems(Tail(list)) \union {Head(list)}
        /\ \A i \in 1..Len(Tail(list)) : Tail(list)[i] = list[i + 1]
    BY <1>3, ElemsTail
  <2> QED  BY <2>1
<1>5. /\ queue' = [queue EXCEPT ![n].list = tail, ![n].size = @ - 1]
      /\ client' = [client EXCEPT ![n] = r]
      /\ idle' = Rotated /\ main' = [main EXCEPT !.pc = "check"]
      /\ UNCHANGED <<req, wake, worker, drv, code, held>>
  BY <1>1, <1>2, <1>3, <1>4 DEF sdo_req__process_queue, sdo_req_queue__dequeue, drvvars
<1>6. /\ queue'[n].list = tail /\ queue'[n].size = queue[n].size - 1
      /\ queue'[n].locked = queue[n].locked
      /\ \A m \in Nodes : m # n => queue'[m] = queue[m]
      /\ \A m \in Nodes : client'[m] = IF m = n THEN r ELSE client[m]
    BY <1>3, <1>5
<1>7. /\ \A i \in 1..Len(tail) : req[r].order < req[tail[i]].order
      /\ \A i, j \in 1..Len(tail) : i < j => req[tail[i]].order < req[tail[j]].order
      /\ r \notin Elems(tail)
  <2> DEFINE o == [q \in Reqs |-> req[q].order]
  <2>1. o \in [Reqs -> Nat]  BY <1>3 DEF Request
  <2>2. \A q \in Reqs : o[q] = req[q].order  OBVIOUS
  <2>3. \A i \in 1..Len(list) : list[i] \in Reqs  BY SMT
  <2>4. \A i \in 1..Len(tail) : tail[i] \in Reqs  BY SMT
  <2> HIDE DEF o
  <2>5. \A i, j \in 1..Len(list) : i < j => o[list[i]] < o[list[j]]
    BY <1>2, <2>2, <2>3, SMT DEF Inv, OrderInv
  <2>6. /\ \A i \in 1..Len(tail) : o[r] < o[tail[i]]
        /\ \A i, j \in 1..Len(tail) : i < j => o[tail[i]] < o[tail[j]]
        /\ r \notin Elems(tail)
    BY <1>3, <1>4, <2>1, <2>5, OrderedTail
  <2> QED  BY <2>2, <2>4, <2>6
<1>8. /\ \A m \in Nodes : m # n => Listed(m)' = Listed(m)
      /\ Listed(n)' = Listed(n) \ {r} /\ r \in Listed(n)
      /\ \A q : Waited(q)' = Waited(q)
      /\ Started' = Started /\ NoReq \notin Reqs
    BY <1>2, <1>4, <1>5, <1>6, <1>7, SdoReqAssumption, ZenonT(30) DEF Listed, Waited, Started
<1>9. main'.arg = main.arg /\ main'.pc = "check"
    BY <1>5 DEF Inv, TypeOK
<1>10. /\ \A q \in Reqs : Active(q)' <=> Active(q)
       /\ \A q \in Reqs : Served(q)' <=> Served(q)
  <2>1. Active(r) /\ Active(r)'  BY <1>6, <1>8 DEF Active
  <2>2. ASSUME NEW q \in Reqs, q # r PROVE Active(q)' <=> Active(q)
    BY <1>3, <1>6, <1>8, <2>2, ZenonT(30) DEF Active
  <2>3. \A q \in Reqs : Active(q)' <=> Active(q)  BY <2>1, <2>2
  <2> QED  BY <1>9, <2>3 DEF Served
<1>11. TypeOK' /\ DriverTypes'
  <2>1. queue[n].size - 1 \in Nat
    BY <1>2, <1>3, <1>4, SMT DEF Inv, QueueInv
  <2>2. queue' \in [Nodes -> [list: Seq(Reqs), size: Nat, locked: BOOLEAN]]
    BY <1>3, <1>5, <2>1, WithList
  <2> QED  BY <1>3, <1>5, <2>2, RotatedIdle DEF Inv, LoopInv, TypeOK, DriverTypes
<1>12. LoopInv'
  BY <1>3, <1>5, <1>9, RotatedIdle DEF Inv, LoopInv, TypeOK
<1>13. QueueInv'
  <2>1. queue'[n].size = Len(queue'[n].list) /\ queue'[n].size <= Limit /\ ~queue'[n].locked
    BY <1>2, <1>4, <1>6, SdoReqAssumption, SMT DEF Inv, QueueInv
  <2> QED  BY <1>6, <2>1 DEF Inv, QueueInv
<1>14. PlaceInv'
  BY <1>3, <1>5, <1>6, <1>8, <1>9, SMT DEF Inv, PlaceInv
<1>15. OrderInv'
  <2>1. ASSUME NEW m \in Nodes, NEW i \in 1..Len(queue'[m].list),
               NEW j \in 1..Len(queue'[m].list), i < j
        PROVE  req'[queue'[m].list[i]].order < req'[queue'[m].list[j]].order
    <3>1. CASE m = n  BY <1>5, <1>6, <1>7, <2>1, <3>1, SMT
    <3>2. CASE m # n  BY <1>5, <1>6, <2>1, <3>2 DEF Inv, OrderInv
    <3> QED  BY <3>1, <3>2
  <2>2. ASSUME NEW m \in Nodes, NEW j \in 1..Len(queue'[m].list), client'[m] # NoReq
        PROVE  req'[client'[m]].order < req'[queue'[m].list[j]].order
    <3>1. CASE m = n  BY <1>5, <1>6, <1>7, <3>1, SMT
    <3>2. CASE m # n
      <4>1. queue'[m] = queue[m] /\ client'[m] = client[m] /\ req' = req
        BY <1>5, <1>6, <3>2
      <4>2. j \in 1..Len(queue[m].list) /\ client[m] # NoReq  BY <2>2, <4>1
      <4>3. req[client[m]].order < req[queue[m].list[j]].order  BY <4>2 DEF Inv, OrderInv
      <4> QED  BY <4>1, <4>3
    <3> QED  BY <3>1, <3>2
  <2> QED  BY <1>5, <1>8, <2>1, <2>2 DEF Inv, OrderInv
<1>16. StageInv'  BY <1>5, <1>8, <1>9, <1>10, SMT DEF Inv, StageInv, Stage
<1>17. CountInv'  BY <1>5, <1>8, <1>10 DEF Inv, CountInv, One
<1>18. CodeInv'  BY <1>3, <1>5, <1>6, <1>8, SMT DEF Inv, CodeInv
<1>19. CallbackOnce'  BY <1>5 DEF Inv, CallbackOnce
<1> QED
  BY <1>11, <1>12, <1>13, <1>14, <1>15, <1>16, <1>17, <1>18, <1>19 DEF Inv

\* A worker sees that its request has ended, and takes the result.
LEMMA SyncWaitStep ==
    ASSUME Inv, UNCHANGED drvvars, NEW w \in Workers, SyncWait(w)
    PROVE  Inv'
<1>1. /\ worker[w].pc = "wait" /\ worker' = [worker EXCEPT ![w].pc = "result"]
      /\ worker \in [Workers -> [pc: {"free", "wait", "result"}, req: Reqs \union {NoReq}]]
      /\ UNCHANGED <<req, queue, client, idle, main, wake, drv, code, held>>
  BY DEF SyncWait, drvvars, Inv, TypeOK
<1>2. /\ worker' \in [Workers -> [pc: {"free", "wait", "result"}, req: Reqs \union {NoReq}]]
      /\ \A v \in Workers : worker'[v].req = worker[v].req
      /\ \A v \in Workers : worker'[v].pc = "free" <=> worker[v].pc = "free"
  BY <1>1
<1>3. TypeOK' /\ DriverTypes' /\ LoopInv'
  <2>1. TypeOK'  BY <1>1, <1>2 DEF Inv, TypeOK
  <2>2. DriverTypes'  BY <1>1 DEF Inv, DriverTypes
  <2>3. LoopInv'  BY <1>1, <1>2, SMT DEF Inv, LoopInv
  <2> QED  BY <2>1, <2>2, <2>3
<1>4. CodeInv'  BY <1>1, <1>2, SMT DEF Inv, CodeInv, Waited, Listed
<1> QED  BY <1>1, <1>2, <1>3, <1>4, NothingMoved DEF Inv

\* Loading the driver, calling its init function and setting its functions move
\* no request.
LEMMA DriverAlone ==
    ASSUME Inv, co_drv_load \/ co_drv_init \/ co_set_fns
    PROVE  Inv'
<1>1. /\ drv \in [phase: {"none", "loaded", "init", "ready"}, dso: Nat, fns: Nat, loads: Nat]
      /\ drv.fns \in {NoCodeLoaded, drv.dso}
      /\ drv.phase = "none" => drv.dso = NoCodeLoaded
  BY DEF Inv, DriverTypes, CodeInv
<1>2. /\ UNCHANGED <<req, queue, client, idle, wake, worker, code, held>>
      /\ main'.arg = main.arg
      /\ \/ main' = main
         \/ HandlesEvents /\ main' = [main EXCEPT !.pc = "events"]
      /\ drv'.phase = "init" => main'.pc = "events"
      /\ main' \in [pc: {"check", "block", "events", "copy", "idle", "process"},
                     arg: Reqs \union {NoReq}]
  <2>1. main \in [pc: {"check", "block", "events", "copy", "idle", "process"},
                  arg: Reqs \union {NoReq}]
    BY DEF Inv, TypeOK
  <2>2. CASE co_drv_load  BY <1>1, <2>1, <2>2 DEF co_drv_load, vars
  <2>3. CASE co_drv_init  BY <1>1, <2>1, <2>3 DEF co_drv_init
  <2>4. CASE co_set_fns  BY <1>1, <2>1, <2>4 DEF co_set_fns, InDriver
  <2> QED  BY <2>2, <2>3, <2>4
<1>3. /\ drv' \in [phase: {"none", "loaded", "init", "ready"}, dso: Nat, fns: Nat, loads: Nat]
      /\ drv'.fns \in {NoCodeLoaded, drv'.dso}
      /\ drv'.phase # "none"
      /\ drv.phase # "none" => drv'.dso = drv.dso
  <2>1. CASE co_drv_load
    <3>1. drv.phase = "none" /\ drv.fns = NoCodeLoaded  BY <1>1, <2>1 DEF co_drv_load
    <3>2. drv.loads + 1 \in Nat  BY <1>1, SMT
    <3>3. drv' = [drv EXCEPT !.phase = "loaded", !.loads = drv.loads + 1, !.dso = drv.loads + 1]
      BY <2>1 DEF co_drv_load
    <3>4. drv'.fns = drv.fns /\ drv'.phase = "loaded"  BY <1>1, <3>3
    <3> QED  BY <1>1, <3>1, <3>2, <3>3, <3>4
  <2>2. CASE co_drv_init  BY <1>1, <2>2 DEF co_drv_init
  <2>3. CASE co_set_fns  BY <1>1, <2>3 DEF co_set_fns, InDriver
  <2> QED  BY <2>1, <2>2, <2>3
<1>4. TypeOK' /\ DriverTypes'  BY <1>2, <1>3 DEF Inv, TypeOK, DriverTypes
<1>5. LoopInv'
  <2>1. CASE main' = main  BY <1>2, <2>1 DEF Inv, LoopInv
  <2>2. CASE HandlesEvents /\ main' = [main EXCEPT !.pc = "events"]
    BY <1>2, <2>2, EventsLoop DEF Inv, LoopInv
  <2> QED  BY <1>2, <2>1, <2>2
<1>6. ASSUME NEW q \in Reqs, code[q] # NoCodeLoaded, req[q].ref > 0
      PROVE  code[q] = drv'.dso
  BY <1>1, <1>3, <1>6 DEF Inv, CodeInv
<1>7. CodeInv'  BY <1>2, <1>3, <1>6, SMT DEF Waited, Listed, Inv, CodeInv
<1> QED  BY <1>2, <1>4, <1>5, <1>7, NothingMoved DEF Inv

-----------------------------------------------------------------------------
(***************************************************************************)
(* Flushing a queue and unloading a driver keep the invariant: what they   *)
(* cancel and give back are the references that were held.                 *)
(***************************************************************************)
\* Requests are withdrawn: some that were active are cancelled, and the driver
\* gives back some that it held.
Withdrawal(gone, K) ==
    /\ \A q \in gone : Active(q)
    /\ \A q \in Reqs : Active(q)' <=> Active(q) /\ q \notin gone
    /\ \A m \in Nodes : queue'[m].list = queue[m].list \/ queue'[m].list = <<>>
    /\ \A m \in Nodes : client'[m] = client[m] \/ client'[m] = NoReq
    /\ main'.arg = main.arg /\ worker' = worker /\ code' = code /\ held' = held \ K

Lost(q, gone, K) == One(q \in gone) + One(q \in K)

WithdrawnReqs(gone, K) ==
    [q \in Reqs |-> [req[q] EXCEPT !.ref = req[q].ref - Lost(q, gone, K),
                                  !.status = IF q \in gone THEN "CANCELLED"
                                             ELSE req[q].status]]

LEMMA Withdrawn ==
    ASSUME Inv, NEW gone \in SUBSET Reqs, NEW K \in SUBSET held, Withdrawal(gone, K),
           req' = WithdrawnReqs(gone, K)
    PROVE  /\ req' \in [Reqs -> Request]
           /\ (PlaceInv /\ OrderInv /\ StageInv /\ CountInv /\ CallbackOnce)'
           /\ \A q \in Reqs : req'[q].ref <= req[q].ref
<1>1. req \in [Reqs -> Request] /\ held \subseteq Reqs /\ NoReq \notin Reqs
  BY SdoReqAssumption DEF Inv, TypeOK, DriverTypes
<1>2. ASSUME NEW q \in Reqs
      PROVE  /\ req'[q].ref = req[q].ref - Lost(q, gone, K)
             /\ req'[q].status = IF q \in gone THEN "CANCELLED" ELSE req[q].status
             /\ req'[q].made = req[q].made /\ req'[q].order = req[q].order
             /\ req'[q].called = req[q].called /\ req'[q].type = req[q].type
             /\ req'[q].copied = req[q].copied
  <2>1. req[q] \in Request  BY <1>1
  <2> QED  BY <2>1 DEF Request, WithdrawnReqs
<1>3. ASSUME NEW q \in Reqs, q \notin gone, q \notin K
      PROVE  req'[q] = req[q]
  <2>1. req[q] \in Request  BY <1>1
  <2>2. Lost(q, gone, K) = 0  BY <1>3, SMT DEF Lost, One
  <2>3. req'[q] = [req[q] EXCEPT !.ref = req[q].ref - 0, !.status = req[q].status]
    BY <1>3, <2>2 DEF WithdrawnReqs
  <2>4. PICK old \in Request : old = req[q]  BY <2>1
  <2>5. req'[q] = [old EXCEPT !.ref = old.ref, !.status = old.status]
    <3>1. old.ref - 0 = old.ref  BY SMT DEF Request
    <3> QED  BY <2>3, <2>4, <3>1
  <2>6. [old EXCEPT !.ref = old.ref, !.status = old.status] = old  BY DEF Request
  <2> QED  BY <2>4, <2>5, <2>6
<1>4. \A q : Waited(q)' = Waited(q)  BY DEF Waited, Withdrawal
<1>5. ASSUME NEW q \in Reqs
      PROVE  /\ Active(q)' <=> Active(q) /\ q \notin gone
             /\ q \in gone => Active(q) /\ main.arg # q
             /\ Served(q)' <=> Served(q) /\ q \notin gone
             /\ main'.arg = main.arg
  <2>1. /\ Active(q)' <=> Active(q) /\ q \notin gone
        /\ q \in gone => Active(q)
        /\ main'.arg = main.arg
    BY DEF Withdrawal
  <2>2. Active(q) => main.arg # q  BY DEF Inv, PlaceInv, Active
  <2> QED  BY <2>1, <2>2 DEF Served
<1>6. ASSUME NEW q \in Reqs
      PROVE  /\ req'[q].ref = One(Served(q)') + One(Waited(q)') + One(q \in held')
             /\ req'[q].ref \in Nat /\ req'[q].ref <= req[q].ref
  <2>1. req[q].ref = One(Served(q)) + One(Waited(q)) + One(q \in held)
    BY DEF Inv, CountInv
  <2>2. q \in gone => Served(q)  BY <1>5 DEF Served
  <2>3. One(Served(q)') = One(Served(q)) - One(q \in gone)  BY <1>5, <2>2, SMT DEF One
  <2>4. One(q \in held') = One(q \in held) - One(q \in K)
    <3>1. q \in held' <=> q \in held /\ q \notin K  BY DEF Withdrawal
    <3>2. q \in K => q \in held  OBVIOUS
    <3> QED  BY <3>1, <3>2, SMT DEF One
  <2>5. One(Waited(q)') = One(Waited(q))  BY <1>4
  <2>7. req'[q].ref = req[q].ref - (One(q \in gone) + One(q \in K))  BY <1>2 DEF Lost
  <2>8. /\ One(Served(q)') \in {0, 1} /\ One(Waited(q)') \in {0, 1} /\ One(q \in held') \in {0, 1}
        /\ One(Served(q)) \in {0, 1} /\ One(Waited(q)) \in {0, 1} /\ One(q \in held) \in {0, 1}
        /\ One(q \in gone) \in {0, 1} /\ One(q \in K) \in {0, 1}
    BY DEF One
  <2> QED  BY <2>1, <2>3, <2>4, <2>5, <2>7, <2>8, SMT
<1>7. req' \in [Reqs -> Request]
  <2>1. ASSUME NEW q \in Reqs PROVE req'[q] \in Request
    <3>1. req[q] \in Request /\ req'[q].status \in Status  BY <1>1, <1>2 DEF Request, Status
    <3>2. req'[q] = [req[q] EXCEPT !.ref = req'[q].ref, !.status = req'[q].status]
      BY <1>2 DEF WithdrawnReqs
    <3> QED  BY <1>6, <3>1, <3>2 DEF Request
  <2>2. req' = [q \in Reqs |-> req'[q]]  BY DEF WithdrawnReqs
  <2> QED  BY <2>1, <2>2
<1>8. CountInv'  BY <1>6 DEF CountInv
<1>9. /\ \A m \in Nodes : \A q : q \in Listed(m)' => q \in Listed(m)
      /\ \A m \in Nodes : \A q \in Reqs : client'[m] = q => client[m] = q
      /\ worker' = worker /\ main'.arg = main.arg
  BY <1>1, ElemsEmpty DEF Listed, Withdrawal
<1>10. PlaceInv'  BY <1>9, SMT DEF Inv, PlaceInv
<1>11. OrderInv'
  <2>1. Started' = Started  BY <1>2 DEF Started
  <2>2. \A m \in Nodes : \A i \in 1..Len(queue'[m].list) :
           queue'[m].list = queue[m].list
    <3> SUFFICES ASSUME NEW m \in Nodes, queue'[m].list = <<>>, NEW i \in 1..Len(queue'[m].list)
                 PROVE  FALSE
      BY DEF Withdrawal
    <3> QED  BY SMT
  <2>3. \A m \in Nodes : client'[m] # NoReq => client'[m] = client[m] /\ client[m] \in Reqs
    <3>1. client \in [Nodes -> Reqs \union {NoReq}]  BY DEF Inv, TypeOK
    <3> QED  BY <3>1 DEF Withdrawal
  <2>4. \A q \in Reqs : req'[q].order = req[q].order  BY <1>2
  <2>5. ASSUME NEW m \in Nodes, NEW i \in 1..Len(queue'[m].list),
               NEW j \in 1..Len(queue'[m].list), i < j
        PROVE  req'[queue'[m].list[i]].order < req'[queue'[m].list[j]].order
    <3>1. queue'[m].list = queue[m].list  BY <2>2
    <3>2. queue[m].list[i] \in Reqs /\ queue[m].list[j] \in Reqs  BY <3>1, Lists DEF Inv
    <3>3. req[queue[m].list[i]].order < req[queue[m].list[j]].order
      BY <2>5, <3>1 DEF Inv, OrderInv
    <3> QED  BY <2>4, <3>1, <3>2, <3>3
  <2>6. ASSUME NEW m \in Nodes, NEW j \in 1..Len(queue'[m].list), client'[m] # NoReq
        PROVE  req'[client'[m]].order < req'[queue'[m].list[j]].order
    <3>1. queue'[m].list = queue[m].list  BY <2>2
    <3>2. queue[m].list[j] \in Reqs /\ client'[m] = client[m] /\ client[m] \in Reqs
      BY <2>3, <2>6, <3>1, Lists DEF Inv
    <3>3. req[client[m]].order < req[queue[m].list[j]].order
      BY <2>6, <3>1, <3>2 DEF Inv, OrderInv
    <3> QED  BY <2>4, <3>1, <3>2, <3>3
  <2> QED  BY <2>1, <2>4, <2>5, <2>6 DEF Inv, OrderInv
<1>12. StageInv'
  <2> SUFFICES ASSUME NEW q \in Reqs PROVE Stage(q)'
    BY DEF StageInv
  <2>1. Stage(q)  BY DEF Inv, StageInv
  <2>2. q \in gone \/ q \in K => req[q].made
    BY <1>1, <1>5, <2>1 DEF Stage, Served
  <2>3. q \in gone => req[q].order # 0
    BY <1>5, <2>1 DEF Stage, Served
  <2>4. /\ q \notin held => q \notin held'
        /\ code' = code
    BY DEF Withdrawal
  <2>5. /\ req'[q].made = req[q].made /\ req'[q].order = req[q].order
        /\ req'[q].called = req[q].called
        /\ q \notin gone => req'[q].status = req[q].status
    BY <1>2
  <2>6. /\ Waited(q)' = Waited(q) /\ (Active(q)' <=> Active(q) /\ q \notin gone)
        /\ q \in gone => Active(q) /\ main.arg # q
        /\ (Served(q)' <=> Served(q) /\ q \notin gone) /\ main'.arg = main.arg
    BY <1>4, <1>5
  <2>7. CASE q \in gone
    <3>1. req'[q].status = "CANCELLED"  BY <1>2, <2>7
    <3> QED  BY <2>1, <2>2, <2>3, <2>5, <2>6, <2>7, <3>1 DEF Stage
  <2>8. CASE q \notin gone
    <3>1. req'[q].made \/ req'[q] = req[q]  BY <1>3, <2>2, <2>5, <2>8
    <3> QED  BY <2>1, <2>4, <2>5, <2>6, <2>8, <3>1 DEF Stage
  <2> QED  BY <2>7, <2>8
<1>13. CallbackOnce'
  <2>1. ASSUME NEW q \in Reqs, req'[q].called > 0
        PROVE  q \notin gone /\ req[q].called > 0
    BY <1>2, <1>5, <2>1, SMT DEF Inv, StageInv, Stage
  <2> QED  BY <1>2, <2>1, SMT DEF Inv, CallbackOnce
<1> QED  BY <1>6, <1>7, <1>8, <1>10, <1>11, <1>12, <1>13

-----------------------------------------------------------------------------
(* Queues are flushed and drivers unloaded. *)

\* The requests that a flush of the queue of n cancels.
AtNode(n) == {q \in Reqs : q \in Listed(n) \/ q = client[n]}

LEMMA Emptied ==
    ASSUME Inv, NEW n \in Nodes,
           queue' = [queue EXCEPT ![n].list = <<>>, ![n].size = 0],
           client' = [client EXCEPT ![n] = NoReq]
    PROVE  /\ queue' \in [Nodes -> [list: Seq(Reqs), size: Nat, locked: BOOLEAN]]
           /\ client' \in [Nodes -> Reqs \union {NoReq}]
           /\ QueueInv'
           /\ \A q \in AtNode(n) : Active(q)
           /\ \A q \in Reqs : Active(q)' <=> Active(q) /\ q \notin AtNode(n)
           /\ \A m \in Nodes : queue'[m].list = queue[m].list \/ queue'[m].list = <<>>
           /\ \A m \in Nodes : client'[m] = client[m] \/ client'[m] = NoReq
           /\ \A q \in Reqs : q \notin Listed(n)' /\ client'[n] # q
<1>1. /\ queue \in [Nodes -> [list: Seq(Reqs), size: Nat, locked: BOOLEAN]]
      /\ client \in [Nodes -> Reqs \union {NoReq}] /\ NoReq \notin Reqs
  BY SdoReqAssumption DEF Inv, TypeOK
<1>2. /\ queue'[n].list = <<>> /\ queue'[n].size = 0 /\ queue'[n].locked = queue[n].locked
      /\ \A m \in Nodes : m # n => queue'[m] = queue[m]
      /\ \A m \in Nodes : client'[m] = IF m = n THEN NoReq ELSE client[m]
  BY <1>1
<1>3. /\ queue' \in [Nodes -> [list: Seq(Reqs), size: Nat, locked: BOOLEAN]]
      /\ client' \in [Nodes -> Reqs \union {NoReq}]
  BY <1>1, NoList, WithList
<1>4. QueueInv'
  <2>1. Len(queue'[n].list) = 0 /\ 0 <= Limit  BY <1>2, SdoReqAssumption, SMT
  <2> QED  BY <1>2, <2>1 DEF Inv, QueueInv
<1>5. Listed(n)' = {} /\ \A m \in Nodes : m # n => Listed(m)' = Listed(m)
  BY <1>2, ElemsEmpty DEF Listed
<1>6. \A q \in AtNode(n) : Active(q)  BY DEF AtNode, Active
<1>7. ASSUME NEW q \in Reqs
      PROVE  Active(q)' <=> Active(q) /\ q \notin AtNode(n)
  <2>1. ASSUME NEW m \in Nodes, q \in AtNode(n), m # n
        PROVE  q \notin Listed(m) /\ client[m] # q
    BY <2>1 DEF AtNode, Inv, PlaceInv
  <2>2. Active(q)' <=> \E m \in Nodes : m # n /\ (q \in Listed(m) \/ client[m] = q)
    BY <1>1, <1>2, <1>5, SMT DEF Active
  <2> QED  BY <2>1, <2>2 DEF Active, AtNode
<1> QED  BY <1>1, <1>2, <1>3, <1>4, <1>5, <1>6, <1>7

LEMMA CancelledIs ==
    ASSUME Inv, NEW n \in Nodes
    PROVE  Cancelled(n) = WithdrawnReqs(AtNode(n), {})
<1> DEFINE F(q) == IF q \in Elems(queue[n].list) \/ q = client[n]
                   THEN [req[q] EXCEPT !.ref = @ - 1, !.status = "CANCELLED"] ELSE req[q]
           G(q) == [req[q] EXCEPT !.ref = req[q].ref - Lost(q, AtNode(n), {}),
                                  !.status = IF q \in AtNode(n) THEN "CANCELLED"
                                             ELSE req[q].status]
<1>1. ASSUME NEW q \in Reqs
      PROVE  F(q) = G(q)
  <2>1. req[q] \in Request  BY DEF Inv, TypeOK
  <2>2. q \in AtNode(n) <=> q \in Elems(queue[n].list) \/ q = client[n]
    BY DEF AtNode, Listed
  <2>3. Lost(q, AtNode(n), {}) = IF q \in AtNode(n) THEN 1 ELSE 0
    BY SMT DEF Lost, One
  <2>4. CASE q \in AtNode(n)  BY <2>1, <2>2, <2>3, <2>4 DEF Request
  <2>5. CASE q \notin AtNode(n)
    <3>1. req[q].ref - 0 = req[q].ref  BY <2>1, SMT DEF Request
    <3>2. req[q] = [req[q] EXCEPT !.ref = req[q].ref, !.status = req[q].status]
      BY <2>1 DEF Request
    <3> QED  BY <2>2, <2>3, <2>5, <3>1, <3>2
  <2> QED  BY <2>4, <2>5
<1>2. Cancelled(n) = [q \in Reqs |-> F(q)]  BY DEF Cancelled
<1>3. WithdrawnReqs(AtNode(n), {}) = [q \in Reqs |-> G(q)]  BY DEF WithdrawnReqs
<1> HIDE DEF F, G
<1> QED  BY <1>1, <1>2, <1>3

LEMMA ReleasedIs ==
    ASSUME Inv, NEW gone \in SUBSET Reqs
    PROVE  Released(WithdrawnReqs(gone, {})) = WithdrawnReqs(gone, held)
<1> DEFINE status(q) == IF q \in gone THEN "CANCELLED" ELSE req[q].status
           F(q) == IF q \in held THEN Unref(WithdrawnReqs(gone, {}), q)[q]
                   ELSE WithdrawnReqs(gone, {})[q]
           G(q) == [req[q] EXCEPT !.ref = req[q].ref - Lost(q, gone, held), !.status = status(q)]
           H(q) == [req[q] EXCEPT !.ref = req[q].ref - Lost(q, gone, {}), !.status = status(q)]
<1>1. ASSUME NEW q \in Reqs
      PROVE  F(q) = G(q)
  <2>1. req[q] \in Request  BY DEF Inv, TypeOK
  <2>2. WithdrawnReqs(gone, {})[q] = H(q) /\ q \in DOMAIN WithdrawnReqs(gone, {})
    BY DEF WithdrawnReqs
  <2>3. Lost(q, gone, held) = Lost(q, gone, {}) + One(q \in held)
        /\ Lost(q, gone, {}) \in {0, 1}
    BY SMT DEF Lost, One
  <2>4. CASE q \in held
    <3>1. F(q) = [H(q) EXCEPT !.ref = H(q).ref - 1]
      BY <2>2, <2>4 DEF Unref
    <3>2. req[q].ref - Lost(q, gone, held) = (req[q].ref - Lost(q, gone, {})) - 1
      BY <2>1, <2>3, <2>4, SMT DEF One, Request
    <3> HIDE DEF status, F
    <3> QED  BY <2>1, <3>1, <3>2 DEF Request
  <2>5. CASE q \notin held
    <3>1. Lost(q, gone, held) = Lost(q, gone, {})  BY <2>3, <2>5, SMT DEF One
    <3> QED  BY <2>2, <2>5, <3>1
  <2> QED  BY <2>4, <2>5
<1>2. Released(WithdrawnReqs(gone, {})) = [q \in Reqs |-> F(q)]  BY DEF Released
<1>3. WithdrawnReqs(gone, held) = [q \in Reqs |-> G(q)]  BY DEF WithdrawnReqs
<1> HIDE DEF F, G
<1> QED  BY <1>1, <1>2, <1>3

LEMMA NoneWithdrawn ==
    ASSUME Inv
    PROVE  WithdrawnReqs({}, {}) = req
<1> DEFINE G(q) == [req[q] EXCEPT !.ref = req[q].ref - Lost(q, {}, {}),
                                  !.status = IF q \in {} THEN "CANCELLED" ELSE req[q].status]
<1>1. ASSUME NEW q \in Reqs
      PROVE  G(q) = req[q]
  <2>1. req[q] \in Request  BY DEF Inv, TypeOK
  <2>2. req[q].ref - Lost(q, {}, {}) = req[q].ref  BY <2>1, SMT DEF Lost, One, Request
  <2>3. req[q] = [req[q] EXCEPT !.ref = req[q].ref, !.status = req[q].status]
    BY <2>1 DEF Request
  <2> QED  BY <2>2, <2>3
<1>2. WithdrawnReqs({}, {}) = [q \in Reqs |-> G(q)]  BY DEF WithdrawnReqs
<1>3. req = [q \in Reqs |-> req[q]]  BY DEF Inv, TypeOK
<1> HIDE DEF G
<1> QED  BY <1>1, <1>2, <1>3

\* A queue is flushed.
LEMMA FlushStep ==
    ASSUME Inv, drv.phase # "init", UNCHANGED drvvars, NEW n \in Nodes, sdo_req_queue_flush(n)
    PROVE  Inv'
<1>1. /\ HandlesEvents /\ main' = [main EXCEPT !.pc = "events"]
      /\ queue' = [queue EXCEPT ![n].list = <<>>, ![n].size = 0]
      /\ client' = [client EXCEPT ![n] = NoReq]
      /\ UNCHANGED <<idle, wake, worker, drv, code, held>>
  BY DEF sdo_req_queue_flush, drvvars
<1>2. /\ main'.pc = "events" /\ main'.arg = main.arg
      /\ main' \in [pc: {"check", "block", "events", "copy", "idle", "process"},
                     arg: Reqs \union {NoReq}]
  BY <1>1, EventsMain
<1>3. req' = WithdrawnReqs(AtNode(n), {})  BY CancelledIs DEF sdo_req_queue_flush
<1>4. Withdrawal(AtNode(n), {})  BY <1>1, <1>2, Emptied DEF Withdrawal
<1>5. AtNode(n) \in SUBSET Reqs /\ {} \in SUBSET held  BY DEF AtNode
<1>6. /\ req' \in [Reqs -> Request]
      /\ (PlaceInv /\ OrderInv /\ StageInv /\ CountInv /\ CallbackOnce)'
      /\ \A q \in Reqs : req'[q].ref <= req[q].ref
  BY <1>3, <1>4, <1>5, Withdrawn
<1>7. /\ queue' \in [Nodes -> [list: Seq(Reqs), size: Nat, locked: BOOLEAN]]
      /\ client' \in [Nodes -> Reqs \union {NoReq}]
      /\ QueueInv'
  BY <1>1, Emptied
<1>8. TypeOK' /\ DriverTypes'
  BY <1>1, <1>2, <1>6, <1>7 DEF Inv, TypeOK, DriverTypes
<1>9. LoopInv'  BY <1>1, EventsLoop DEF Inv, LoopInv
<1>10. CodeInv'
  <2>1. ASSUME NEW q \in Reqs PROVE req'[q].ref > 0 => req[q].ref > 0
    BY <1>6, SMT DEF Inv, TypeOK, Request
  <2>2. ASSUME NEW q \in Reqs, NEW m \in Nodes, q \in Listed(m)' \/ client'[m] = q
        PROVE  q \in Listed(m) \/ client[m] = q
    BY <1>1, <2>2, Emptied, ElemsEmpty, SdoReqAssumption DEF Listed
  <2>3. \A q : Waited(q)' = Waited(q)  BY <1>1 DEF Waited
  <2> QED  BY <1>1, <2>1, <2>2, <2>3, SMT DEF Inv, CodeInv
<1> QED  BY <1>6, <1>7, <1>8, <1>9, <1>10 DEF Inv

\* The driver is gone, and with it every pointer into it.
LEMMA UnloadedCode ==
    ASSUME Inv, code' = code, held' = {}, main'.arg = NoReq, worker' = worker,
           drv' = NoDriver(drv.loads), CountInv',
           \A q \in Reqs : code[q] # NoCodeLoaded => ~Active(q)'
    PROVE  CodeInv' /\ DriverTypes'
<1>1. NoReq \notin Reqs  BY SdoReqAssumption
<1>2. drv'.phase = "none" /\ drv'.dso = NoCodeLoaded /\ drv'.fns = NoCodeLoaded
  BY DEF NoDriver
<1>3. \A q : Waited(q)' = Waited(q)  BY DEF Waited
<1>4. ASSUME NEW q \in Reqs, code[q] # NoCodeLoaded
      PROVE  ~Waited(q) /\ ~Active(q)' /\ req'[q].ref = 0
  BY <1>1, <1>3, <1>4, SMT DEF Inv, CodeInv, Served, CountInv, One
<1>5. CodeInv'  BY <1>2, <1>3, <1>4, SMT DEF Active, CodeInv
<1>6. DriverTypes'  BY DEF Inv, DriverTypes, NoDriver, NoCodeLoaded
<1> QED  BY <1>5, <1>6

\* A driver is unloaded, after a flush of its queue.
LEMMA UnloadStep ==
    ASSUME Inv, unload_driver
    PROVE  Inv'
<1>1. PICK n \in Nodes : n = DriverNode
  BY SdoReqAssumption, SMT DEF Nodes, DriverNode
<1>2. /\ HandlesEvents /\ main' = [main EXCEPT !.pc = "events"]
      /\ queue' = [queue EXCEPT ![n].list = <<>>, ![n].size = 0]
      /\ client' = [client EXCEPT ![n] = NoReq]
      /\ held' = {} /\ drv' = NoDriver(drv.loads)
      /\ UNCHANGED <<idle, wake, worker, code>>
  BY <1>1 DEF unload_driver, co_drv_unload
<1>3. /\ main'.pc = "events" /\ main'.arg = NoReq /\ main.arg = NoReq
      /\ main' \in [pc: {"check", "block", "events", "copy", "idle", "process"},
                     arg: Reqs \union {NoReq}]
  BY <1>2, EventsMain
<1>4. AtNode(n) \in SUBSET Reqs /\ held \in SUBSET held  BY DEF AtNode
<1>5. req' = WithdrawnReqs(AtNode(n), held)
  BY <1>1, <1>4, CancelledIs, ReleasedIs DEF unload_driver, co_drv_unload
<1>6. Withdrawal(AtNode(n), held)  BY <1>2, <1>3, Emptied DEF Withdrawal
<1>7. /\ req' \in [Reqs -> Request]
      /\ (PlaceInv /\ OrderInv /\ StageInv /\ CountInv /\ CallbackOnce)'
  BY <1>4, <1>5, <1>6, Withdrawn
<1>8. /\ queue' \in [Nodes -> [list: Seq(Reqs), size: Nat, locked: BOOLEAN]]
      /\ client' \in [Nodes -> Reqs \union {NoReq}]
      /\ QueueInv'
  BY <1>2, Emptied
<1>9. TypeOK'
  BY <1>2, <1>3, <1>7, <1>8 DEF Inv, TypeOK
<1>10. LoopInv'  BY <1>2, EventsLoop DEF Inv, LoopInv
<1>11. CodeInv' /\ DriverTypes'
  BY <1>1, <1>2, <1>3, <1>6, <1>7, UnloadedCode, SMT DEF Inv, CodeInv, Active, AtNode,
     Withdrawal
<1> QED  BY <1>7, <1>8, <1>9, <1>10, <1>11 DEF Inv

\* The initialisation of a driver ends, well or not.
LEMMA InitializeStep ==
    ASSUME Inv, initialize_new_driver
    PROVE  Inv'
<1>1. /\ drv.phase = "init" /\ main.pc = "events" /\ main.arg = NoReq
      /\ UNCHANGED <<queue, client, idle, wake, main, worker>>
  BY DEF Inv, LoopInv, initialize_new_driver
<1>2. LoopInv'
  BY <1>1 DEF Inv, LoopInv
<1>3. CASE drv' = [drv EXCEPT !.phase = "ready"] /\ UNCHANGED <<req, code, held>>
  <2>1. TypeOK'  BY <1>1, <1>3 DEF Inv, TypeOK
  <2>2. /\ DriverTypes'
        /\ drv'.phase = "ready" /\ drv'.dso = drv.dso /\ drv'.fns = drv.fns
    BY <1>3 DEF Inv, DriverTypes
  <2>3. CodeInv'
    BY <1>1, <1>3, <2>2 DEF Inv, CodeInv, Waited, Listed
  <2> QED  BY <1>1, <1>2, <1>3, <2>1, <2>2, <2>3, NothingMoved DEF Inv
<1>4. CASE Outstanding = {} /\ co_drv_unload(req)
  <2>1. held' = {} /\ drv' = NoDriver(drv.loads) /\ code' = code
    BY <1>4 DEF co_drv_unload
  <2>2. {} \in SUBSET Reqs /\ held \in SUBSET held  OBVIOUS
  <2>3. req' = WithdrawnReqs({}, held)
    BY <1>4, <2>2, NoneWithdrawn, ReleasedIs DEF co_drv_unload
  <2>4. \A q : Active(q)' = Active(q)  BY <1>1 DEF Active, Listed
  <2>5. Withdrawal({}, held)
    <3>1. held' = held \ held  BY <2>1
    <3> QED  BY <1>1, <2>1, <2>4, <3>1 DEF Withdrawal
  <2>6. /\ req' \in [Reqs -> Request]
        /\ (PlaceInv /\ OrderInv /\ StageInv /\ CountInv /\ CallbackOnce)'
    BY <2>2, <2>3, <2>5, Withdrawn
  <2>7. TypeOK' /\ QueueInv'  BY <1>1, <2>6 DEF Inv, TypeOK, QueueInv
  <2>8. CodeInv' /\ DriverTypes'
    <3>1. ASSUME NEW q \in Reqs, code[q] # NoCodeLoaded
          PROVE  ~Active(q)'
      <4>1. q \notin Listed(DriverNode) /\ client[DriverNode] # q
        BY <1>4, <3>1, SdoReqAssumption DEF Outstanding, Listed
      <4> QED  BY <2>4, <3>1, <4>1 DEF Inv, CodeInv, Active
    <3> QED  BY <1>1, <2>1, <2>6, <3>1, UnloadedCode
  <2> QED  BY <1>2, <2>6, <2>7, <2>8 DEF Inv
<1> QED  BY <1>3, <1>4 DEF initialize_new_driver

-----------------------------------------------------------------------------
(***************************************************************************)
(* What making, starting and giving back a request does to the invariant,  *)
(* whoever does it.                                                        *)
(***************************************************************************)
\* Nothing is different for the other requests.
OthersSame(r) ==
    /\ \A q \in Reqs : q # r => (Waited(q)' <=> Waited(q))
    /\ \A q \in Reqs : q # r => code'[q] = code[q]
    /\ \A q \in Reqs : q # r => (q \in held' <=> q \in held)
    /\ \A q \in Reqs : \A v, w \in Workers : worker'[v].req = q /\ worker'[w].req = q => v = w

\* One request changes, and who waits for it or holds it, but not its place.
Changes(r, new) ==
    /\ UNCHANGED <<queue, client>> /\ main'.arg = main.arg
    /\ req' = [req EXCEPT ![r] = new]
    /\ new.made /\ new.order = req[r].order
    /\ new.status = req[r].status /\ new.called = req[r].called
    /\ new.called = 0 \/ (new.type = req[r].type /\ new.copied = req[r].copied)
    /\ new.ref = One(Served(r)) + One(Waited(r)') + One(r \in held')
    /\ Waited(r)' => Waited(r)
    /\ OthersSame(r)

LEMMA Changed ==
    ASSUME Inv, NEW r \in Reqs, NEW new \in Request, Changes(r, new)
    PROVE  /\ req' \in [Reqs -> Request]
           /\ (QueueInv /\ PlaceInv /\ OrderInv /\ StageInv /\ CountInv /\ CallbackOnce)'
           /\ \A q \in Reqs : q # r => req'[q] = req[q]
           /\ \A n : Listed(n)' = Listed(n)
           /\ req'[r] = new
<1>1. /\ req \in [Reqs -> Request] /\ req' = [req EXCEPT ![r] = new]
      /\ UNCHANGED <<queue, client>> /\ main'.arg = main.arg
  BY DEF Changes, Inv, TypeOK
<1>2. /\ req' \in [Reqs -> Request] /\ req'[r] = new
      /\ \A q \in Reqs : q # r => req'[q] = req[q]
  BY <1>1
<1>3. \A q \in Reqs : req'[q].order = req[q].order
  BY <1>2 DEF Changes
<1>4. /\ \A n : Listed(n)' = Listed(n)
      /\ \A q : Active(q)' = Active(q) /\ Served(q)' = Served(q)
      /\ Started' = Started
  BY <1>1, <1>3 DEF Listed, Active, Served, Started
<1>5. QueueInv'  BY <1>1 DEF Inv, QueueInv
<1>6. PlaceInv'  BY <1>1, <1>4, SMT DEF Changes, OthersSame, Inv, PlaceInv
<1>7. OrderInv'  BY <1>1, <1>3, <1>4, Lists, SMT DEF Inv, TypeOK, OrderInv
<1>8. StageInv'  BY <1>1, <1>2, <1>4, SMT DEF Inv, StageInv, Changes, Stage, OthersSame
<1>9. CountInv'  BY <1>2, <1>4, SMT DEF Changes, OthersSame, One, Inv, CountInv
<1>10. CallbackOnce'  BY <1>2, SMT DEF Changes, Inv, CallbackOnce
<1> QED  BY <1>2, <1>4, <1>5, <1>6, <1>7, <1>8, <1>9, <1>10

\* A request is put at the end of a queue that has room for it.
Enqueues(n, r, new) ==
    /\ HasRoom(n) /\ req[r].order = 0
    /\ queue' = [queue EXCEPT ![n].size = @ + 1, ![n].list = Append(@, r)]
    /\ client' = client /\ main'.arg = main.arg /\ UNCHANGED <<drv, code, held>>
    /\ req' = [req EXCEPT ![r] = new]
    /\ new.made /\ new.status = "PENDING" /\ new.called = 0
    /\ new.order = Cardinality(Started) + 1
    /\ new.ref = 1 + One(Waited(r)') + One(r \in held)
    /\ code[r] # NoCodeLoaded => n = DriverNode /\ ~Waited(r)' /\ req[r].ref > 0
    /\ OthersSame(r)

LEMMA Enqueued ==
    ASSUME Countable, Inv, NEW n \in Nodes, NEW r \in Reqs, NEW new \in Request,
           Enqueues(n, r, new)
    PROVE  /\ req' \in [Reqs -> Request]
           /\ queue' \in [Nodes -> [list: Seq(Reqs), size: Nat, locked: BOOLEAN]]
           /\ (DriverTypes /\ QueueInv /\ PlaceInv /\ OrderInv /\ StageInv /\ CountInv)'
           /\ (CodeInv /\ CallbackOnce)'
           /\ \A m \in Nodes : queue[m].list # <<>> => queue'[m].list # <<>>
<1>1. /\ req \in [Reqs -> Request] /\ req' = [req EXCEPT ![r] = new]
      /\ client' = client /\ main'.arg = main.arg /\ UNCHANGED <<drv, code, held>>
      /\ client \in [Nodes -> Reqs \union {NoReq}] /\ NoReq \notin Reqs
      /\ queue \in [Nodes -> [list: Seq(Reqs), size: Nat, locked: BOOLEAN]]
      /\ Limit \in Nat
  BY SdoReqAssumption DEF Enqueues, Inv, TypeOK
<1>2. /\ req' \in [Reqs -> Request] /\ req'[r] = new
      /\ \A q \in Reqs : q # r => req'[q] = req[q]
  BY <1>1
<1>3. PICK list \in Seq(Reqs), more \in Seq(Reqs) :
        /\ list = queue[n].list /\ more = Append(list, r) /\ Len(more) = Len(list) + 1
        /\ Len(list) \in Nat /\ more[Len(list) + 1] = r /\ more # <<>>
        /\ \A i \in 1..Len(list) : more[i] = list[i]
        /\ Elems(more) = Elems(list) \union {r}
  <2>1. PICK list \in Seq(Reqs) : list = queue[n].list  BY <1>1
  <2>2. /\ Append(list, r) \in Seq(Reqs) /\ Len(Append(list, r)) = Len(list) + 1
        /\ Len(list) \in Nat /\ Append(list, r)[Len(list) + 1] = r /\ Append(list, r) # <<>>
        /\ \A i \in 1..Len(list) : Append(list, r)[i] = list[i]
    BY SMT
  <2>3. Elems(Append(list, r)) = Elems(list) \union {r}  BY ElemsAppend, SMT
  <2> QED  BY <2>1, <2>2, <2>3
<1>4. queue' = [queue EXCEPT ![n].list = more, ![n].size = queue[n].size + 1]
  BY <1>3, ZenonT(30) DEF Enqueues
<1>5. /\ queue'[n].list = more /\ queue'[n].size = queue[n].size + 1
      /\ queue'[n].locked = queue[n].locked
      /\ \A m \in Nodes : m # n => queue'[m] = queue[m]
  BY <1>1, <1>4
<1>6. queue' \in [Nodes -> [list: Seq(Reqs), size: Nat, locked: BOOLEAN]]
  <2>1. queue[n].size + 1 \in Nat  BY <1>1, SMT
  <2> QED  BY <1>1, <1>4, <2>1, WithList
<1>7. QueueInv'  BY <1>1, <1>3, <1>5, SMT DEF Inv, QueueInv, Enqueues, HasRoom
<1>8. Stage(r) /\ ~Served(r) /\ ~Active(r) /\ main.arg # r
  BY DEF Enqueues, Inv, StageInv, Stage, Served
<1>9. Listed(n)' = Listed(n) \union {r} /\ \A m \in Nodes : m # n => Listed(m)' = Listed(m)
  BY <1>3, <1>5 DEF Listed
<1>10. /\ \A q \in Reqs : Active(q)' <=> Active(q) \/ q = r
       /\ \A q \in Reqs : Served(q)' <=> Served(q) \/ q = r
  BY <1>1, <1>9 DEF Active, Served
<1>11. \A q \in Reqs : q # r => (Waited(q)' <=> Waited(q))
  BY DEF Enqueues, OthersSame
<1>12. PlaceInv'
  <2>1. \A q \in Reqs : \A v, w \in Workers : worker'[v].req = q /\ worker'[w].req = q => v = w
    BY DEF Enqueues, OthersSame
  <2>2. \A m \in Nodes : r \notin Listed(m) /\ client[m] # r
    BY <1>8 DEF Active
  <2>3. ASSUME NEW q \in Reqs, NEW m \in Nodes, NEW k \in Nodes
        PROVE  /\ q \in Listed(m)' /\ q \in Listed(k)' => m = k
               /\ client'[m] = q /\ client'[k] = q => m = k
               /\ client'[m] = q => q \notin Listed(k)'
               /\ q \in Listed(m)' \/ client'[m] = q => main'.arg # q
    <3>1. CASE q = r  BY <1>1, <1>8, <1>9, <2>2, <3>1
    <3>2. CASE q # r
      <4>1. \A p \in Nodes : (q \in Listed(p)' <=> q \in Listed(p)) /\ client'[p] = client[p]
        BY <1>1, <1>9, <3>2
      <4> QED  BY <1>1, <4>1 DEF Inv, PlaceInv
    <3> QED  BY <3>1, <3>2
  <2> QED  BY <2>1, <2>3 DEF PlaceInv
<1>13. /\ Cardinality(Started) \in Nat /\ Cardinality(Started') = Cardinality(Started) + 1
       /\ req'[r].order = Cardinality(Started) + 1
       /\ \A q \in Reqs : req[q].order <= Cardinality(Started)
  <2>1. Started \in SUBSET Reqs /\ Cardinality(Started) \in Nat
    BY DEF Started, Countable
  <2>2. r \notin Started  BY SMT DEF Started, Enqueues
  <2>3. req'[r].order = Cardinality(Started) + 1  BY <1>2 DEF Enqueues
  <2>4. Started' = Started \union {r}  BY <1>2, <2>1, <2>3, SMT DEF Started
  <2>5. Cardinality(Started \union {r}) = Cardinality(Started) + 1
    BY <2>1, <2>2 DEF Countable
  <2> QED  BY <2>1, <2>3, <2>4, <2>5 DEF Inv, OrderInv
<1>14. OrderInv'
  <2>1. \A q \in Reqs : req[q].order \in Nat  BY <1>1 DEF Request
  <2>2. ASSUME NEW m \in Nodes, NEW i \in 1..Len(queue[m].list)
        PROVE  /\ queue[m].list[i] \in Reqs /\ queue[m].list[i] # r
               /\ req'[queue[m].list[i]].order = req[queue[m].list[i]].order
               /\ req'[queue[m].list[i]].order < req'[r].order
    <3>1. queue[m].list[i] \in Reqs /\ queue[m].list[i] # r
      BY <1>8, Lists DEF Inv, Active
    <3>2. req'[queue[m].list[i]] = req[queue[m].list[i]]  BY <1>2, <3>1
    <3>3. req[queue[m].list[i]].order <= Cardinality(Started)  BY <1>13, <3>1
    <3>4. req[queue[m].list[i]].order \in Nat  BY <2>1, <3>1
    <3> QED  BY <1>13, <3>1, <3>2, <3>3, <3>4, SMTT(30), SMT
  <2>3. ASSUME NEW m \in Nodes, client[m] # NoReq
        PROVE  /\ client[m] \in Reqs /\ req'[client[m]].order = req[client[m]].order
               /\ req'[client[m]].order < req'[r].order
    BY <1>1, <1>2, <1>8, <1>13, <2>1, <2>3, SMT DEF Active
  <2>4. ASSUME NEW m \in Nodes, NEW i \in 1..Len(queue'[m].list),
               NEW j \in 1..Len(queue'[m].list), i < j
        PROVE  req'[queue'[m].list[i]].order < req'[queue'[m].list[j]].order
    <3>1. CASE m # n \/ j <= Len(list)
      <4>1. /\ queue'[m].list[i] = queue[m].list[i] /\ queue'[m].list[j] = queue[m].list[j]
            /\ i \in 1..Len(queue[m].list) /\ j \in 1..Len(queue[m].list)
        <5>1. CASE m # n  BY <1>5, <5>1
        <5>2. CASE m = n /\ j <= Len(list)
          <6>1. queue'[m].list = more /\ queue[m].list = list  BY <1>3, <1>5, <5>2
          <6>2. i \in 1..Len(list) /\ j \in 1..Len(list)  BY <1>3, <2>4, <5>2, <6>1, SMT
          <6>3. more[i] = list[i] /\ more[j] = list[j]  BY <1>3, <6>2
          <6> QED  BY <6>1, <6>2, <6>3
        <5> QED  BY <3>1, <5>1, <5>2
      <4>2. req[queue[m].list[i]].order < req[queue[m].list[j]].order
        BY <2>4, <4>1 DEF Inv, OrderInv
      <4>3. /\ req'[queue[m].list[i]].order = req[queue[m].list[i]].order
            /\ req'[queue[m].list[j]].order = req[queue[m].list[j]].order
        BY <2>2, <4>1
      <4> QED  BY <4>1, <4>2, <4>3
    <3>2. CASE m = n /\ j > Len(list)
      <4>1. /\ queue'[m].list[i] = queue[m].list[i] /\ queue'[m].list[j] = r
            /\ i \in 1..Len(queue[m].list)
        <5>1. queue'[m].list = more /\ queue[m].list = list  BY <1>3, <1>5, <3>2
        <5>2. j \in 1..Len(more) /\ i \in 1..Len(more)  BY <5>1
        <5>3. j = Len(list) + 1 /\ i \in 1..Len(list)
          <6>1. Len(list) \in Nat /\ Len(more) = Len(list) + 1  BY <1>3
          <6> QED  BY <2>4, <3>2, <5>2, <6>1, SMT
        <5> QED  BY <1>3, <5>1, <5>3
      <4> QED  BY <2>2, <4>1
    <3> QED  BY <1>3, <3>1, <3>2, SMTT(30), SMT
  <2>5. ASSUME NEW m \in Nodes, NEW j \in 1..Len(queue'[m].list), client'[m] # NoReq
        PROVE  req'[client'[m]].order < req'[queue'[m].list[j]].order
    <3>1. client'[m] = client[m] /\ client[m] # NoReq  BY <1>1, <2>5, SMTT(30), SMT
    <3>2. CASE m # n \/ j <= Len(list)
      <4>1. queue'[m].list[j] = queue[m].list[j] /\ j \in 1..Len(queue[m].list)
        BY <1>3, <1>5, <3>2, SMT
      <4>2. req[client[m]].order < req[queue[m].list[j]].order
        BY <3>1, <4>1 DEF Inv, OrderInv
      <4> QED  BY <2>2, <2>3, <3>1, <4>1, <4>2, SMTT(30), SMT
    <3>3. CASE m = n /\ j > Len(list)
      <4>1. queue'[m].list[j] = r  BY <1>3, <1>5, <3>3, SMT
      <4> QED  BY <2>3, <3>1, <4>1
    <3> QED  BY <1>3, <3>2, <3>3, SMT
  <2>6. ASSUME NEW q \in Reqs PROVE req'[q].order <= Cardinality(Started')
    BY <1>2, <1>13, <2>1, SMT
  <2> QED  BY <2>4, <2>5, <2>6 DEF OrderInv
<1>15. StageInv'
  BY <1>1, <1>2, <1>8, <1>10, <1>11, <1>13, SMT DEF Enqueues, Stage, Inv, StageInv
<1>16. CountInv'
  <2>1. req'[r].ref = One(Served(r)') + One(Waited(r)') + One(r \in held')
    BY <1>1, <1>2, <1>10 DEF One, Enqueues
  <2>2. ASSUME NEW q \in Reqs, q # r
        PROVE  req'[q].ref = One(Served(q)') + One(Waited(q)') + One(q \in held')
    BY <1>1, <1>2, <1>10, <1>11, <2>2 DEF One, Inv, CountInv
  <2> QED  BY <2>1, <2>2 DEF CountInv
<1>17. CodeInv'
  <2>1. ASSUME NEW q \in Reqs, code'[q] # NoCodeLoaded
        PROVE  /\ ~Waited(q)'
               /\ \A m \in Nodes : q \in Listed(m)' \/ client'[m] = q => m = DriverNode
               /\ req'[q].ref > 0 => code'[q] = drv'.dso
    <3>1. CASE q = r  BY <1>1, <1>9, <2>1, <3>1, SMT DEF Enqueues, Inv, CodeInv
    <3>2. CASE q # r
      <4>1. req'[q] = req[q] /\ code[q] # NoCodeLoaded /\ (Waited(q)' <=> Waited(q))
        BY <1>1, <1>2, <1>11, <2>1, <3>2
      <4>2. \A m \in Nodes : (q \in Listed(m)' <=> q \in Listed(m)) /\ client'[m] = client[m]
        BY <1>1, <1>9, <3>2
      <4> QED  BY <1>1, <4>1, <4>2, SMTT(30), SMT DEF Inv, CodeInv
    <3> QED  BY <3>1, <3>2
  <2> QED  BY <1>1, <2>1, SMTT(30), SMT DEF Inv, CodeInv
<1>18. CallbackOnce'  BY <1>2, SMT DEF Enqueues, Inv, CallbackOnce
<1>19. DriverTypes'  BY <1>1 DEF Inv, DriverTypes
<1>20. \A m \in Nodes : queue[m].list # <<>> => queue'[m].list # <<>>
  BY <1>3, <1>5
<1> QED
  BY <1>2, <1>6, <1>7, <1>12, <1>14, <1>15, <1>16, <1>17, <1>18, <1>19, <1>20

LEMMA MadeRecord ==
    ASSUME NEW type \in {"UPLOAD", "DOWNLOAD"}, NEW callback \in BOOLEAN
    PROVE  \E old \in Request :
              /\ old = sdo_req_new(type, callback)
              /\ old.made /\ old.ref = 1 /\ old.order = 0 /\ old.status = "PENDING"
              /\ old.called = 0
<1>1. PICK old \in Request : old = Unmade /\ old.order = 0 /\ old.status = "PENDING"
                             /\ old.called = 0
  <2>1. Unmade \in Request  BY DEF Unmade, Request, Status
  <2>2. Unmade.order = 0 /\ Unmade.status = "PENDING" /\ Unmade.called = 0  BY DEF Unmade
  <2> QED  BY <2>1, <2>2
<1>2. PICK new \in Request : new = [old EXCEPT !.ref = 1, !.made = TRUE, !.type = type,
                                              !.callback = callback]
  BY DEF Request
<1>3. new.made /\ new.ref = 1 /\ new.order = 0 /\ new.status = "PENDING" /\ new.called = 0
  BY <1>1, <1>2 DEF Request
<1>4. sdo_req_new(type, callback) = new  BY <1>1, <1>2 DEF sdo_req_new
<1> QED  BY <1>3, <1>4

LEMMA UnmadeFacts ==
    ASSUME Inv, NEW r \in Reqs, ~req[r].made
    PROVE  /\ req[r].order = 0 /\ req[r].status = "PENDING" /\ req[r].called = 0
           /\ code[r] = NoCodeLoaded /\ ~Served(r) /\ ~Waited(r) /\ r \notin held
BY SMT DEF Inv, StageInv, Stage, Unmade

LEMMA UnrefRecord ==
    ASSUME NEW rs \in [Reqs -> Request], NEW r \in Reqs, NEW old \in Request, old.ref > 0
    PROVE  \E new \in Request :
              /\ Unref([rs EXCEPT ![r] = old], r) = [rs EXCEPT ![r] = new]
              /\ new.ref = old.ref - 1 /\ new.made = old.made /\ new.order = old.order
              /\ new.status = old.status /\ new.called = old.called
              /\ new.type = old.type /\ new.copied = old.copied
<1>1. old.ref - 1 \in Nat  BY SMT DEF Request
<1>2. PICK new \in Request : new = [old EXCEPT !.ref = old.ref - 1]  BY <1>1 DEF Request
<1>3. /\ new.ref = old.ref - 1 /\ new.made = old.made /\ new.order = old.order
      /\ new.status = old.status /\ new.called = old.called
      /\ new.type = old.type /\ new.copied = old.copied
  BY <1>2 DEF Request
<1>4. Unref([rs EXCEPT ![r] = old], r) = [rs EXCEPT ![r] = new]  BY <1>2 DEF Unref
<1> QED  BY <1>3, <1>4

LEMMA StartRecord ==
    ASSUME Countable, Inv, NEW n \in Nodes, HasRoom(n), NEW r \in Reqs, req[r].order = 0,
           NEW old \in Request, old.order = 0
    PROVE  \E new \in Request :
              /\ sdo_req_start([req EXCEPT ![r] = old], n, r) = [req EXCEPT ![r] = new]
              /\ new.ref = old.ref + 1 /\ new.made = old.made
              /\ new.order = Cardinality(Started) + 1
              /\ new.status = old.status /\ new.called = old.called
<1>1. req \in [Reqs -> Request]  BY DEF Inv, TypeOK
<1>2. PICK rs \in [Reqs -> Request] : rs = [req EXCEPT ![r] = old]  BY <1>1
<1>3. {q \in Reqs : rs[q].order > 0} = Started
  BY <1>1, <1>2 DEF Started
<1>4. PICK order \in Nat : order = Cardinality(Started) + 1
  <2>1. Cardinality(Started) \in Nat  BY DEF Started, Countable
  <2> QED  BY <2>1, SMT
<1>5. PICK new \in Request : new = [old EXCEPT !.ref = old.ref + 1, !.order = order]
  <2>1. old.ref + 1 \in Nat  BY SMT DEF Request
  <2>2. [old EXCEPT !.ref = old.ref + 1, !.order = order] \in Request  BY <2>1 DEF Request
  <2> QED  BY <2>2
<1>6. /\ new.ref = old.ref + 1 /\ new.made = old.made /\ new.order = order
      /\ new.status = old.status /\ new.called = old.called
  BY <1>5 DEF Request
<1>7. sdo_req_start(rs, n, r) = [rs EXCEPT ![r].ref = @ + 1, ![r].order = order]
  BY <1>3, <1>4 DEF sdo_req_start
<1>8. sdo_req_start(rs, n, r) = [req EXCEPT ![r] = new]
  BY <1>1, <1>2, <1>5, <1>7
<1> QED  BY <1>2, <1>4, <1>6, <1>8

-----------------------------------------------------------------------------
(***************************************************************************)
(* Workers, callbacks and drivers that make, start and give back requests  *)
(* keep the invariant.                                                     *)
(***************************************************************************)
LEMMA SyncResultStep ==
    ASSUME Inv, UNCHANGED drvvars, NEW w \in Workers, SyncResult(w)
    PROVE  Inv'
<1>1. /\ worker[w].pc = "result"
      /\ worker' = [worker EXCEPT ![w] = [pc |-> "free", req |-> NoReq]]
      /\ worker \in [Workers -> [pc: {"free", "wait", "result"}, req: Reqs \union {NoReq}]]
      /\ UNCHANGED <<queue, client, idle, main, wake, drv, code, held>>
      /\ req \in [Reqs -> Request] /\ NoReq \notin Reqs
  BY SdoReqAssumption DEF SyncResult, drvvars, Inv, TypeOK
<1>2. /\ worker' \in [Workers -> [pc: {"free", "wait", "result"}, req: Reqs \union {NoReq}]]
      /\ \A v \in Workers : v # w => worker'[v] = worker[v]
      /\ worker'[w].pc = "free" /\ worker'[w].req = NoReq
  BY <1>1
<1>3. PICK r \in Reqs : r = worker[w].req
  BY <1>1 DEF Inv, LoopInv
<1>4. Waited(r) /\ \A v \in Workers : v # w => worker[v].req # r
  BY <1>3 DEF Waited, Inv, PlaceInv
<1>5. req[r].ref > 0 /\ req[r].ref - 1 = One(Served(r)) + One(r \in held) /\ req[r].made
  BY <1>4, SMT DEF Inv, CountInv, One, StageInv, Stage
<1>6. PICK new \in Request :
        /\ req' = [req EXCEPT ![r] = new]
        /\ new.ref = req[r].ref - 1 /\ new.made = req[r].made /\ new.order = req[r].order
        /\ new.status = req[r].status /\ new.called = req[r].called
        /\ new.type = req[r].type /\ new.copied = req[r].copied
  <2>1. req' = Unref([req EXCEPT ![r] = req[r]], r) /\ req[r] \in Request
    BY <1>1, <1>3 DEF SyncResult
  <2>2. PICK old \in Request : old = req[r]  BY <2>1
  <2>3. old.ref > 0 /\ req' = Unref([req EXCEPT ![r] = old], r)  BY <1>5, <2>1, <2>2
  <2>4. \E new \in Request :
          /\ Unref([req EXCEPT ![r] = old], r) = [req EXCEPT ![r] = new]
          /\ new.ref = old.ref - 1 /\ new.made = old.made /\ new.order = old.order
          /\ new.status = old.status /\ new.called = old.called
          /\ new.type = old.type /\ new.copied = old.copied
    BY <1>1, <2>3, UnrefRecord, ZenonT(30)
  <2> QED  BY <2>2, <2>3, <2>4
<1>7. ~Waited(r)' /\ \A q \in Reqs : q # r => (Waited(q)' <=> Waited(q))
  BY <1>1, <1>2, <1>3, <1>4 DEF Waited
<1>8. Changes(r, new)
  <2>1. new.ref = One(Served(r)) + One(Waited(r)') + One(r \in held')
    <3>1. One(Waited(r)') = 0 /\ One(r \in held') = One(r \in held)
      BY <1>1, <1>7 DEF One
    <3>2. One(Served(r)) \in Nat /\ One(r \in held) \in Nat
      BY SMT DEF One
    <3>3. new.ref = One(Served(r)) + One(r \in held)
      BY <1>5, <1>6
    <3>4. \A a, b \in Nat : a + b = a + 0 + b
      BY SMT
    <3> QED  BY <3>1, <3>2, <3>3, <3>4
  <2>2. \A q \in Reqs : \A v, u \in Workers : worker'[v].req = q /\ worker'[u].req = q => v = u
    <3>1. \A q \in Reqs : \A v, u \in Workers : worker[v].req = q /\ worker[u].req = q => v = u
      BY DEF Inv, PlaceInv
    <3>2. \A q \in Reqs : \A v \in Workers : worker'[v].req = q => worker[v].req = q
      BY <1>1, <1>2
    <3> QED  BY <3>1, <3>2
  <2>3. OthersSame(r)
    BY <1>1, <1>7, <2>2 DEF OthersSame
  <2> QED
    BY <1>1, <1>5, <1>6, <1>7, <2>1, <2>3 DEF Changes
<1>9. /\ req' \in [Reqs -> Request]
      /\ (QueueInv /\ PlaceInv /\ OrderInv /\ StageInv /\ CountInv /\ CallbackOnce)'
      /\ \A q \in Reqs : q # r => req'[q] = req[q]
      /\ \A n : Listed(n)' = Listed(n)
  BY <1>8, Changed, SMTT(30), SMT
<1>10. TypeOK' /\ DriverTypes'
  BY <1>1, <1>2, <1>9, SMTT(30), SMT DEF Inv, TypeOK, DriverTypes
<1>11. LoopInv'  BY <1>1, <1>2, ZenonT(30) DEF Inv, LoopInv
<1>12. CodeInv'  BY <1>1, <1>4, <1>7, <1>9 DEF Inv, CodeInv
<1> QED  BY <1>9, <1>10, <1>11, <1>12 DEF Inv

\* Starting a request that is new: the cases of a queue with room and of a full
\* one.
LEMMA MadeAndStarted ==
    ASSUME Countable, Inv, NEW n \in Nodes, NEW r \in Reqs, ~req[r].made, NEW old \in Request,
           old.made, old.ref = 1, old.order = 0, old.status = "PENDING", old.called = 0
    PROVE  \E new \in Request :
              /\ sdo_req_start([req EXCEPT ![r] = old], n, r) = [req EXCEPT ![r] = new]
              /\ new.made /\ new.status = "PENDING" /\ new.called = 0
              /\ HasRoom(n) => new.ref = 2 /\ new.order = Cardinality(Started) + 1
              /\ ~HasRoom(n) => new.ref = 1 /\ new.order = 0
<1>2. req[r].order = 0  BY UnmadeFacts
<1>3. CASE HasRoom(n)
  <2>1. PICK new \in Request :
          /\ sdo_req_start([req EXCEPT ![r] = old], n, r) = [req EXCEPT ![r] = new]
          /\ new.ref = old.ref + 1 /\ new.made = old.made
          /\ new.order = Cardinality(Started) + 1
          /\ new.status = old.status /\ new.called = old.called
    BY <1>2, <1>3, StartRecord, ZenonT(30)
  <2>2. new.ref = 2  BY <2>1, SMT
  <2> QED  BY <1>3, <2>1, <2>2
<1>4. CASE ~HasRoom(n)  BY <1>4 DEF sdo_req_start
<1> QED  BY <1>3, <1>4

\* A callback on the main loop, or the driver, makes and starts a request and
\* drops its reference.
LEMMA MadeInEvent ==
    ASSUME Countable, Inv, HandlesEvents, NEW n \in Nodes, NEW r \in Reqs, ~req[r].made,
           NEW type \in {"UPLOAD", "DOWNLOAD"}, NEW callback \in BOOLEAN,
           sdo_req_queue__enqueue(n, r),
           req' = Unref(sdo_req_start([req EXCEPT ![r] = sdo_req_new(type, callback)], n, r), r),
           main' = [main EXCEPT !.pc = "events"], UNCHANGED <<client, idle, worker, drvvars>>
    PROVE  Inv'
<1>0. PICK made \in Request :
        /\ made = sdo_req_new(type, callback)
        /\ made.made /\ made.ref = 1 /\ made.order = 0 /\ made.status = "PENDING"
        /\ made.called = 0
  BY MadeRecord
<1>1. PICK old \in Request :
        /\ sdo_req_start([req EXCEPT ![r] = made], n, r) = [req EXCEPT ![r] = old]
        /\ old.made /\ old.status = "PENDING" /\ old.called = 0
        /\ HasRoom(n) => old.ref = 2 /\ old.order = Cardinality(Started) + 1
        /\ ~HasRoom(n) => old.ref = 1 /\ old.order = 0
  BY <1>0, MadeAndStarted, ZenonT(30)
<1>2. /\ req \in [Reqs -> Request] /\ wake \in BOOLEAN
      /\ UNCHANGED <<client, idle, worker, drv, code, held>>
  BY DEF Inv, TypeOK, drvvars
<1>3. PICK new \in Request :
        /\ req' = [req EXCEPT ![r] = new]
        /\ new.made /\ new.status = "PENDING" /\ new.called = 0
        /\ new.ref = old.ref - 1 /\ new.order = old.order
  <2>1. old.ref > 0 /\ req' = Unref([req EXCEPT ![r] = old], r)  BY <1>0, <1>1, SMT
  <2>2. PICK new \in Request :
          /\ Unref([req EXCEPT ![r] = old], r) = [req EXCEPT ![r] = new]
          /\ new.ref = old.ref - 1 /\ new.made = old.made /\ new.order = old.order
          /\ new.status = old.status /\ new.called = old.called
          /\ new.type = old.type /\ new.copied = old.copied
    BY <1>2, <2>1, UnrefRecord, ZenonT(30)
  <2> QED  BY <1>1, <2>1, <2>2, ZenonT(30)
<1>4. /\ main'.pc = "events" /\ main'.arg = NoReq /\ main.arg = NoReq
      /\ main' \in [pc: {"check", "block", "events", "copy", "idle", "process"},
                     arg: Reqs \union {NoReq}]
  BY EventsMain
<1>5. wake' \in BOOLEAN  BY DEF sdo_req_queue__enqueue
<1>6. LoopInv'  BY <1>2, EventsLoop DEF Inv, LoopInv
<1>7. /\ req[r].order = 0 /\ req[r].status = "PENDING" /\ req[r].called = 0
      /\ code[r] = NoCodeLoaded /\ ~Served(r) /\ ~Waited(r) /\ r \notin held
  BY UnmadeFacts
<1>8. OthersSame(r) /\ ~Waited(r)'
  BY <1>2, <1>7 DEF OthersSame, Waited, Inv, PlaceInv
<1>9. One(Waited(r)') = 0 /\ One(r \in held) = 0 /\ One(Served(r)) = 0 /\ One(r \in held') = 0
  BY <1>2, <1>7, <1>8 DEF One
<1>10. CASE HasRoom(n)
  <2>1. queue' = [queue EXCEPT ![n].size = @ + 1, ![n].list = Append(@, r)]
    BY <1>10 DEF sdo_req_queue__enqueue
  <2>2. new.ref = 1 + One(Waited(r)') + One(r \in held) /\ new.order = Cardinality(Started) + 1
    BY <1>1, <1>3, <1>9, <1>10, SMT
  <2>3. Enqueues(n, r, new)
    BY <1>2, <1>3, <1>4, <1>7, <1>8, <1>10, <2>1, <2>2 DEF Enqueues
  <2>4. /\ req' \in [Reqs -> Request]
        /\ queue' \in [Nodes -> [list: Seq(Reqs), size: Nat, locked: BOOLEAN]]
        /\ (DriverTypes /\ QueueInv /\ PlaceInv /\ OrderInv /\ StageInv /\ CountInv)'
        /\ (CodeInv /\ CallbackOnce)'
    BY <2>3, Enqueued
  <2>5. TypeOK'  BY <1>2, <1>4, <1>5, <2>4 DEF Inv, TypeOK
  <2> QED  BY <1>6, <2>4, <2>5 DEF Inv
<1>11. CASE ~HasRoom(n)
  <2>1. queue' = queue  BY <1>11 DEF sdo_req_queue__enqueue
  <2>2. new.ref = One(Served(r)) + One(Waited(r)') + One(r \in held') /\ new.order = 0
    BY <1>1, <1>3, <1>9, <1>11, SMT
  <2>3. Changes(r, new)
    BY <1>2, <1>3, <1>4, <1>7, <1>8, <2>1, <2>2 DEF Changes
  <2>4. /\ req' \in [Reqs -> Request]
        /\ (QueueInv /\ PlaceInv /\ OrderInv /\ StageInv /\ CountInv /\ CallbackOnce)'
        /\ \A q \in Reqs : q # r => req'[q] = req[q]
        /\ \A m : Listed(m)' = Listed(m)
    BY <2>3, Changed
  <2>5. TypeOK' /\ DriverTypes'
    BY <1>2, <1>4, <1>5, <2>1, <2>4 DEF Inv, TypeOK, DriverTypes
  <2>6. CodeInv'
    <3>1. \A q : Waited(q)' <=> Waited(q)  BY <1>2 DEF Waited
    <3>2. ASSUME NEW q \in Reqs, code'[q] # NoCodeLoaded
          PROVE  /\ ~Waited(q)'
                 /\ \A m \in Nodes : q \in Listed(m)' \/ client'[m] = q => m = DriverNode
                 /\ req'[q].ref > 0 => code'[q] = drv'.dso
      <4>1. req'[q] = req[q] /\ code[q] # NoCodeLoaded  BY <1>2, <1>7, <2>4, <3>2
      <4> QED  BY <1>2, <2>4, <3>1, <4>1, SMT DEF Inv, CodeInv
    <3> QED  BY <1>2, <3>2 DEF Inv, CodeInv
  <2> QED  BY <1>6, <2>4, <2>5, <2>6 DEF Inv
<1> QED  BY <1>10, <1>11

\* A worker makes and starts a request; it waits for it unless the queue is
\* full.
LEMMA SyncStartStep ==
    ASSUME Countable, Inv, UNCHANGED drvvars, NEW w \in Workers, NEW n \in Nodes, NEW r \in Reqs,
           NEW type \in {"UPLOAD", "DOWNLOAD"}, SyncStart(w, n, r, type)
    PROVE  Inv'
<1>0. PICK made \in Request :
        /\ made = sdo_req_new(type, FALSE)
        /\ made.made /\ made.ref = 1 /\ made.order = 0 /\ made.status = "PENDING"
        /\ made.called = 0
  <2>1. FALSE \in BOOLEAN  OBVIOUS
  <2> QED  BY <2>1, MadeRecord
<1>1. PICK old \in Request :
        /\ sdo_req_start([req EXCEPT ![r] = made], n, r) = [req EXCEPT ![r] = old]
        /\ old.made /\ old.status = "PENDING" /\ old.called = 0
        /\ HasRoom(n) => old.ref = 2 /\ old.order = Cardinality(Started) + 1
        /\ ~HasRoom(n) => old.ref = 1 /\ old.order = 0
  <2>1. ~req[r].made  BY DEF SyncStart
  <2> QED  BY <1>0, <2>1, MadeAndStarted, ZenonT(30)
<1>2. /\ req \in [Reqs -> Request] /\ wake \in BOOLEAN /\ NoReq \notin Reqs
      /\ worker \in [Workers -> [pc: {"free", "wait", "result"}, req: Reqs \union {NoReq}]]
      /\ UNCHANGED <<client, idle, main, drv, code, held>>
      /\ worker[w].pc = "free" /\ worker[w].req = NoReq /\ ~req[r].made
      /\ sdo_req_queue__enqueue(n, r)
  BY SdoReqAssumption DEF Inv, TypeOK, LoopInv, SyncStart, drvvars
<1>3. wake' \in BOOLEAN  BY <1>2 DEF sdo_req_queue__enqueue
<1>4. /\ req[r].order = 0 /\ req[r].status = "PENDING" /\ req[r].called = 0
      /\ code[r] = NoCodeLoaded /\ ~Served(r) /\ ~Waited(r) /\ r \notin held
  BY <1>2, UnmadeFacts
<1>5. \A v \in Workers : worker[v].req # r  BY <1>4 DEF Waited
<1>6. CASE HasRoom(n)
  <2>1. /\ queue' = [queue EXCEPT ![n].size = @ + 1, ![n].list = Append(@, r)]
        /\ req' = [req EXCEPT ![r] = old]
        /\ worker' = [worker EXCEPT ![w] = [pc |-> "wait", req |-> r]]
    BY <1>0, <1>1, <1>6 DEF SyncStart, sdo_req_queue__enqueue
  <2>2. /\ worker' \in [Workers -> [pc: {"free", "wait", "result"}, req: Reqs \union {NoReq}]]
        /\ \A v \in Workers : v # w => worker'[v] = worker[v]
        /\ worker'[w].pc = "wait" /\ worker'[w].req = r
    BY <1>2, <2>1
  <2>3. Waited(r)' /\ \A q \in Reqs : q # r => (Waited(q)' <=> Waited(q))
    BY <1>2, <2>2 DEF Waited
  <2>4. ASSUME NEW q \in Reqs, NEW v \in Workers, NEW u \in Workers,
               worker'[v].req = q, worker'[u].req = q
        PROVE  v = u
    <3>1. CASE q = r
      <4>1. v = w /\ u = w  BY <1>5, <2>2, <2>4, <3>1
      <4> QED  BY <4>1
    <3>2. CASE q # r
      <4>1. worker[v].req = q /\ worker[u].req = q  BY <2>2, <2>4, <3>2, SMTT(30), SMT
      <4> QED  BY <4>1 DEF Inv, PlaceInv
    <3> QED  BY <3>1, <3>2
  <2>5. OthersSame(r)  BY <1>2, <2>3, <2>4 DEF OthersSame
  <2>6. old.ref = 1 + One(Waited(r)') + One(r \in held) /\ old.order = Cardinality(Started) + 1
    <3>1. One(Waited(r)') = 1 /\ One(r \in held) = 0  BY <1>4, <2>3 DEF One
    <3> QED  BY <1>1, <1>6, <3>1, SMTT(30), SMT
  <2>7. Enqueues(n, r, old)
    BY <1>1, <1>2, <1>4, <1>6, <2>1, <2>5, <2>6, SMTT(30), SMT DEF Enqueues
  <2>8. /\ req' \in [Reqs -> Request]
        /\ queue' \in [Nodes -> [list: Seq(Reqs), size: Nat, locked: BOOLEAN]]
        /\ (DriverTypes /\ QueueInv /\ PlaceInv /\ OrderInv /\ StageInv /\ CountInv)'
        /\ (CodeInv /\ CallbackOnce)'
        /\ \A m \in Nodes : queue[m].list # <<>> => queue'[m].list # <<>>
    BY <2>7, Enqueued, SMTT(30), SMT
  <2>9. TypeOK'  BY <1>2, <1>3, <2>2, <2>8, SMTT(30), SMT DEF Inv, TypeOK
  <2>10. LoopInv'
    <3>1. Head(idle) \in Nodes  BY RotatedIdle, SMTT(30), SMT DEF Inv, TypeOK, LoopInv
    <3>2. \A v \in Workers : worker'[v].pc = "free" <=> worker'[v].req = NoReq
      BY <1>2, <2>2, SMTT(30), SMT DEF Inv, LoopInv
    <3>3. main.pc = "process" => client'[Head(idle)] = NoReq /\ queue'[Head(idle)].list # <<>>
      BY <1>2, <2>8, <3>1 DEF Inv, LoopInv
    <3> QED  BY <1>2, <3>2, <3>3 DEF Inv, LoopInv
  <2> QED  BY <2>8, <2>9, <2>10 DEF Inv
<1>7. CASE ~HasRoom(n)
  <2>1. queue' = queue /\ worker' = worker /\ req' = Unref([req EXCEPT ![r] = old], r)
    BY <1>0, <1>1, <1>7 DEF SyncStart, sdo_req_queue__enqueue
  <2>2. old.ref > 0 /\ old.ref = 1  BY <1>1, <1>7, SMT
  <2>3. PICK new \in Request :
          /\ Unref([req EXCEPT ![r] = old], r) = [req EXCEPT ![r] = new]
          /\ new.ref = old.ref - 1 /\ new.made = old.made /\ new.order = old.order
          /\ new.status = old.status /\ new.called = old.called
          /\ new.type = old.type /\ new.copied = old.copied
    <3>1. req \in [Reqs -> Request] /\ old.ref > 0  BY <1>2, <2>2
    <3> QED  BY <3>1, UnrefRecord, ZenonT(30)
  <2>4. OthersSame(r) /\ ~Waited(r)'
    BY <1>2, <1>4, <2>1, SMT DEF OthersSame, Waited, Inv, PlaceInv
  <2>5. new.ref = One(Served(r)) + One(Waited(r)') + One(r \in held')
    <3>1. One(Served(r)) = 0 /\ One(Waited(r)') = 0 /\ One(r \in held') = 0
      BY <1>2, <1>4, <2>4, SMTT(30), SMT DEF One
    <3> QED  BY <2>2, <2>3, <3>1, SMT
  <2>6. Changes(r, new)
    BY <1>1, <1>2, <1>4, <1>7, <2>1, <2>3, <2>4, <2>5, SMTT(30), SMT DEF Changes
  <2>7. /\ req' \in [Reqs -> Request]
        /\ (QueueInv /\ PlaceInv /\ OrderInv /\ StageInv /\ CountInv /\ CallbackOnce)'
        /\ \A q \in Reqs : q # r => req'[q] = req[q]
        /\ \A m : Listed(m)' = Listed(m)
    BY <2>6, Changed
  <2>8. TypeOK' /\ DriverTypes'
    BY <1>2, <1>3, <2>1, <2>7, ZenonT(30) DEF Inv, TypeOK, DriverTypes
  <2>9. LoopInv'  BY <1>2, <2>1, ZenonT(30) DEF Inv, LoopInv
  <2>10. CodeInv'
    <3>1. \A q : Waited(q)' <=> Waited(q)  BY <2>1, SMTT(30), SMT DEF Waited
    <3>2. ASSUME NEW q \in Reqs, code'[q] # NoCodeLoaded
          PROVE  /\ ~Waited(q)'
                 /\ \A m \in Nodes : q \in Listed(m)' \/ client'[m] = q => m = DriverNode
                 /\ req'[q].ref > 0 => code'[q] = drv'.dso
      <4>1. req'[q] = req[q] /\ code[q] # NoCodeLoaded  BY <1>2, <1>4, <2>7, <3>2
      <4> QED  BY <1>2, <2>7, <3>1, <4>1 DEF Inv, CodeInv
    <3> QED  BY <1>2, <3>2 DEF Inv, CodeInv
  <2> QED  BY <2>7, <2>8, <2>9, <2>10 DEF Inv
<1> QED  BY <1>6, <1>7

-----------------------------------------------------------------------------
(* What the driver does. *)

\* The driver makes a request that it keeps.
LEMMA ReqNewStep ==
    ASSUME Inv, NEW r \in Reqs, NEW type \in {"UPLOAD", "DOWNLOAD"}, co_sdo_req_new(r, type)
    PROVE  Inv'
<1>1. PICK new \in Request :
        /\ new = sdo_req_new(type, TRUE)
        /\ new.made /\ new.ref = 1 /\ new.order = 0 /\ new.status = "PENDING" /\ new.called = 0
  BY MadeRecord
<1>2. /\ HandlesEvents /\ main' = [main EXCEPT !.pc = "events"] /\ ~req[r].made
      /\ req' = [req EXCEPT ![r] = new] /\ held' = held \union {r}
      /\ UNCHANGED <<queue, client, idle, wake, worker, drv>>
      /\ held \in SUBSET Reqs
  BY <1>1 DEF co_sdo_req_new, InDriver, Inv, DriverTypes
<1>3. PICK fn \in {NoCodeLoaded, drv.dso} : code' = [code EXCEPT ![r] = fn]
  BY DEF co_sdo_req_new
<1>4. fn \in Nat /\ code \in [Reqs -> Nat] /\ drv.dso \in Nat
  BY <1>3, SMT DEF Inv, DriverTypes, NoCodeLoaded
<1>5. code' \in [Reqs -> Nat] /\ code'[r] = fn /\ \A q \in Reqs : q # r => code'[q] = code[q]
  BY <1>3, <1>4
<1>6. /\ main'.pc = "events" /\ main'.arg = NoReq /\ main.arg = NoReq
      /\ main' \in [pc: {"check", "block", "events", "copy", "idle", "process"},
                     arg: Reqs \union {NoReq}]
  BY <1>2, EventsMain
<1>7. /\ req[r].order = 0 /\ req[r].status = "PENDING" /\ req[r].called = 0
      /\ ~Served(r) /\ ~Waited(r)
  BY <1>2, UnmadeFacts
<1>8. \A q : Waited(q)' <=> Waited(q)  BY <1>2 DEF Waited
<1>9. OthersSame(r)
  BY <1>2, <1>5, <1>8 DEF OthersSame, Inv, PlaceInv
<1>10. new.ref = One(Served(r)) + One(Waited(r)') + One(r \in held')
  <2>1. One(Served(r)) = 0 /\ One(Waited(r)') = 0 /\ One(r \in held') = 1
    BY <1>2, <1>7, <1>8 DEF One
  <2>2. new.ref = 1  BY <1>1
  <2> QED  BY <2>1, <2>2, SMT
<1>11. Changes(r, new)
  BY <1>1, <1>2, <1>6, <1>7, <1>8, <1>9, <1>10 DEF Changes
<1>12. /\ req' \in [Reqs -> Request]
       /\ (QueueInv /\ PlaceInv /\ OrderInv /\ StageInv /\ CountInv /\ CallbackOnce)'
       /\ \A q \in Reqs : q # r => req'[q] = req[q]
       /\ \A n : Listed(n)' = Listed(n)
  BY <1>11, Changed
<1>13. TypeOK'  BY <1>2, <1>6, <1>12 DEF Inv, TypeOK
<1>14. DriverTypes'  BY <1>2, <1>5 DEF Inv, DriverTypes
<1>15. LoopInv'  BY <1>2, EventsLoop DEF Inv, LoopInv
<1>16. CodeInv'
  <2>1. ASSUME NEW q \in Reqs, code'[q] # NoCodeLoaded
        PROVE  /\ ~Waited(q)'
               /\ \A m \in Nodes : q \in Listed(m)' \/ client'[m] = q => m = DriverNode
               /\ req'[q].ref > 0 => code'[q] = drv'.dso
    <3>1. CASE q = r
      <4>1. \A m \in Nodes : q \notin Listed(m) /\ client[m] # q
        BY <1>7, <3>1 DEF Served, Active
      <4>2. code'[q] = drv.dso  BY <1>3, <1>5, <2>1, <3>1
      <4> QED  BY <1>2, <1>7, <1>8, <1>12, <3>1, <4>1, <4>2
    <3>2. CASE q # r  BY <1>2, <1>5, <1>8, <1>12, <2>1, <3>2 DEF Inv, CodeInv
    <3> QED  BY <3>1, <3>2
  <2> QED  BY <1>2, <2>1 DEF Inv, CodeInv
<1> QED  BY <1>12, <1>13, <1>14, <1>15, <1>16 DEF Inv

\* The driver gives back a request.
LEMMA ReqUnrefStep ==
    ASSUME Inv, NEW r \in Reqs, co_sdo_req_unref(r)
    PROVE  Inv'
<1>1. /\ HandlesEvents /\ main' = [main EXCEPT !.pc = "events"] /\ r \in held
      /\ req' = Unref(req, r) /\ held' = held \ {r}
      /\ UNCHANGED <<queue, client, idle, wake, worker, drv, code>>
      /\ held \in SUBSET Reqs /\ req \in [Reqs -> Request]
  BY DEF co_sdo_req_unref, InDriver, Inv, DriverTypes, TypeOK
<1>2. /\ main'.pc = "events" /\ main'.arg = NoReq /\ main.arg = NoReq
      /\ main' \in [pc: {"check", "block", "events", "copy", "idle", "process"},
                     arg: Reqs \union {NoReq}]
  BY <1>1, EventsMain
<1>3. req[r].ref > 0 /\ req[r].ref - 1 = One(Served(r)) + One(Waited(r)) /\ req[r].made
  BY <1>1, SMT DEF Inv, CountInv, One, StageInv, Stage
<1>4. PICK new \in Request :
        /\ req' = [req EXCEPT ![r] = new]
        /\ new.ref = req[r].ref - 1 /\ new.made = req[r].made /\ new.order = req[r].order
        /\ new.status = req[r].status /\ new.called = req[r].called
        /\ new.type = req[r].type /\ new.copied = req[r].copied
  <2>1. req' = Unref([req EXCEPT ![r] = req[r]], r) /\ req[r] \in Request
        /\ req \in [Reqs -> Request]
    BY <1>1
  <2>2. PICK old \in Request : old = req[r]  BY <2>1
  <2>3. old.ref > 0 /\ req' = Unref([req EXCEPT ![r] = old], r)  BY <1>3, <2>1, <2>2
  <2>4. \E new \in Request :
          /\ Unref([req EXCEPT ![r] = old], r) = [req EXCEPT ![r] = new]
          /\ new.ref = old.ref - 1 /\ new.made = old.made /\ new.order = old.order
          /\ new.status = old.status /\ new.called = old.called
          /\ new.type = old.type /\ new.copied = old.copied
    BY <2>1, <2>3, UnrefRecord, ZenonT(30)
  <2> QED  BY <2>2, <2>3, <2>4
<1>5. \A q : Waited(q)' <=> Waited(q)  BY <1>1 DEF Waited
<1>6. OthersSame(r)  BY <1>1, <1>5 DEF OthersSame, Inv, PlaceInv
<1>7. new.ref = One(Served(r)) + One(Waited(r)') + One(r \in held')
  BY <1>1, <1>3, <1>4, <1>5, SMT DEF One
<1>8. Changes(r, new)
  BY <1>1, <1>2, <1>3, <1>4, <1>5, <1>6, <1>7 DEF Changes
<1>9. /\ req' \in [Reqs -> Request]
      /\ (QueueInv /\ PlaceInv /\ OrderInv /\ StageInv /\ CountInv /\ CallbackOnce)'
      /\ \A q \in Reqs : q # r => req'[q] = req[q]
      /\ \A n : Listed(n)' = Listed(n)
      /\ req'[r] = new
  BY <1>8, Changed
<1>10. TypeOK' /\ DriverTypes'
  BY <1>1, <1>2, <1>9 DEF Inv, TypeOK, DriverTypes
<1>11. LoopInv'  BY <1>1, EventsLoop DEF Inv, LoopInv
<1>12. CodeInv'  BY <1>1, <1>3, <1>5, <1>9, SMT DEF Inv, CodeInv
<1> QED  BY <1>9, <1>10, <1>11, <1>12 DEF Inv

\* The driver starts a request that it holds.
LEMMA ReqStartStep ==
    ASSUME Countable, Inv, NEW r \in Reqs, co_sdo_req_start(r)
    PROVE  Inv'
<1>1. PICK n \in Nodes : n = DriverNode  BY TheDriverNode
<1>2. /\ HandlesEvents /\ main' = [main EXCEPT !.pc = "events"] /\ r \in held
      /\ req[r].order = 0 /\ sdo_req_queue__enqueue(n, r) /\ req' = sdo_req_start(req, n, r)
      /\ UNCHANGED <<client, idle, worker, drv, code, held>>
      /\ req \in [Reqs -> Request]
  BY <1>1 DEF co_sdo_req_start, InDriver, drvvars, Inv, TypeOK
<1>3. /\ main'.pc = "events" /\ main'.arg = NoReq /\ main.arg = NoReq
      /\ main' \in [pc: {"check", "block", "events", "copy", "idle", "process"},
                     arg: Reqs \union {NoReq}]
  BY <1>2, EventsMain
<1>4. wake' \in BOOLEAN  BY <1>2 DEF sdo_req_queue__enqueue
<1>5. LoopInv'  BY <1>2, EventsLoop DEF Inv, LoopInv
<1>6. \A q : Waited(q)' <=> Waited(q)  BY <1>2 DEF Waited
<1>7. CASE HasRoom(n)
  <2>1. PICK old \in Request : old = req[r]  BY <1>2
  <2>2. /\ old.order = 0 /\ old.made /\ old.status = "PENDING" /\ old.called = 0 /\ ~Served(r)
    BY <1>2, <2>1 DEF Inv, StageInv, Stage
  <2>3. [req EXCEPT ![r] = old] = req  BY <1>2, <2>1
  <2>4. PICK new \in Request :
          /\ sdo_req_start([req EXCEPT ![r] = old], n, r) = [req EXCEPT ![r] = new]
          /\ new.ref = old.ref + 1 /\ new.made = old.made
          /\ new.order = Cardinality(Started) + 1
          /\ new.status = old.status /\ new.called = old.called
    <3>1. req[r].order = 0 /\ old.order = 0  BY <1>2, <2>2
    <3> QED  BY <1>7, <3>1, StartRecord
  <2>5. old.ref = One(Waited(r)) + One(r \in held) /\ old.ref > 0
    BY <1>2, <2>1, <2>2, SMT DEF Inv, CountInv, One
  <2>6. new.ref = 1 + One(Waited(r)') + One(r \in held)  BY <1>6, <2>4, <2>5, SMT DEF One
  <2>7. OthersSame(r)  BY <1>2, <1>6, SMTT(30), SMT DEF OthersSame, Inv, PlaceInv
  <2>8. code[r] # NoCodeLoaded => n = DriverNode /\ ~Waited(r)' /\ req[r].ref > 0
    BY <1>1, <1>6, <2>1, <2>5 DEF Inv, CodeInv
  <2>9. queue' = [queue EXCEPT ![n].size = @ + 1, ![n].list = Append(@, r)]
    BY <1>2, <1>7 DEF sdo_req_queue__enqueue
  <2>10. Enqueues(n, r, new)
    <3>1. req' = [req EXCEPT ![r] = new]  BY <1>2, <2>3, <2>4
    <3>2. /\ new.made /\ new.status = "PENDING" /\ new.called = 0
          /\ new.order = Cardinality(Started) + 1
      BY <2>2, <2>4, SMTT(30), SMT
    <3> QED  BY <1>2, <1>3, <1>7, <2>6, <2>7, <2>8, <2>9, <3>1, <3>2 DEF Enqueues
  <2>11. /\ req' \in [Reqs -> Request]
         /\ queue' \in [Nodes -> [list: Seq(Reqs), size: Nat, locked: BOOLEAN]]
         /\ (DriverTypes /\ QueueInv /\ PlaceInv /\ OrderInv /\ StageInv /\ CountInv)'
         /\ (CodeInv /\ CallbackOnce)'
    BY <2>10, Enqueued
  <2>12. TypeOK'  BY <1>2, <1>3, <1>4, <2>11 DEF Inv, TypeOK
  <2> QED  BY <1>5, <2>11, <2>12 DEF Inv
<1>8. CASE ~HasRoom(n)
  <2>1. queue' = queue /\ req' = req
    BY <1>2, <1>8 DEF sdo_req_queue__enqueue, sdo_req_start
  <2>2. TypeOK' /\ DriverTypes'  BY <1>2, <1>3, <1>4, <2>1 DEF Inv, TypeOK, DriverTypes
  <2>3. CodeInv'  BY <1>2, <1>6, <2>1 DEF Inv, CodeInv, Listed
  <2> QED  BY <1>2, <1>3, <1>5, <2>1, <2>2, <2>3, NothingMoved DEF Inv
<1> QED  BY <1>7, <1>8

-----------------------------------------------------------------------------
(* All steps together. *)

\* Nothing happens.
LEMMA StutterStep ==
    ASSUME Inv, UNCHANGED <<vars, drvvars>>
    PROVE  Inv'
<1>1. UNCHANGED <<req, queue, client, idle, main, wake, worker, drv, code, held>>
  BY DEF vars, drvvars
<1>2. TypeOK' /\ DriverTypes' /\ LoopInv'
  BY <1>1, SMTT(30), SMT DEF Inv, TypeOK, DriverTypes, LoopInv
<1>3. CodeInv'  BY <1>1 DEF Inv, CodeInv, Waited, Listed
<1> QED  BY <1>1, <1>2, <1>3, NothingMoved DEF Inv

LEMMA NextInv ==
    ASSUME Countable, Inv, DriverNext
    PROVE  Inv'
<1>1. CASE drv.phase # "init" /\ Main /\ UNCHANGED drvvars
  <2>1. CASE MainCheck \/ MainWake \/ EventsDone \/ IdleJob  BY <1>1, <2>1, LoopSteps
  <2>2. ASSUME NEW n \in Nodes, NEW r \in Reqs, NEW type \in {"UPLOAD", "DOWNLOAD"},
               AsyncStart(n, r, type)
        PROVE  Inv'
    <3>1. /\ HandlesEvents /\ ~req[r].made /\ sdo_req_queue__enqueue(n, r)
          /\ req' = Unref(sdo_req_start([req EXCEPT ![r] = sdo_req_new(type, TRUE)], n, r), r)
          /\ main' = [main EXCEPT !.pc = "events"]
          /\ UNCHANGED <<client, idle, worker, drvvars>> /\ TRUE \in BOOLEAN
      BY <1>1, <2>2 DEF AsyncStart
    <3> QED  BY <3>1, MadeInEvent
  <2>3. CASE \E n \in Nodes : sdo_req_queue_flush(n)  BY <1>1, <2>3, FlushStep
  <2>4. CASE \E n \in Nodes, status \in {"OK", "ABORT"} : OnDoneStatus(n, status)
    BY <1>1, <2>4, OnDoneStatusStep
  <2>5. CASE OnDoneData  BY <1>1, <2>5, OnDoneDataStep
  <2>6. CASE sdo_req__process_queue  BY <1>1, <2>6, ProcessQueueStep
  <2> QED  BY <1>1, <2>1, <2>2, <2>3, <2>4, <2>5, <2>6 DEF Main
<1>2. CASE (\E w \in Workers : Worker(w)) /\ UNCHANGED drvvars
  <2>1. PICK w \in Workers : Worker(w)  BY <1>2
  <2>2. ASSUME NEW n \in Nodes, NEW r \in Reqs, NEW type \in {"UPLOAD", "DOWNLOAD"},
               SyncStart(w, n, r, type)
        PROVE  Inv'
    BY <1>2, <2>2, SyncStartStep
  <2>3. CASE SyncWait(w)  BY <1>2, <2>3, SyncWaitStep
  <2>4. CASE SyncResult(w)  BY <1>2, <2>4, SyncResultStep
  <2> QED  BY <2>1, <2>2, <2>3, <2>4 DEF Worker
<1>3. CASE DriverStep
  <2>1. CASE co_drv_load \/ co_drv_init \/ co_set_fns  BY <2>1, DriverAlone
  <2>2. CASE initialize_new_driver  BY <2>2, InitializeStep
  <2>3. CASE unload_driver  BY <2>3, UnloadStep
  <2>4. ASSUME NEW r \in DriverReqs, NEW type \in {"UPLOAD", "DOWNLOAD"},
               co_sdo_req_new(r, type)
        PROVE  Inv'
    BY <2>4, ReqNewStep, DriverAssumption
  <2>5. ASSUME NEW r \in DriverReqs, co_sdo_req_start(r)
        PROVE  Inv'
    BY <2>5, ReqStartStep, DriverAssumption
  <2>6. ASSUME NEW r \in DriverReqs, co_sdo_req_unref(r)
        PROVE  Inv'
    BY <2>6, ReqUnrefStep, DriverAssumption
  <2>7. ASSUME NEW r \in DriverReqs, co_sdo_send_blob(r)
        PROVE  Inv'
    <3>1. /\ HandlesEvents /\ ~req[r].made /\ sdo_req_queue__enqueue(DriverNode, r)
          /\ req' = Unref(sdo_req_start([req EXCEPT ![r] = sdo_req_new("DOWNLOAD", FALSE)],
                                        DriverNode, r), r)
          /\ main' = [main EXCEPT !.pc = "events"]
          /\ UNCHANGED <<client, idle, worker, drvvars>>
      BY <2>7 DEF co_sdo_send_blob, InDriver
    <3>2. /\ FALSE \in BOOLEAN /\ "DOWNLOAD" \in {"UPLOAD", "DOWNLOAD"} /\ r \in Reqs
          /\ DriverNode \in Nodes
      BY DriverAssumption, TheDriverNode
    <3> QED  BY <3>1, <3>2, MadeInEvent
  <2> QED  BY <1>3, <2>1, <2>2, <2>3, <2>4, <2>5, <2>6, <2>7, SMTT(30), SMT DEF DriverStep, DriverCall
<1> QED  BY <1>1, <1>2, <1>3 DEF DriverNext

-----------------------------------------------------------------------------
(* The sizes of finite sets. *)

INSTANCE FiniteSetTheorems

LEMMA Counting == Countable
<1> SUFFICES ASSUME NEW S \in SUBSET Reqs
             PROVE  /\ Cardinality(S) \in Nat
                    /\ \A r \in Reqs \ S : Cardinality(S \union {r}) = Cardinality(S) + 1
  BY DEF Countable
<1>1. IsFiniteSet(S)  BY SdoReqAssumption, FS_Subset
<1>2. Cardinality(S) \in Nat  BY <1>1, FS_CardinalityType
<1>3. ASSUME NEW r \in Reqs \ S PROVE Cardinality(S \union {r}) = Cardinality(S) + 1
  BY <1>1, <1>3, FS_AddElement
<1> QED  BY <1>2, <1>3

LEMMA SmallCounting == SmallSets
<1>1. Cardinality({}) = 0  BY FS_EmptySet
<1>2. \A x : IsFiniteSet({x}) /\ Cardinality({x}) = 1  BY FS_Singleton
<1>3. ASSUME NEW x, NEW y, x # y PROVE Cardinality({x} \union {y}) = 2
  <2>1. IsFiniteSet({x}) /\ Cardinality({x}) = 1 /\ y \notin {x}  BY <1>2, <1>3
  <2> QED  BY <2>1, FS_AddElement, SMT
<1> QED  BY <1>1, <1>2, <1>3 DEF SmallSets

-----------------------------------------------------------------------------
(* The theorems. *)

\* The invariant holds in every state of the queues, the workers, the callbacks
\* and the driver together.
THEOREM Invariance == DriverSpec => []Inv
<1>1. Init /\ DriverInit => Inv  BY SmallCounting, InitialInv
<1>2. Inv /\ [DriverNext]_<<vars, drvvars>> => Inv'  BY Counting, NextInv, StutterStep
<1> QED  BY <1>1, <1>2, PTL DEF DriverSpec

\* The queues of sdo_req.c are in order for any number of nodes, workers and
\* requests: each has its size and no more than its limit, requests wait in the
\* order in which they were started, and no queue is left locked.
THEOREM QueuesStayInOrder == DriverSpec => []QueuesInOrder
<1>1. Inv => QueuesInOrder  BY InvQueuesInOrder
<1> QED  BY <1>1, Invariance, PTL

\* A request has as many references as holders, a worker waits only for one
\* that will end, and on_done is called once: nothing in sdo_req.c, sdo_sync.c
\* or driver.c drops a reference early or keeps one.
THEOREM RequestsStayOwned == DriverSpec => []RequestsOwned
<1>1. Inv => RequestsOwned  BY SmallCounting, InvRequestsOwned
<1> QED  BY <1>1, Invariance, PTL

\* However often a driver is loaded and unloaded, no request that is left and
\* no frame calls into a driver that is gone (driver.c, unload_driver).
THEOREM CodeStaysLoaded == DriverSpec => []CodeIsLoaded
<1>1. Inv => CodeIsLoaded  BY InvCodeIsLoaded
<1> QED  BY <1>1, Invariance, PTL
=============================================================================
