---------------------------- MODULE MasterProofs ----------------------------
(***************************************************************************)
(* The life of the nodes (Master), for any number of nodes and workers and *)
(* any setup: loads are accounted for, and guarding and drivers go         *)
(* together.  The invariant is that of MasterInvariant.                    *)
(***************************************************************************)
EXTENDS MasterInvariant

\* Leaves that need arithmetic, or much about records, cite SMT.
USE Zenon

-----------------------------------------------------------------------------
(* What starts a handler in the main thread. *)

\* Any other heartbeat.
LEMMA HeartbeatSeen ==
    ASSUME NodesInv, NEW n \in Nodes, Within(handle_heartbeat(n))
    PROVE  NodesInv'
  <1>1. /\ fault = "none" /\ todo = <<>> /\ master_state = "RUNNING"
        /\ UNCHANGED <<node, master, threads, todo, setup>>
        /\ \/ \E c \in {"START", "RESET_COMMUNICATION"} :
                 nmt' = [nmt EXCEPT ![n] = c] /\ UNCHANGED fault
           \/ /\ node[n].is_initialized /\ n \in Guarded /\ ~node[n].heartbeat_timer
              /\ fault' = "heartbeat" /\ UNCHANGED nmt
    <2>1. master_state \in {"STARTUP", "RUNNING", "STOPPING"}
      BY DEF NodesInv, TypeOK
    <2> QED BY <2>1 DEF Within, handle_heartbeat, AtLoop
  <1>2. nmt' \in [Nodes -> NmtCommand]
    BY <1>1 DEF NodesInv, TypeOK, NmtCommand
  <1>3. ASSUME Outcomes = {"ok"} PROVE fault' = "none"
    <2>1. GuardedNode(n) /\ n_syncs # 0
      BY <1>1, <1>3 DEF NodesInv, GuardInv, StartInv
    <2> QED BY <1>1, <2>1 DEF GuardedNode
  <1>4. fault' \in {"none", "timer", "abort", "heartbeat"}
    BY <1>1
  <1> QED BY <1>1, <1>2, <1>3, <1>4, FaultStep DEF FaultsAtStop

\* The fields of the nodes when the driver of one is unloaded.
LEMMA UnloadedNode ==
    ASSUME NodesInv, NEW n \in Nodes, NEW o \in Node, node' = [node EXCEPT ![n] = unload_driver(n, o)],
           o.is_loading = node[n].is_loading, o.heartbeat_timer = node[n].heartbeat_timer,
           o.ping_timer = node[n].ping_timer,
           o.is_heartbeat_supported = node[n].is_heartbeat_supported, UNCHANGED setup
    PROVE  /\ node' \in [Nodes -> Node] /\ \A m \in Nodes : m # n => node'[m] = node[m]
           /\ NodeByMain(n) /\ ~node'[n].heartbeat_timer
           /\ Outcomes = {"ok"} => GuardedNode(n)'
  <1>1. /\ setup \in Setups /\ node \in [Nodes -> Node]
        /\ node[n].heartbeat_timer => n \in Guarded
    BY DEF NodesInv, TypeOK, TimerInv
  <1>2. node'[n] = unload_driver(n, o) /\ \A m \in Nodes : m # n => node'[m] = node[m]
    BY <1>1
  <1>3. /\ node'[n] \in Node
        /\ node'[n].driver_type = "NONE" /\ ~node'[n].is_initialized /\ ~node'[n].inhibit
        /\ node'[n].is_loading = node[n].is_loading
        /\ n \notin Guarded => /\ node'[n].heartbeat_timer = node[n].heartbeat_timer
                               /\ node'[n].ping_timer = node[n].ping_timer
        /\ n \in Guarded => /\ ~node'[n].heartbeat_timer
                            /\ node'[n].ping_timer <=> node[n].ping_timer /\ node[n].is_heartbeat_supported
    BY <1>1, <1>2, Unloading, SMT
  <1>4. node' \in [Nodes -> Node]
    BY <1>1, <1>2, <1>3
  <1>5. NodeByMain(n) /\ ~node'[n].heartbeat_timer
    BY <1>1, <1>3 DEF NodeByMain
  <1>6. ASSUME Outcomes = {"ok"} PROVE GuardedNode(n)'
    <2>1. GuardedNode(n)
      BY <1>6 DEF NodesInv, GuardInv
    <2> QED BY <1>3, <1>5, <2>1, SameNode DEF GuardedNode
  <1> QED BY <1>2, <1>4, <1>5, <1>6

\* What a step at the end of the program, or a timeout, does to the rest when
\* it unloads at most the driver of one node.
TodoElsewhere ==
    /\ TodoInv' /\ ~StartForm(todo') /\ ~BootForm(todo')
    /\ \A m : ~Marking(m) /\ ~Marking(m)'
    /\ todo # <<RunStep>> /\ todo' # <<RunStep>>

NodeTouched(n) ==
    /\ node' \in [Nodes -> Node] /\ \A m \in Nodes : m # n => node'[m] = node[m]
    /\ NodeByMain(n)
    /\ node'[n].heartbeat_timer => node[n].heartbeat_timer /\ node'[n].ntimeouts <= n_timeouts_max
    /\ Outcomes = {"ok"} => GuardedNode(n)' /\ FaultsAtStop'
    /\ nmt' \in [Nodes -> NmtCommand]
    /\ fault' \in {"none", "timer", "abort", "heartbeat"}

LEMMA NodeUnloaded ==
    ASSUME NodesInv, NEW n \in Nodes, master_state # "STARTUP", TodoElsewhere, NodeTouched(n),
           UNCHANGED <<master, threads, setup>>
    PROVE  NodesInv'
  <1>0. /\ setup \in Setups /\ TypeOK /\ JobsInv /\ BootInv /\ StartInv /\ TimerInv /\ GuardInv
    BY DEF NodesInv
  <1>1. UNCHANGED <<master_state, n_scheduled_bootups, n_inhibited_starts, nodes_seen,
                    nodes_seen_late, n_syncs, mux, bootups, jobs, worker, done>>
    BY DEF threads, master
  <1>2. TypeOK'
    BY <1>0, <1>1, SameNode DEF TypeOK, NodeTouched
  <1>3. BootInv'
    BY <1>0, <1>1, Quiet, BootKeeps DEF BootInv, TodoElsewhere
  <1>4. LoadsInv'
    <2>1. \A m \in Nodes : NodeByMain(m)
      BY DEF NodeByMain, NodeTouched
    <2> QED BY <2>1, LoadsKeep DEF TodoElsewhere
  <1>5. StartInv'
    BY <1>0, <1>1 DEF StartInv, TodoElsewhere
  <1>6. TimerInv'
    BY <1>0, <1>1, SameNode DEF TimerInv, NodeTouched
  <1>7. GuardInv'
    <2> SUFFICES ASSUME Outcomes = {"ok"} PROVE GuardInv'
      BY SameNode DEF GuardInv
    <2>1. ASSUME NEW m \in Nodes, m # n PROVE GuardedNode(m)'
      BY <1>0, <1>1, <2>1, SameNode DEF GuardInv, GuardedNode, NodeTouched, TodoElsewhere
    <2> QED BY <1>0, <1>1, <2>1, Quiet DEF GuardInv, NodeTouched, TodoElsewhere
  <1>8. TodoInv'
    BY DEF TodoElsewhere
  <1> QED BY <1>0, <1>8, <1>2, <1>3, <1>4, <1>5, <1>6, <1>7, Quiet DEF NodesInv

\* unload_all_drivers: one node.
LEMMA UnloadStep ==
    ASSUME FirstIsIn, NodesInv, Within(Unload)
    PROVE  NodesInv'
  <1>0. setup \in Setups /\ TypeOK /\ TodoInv /\ GuardInv /\ TimerInv
    BY DEF NodesInv
  <1>1. /\ fault = "none" /\ todo # <<>> /\ Head(todo).do = "unload"
        /\ UNCHANGED <<master, threads, setup>> /\ UNCHANGED <<n_syncs, master_state>>
    BY DEF Within, Unload, Remains, master
  <1>2. PICK S \in NonEmpty : master_state = "STOPPING" /\ todo = <<Do("unload", S)>>
    BY <1>0, <1>1, Forms
  <1>n. PICK n \in Nodes : n = NodeToDo
    BY <1>2, OnwardLast
  <1>3. Onward = <<>> \/ StopForm(Onward)
    BY <1>2, OnwardLast DEF StopForm
  <1>4. todo' = Onward => TodoElsewhere
    <2> SUFFICES ASSUME todo' = <<>> \/ StopForm(todo') PROVE TodoElsewhere
      BY <1>3
    <2>1. TodoInv'
      BY <1>1, <1>2 DEF TodoInv
    <2>2. \A m : ~Marking(m)
      BY <1>1, MarkingIs
    <2>3. \A m : ~Marking(m)'
      <3>1. todo' # <<>> => Head(todo').do = "unload"
        BY Kinds
      <3> QED BY <3>1, SMT DEF Marking, SetLoadingStep, Do
    <2>4. ~StartForm(todo') /\ ~BootForm(todo') /\ todo # <<RunStep>> /\ todo' # <<RunStep>>
      BY <1>1, Kinds
    <2> QED BY <2>1, <2>2, <2>3, <2>4 DEF TodoElsewhere
  <1>5. node[n] \in Node /\ nmt \in [Nodes -> NmtCommand]
    BY <1>0, <1>3 DEF TypeOK
  <1>6. ASSUME todo' = Onward, UNCHANGED <<node, nmt, fault>> PROVE NodesInv'
    <2>1. NodeByMain(n) /\ node' \in [Nodes -> Node]
      BY <1>0, <1>6 DEF NodeByMain, TypeOK
    <2>2. node[n].heartbeat_timer => node[n].ntimeouts <= n_timeouts_max
      BY <1>0, <1>3 DEF TimerInv
    <2>3. Outcomes = {"ok"} => GuardedNode(n)'
      <3>1. Outcomes = {"ok"} => GuardedNode(n)
        BY <1>0, <1>3 DEF GuardInv
      <3>2. todo # <<RunStep>> /\ todo' # <<RunStep>>
        BY <1>4, <1>6 DEF TodoElsewhere
      <3> QED BY <1>1, <1>6, <3>1, <3>2, SameNode DEF GuardedNode
    <2>4. fault' = "none" /\ FaultsAtStop'
      BY <1>1, <1>6 DEF FaultsAtStop
    <2>5. NodeTouched(n)
      BY <1>5, <1>6, <2>1, <2>2, <2>3, <2>4 DEF NodeTouched
    <2> QED BY <1>1, <1>2, <1>3, <1>4, <1>6, <2>5, NodeUnloaded
  <1>7. ASSUME node' = [node EXCEPT ![n] = unload_driver(n, node[n])],
               nmt' = [nmt EXCEPT ![n] = "STOP"], todo' = Onward, UNCHANGED fault
        PROVE  NodesInv'
    <2>1. /\ node' \in [Nodes -> Node] /\ \A m \in Nodes : m # n => node'[m] = node[m]
          /\ NodeByMain(n) /\ ~node'[n].heartbeat_timer
          /\ Outcomes = {"ok"} => GuardedNode(n)'
      BY <1>1, <1>3, <1>5, <1>7, UnloadedNode
    <2>2. nmt' \in [Nodes -> NmtCommand]
      BY <1>5, <1>7 DEF NmtCommand
    <2>3. FaultsAtStop' /\ fault' = "none"
      BY <1>1, <1>7 DEF FaultsAtStop
    <2>4. NodeTouched(n)
      BY <2>1, <2>2, <2>3 DEF NodeTouched
    <2> QED BY <1>1, <1>2, <1>3, <1>4, <1>7, <2>4, NodeUnloaded
  <1>8. ASSUME node[n].driver_type # "NONE", UnloadFault(n, node[n]) # "none",
               fault' = UnloadFault(n, node[n]), UNCHANGED <<node, nmt, todo>>
        PROVE  NodesInv'
    <2>1. fault' = "timer" /\ StopsNull(n, node[n])
      BY <1>8 DEF UnloadFault
    <2>2. ASSUME Outcomes = {"ok"} PROVE n_syncs = 0 \/ ~node[n].is_initialized
      <3>1. GuardedNode(n)
        BY <1>0, <1>3, <2>2 DEF GuardInv
      <3> QED BY <2>1, <3>1 DEF GuardedNode, StopsNull
    <2>3. Outcomes = {"ok"} => FaultsAtStop'
      <3>1. NodeToDo' = n
        BY <1>n, <1>8 DEF NodeToDo
      <3> QED BY <1>1, <1>2, <1>8, <2>1, <2>2, <3>1 DEF FaultsAtStop
    <2> QED BY <1>1, <1>5, <1>8, <2>1, <2>3, FaultStep
  <1>9. \/ todo' = Onward /\ UNCHANGED <<node, nmt, fault>>
        \/ /\ node' = [node EXCEPT ![n] = unload_driver(n, node[n])]
           /\ nmt' = [nmt EXCEPT ![n] = "STOP"] /\ todo' = Onward /\ UNCHANGED fault
        \/ /\ node[n].driver_type # "NONE" /\ UnloadFault(n, node[n]) # "none"
           /\ fault' = UnloadFault(n, node[n]) /\ UNCHANGED <<node, nmt, todo>>
    BY <1>n DEF Within, Unload
  <1> QED BY <1>6, <1>7, <1>8, <1>9

\* A heartbeat is late, or the last of those that a node may miss.
LEMMA TimeoutStep ==
    ASSUME NodesInv, NEW n \in Nodes, Within(on_heartbeat_timeout(n))
    PROVE  NodesInv'
  <1> DEFINE o == [node[n] EXCEPT !.ntimeouts = @ + 1]
  <1>0. setup \in Setups /\ TypeOK /\ TodoInv /\ GuardInv /\ TimerInv
    BY DEF NodesInv
  <1>1. /\ fault = "none" /\ todo = <<>> /\ master_state # "STOPPING" /\ node[n].heartbeat_timer
        /\ UNCHANGED <<master, threads, todo, setup>> /\ UNCHANGED <<n_syncs, master_state>>
    BY DEF Within, on_heartbeat_timeout, AtLoop, master
  <1>2. \/ node' = [node EXCEPT ![n] = o] /\ o.ntimeouts <= n_timeouts_max /\ UNCHANGED <<nmt, fault>>
        \/ /\ node' = [node EXCEPT ![n] = unload_driver(n, o)] /\ nmt' = [nmt EXCEPT ![n] = "RESET_NODE"]
           /\ fault' = UnloadFault(n, o)
    BY DEF Within, on_heartbeat_timeout
  <1>3. /\ node[n] \in Node /\ node \in [Nodes -> Node]
        /\ nmt \in [Nodes -> NmtCommand]
    BY <1>0 DEF TypeOK
  <1>4. n_timeouts_max \in Nat /\ node[n].ntimeouts <= n_timeouts_max /\ node[n].ntimeouts \in Nat
    <2>1. n_timeouts_max \in Nat
      BY <1>0, MasterAssumption DEF Setup, n_timeouts_max
    <2> QED BY <1>0, <1>1, <1>3, <2>1, SMT DEF TimerInv, Node
  <1>5. o \in Node
    BY <1>3, <1>4, SMT DEF Node
  <1>6. /\ o.driver_type = node[n].driver_type /\ o.is_initialized = node[n].is_initialized
        /\ o.is_loading = node[n].is_loading /\ o.heartbeat_timer = node[n].heartbeat_timer
        /\ o.ping_timer = node[n].ping_timer /\ o.inhibit = node[n].inhibit
        /\ o.is_heartbeat_supported = node[n].is_heartbeat_supported
    BY <1>3 DEF Node
  <1> HIDE DEF o
  <1>7. master_state # "STARTUP"
    BY <1>0, <1>1 DEF TimerInv
  <1>8. TodoElsewhere
    <2>1. TodoInv' /\ todo' = <<>> /\ todo # <<RunStep>>
      BY <1>1 DEF TodoInv
    <2>2. \A m : ~Marking(m) /\ ~Marking(m)'
      BY <1>1, <2>1 DEF Marking
    <2> QED BY <2>1, <2>2, Kinds DEF TodoElsewhere
  <1>9. ASSUME node' = [node EXCEPT ![n] = o], o.ntimeouts <= n_timeouts_max, UNCHANGED <<nmt, fault>>
        PROVE  NodesInv'
    <2>1. node' \in [Nodes -> Node] /\ node'[n] = o /\ \A m \in Nodes : m # n => node'[m] = node[m]
      BY <1>3, <1>5, <1>9
    <2>2. NodeByMain(n)
      BY <1>6, <2>1 DEF NodeByMain
    <2>3. Outcomes = {"ok"} => GuardedNode(n)'
      <3>1. Outcomes = {"ok"} => GuardedNode(n)
        BY <1>0 DEF GuardInv
      <3> QED BY <1>1, <1>6, <2>1, <3>1, SameNode DEF GuardedNode
    <2>4. fault' = "none" /\ FaultsAtStop'
      BY <1>1, <1>9 DEF FaultsAtStop
    <2>5. NodeTouched(n)
      BY <1>1, <1>3, <1>9, <2>1, <2>2, <2>3, <2>4 DEF NodeTouched
    <2> QED BY <1>1, <1>7, <1>8, <2>5, NodeUnloaded
  <1>10. ASSUME node' = [node EXCEPT ![n] = unload_driver(n, o)],
                nmt' = [nmt EXCEPT ![n] = "RESET_NODE"], fault' = UnloadFault(n, o)
         PROVE  NodesInv'
    <2>1. /\ node' \in [Nodes -> Node] /\ \A m \in Nodes : m # n => node'[m] = node[m]
          /\ NodeByMain(n) /\ ~node'[n].heartbeat_timer
          /\ Outcomes = {"ok"} => GuardedNode(n)'
      BY <1>1, <1>5, <1>6, <1>10, UnloadedNode
    <2>2. nmt' \in [Nodes -> NmtCommand]
      BY <1>3, <1>10 DEF NmtCommand
    <2>3. fault' \in {"none", "timer", "abort", "heartbeat"}
      BY <1>10 DEF UnloadFault
    <2>4. ASSUME Outcomes = {"ok"} PROVE FaultsAtStop'
      <3>1. GuardedNode(n)
        BY <1>0, <2>4 DEF GuardInv
      <3>2. ~StopsNull(n, o) /\ o.driver_type # "NONE"
        BY <1>1, <1>6, <3>1 DEF GuardedNode, StopsNull
      <3>3. fault' = "none"
        BY <1>10, <3>2 DEF UnloadFault
      <3> QED BY <3>3 DEF FaultsAtStop
    <2>5. NodeTouched(n)
      BY <2>1, <2>2, <2>3, <2>4 DEF NodeTouched
    <2> QED BY <1>1, <1>7, <1>8, <2>5, NodeUnloaded
  <1> QED BY <1>2, <1>9, <1>10

\* A driver starts its node: no driver holds its start back where every one
\* initialises.
LEMMA HeldBack ==
    ASSUME NodesInv, NEW n \in Nodes, Within(co__start(n))
    PROVE  /\ fault = "none" /\ todo = <<>> /\ master_state # "STOPPING" /\ node[n] \in Node
           /\ node[n].driver_type # "NONE" /\ node[n].is_initialized /\ node[n].inhibit
           /\ UNCHANGED <<master_state, n_scheduled_bootups, nodes_seen, nodes_seen_late, n_syncs,
                          mux, bootups, threads, fault, setup>>
           /\ Outcomes # {"ok"} /\ mux
           /\ [node[n] EXCEPT !.inhibit = FALSE] \in Node
  <1>1. /\ fault = "none" /\ todo = <<>> /\ master_state # "STOPPING"
        /\ node[n].driver_type # "NONE" /\ node[n].is_initialized /\ node[n].inhibit
        /\ UNCHANGED <<master_state, n_scheduled_bootups, nodes_seen, nodes_seen_late, n_syncs,
                       mux, bootups, threads, fault, setup>>
    BY DEF Within, co__start, AtLoop
  <1>2. Outcomes # {"ok"}
    BY <1>1 DEF NodesInv, GuardInv, GuardedNode
  <1>3. mux
    <2>1. master_state = "STARTUP" => mux
      BY <1>1 DEF NodesInv, BootInv, Fresh
    <2>2. master_state = "RUNNING" => mux
      BY DEF NodesInv, BootInv
    <2> QED BY <1>1, <2>1, <2>2 DEF NodesInv, TypeOK
  <1>4. node[n] \in Node
    BY DEF NodesInv, TypeOK
  <1>5. [node[n] EXCEPT !.inhibit = FALSE] \in Node
    BY <1>4 DEF Node
  <1> QED BY <1>1, <1>2, <1>3, <1>4, <1>5

LEMMA LateStart ==
    ASSUME NodesInv, NEW n \in Nodes, Within(co__start(n)), master_state # "STARTUP"
    PROVE  NodesInv'
  <1> DEFINE o == [node[n] EXCEPT !.inhibit = FALSE]
  <1>0. setup \in Setups /\ TypeOK /\ JobsInv /\ TodoInv /\ BootInv /\ StartInv /\ TimerInv
    BY DEF NodesInv
  <1>1. /\ node' = [node EXCEPT ![n] = start_nodeguarding(n, o)] /\ nmt' = [nmt EXCEPT ![n] = "START"]
        /\ UNCHANGED <<n_inhibited_starts, todo>>
    BY DEF Within, co__start
  <1>2. /\ fault = "none" /\ todo = <<>> /\ o \in Node /\ Outcomes # {"ok"} /\ mux
        /\ UNCHANGED <<master_state, n_scheduled_bootups, nodes_seen, nodes_seen_late, n_syncs,
                       mux, bootups, threads, fault, setup>>
    BY HeldBack
  <1>3. /\ o.driver_type = node[n].driver_type /\ o.is_initialized = node[n].is_initialized
        /\ o.is_loading = node[n].is_loading /\ o.heartbeat_timer = node[n].heartbeat_timer
        /\ o.ntimeouts = node[n].ntimeouts
    BY HeldBack DEF Node
  <1> HIDE DEF o
  <1>4. /\ node' \in [Nodes -> Node] /\ node'[n] = start_nodeguarding(n, o)
        /\ \A m \in Nodes : m # n => node'[m] = node[m]
    BY <1>0, <1>1, <1>2, Guarding DEF TypeOK
  <1>5. /\ node'[n].driver_type = node[n].driver_type
        /\ node'[n].is_initialized = node[n].is_initialized
        /\ node'[n].is_loading = node[n].is_loading
        /\ n \in Guarded => node'[n].ntimeouts = 0
        /\ n \notin Guarded => /\ node'[n].heartbeat_timer = node[n].heartbeat_timer
                               /\ node'[n].ntimeouts = node[n].ntimeouts
    BY <1>0, <1>2, <1>3, <1>4, Guarding, SMT
  <1>6. UNCHANGED <<jobs, worker, done>>
    BY <1>2 DEF threads
  <1>7. TypeOK' /\ TodoInv'
    <2>1. nmt' \in [Nodes -> NmtCommand]
      BY <1>0, <1>1 DEF TypeOK, NmtCommand
    <2> QED BY <1>0, <1>1, <1>2, <1>4, <1>6, <2>1, SameNode DEF TypeOK, TodoInv
  <1>8. BootInv'
    BY <1>0, <1>1, <1>2, Quiet, BootKeeps
  <1>9. LoadsInv'
    <2>1. \A m \in Nodes : NodeByMain(m) /\ (Marking(m)' <=> Marking(m))
      BY <1>1, <1>4, <1>5 DEF NodeByMain, Marking
    <2> QED BY <1>2, <2>1, LoadsKeep
  <1>10. StartInv'
    BY <1>0, <1>1, <1>2 DEF StartInv
  <1>11. TimerInv'
    <2>1. n_timeouts_max \in Nat
      BY <1>0, MasterAssumption DEF Setup, n_timeouts_max
    <2> QED BY <1>0, <1>2, <1>4, <1>5, <2>1, SameNode, SMT DEF TimerInv
  <1>12. GuardInv'
    BY <1>2, SameNode DEF GuardInv
  <1> QED BY <1>0, <1>2, <1>7, <1>8, <1>9, <1>10, <1>11, <1>12, Quiet DEF NodesInv

LEMMA EarlyStart ==
    ASSUME NodesInv, NEW n \in Nodes, Within(co__start(n)), master_state = "STARTUP",
           n_inhibited_starts' \in Nat
    PROVE  NodesInv'
  <1> DEFINE o == [node[n] EXCEPT !.inhibit = FALSE]
  <1>0. setup \in Setups /\ TypeOK /\ JobsInv /\ TodoInv /\ BootInv /\ StartInv /\ TimerInv
    BY DEF NodesInv
  <1>1. /\ node' = [node EXCEPT ![n] = o] /\ UNCHANGED nmt
        /\ n_inhibited_starts' = n_inhibited_starts - 1
        /\ todo' = IF LastStart THEN start_all_nodes ELSE <<>>
    BY DEF Within, co__start
  <1>2. /\ fault = "none" /\ todo = <<>> /\ o \in Node /\ Outcomes # {"ok"} /\ mux
        /\ node[n].inhibit
        /\ UNCHANGED <<master_state, n_scheduled_bootups, nodes_seen, nodes_seen_late, n_syncs,
                       mux, bootups, threads, fault, setup>>
    BY HeldBack
  <1>3. /\ o.driver_type = node[n].driver_type /\ o.is_initialized = node[n].is_initialized
        /\ o.is_loading = node[n].is_loading /\ o.heartbeat_timer = node[n].heartbeat_timer
        /\ o.ntimeouts = node[n].ntimeouts /\ ~o.inhibit
    BY HeldBack DEF Node
  <1> HIDE DEF o
  <1>4. /\ node' \in [Nodes -> Node] /\ node'[n] = o
        /\ \A m \in Nodes : m # n => node'[m] = node[m]
    BY <1>0, <1>1, <1>2 DEF TypeOK
  <1>5. UNCHANGED <<jobs, worker, done>>
    BY <1>2 DEF threads
  <1>6. todo' = <<>> \/ (todo' = start_all_nodes /\ StartForm(todo'))
    BY <1>1 DEF StartForm
  <1>7. /\ \A m : ~Marking(m) /\ ~Marking(m)' /\ ~Scheduled(m)'
        /\ ~BootForm(todo') /\ ~StartForm(todo)
    <2>1. \A m : ~Marking(m)' /\ ~Scheduled(m)'
      BY <1>6, SMT DEF Marking, Scheduled, ScheduledIn, start_all_nodes, SetLoadingStep, Do
    <2>2. \A m : ~Marking(m)
      BY <1>2 DEF Marking
    <2> QED BY <1>2, <1>6, <2>1, <2>2, Kinds
  <1>8. TypeOK' /\ TodoInv'
    <2>1. TypeOK'
      BY <1>0, <1>1, <1>2, <1>4, <1>5, SameNode DEF TypeOK
    <2>2. TodoInv'
      BY <1>2, <1>6 DEF TodoInv
    <2> QED BY <2>1, <2>2
  <1>9. BootInv'
    <2>1. \A m \in Nodes : /\ Fresh(m) => Fresh(m)'
                           /\ ~node[m].is_initialized /\ ~node[m].inhibit
                                 => ~node'[m].is_initialized /\ ~node'[m].inhibit
      BY <1>2, <1>4 DEF Fresh
    <2> QED BY <1>0, <1>2, <1>7, <2>1, Quiet, BootKeeps
  <1>10. LoadsInv'
    <2>1. \A m \in Nodes : NodeByMain(m)
      BY <1>3, <1>4 DEF NodeByMain
    <2> QED BY <1>2, <1>7, <2>1, LoadsKeep
  <1>11. StartInv'
    BY <1>0, <1>1, <1>2, <1>6, Kinds DEF StartInv, LastStart
  <1>12. TimerInv'
    <2>1. \A m \in Nodes : ~node'[m].heartbeat_timer
      BY <1>0, <1>2, <1>3, <1>4 DEF TimerInv
    <2> QED BY <2>1 DEF TimerInv
  <1>13. GuardInv'
    BY <1>2, SameNode DEF GuardInv
  <1> QED BY <1>0, <1>2, <1>8, <1>9, <1>10, <1>11, <1>12, <1>13, Quiet DEF NodesInv

-----------------------------------------------------------------------------
(* The main loop takes a result. *)

Taking(x) ==
    /\ AtLoop /\ done # <<>> /\ x = Head(done) /\ done' = Tail(done)
    /\ UNCHANGED <<jobs, worker, fault, setup>>

LEMMA ResultTaken ==
    ASSUME NodesInv, NEW x, Taking(x)
    PROVE  /\ x \in AnyJob /\ Has(done, x) /\ Occurs(x) /\ (x = Wait => Waited)
           /\ \A y : (Occurs(y)' => Occurs(y)) /\ (y # x => (Occurs(y)' <=> Occurs(y)))
           /\ \A y : Once(y) => Once(y)' /\ (y = x => ~Occurs(y)')
           /\ \A y : Busy(y)' = Busy(y) /\ Early(y)' = Early(y)
           /\ \A y : y # x => (Has(done', y) <=> Has(done, y))
           /\ Waited' => Waited
           /\ JobsInv' /\ done' \in Seq(JobRecord)
           /\ fault = "none" /\ todo = <<>> /\ master_state # "STOPPING"
           /\ UNCHANGED <<jobs, worker, fault, setup>>
  <1>0. JobsInv /\ TypeOK
    BY DEF NodesInv
  <1>1. /\ done # <<>> /\ x = Head(done) /\ done' = Tail(done)
        /\ fault = "none" /\ todo = <<>> /\ master_state # "STOPPING"
        /\ UNCHANGED <<jobs, worker, fault, setup>>
    BY DEF Taking, AtLoop
  <1>2. /\ x \in AnyJob /\ done' \in Seq(AnyJob)
        /\ \A y : /\ Has(done, y) <=> y = x \/ Has(done', y)
                  /\ Single(done, y) => Single(done', y) /\ (y = x => ~Has(done', y))
    BY <1>0, <1>1, Popped DEF JobsInv
  <1>3. \A y : Busy(y)' = Busy(y) /\ Early(y)' = Early(y)
    BY <1>1 DEF Busy, Early
  <1>4. ASSUME NEW y
        PROVE  /\ Occurs(y)' => Occurs(y)
               /\ y # x => (Occurs(y)' <=> Occurs(y))
    BY <1>1, <1>2, <1>3 DEF Occurs
  <1>5. ASSUME NEW y, Once(y) PROVE Once(y)' /\ (y = x => ~Occurs(y)')
    BY <1>1, <1>2, <1>3, <1>5 DEF Once, Occurs
  <1>6. Has(done, x) /\ Occurs(x) /\ (x = Wait => Waited)
    BY <1>2 DEF Occurs, Waited
  <1>7. Waited' => Waited
    BY <1>1, <1>2, <1>3 DEF Waited
  <1>8. JobsInv'
    BY <1>0, <1>1, <1>2 DEF JobsInv
  <1>9. done' \in Seq(JobRecord)
    BY <1>0, <1>1, SMT DEF TypeOK
  <1> QED BY <1>1, <1>2, <1>3, <1>4, <1>5, <1>6, <1>7, <1>8, <1>9

\* Loads as the end of another job leaves them.
LEMMA LoadsAside ==
    ASSUME NodesInv, NEW x, Taking(x), NEW n \in Nodes, ~Marking(n)', NodeByMain(n),
           \/ x # Load(n)
           \/ node'[n].driver_type = "NONE" \/ node'[n].is_initialized
    PROVE  LoadInv(n)'
  <1>1. LoadInv(n) /\ UNCHANGED <<jobs, worker, setup>> /\ ~Marking(n)
    <2>1. ~Marking(n)
      BY ResultTaken DEF Marking
    <2> QED BY <2>1, ResultTaken DEF NodesInv, LoadsInv
  <1>2. Early(Load(n))' = Early(Load(n)) /\ Busy(Load(n))' = Busy(Load(n))
    BY ResultTaken
  <1>3. x # Load(n) => (Has(done', Load(n)) <=> Has(done, Load(n)))
    BY ResultTaken
  <1> QED BY <1>1, <1>2, <1>3 DEF LoadInv, Outstanding, NodeByMain

\* The probe has ended: run_bootup.
LEMMA ProbeDone ==
    ASSUME NodesInv, Taking(Probe), on_net_probe_done
    PROVE  NodesInv'
  <1>0. setup \in Setups /\ TypeOK /\ BootInv /\ StartInv /\ TimerInv /\ GuardInv
    BY DEF NodesInv
  <1>1. /\ mux' = TRUE /\ todo' = ForEach("schedule", nodes_seen) \o <<WaitStep>>
        /\ UNCHANGED <<node, nmt, master_state, n_scheduled_bootups, n_inhibited_starts,
                       nodes_seen, nodes_seen_late, n_syncs, bootups>>
    BY DEF on_net_probe_done, run_bootup, WaitStep
  <1>2. UNCHANGED <<jobs, worker, fault, setup>> /\ fault = "none" /\ todo = <<>>
    BY ResultTaken
  <1>3. master_state = "STARTUP" /\ ~mux
    <2>1. ~mux
      BY <1>0, ResultTaken DEF BootInv
    <2> QED BY <1>0, <2>1, ResultTaken DEF BootInv, TypeOK
  <1>4. ~Occurs(Wait) /\ \A m \in Nodes : Fresh(m) /\ ~Occurs(Load(m))
    BY <1>0, <1>3 DEF BootInv
  <1>5. BootForm(todo') /\ \A m : ~Marking(m)'
    <2>1. CASE nodes_seen = {}
      <3>1. todo' = <<WaitStep>>
        BY <1>1, <2>1, SMT DEF ForEach
      <3> QED BY <3>1, ShapeOne DEF BootForm, Shape, Marking
    <2>2. CASE nodes_seen # {}
      <3>1. nodes_seen \in NonEmpty
        BY <1>0, <2>2 DEF TypeOK, NonEmpty
      <3>2. todo' = <<ScheduleStep(nodes_seen), WaitStep>>
        BY <1>1, <2>2, JoinTwo DEF ForEach, ScheduleStep
      <3>3. Shape(todo', {}, nodes_seen)
        BY <3>2, ShapeMore
      <3> QED BY <3>1, <3>2, <3>3 DEF BootForm, Shape, Marking
    <2> QED BY <2>1, <2>2
  <1>6. ~StartForm(todo') /\ ~StartForm(todo) /\ todo' # <<RunStep>> /\ todo # <<RunStep>>
    BY <1>2, <1>5, Kinds
  <1>7. TypeOK' /\ TodoInv'
    <2>1. TypeOK'
      BY <1>0, <1>1, <1>2, ResultTaken, SameNode DEF TypeOK
    <2> QED BY <1>1, <1>3, <1>5, <2>1 DEF TodoInv
  <1>8. BootInv'
    <2>1. Probe # Wait /\ \A m : Probe # Load(m)
      BY DEF Probe, Wait, Load, Job
    <2>2. Once(Probe)' /\ Once(Wait)' /\ ~Occurs(Probe)' /\ ~Occurs(Wait)'
      BY <1>0, <1>4, ResultTaken DEF BootInv
    <2>3. \A m \in Nodes : Once(Load(m))' /\ ~Occurs(Load(m))' /\ Fresh(m)'
      BY <1>0, <1>1, <1>3, <1>4, ResultTaken DEF BootInv, Fresh
    <2> QED BY <1>1, <2>2, <2>3 DEF BootInv
  <1>9. LoadsInv'
    <2>1. \A m \in Nodes : NodeByMain(m) /\ Probe # Load(m)
      BY <1>1 DEF NodeByMain, Probe, Load, Job
    <2> QED BY <1>5, <2>1, LoadsAside DEF LoadsInv
  <1>10. StartInv' /\ TimerInv'
    BY <1>0, <1>1, <1>2, <1>6, SameNode DEF StartInv, TimerInv
  <1>11. GuardInv'
    <2>1. ~(n_syncs > 0) /\ ~Waited'
      <3>1. Waited => Occurs(Wait)
        BY DEF Waited, Occurs
      <3> QED BY <1>0, <1>3, <1>4, <3>1, ResultTaken DEF StartInv
    <2> QED BY <1>0, <1>1, <1>2, <1>6, <2>1, SameNode DEF GuardInv, GuardedNode, FaultsAtStop
  <1> QED BY <1>0, <1>2, <1>7, <1>8, <1>9, <1>10, <1>11, ResultTaken DEF NodesInv

\* wait_for_bootup has ended: the nodes are started, unless one holds back.
LEMMA WaitDone ==
    ASSUME NodesInv, Taking(Wait), on_bootup_done
    PROVE  NodesInv'
  <1>0. setup \in Setups /\ TypeOK /\ BootInv /\ StartInv /\ TimerInv /\ GuardInv
    BY DEF NodesInv
  <1>1. /\ todo' = IF n_inhibited_starts = 0 THEN start_all_nodes ELSE <<>>
        /\ UNCHANGED <<node, nmt, master_state, n_scheduled_bootups, n_inhibited_starts, nodes_seen,
                       nodes_seen_late, n_syncs, mux, bootups>>
    BY DEF on_bootup_done, master
  <1>2. UNCHANGED <<jobs, worker, fault, setup>> /\ fault = "none" /\ todo = <<>> /\ master_state # "STOPPING"
    BY ResultTaken
  <1>3. todo' = <<>> \/ (todo' = start_all_nodes /\ StartForm(todo') /\ n_inhibited_starts = 0)
    BY <1>1 DEF StartForm
  <1>4. /\ \A m : ~Marking(m)' /\ ~Scheduled(m)'
        /\ ~BootForm(todo') /\ ~StartForm(todo) /\ todo # <<RunStep>> /\ todo' # <<RunStep>>
    <2>1. \A m : ~Marking(m)' /\ ~Scheduled(m)'
      BY <1>3, SMT DEF Marking, Scheduled, ScheduledIn, start_all_nodes, SetLoadingStep, Do
    <2>2. todo' # <<RunStep>>
      BY <1>3, SMT DEF start_all_nodes
    <2> QED BY <1>2, <1>3, <2>1, <2>2, Kinds
  <1>5. mux
    BY <1>0, <1>2, ResultTaken DEF BootInv, TypeOK
  <1>6. TypeOK' /\ TodoInv'
    <2>1. TypeOK'
      BY <1>0, <1>1, <1>2, ResultTaken, SameNode DEF TypeOK
    <2> QED BY <1>1, <1>2, <1>3, <2>1 DEF TodoInv
  <1>7. BootInv'
    <2>1. \A m \in Nodes : (Fresh(m)' <=> Fresh(m)) /\ node'[m] = node[m]
      BY <1>1 DEF Fresh
    <2> QED BY <1>0, <1>1, <1>4, <1>5, <2>1, ResultTaken, BootKeeps
  <1>8. LoadsInv'
    <2>1. \A m \in Nodes : NodeByMain(m) /\ Wait # Load(m)
      BY <1>1 DEF NodeByMain, Wait, Load, Job
    <2> QED BY <1>4, <2>1, LoadsAside DEF LoadsInv
  <1>9. StartInv'
    BY <1>0, <1>1, <1>3, Kinds DEF StartInv
  <1>10. TimerInv'
    BY <1>0, <1>1, <1>2, <1>4, SameNode DEF TimerInv
  <1>11. GuardInv'
    <2> SUFFICES ASSUME Outcomes = {"ok"} PROVE GuardInv'
      BY <1>2, SameNode DEF GuardInv
    <2>1. \A m \in Nodes : GuardedNode(m)'
      BY <1>0, <1>1, <1>2, <1>4, SameNode DEF GuardInv, GuardedNode
    <2>2. ~(n_syncs > 0) /\ ~Occurs(Wait)'
      BY <1>0, ResultTaken DEF GuardInv, BootInv
    <2>3. master_state = "STARTUP"
      BY <1>0, <1>2, <2>2, SMT DEF StartInv, TypeOK
    <2>4. \A m \in Nodes : ~Occurs(Load(m))'
      BY <1>0, <2>3, ResultTaken DEF GuardInv
    <2>5. FaultsAtStop'
      BY <1>2 DEF FaultsAtStop
    <2> QED BY <1>0, <1>1, <2>1, <2>2, <2>3, <2>4, <2>5 DEF GuardInv
  <1> QED BY <1>0, <1>2, <1>6, <1>7, <1>8, <1>9, <1>10, <1>11, ResultTaken DEF NodesInv

\* What the end of a load does to its node.
LoadEnded(n) ==
    /\ node' \in [Nodes -> Node] /\ \A m \in Nodes : m # n => node'[m] = node[m]
    /\ node'[n].is_loading = node[n].is_loading
    /\ node'[n].driver_type # "NONE" => node[n].driver_type # "NONE" /\ node'[n].is_initialized
    /\ node'[n].heartbeat_timer => /\ n \in Guarded /\ node'[n].ntimeouts <= n_timeouts_max
                                   /\ master_state # "STARTUP"
    /\ nmt' \in [Nodes -> NmtCommand]
    /\ n_inhibited_starts' \in Nat
    /\ master_state = "RUNNING" => n_inhibited_starts' = n_inhibited_starts
    /\ Outcomes = {"ok"} => GuardedNode(n)' /\ n_inhibited_starts' = 0

LEMMA LoadEnds ==
    ASSUME NodesInv, NEW n \in Nodes, Taking(Load(n)), on_load_driver_done(n)
    PROVE  LoadEnded(n)
  <1>0. /\ setup \in Setups /\ node \in [Nodes -> Node] /\ node[n] \in Node
        /\ nmt \in [Nodes -> NmtCommand]
        /\ n_inhibited_starts \in Nat /\ n_syncs \in Nat
    BY DEF NodesInv, TypeOK
  <1>1. /\ UNCHANGED <<todo, n_syncs, master_state, setup>> /\ todo = <<>>
        /\ todo # <<RunStep>> /\ todo' # <<RunStep>> /\ n_timeouts_max \in Nat
    <2>1. UNCHANGED <<todo, n_syncs, master_state, setup>> /\ todo = <<>>
      BY ResultTaken DEF on_load_driver_done
    <2>2. n_timeouts_max \in Nat
      BY <1>0, MasterAssumption DEF Setup, n_timeouts_max
    <2> QED BY <2>1, <2>2
  <1>2. /\ node[n].heartbeat_timer =>
             n \in Guarded /\ node[n].ntimeouts <= n_timeouts_max /\ master_state # "STARTUP"
        /\ Outcomes = {"ok"} => GuardedNode(n) /\ n_inhibited_starts = 0
        /\ n_syncs = 0 => master_state # "RUNNING"
        /\ n_syncs > 0 => master_state # "STARTUP"
    BY <1>1 DEF NodesInv, TimerInv, GuardInv, StartInv
  <1>3. ASSUME node[n].driver_type = "NONE", UNCHANGED <<node, nmt, n_inhibited_starts>>
        PROVE  LoadEnded(n)
    <2>1. Outcomes = {"ok"} => GuardedNode(n)'
      BY <1>1, <1>2, <1>3, SameNode DEF GuardedNode
    <2> QED BY <1>0, <1>2, <1>3, <2>1 DEF LoadEnded
  <1>4. ASSUME "fail" \in Outcomes, UNCHANGED n_inhibited_starts,
               node' = [node EXCEPT ![n].driver_type = "NONE", ![n].inhibit = FALSE],
               nmt' = [nmt EXCEPT ![n] = "STOP"]
        PROVE  LoadEnded(n)
    <2>1. [node[n] EXCEPT !.driver_type = "NONE", !.inhibit = FALSE] \in Node
      BY <1>0 DEF Node
    <2>2. /\ node'[n] = [node[n] EXCEPT !.driver_type = "NONE", !.inhibit = FALSE]
          /\ \A m \in Nodes : m # n => node'[m] = node[m]
      BY <1>0, <1>4
    <2>3. node' \in [Nodes -> Node]
      BY <1>0, <1>4, <2>1, <2>2
    <2>4. /\ node'[n].driver_type = "NONE" /\ node'[n].is_loading = node[n].is_loading
          /\ node'[n].heartbeat_timer = node[n].heartbeat_timer
          /\ node'[n].ntimeouts = node[n].ntimeouts
      BY <1>0, <2>2 DEF Node
    <2>5. nmt' \in [Nodes -> NmtCommand]
      BY <1>0, <1>4 DEF NmtCommand
    <2>6. Outcomes # {"ok"}
      BY <1>4, SMT
    <2> QED BY <1>0, <1>2, <1>4, <2>2, <2>3, <2>4, <2>5, <2>6 DEF LoadEnded
  <1>5. ASSUME node[n].driver_type # "NONE", NEW outcome \in Outcomes \ {"fail"}, NEW o, NEW g,
               o = Initialized(node[n], outcome),
               g = IF master_state # "STARTUP" /\ ~o.inhibit THEN start_nodeguarding(n, o) ELSE o,
               node' = [node EXCEPT ![n] = g],
               \/ nmt' = [nmt EXCEPT ![n] = "START"] \/ nmt' = nmt,
               n_inhibited_starts' = n_inhibited_starts + IF CountsInhibited(o) THEN 1 ELSE 0
        PROVE  LoadEnded(n)
    <2>1. /\ o \in Node /\ o.is_initialized
          /\ o.inhibit <=> node[n].inhibit \/ outcome = "inhibit"
          /\ o.driver_type = node[n].driver_type /\ o.is_loading = node[n].is_loading
          /\ o.heartbeat_timer = node[n].heartbeat_timer /\ o.ping_timer = node[n].ping_timer
          /\ o.ntimeouts = node[n].ntimeouts
          /\ o.is_heartbeat_supported = node[n].is_heartbeat_supported
      BY <1>0, <1>5 DEF Initialized, Node
    <2>o. setup \in Setups /\ o \in Node
      BY <1>0, <2>1
    <2> DEFINE s == start_nodeguarding(n, o)
    <2>2. /\ s \in Node
          /\ s.driver_type = o.driver_type /\ s.is_initialized = o.is_initialized
          /\ s.is_loading = o.is_loading /\ s.inhibit = o.inhibit
          /\ s.is_heartbeat_supported = o.is_heartbeat_supported
          /\ n \notin Guarded => s = o
          /\ n \in Guarded => s.heartbeat_timer /\ s.ntimeouts = 0
      BY <2>o, Guarding
    <2>p. n \in Guarded => (s.ping_timer <=> o.ping_timer \/ ~o.is_heartbeat_supported)
      BY <2>1 DEF start_nodeguarding, Node
    <2>g. (g = o) \/ (g = s /\ master_state # "STARTUP")
      BY <1>5
    <2> HIDE DEF s
    <2>3. node' \in [Nodes -> Node] /\ node'[n] = g /\ \A m \in Nodes : m # n => node'[m] = node[m]
      BY <1>0, <1>5, <2>1, <2>2, <2>g
    <2>4. /\ g.is_loading = node[n].is_loading /\ g.is_initialized
          /\ g.driver_type = node[n].driver_type
          /\ g.heartbeat_timer => /\ n \in Guarded /\ g.ntimeouts <= n_timeouts_max
                                  /\ master_state # "STARTUP"
      <3>1. CASE g = o
        BY <1>2, <2>1, <3>1
      <3>2. CASE g = s /\ master_state # "STARTUP" /\ n \in Guarded
        <4>1. g.ntimeouts = 0 /\ 0 <= n_timeouts_max
          BY <1>1, <2>2, <3>2, SMT
        <4>2. g.is_loading = node[n].is_loading /\ g.is_initialized /\ g.driver_type = node[n].driver_type
          BY <2>1, <2>2, <3>2
        <4> QED BY <3>2, <4>1, <4>2
      <3>3. CASE g = s /\ n \notin Guarded
        BY <1>2, <2>1, <2>2, <3>3
      <3> QED BY <2>g, <3>1, <3>2, <3>3
    <2>5. nmt' \in [Nodes -> NmtCommand]
      BY <1>0, <1>5 DEF NmtCommand
    <2>6. /\ n_inhibited_starts' \in Nat
          /\ master_state = "RUNNING" => n_inhibited_starts' = n_inhibited_starts
      BY <1>0, <1>5, SMT DEF CountsInhibited
    <2>7. ASSUME Outcomes = {"ok"} PROVE GuardedNode(n)' /\ n_inhibited_starts' = 0
      <3>1. outcome = "ok" /\ ~o.inhibit /\ GuardedNode(n)
        BY <1>2, <2>1, <2>7 DEF GuardedNode
      <3>2. n_inhibited_starts' = 0
        BY <1>2, <1>5, <2>7, <3>1, SMT DEF CountsInhibited
      <3>3. CASE master_state = "STARTUP"
        <4>1. g = o /\ n_syncs' = 0
          BY <1>0, <1>1, <1>2, <1>5, <3>3, SMT
        <4> QED BY <1>1, <1>5, <2>1, <2>3, <3>1, <3>2, <4>1, SameNode, SMT DEF GuardedNode
      <3>4. CASE master_state # "STARTUP"
        <4>1. g = s
          BY <1>5, <3>1, <3>4 DEF s
        <4>2. /\ ~node'[n].inhibit /\ node'[n].driver_type # "NONE" /\ node'[n].is_initialized
              /\ node'[n].is_heartbeat_supported = node[n].is_heartbeat_supported
          BY <1>5, <2>1, <2>2, <2>3, <3>1, <4>1, ZenonT(30)
        <4>3. /\ n \in Guarded => /\ node'[n].heartbeat_timer
                                  /\ node'[n].ping_timer <=> node[n].ping_timer
                                                             \/ ~node[n].is_heartbeat_supported
              /\ n \notin Guarded => /\ node'[n].heartbeat_timer = node[n].heartbeat_timer
                                     /\ node'[n].ping_timer = node[n].ping_timer
          <5>1. CASE n \in Guarded
            BY <2>1, <2>2, <2>p, <2>3, <4>1, <5>1
          <5>2. CASE n \notin Guarded
            BY <2>1, <2>2, <2>3, <4>1, <5>2, SMT
          <5> QED BY <5>1, <5>2
        <4>4. GuardedNode(n)'
          BY <1>1, <3>1, <4>2, <4>3, SameNode DEF GuardedNode
        <4> QED BY <3>2, <4>4
      <3> QED BY <3>3, <3>4
    <2> QED BY <1>5, <2>3, <2>4, <2>5, <2>6, <2>7 DEF LoadEnded
  <1>6. \/ node[n].driver_type = "NONE" /\ UNCHANGED <<node, nmt, n_inhibited_starts>>
        \/ /\ "fail" \in Outcomes /\ UNCHANGED n_inhibited_starts
           /\ node' = [node EXCEPT ![n].driver_type = "NONE", ![n].inhibit = FALSE]
           /\ nmt' = [nmt EXCEPT ![n] = "STOP"]
        \/ /\ node[n].driver_type # "NONE"
           /\ \E outcome \in Outcomes \ {"fail"} :
                LET o == Initialized(node[n], outcome)
                    start == master_state # "STARTUP" /\ ~o.inhibit
                IN  /\ node' = [node EXCEPT ![n] = IF start THEN start_nodeguarding(n, o) ELSE o]
                    /\ nmt' = [nmt EXCEPT ![n] = IF start THEN "START" ELSE @]
                    /\ n_inhibited_starts' = n_inhibited_starts + IF CountsInhibited(o) THEN 1 ELSE 0
    BY DEF on_load_driver_done
  <1>7. nmt = [nmt EXCEPT ![n] = nmt[n]]
    BY <1>0
  <1>8. ASSUME node[n].driver_type # "NONE", NEW outcome \in Outcomes \ {"fail"},
               LET o == Initialized(node[n], outcome)
                   start == master_state # "STARTUP" /\ ~o.inhibit
               IN  /\ node' = [node EXCEPT ![n] = IF start THEN start_nodeguarding(n, o) ELSE o]
                   /\ nmt' = [nmt EXCEPT ![n] = IF start THEN "START" ELSE @]
                   /\ n_inhibited_starts' = n_inhibited_starts + IF CountsInhibited(o) THEN 1 ELSE 0
        PROVE  LoadEnded(n)
    <2> DEFINE o == Initialized(node[n], outcome)
               g == IF master_state # "STARTUP" /\ ~o.inhibit THEN start_nodeguarding(n, o) ELSE o
    <2>1. /\ node' = [node EXCEPT ![n] = g]
          /\ n_inhibited_starts' = n_inhibited_starts + IF CountsInhibited(o) THEN 1 ELSE 0
      BY <1>8
    <2>2. nmt' = [nmt EXCEPT ![n] = "START"] \/ nmt' = nmt
      BY <1>7, <1>8
    <2>3. g = IF master_state # "STARTUP" /\ ~o.inhibit THEN start_nodeguarding(n, o) ELSE o
      OBVIOUS
    <2>4. o = Initialized(node[n], outcome)
      OBVIOUS
    <2> HIDE DEF o, g
    <2> QED BY <1>5, <1>8, <2>1, <2>2, <2>3, <2>4
  <1> QED BY <1>3, <1>4, <1>6, <1>8

\* A load has ended.
LEMMA LoadDone ==
    ASSUME NodesInv, NEW n \in Nodes, Taking(Load(n)), on_load_driver_done(n),
           n_scheduled_bootups' \in Nat
    PROVE  NodesInv'
  <1>0. setup \in Setups /\ TypeOK /\ BootInv /\ StartInv /\ TimerInv /\ GuardInv
    BY DEF NodesInv
  <1>1. UNCHANGED <<master_state, nodes_seen, nodes_seen_late, n_syncs, mux, bootups, todo>>
    BY DEF on_load_driver_done
  <1>2. UNCHANGED <<jobs, worker, fault, setup>> /\ fault = "none" /\ todo = <<>> /\ master_state # "STOPPING"
    BY ResultTaken
  <1>3. /\ \A m : ~Marking(m)' /\ (Scheduled(m)' <=> Scheduled(m))
        /\ ~BootForm(todo') /\ ~StartForm(todo') /\ todo' # <<RunStep>> /\ todo # <<RunStep>>
    BY <1>1, <1>2, Kinds DEF Marking, Scheduled
  <1>4. TypeOK' /\ TodoInv'
    <2>1. TypeOK'
      BY <1>0, <1>1, <1>2, ResultTaken, LoadEnds, SameNode DEF TypeOK, LoadEnded
    <2> QED BY <1>1, <1>2, <2>1 DEF TodoInv
  <1>5. BootInv'
    <2>1. \A x : (Occurs(x)' => Occurs(x)) /\ (Once(x) => Once(x)')
      BY ResultTaken
    <2>2. ASSUME NEW m \in Nodes, master_state = "STARTUP"
          PROVE  /\ Fresh(m) /\ ~Occurs(Load(m)) => Fresh(m)'
                 /\ Occurs(Load(m))' /\ ~node[m].is_initialized /\ ~node[m].inhibit
                       => ~node'[m].is_initialized /\ ~node'[m].inhibit
      <3>1. CASE m = n
        <4>1. Occurs(Load(n)) /\ (Once(Load(n)) => ~Occurs(Load(n))')
          BY ResultTaken
        <4>2. Once(Load(n))
          BY <1>0, <2>2 DEF BootInv
        <4> QED BY <3>1, <4>1, <4>2
      <3>2. CASE m # n
        <4>1. node'[m] = node[m]
          BY <3>2, LoadEnds DEF LoadEnded
        <4> QED BY <4>1 DEF Fresh
      <3> QED BY <3>1, <3>2
    <2>3. master_state = "RUNNING" => mux
      BY <1>0 DEF BootInv
    <2> QED BY <1>1, <1>2, <1>3, <2>1, <2>2, <2>3, BootKeeps
  <1>6. LoadsInv'
    <2> SUFFICES ASSUME NEW m \in Nodes PROVE LoadInv(m)'
      BY DEF LoadsInv
    <2>1. NodeByMain(m)
      BY LoadEnds DEF LoadEnded, NodeByMain
    <2>2. Load(n) # Load(m) \/ (node'[m].driver_type = "NONE" \/ node'[m].is_initialized)
      <3>1. m = n \/ Load(n) # Load(m)
        BY DEF Load, Job
      <3> QED BY <3>1, LoadEnds DEF LoadEnded
    <2> QED BY <1>3, <2>1, <2>2, LoadsAside
  <1>7. StartInv'
    BY <1>0, <1>1, <1>3, LoadEnds DEF StartInv, LoadEnded
  <1>8. TimerInv'
    <2> SUFFICES ASSUME NEW m \in Nodes, node'[m].heartbeat_timer
                 PROVE  /\ m \in Guarded /\ node'[m].ntimeouts <= n_timeouts_max
                        /\ master_state # "STARTUP"
      BY <1>1, <1>2, SameNode DEF TimerInv
    <2>1. CASE m = n
      BY <2>1, LoadEnds DEF LoadEnded
    <2>2. CASE m # n
      <3>1. node'[m] = node[m]
        BY <2>2, LoadEnds DEF LoadEnded
      <3> QED BY <1>0, <1>3, <3>1 DEF TimerInv
    <2> QED BY <2>1, <2>2
  <1>9. GuardInv'
    <2> SUFFICES ASSUME Outcomes = {"ok"} PROVE GuardInv'
      BY <1>2, SameNode DEF GuardInv
    <2>1. ASSUME NEW m \in Nodes PROVE GuardedNode(m)'
      <3>1. CASE m = n
        BY <3>1, LoadEnds DEF LoadEnded
      <3>2. CASE m # n
        <4>1. node'[m] = node[m] /\ GuardedNode(m)
          BY <1>0, <3>2, LoadEnds DEF LoadEnded, GuardInv
        <4> QED BY <1>1, <1>2, <1>3, <4>1, SameNode DEF GuardedNode
      <3> QED BY <3>1, <3>2
    <2>2. n_inhibited_starts' = 0
      BY LoadEnds DEF LoadEnded
    <2>3. /\ Waited' => Waited
          /\ \A x : Occurs(x)' => Occurs(x)
      BY ResultTaken
    <2>4. FaultsAtStop'
      BY <1>2 DEF FaultsAtStop
    <2> QED BY <1>0, <1>1, <1>3, <2>1, <2>2, <2>3, <2>4 DEF GuardInv
  <1> QED BY <1>0, <1>2, <1>4, <1>5, <1>6, <1>7, <1>8, <1>9, ResultTaken DEF NodesInv

LEMMA DoneStep ==
    ASSUME NodesInv, Within(Done), n_scheduled_bootups' \in Nat
    PROVE  NodesInv'
  <1>1. PICK x : x = Head(done)
    OBVIOUS
  <1>2. Taking(x)
    BY <1>1 DEF Within, Done, Taking
  <1>3. x \in AnyJob
    BY <1>2, ResultTaken
  <1>4. /\ Probe.fn = "probe" /\ Wait.fn = "wait"
        /\ \A n : Load(n).fn = "load" /\ Load(n).node = n
    BY DEF Probe, Wait, Load, Job
  <1>5. \/ x.fn = "probe" /\ on_net_probe_done
        \/ x.fn = "load" /\ on_load_driver_done(x.node)
        \/ x.fn = "wait" /\ on_bootup_done
    BY <1>1 DEF Within, Done
  <1>6. \/ x = Probe /\ on_net_probe_done
        \/ x = Wait /\ on_bootup_done
        \/ \E n \in Nodes : x = Load(n) /\ on_load_driver_done(n)
    BY <1>3, <1>4, <1>5, SMT DEF AnyJob
  <1> QED BY <1>2, <1>6, ProbeDone, WaitDone, LoadDone

-----------------------------------------------------------------------------
(* The counters of start-up. *)

Weight(x) == IF x.fn = "load" THEN 1 ELSE 0

\* A set has a size, which tells whether it is empty and whether it loses a
\* member.
Counted(S) ==
    /\ Cardinality(S) \in Nat /\ (Cardinality(S) = 0 <=> S = {})
    /\ \A x : Cardinality(S \ {x}) = IF x \in S THEN Cardinality(S) - 1 ELSE Cardinality(S)

\* Workers, nodes and the loads of a queue can be counted; a load more or less
\* in the queue is one more or less.  (Counting shows that it is so.)
Countable ==
    /\ \A x : Cardinality({x}) = 1
    /\ \A S \in SUBSET Workers : Counted(S)
    /\ \A S \in SUBSET Nodes : Counted(S)
    /\ \A s \in Seq(AnyJob) :
         /\ Counted(Loads(s))
         /\ \A y \in AnyJob : Cardinality(Loads(Append(s, y))) = Cardinality(Loads(s)) + Weight(y)
         /\ s # <<>> => Cardinality(Loads(s)) = Cardinality(Loads(Tail(s))) + Weight(Head(s))

\* The loads in a queue.
LEMMA LoadsSize ==
    ASSUME Countable, NEW s \in Seq(AnyJob)
    PROVE  /\ Cardinality(Loads(s)) \in Nat
           /\ Cardinality(Loads(s)) = 0 => Loads(s) = {}
  BY DEF Countable, Counted

\* A queue that a job is appended to has a load more if the job is one.
LEMMA CountAppend ==
    ASSUME Countable, NEW s \in Seq(AnyJob), NEW y \in AnyJob
    PROVE  Cardinality(Loads(Append(s, y))) = Cardinality(Loads(s)) + Weight(y)
  BY DEF Countable

\* A queue that a job is taken from has a load less if the job is one.
LEMMA CountTail ==
    ASSUME Countable, NEW s \in Seq(AnyJob), s # <<>>
    PROVE  Cardinality(Loads(s)) = Cardinality(Loads(Tail(s))) + Weight(Head(s))
  BY DEF Countable

\* The workers that load.
LEMMA WorkersSize ==
    ASSUME Countable
    PROVE  /\ Cardinality(LoadingWorkers) \in Nat
           /\ Cardinality(LoadingWorkers) = 0 => LoadingWorkers = {}
  <1>1. LoadingWorkers \in SUBSET Workers
    BY DEF LoadingWorkers
  <1> QED BY <1>1 DEF Countable, Counted

\* A worker that has another job.
LEMMA CountWorker ==
    ASSUME Countable, NEW w \in Workers, \A v \in Workers : v # w => worker'[v].job = worker[v].job
    PROVE  /\ Cardinality(LoadingWorkers)' + Weight(worker[w].job)
                 = Cardinality(LoadingWorkers) + Weight(worker'[w].job)
           /\ Cardinality(LoadingWorkers) \in Nat /\ Cardinality(LoadingWorkers)' \in Nat
  <1> DEFINE R == LoadingWorkers \ {w}
  <1>1. Counted(LoadingWorkers) /\ Counted(LoadingWorkers')
    <2>1. LoadingWorkers \in SUBSET Workers /\ LoadingWorkers' \in SUBSET Workers
      BY DEF LoadingWorkers
    <2> QED BY <2>1 DEF Countable
  <1>2. R = LoadingWorkers' \ {w}
    BY DEF LoadingWorkers
  <1>3. /\ w \in LoadingWorkers <=> worker[w].job.fn = "load"
        /\ w \in LoadingWorkers' <=> worker'[w].job.fn = "load"
    BY DEF LoadingWorkers
  <1>4. Cardinality(R) = IF w \in LoadingWorkers THEN Cardinality(LoadingWorkers) - 1
                                                 ELSE Cardinality(LoadingWorkers)
    BY <1>1 DEF Counted
  <1>5. Cardinality(R) = IF w \in LoadingWorkers' THEN Cardinality(LoadingWorkers') - 1
                                                  ELSE Cardinality(LoadingWorkers')
    BY <1>1, <1>2 DEF Counted
  <1>6. Cardinality(LoadingWorkers) \in Nat /\ Cardinality(LoadingWorkers') \in Nat
    BY <1>1 DEF Counted
  <1> HIDE DEF R
  <1> QED BY <1>3, <1>4, <1>5, <1>6, SMT DEF Weight

\* Where no boot-up is counted, there is no load.
LEMMA NoneCounted ==
    ASSUME Countable, JobsInv, BootupsCounted, n_scheduled_bootups = 0
    PROVE  \A n \in Nodes : ~Occurs(Load(n))
  <1>1. /\ Cardinality(Loads(jobs)) \in Nat /\ (Cardinality(Loads(jobs)) = 0 => Loads(jobs) = {})
        /\ Cardinality(Loads(done)) \in Nat /\ (Cardinality(Loads(done)) = 0 => Loads(done) = {})
    BY LoadsSize DEF JobsInv
  <1>2. /\ Cardinality(Loads(jobs)) = 0 /\ Cardinality(Loads(done)) = 0
        /\ Cardinality(LoadingWorkers) = 0
    BY <1>1, WorkersSize, SMT DEF BootupsCounted
  <1>3. Loads(jobs) = {} /\ Loads(done) = {} /\ LoadingWorkers = {}
    BY <1>1, <1>2, WorkersSize
  <1>4. \A n : Load(n).fn = "load"
    BY DEF Load, Job
  <1> QED BY <1>3, <1>4 DEF Loads, LoadingWorkers, Occurs, Has, Busy

\* Neither queue nor any worker's job changes.
LEMMA CountKeeps ==
    ASSUME BootupsCounted, UNCHANGED <<jobs, done, n_scheduled_bootups>>,
           \A w \in Workers : worker'[w].job = worker[w].job
    PROVE  BootupsCounted'
  <1>1. LoadingWorkers' = LoadingWorkers
    BY DEF LoadingWorkers
  <1> QED BY <1>1 DEF BootupsCounted

HoldingCounted == master_state = "STARTUP" => n_inhibited_starts = Cardinality(Holding)

\* No node begins or ceases to hold up start-up.
LEMMA HoldingKeeps ==
    ASSUME HoldingCounted,
           master_state' = "STARTUP" =>
              /\ master_state = "STARTUP" /\ UNCHANGED n_inhibited_starts
              /\ \A n \in Nodes : /\ node'[n].inhibit = node[n].inhibit
                                  /\ node'[n].is_initialized = node[n].is_initialized
    PROVE  HoldingCounted'
  <1> SUFFICES ASSUME master_state' = "STARTUP" PROVE n_inhibited_starts' = Cardinality(Holding')
    BY DEF HoldingCounted
  <1>1. Holding' = Holding
    BY DEF Holding
  <1> QED BY <1>1 DEF HoldingCounted

LEMMA CountIs ==
    /\ CountInv <=> BootupsCounted /\ HoldingCounted
    /\ CountInv' <=> BootupsCounted' /\ HoldingCounted'
  BY DEF CountInv, HoldingCounted

\* A job goes from the queue to a worker.
LEMMA TakeCount ==
    ASSUME Countable, NodesInv, BootupsCounted, NEW w \in Workers, mloop__worker_fn(w)
    PROVE  BootupsCounted'
  <1>1. /\ worker[w].at = "idle" /\ jobs # <<>> /\ jobs' = Tail(jobs)
        /\ worker' = [worker EXCEPT ![w] = [at |-> Head(jobs).fn, job |-> Head(jobs)]]
        /\ UNCHANGED <<done, n_scheduled_bootups>>
    BY DEF mloop__worker_fn, Working, master
  <1>2. /\ jobs \in Seq(AnyJob) /\ done \in Seq(AnyJob) /\ worker[w].job = Wait
    BY <1>1 DEF NodesInv, JobsInv
  <1>3. /\ worker'[w].job = Head(jobs) /\ \A v \in Workers : v # w => worker'[v].job = worker[v].job
    BY <1>1 DEF NodesInv, TypeOK
  <1>4. Weight(worker[w].job) = 0 /\ Weight(Head(jobs)) \in Nat
    BY <1>2, SMT DEF Weight, Wait, Job
  <1>5. Cardinality(Loads(jobs)) = Cardinality(Loads(jobs')) + Weight(Head(jobs))
    BY <1>1, <1>2, CountTail
  <1>6. /\ Cardinality(LoadingWorkers)' + Weight(worker[w].job)
              = Cardinality(LoadingWorkers) + Weight(worker'[w].job)
        /\ Cardinality(LoadingWorkers) \in Nat /\ Cardinality(LoadingWorkers)' \in Nat
    BY <1>3, CountWorker
  <1>7. Cardinality(Loads(done)) \in Nat /\ Cardinality(Loads(jobs)) \in Nat /\ Cardinality(Loads(jobs')) \in Nat
    <2>1. jobs' \in Seq(AnyJob)
      BY <1>1, <1>2, SMT
    <2> QED BY <1>2, <2>1, LoadsSize
  <1> QED BY <1>1, <1>3, <1>4, <1>5, <1>6, <1>7, SMT DEF BootupsCounted

\* A result goes from a worker to the main loop.
LEMMA ForwardCount ==
    ASSUME Countable, NodesInv, BootupsCounted, NEW w \in Workers, mloop__forward_work(w)
    PROVE  BootupsCounted'
  <1>1. /\ done' = Append(done, worker[w].job) /\ worker' = [worker EXCEPT ![w] = Idle]
        /\ UNCHANGED <<jobs, n_scheduled_bootups>>
    BY DEF mloop__forward_work, Working, master
  <1>2. /\ jobs \in Seq(AnyJob) /\ done \in Seq(AnyJob) /\ worker[w].job \in AnyJob
    BY DEF NodesInv, JobsInv
  <1>3. /\ worker'[w].job = Wait /\ \A v \in Workers : v # w => worker'[v].job = worker[v].job
    BY <1>1 DEF NodesInv, TypeOK, Idle, Wait
  <1>4. Weight(worker'[w].job) = 0 /\ Weight(worker[w].job) \in Nat
    BY <1>3, SMT DEF Weight, Wait, Job
  <1>5. Cardinality(Loads(done')) = Cardinality(Loads(done)) + Weight(worker[w].job)
    BY <1>1, <1>2, CountAppend
  <1>6. /\ Cardinality(LoadingWorkers)' + Weight(worker[w].job)
              = Cardinality(LoadingWorkers) + Weight(worker'[w].job)
        /\ Cardinality(LoadingWorkers) \in Nat /\ Cardinality(LoadingWorkers)' \in Nat
    BY <1>3, CountWorker
  <1>7. Cardinality(Loads(done)) \in Nat /\ Cardinality(Loads(jobs)) \in Nat
    BY <1>2, LoadsSize
  <1> QED BY <1>1, <1>4, <1>5, <1>6, <1>7, SMT DEF BootupsCounted

\* A job is put in the queue, and counted if it is a load.
LEMMA AddCount ==
    ASSUME Countable, NodesInv, BootupsCounted, NEW y \in AnyJob, jobs' = Append(jobs, y),
           n_scheduled_bootups' = n_scheduled_bootups + Weight(y), UNCHANGED <<worker, done>>
    PROVE  BootupsCounted'
  <1>1. jobs \in Seq(AnyJob) /\ done \in Seq(AnyJob)
    BY DEF NodesInv, JobsInv
  <1>2. Cardinality(Loads(jobs')) = Cardinality(Loads(jobs)) + Weight(y)
    BY <1>1, CountAppend
  <1>3. LoadingWorkers' = LoadingWorkers
    BY DEF LoadingWorkers
  <1>5. Cardinality(LoadingWorkers) \in Nat
    BY WorkersSize
  <1>6. Cardinality(Loads(done)) \in Nat /\ Cardinality(Loads(jobs)) \in Nat /\ Weight(y) \in Nat
    BY <1>1, LoadsSize DEF Weight
  <1> QED BY <1>2, <1>3, <1>5, <1>6, SMT DEF BootupsCounted

\* The main loop takes a result, and counts the load if it is one.
LEMMA ResultCount ==
    ASSUME Countable, NodesInv, BootupsCounted, NEW x, Taking(x),
           n_scheduled_bootups' = n_scheduled_bootups - Weight(x)
    PROVE  BootupsCounted' /\ n_scheduled_bootups' \in Nat
  <1>1. done # <<>> /\ x = Head(done) /\ done' = Tail(done) /\ UNCHANGED <<jobs, worker>>
    BY DEF Taking
  <1>2. jobs \in Seq(AnyJob) /\ done \in Seq(AnyJob)
    BY DEF NodesInv, JobsInv
  <1>3. Cardinality(Loads(done)) = Cardinality(Loads(done')) + Weight(x)
    BY <1>1, <1>2, CountTail
  <1>4. LoadingWorkers' = LoadingWorkers
    BY <1>1 DEF LoadingWorkers
  <1>5. Cardinality(LoadingWorkers) \in Nat
    BY WorkersSize
  <1>6. /\ Cardinality(Loads(done)) \in Nat /\ Cardinality(Loads(jobs)) \in Nat /\ Weight(x) \in Nat
        /\ Cardinality(Loads(done')) \in Nat
    <2>1. done' \in Seq(AnyJob)
      BY <1>1, <1>2, SMT
    <2> QED BY <1>2, <2>1, LoadsSize DEF Weight
  <1> QED BY <1>1, <1>3, <1>4, <1>5, <1>6, SMT DEF BootupsCounted

\* One node begins to hold up start-up, or ceases to.
LEMMA HoldingChange ==
    ASSUME Countable, NEW n \in Nodes, \A m \in Nodes : m # n => node'[m] = node[m]
    PROVE  /\ n \notin Holding /\ n \in Holding' => Cardinality(Holding') = Cardinality(Holding) + 1
           /\ n \in Holding /\ n \notin Holding' => Cardinality(Holding') = Cardinality(Holding) - 1
           /\ (n \in Holding <=> n \in Holding') => Holding' = Holding
           /\ n \in Holding => Cardinality(Holding) > 0
           /\ Cardinality(Holding) \in Nat
  <1>1. Counted(Holding) /\ Counted(Holding')
    <2>1. Holding \in SUBSET Nodes /\ Holding' \in SUBSET Nodes
      BY DEF Holding
    <2> QED BY <2>1 DEF Countable
  <1>2. \A m : m # n => (m \in Holding' <=> m \in Holding)
    BY DEF Holding
  <1>3. n \notin Holding /\ n \in Holding' => Holding = Holding' \ {n}
    BY <1>2
  <1>4. n \in Holding /\ n \notin Holding' => Holding' = Holding \ {n}
    BY <1>2
  <1>5. (n \in Holding <=> n \in Holding') => Holding' = Holding
    BY <1>2, SMT
  <1>6. n \notin Holding /\ n \in Holding' => Cardinality(Holding') = Cardinality(Holding) + 1
    BY <1>1, <1>3, SMT DEF Counted
  <1>7. n \in Holding /\ n \notin Holding' => Cardinality(Holding') = Cardinality(Holding) - 1
    BY <1>1, <1>4 DEF Counted
  <1>8. Cardinality(Holding) \in Nat
    BY <1>1 DEF Counted
  <1>9. n \in Holding => Cardinality(Holding) # 0
    BY <1>1 DEF Counted
  <1> QED BY <1>5, <1>6, <1>7, <1>8, <1>9, SMT

\* A step of a worker keeps the counters exact.
LEMMA WorkerCount ==
    ASSUME Countable, NodesInv, CountInv, NEW w \in Workers, Within(Worker(w))
    PROVE  CountInv'
  <1>0. BootupsCounted /\ HoldingCounted /\ Worker(w)
    BY CountIs DEF Within
  <1>1. UNCHANGED <<master_state, n_scheduled_bootups, n_inhibited_starts>>
    BY <1>0 DEF Worker, mloop__worker_fn, run_net_probe, LoadIdentify, LoadHeartbeat, LoadDriver,
                LoadEnd, wait_for_bootup, mloop__forward_work, master
  <1>2. \A n \in Nodes : /\ node'[n].inhibit = node[n].inhibit
                         /\ node'[n].is_initialized = node[n].is_initialized
    <2>0. node \in [Nodes -> Node]
      BY DEF NodesInv, TypeOK
    <2>1. UNCHANGED node \/ LoadHeartbeat(w) \/ LoadDriver(w) \/ LoadEnd(w)
      BY <1>0 DEF Worker, mloop__worker_fn, run_net_probe, LoadIdentify, wait_for_bootup,
                  mloop__forward_work
    <2>2. CASE LoadHeartbeat(w)
      BY <2>0, <2>2, SMT DEF LoadHeartbeat, Node
    <2>3. CASE LoadDriver(w)
      BY <2>0, <2>3, SMT DEF LoadDriver, Node
    <2>4. CASE LoadEnd(w)
      BY <2>0, <2>4, SMT DEF LoadEnd, Node
    <2> QED BY <2>1, <2>2, <2>3, <2>4
  <1>3. HoldingCounted'
    BY <1>0, <1>1, <1>2, HoldingKeeps
  <1>4. BootupsCounted'
    <2>1. CASE mloop__worker_fn(w)
      BY <1>0, <2>1, TakeCount
    <2>2. CASE mloop__forward_work(w)
      BY <1>0, <2>2, ForwardCount
    <2>3. CASE ~mloop__worker_fn(w) /\ ~mloop__forward_work(w)
      <3>1. UNCHANGED <<jobs, done>> /\ \E at : Goto(w, at)
        BY <1>0, <2>3 DEF Worker, run_net_probe, LoadIdentify, LoadHeartbeat, LoadDriver, LoadEnd,
                          wait_for_bootup
      <3>2. \A v \in Workers : worker'[v].job = worker[v].job
        BY <3>1, SMT DEF Goto, NodesInv, TypeOK
      <3> QED BY <1>0, <1>1, <3>1, <3>2, CountKeeps
    <2> QED BY <2>1, <2>2, <2>3
  <1> QED BY <1>3, <1>4, CountIs

\* A step of schedule_load_driver keeps the counters exact: in start-up, a
\* node that is loaded has no driver.
LEMMA ScheduleCount ==
    ASSUME FirstIsIn, Countable, NodesInv, CountInv, Within(Schedule)
    PROVE  CountInv'
  <1>0. BootupsCounted /\ HoldingCounted
    BY CountIs
  <1>1. PICK n : n = NodeToDo
    OBVIOUS
  <1>2. /\ UNCHANGED <<master_state, n_inhibited_starts, worker, done>>
        /\ \/ UNCHANGED <<node, jobs, n_scheduled_bootups>>
           \/ LoadStarts(n)
    BY <1>1 DEF Within, Schedule, schedule_load_driver, Remains, LoadStarts, ToLoad, UnloadFault
  <1>3. CASE UNCHANGED <<node, jobs, n_scheduled_bootups>>
    BY <1>0, <1>2, <1>3, CountKeeps, HoldingKeeps, CountIs
  <1>4. CASE LoadStarts(n)
    <2>1. n \in Nodes /\ Scheduled(n)
      BY <1>4, StartTodo
    <2>2. /\ jobs' = Append(jobs, Load(n)) /\ n_scheduled_bootups' = n_scheduled_bootups + 1
          /\ node' = [node EXCEPT ![n] = ToLoad(n)]
      BY <1>4 DEF LoadStarts, StartLoad, Load
    <2>3. Load(n) \in AnyJob /\ Weight(Load(n)) = 1
      BY <2>1 DEF AnyJob, Weight, Load, Job
    <2>4. BootupsCounted'
      BY <1>0, <1>2, <2>2, <2>3, AddCount
    <2>5. master_state = "STARTUP" => UNCHANGED node
      <3>1. master_state = "STARTUP" => node[n].driver_type = "NONE"
        BY <2>1 DEF NodesInv, BootInv, Fresh
      <3> QED BY <2>1, <2>2, <3>1 DEF ToLoad, NodesInv, TypeOK
    <2> QED BY <1>0, <1>2, <2>4, <2>5, HoldingKeeps, CountIs
  <1> QED BY <1>2, <1>3, <1>4

\* The other steps of handlers keep the counters exact.
LEMMA HandlerCount ==
    ASSUME FirstIsIn, Countable, NodesInv, CountInv, Within(Handler)
    PROVE  CountInv'
  <1>0. BootupsCounted /\ HoldingCounted /\ Handler /\ node \in [Nodes -> Node] /\ TodoInv
    BY CountIs DEF Within, NodesInv, TypeOK
  <1>1. CASE Schedule
    BY <1>1, ScheduleCount DEF Within
  <1>2. CASE schedule_bootup_done
    <2>1. /\ jobs' = Append(jobs, Wait) /\ UNCHANGED <<node, worker, done>>
          /\ UNCHANGED <<master_state, n_scheduled_bootups, n_inhibited_starts>>
      BY <1>2 DEF schedule_bootup_done, Wait, master
    <2>2. Wait \in AnyJob /\ Weight(Wait) = 0 /\ n_scheduled_bootups \in Nat
      BY DEF AnyJob, Weight, Wait, Job, NodesInv, TypeOK
    <2>3. BootupsCounted'
      BY <1>0, <2>1, <2>2, AddCount, SMT
    <2> QED BY <1>0, <2>1, <2>3, HoldingKeeps, CountIs
  <1>3. CASE ~Schedule /\ ~schedule_bootup_done
    <2>1. SetLoading \/ SendStarts \/ StartGuarding \/ Run \/ Unload
      BY <1>0, <1>3 DEF Handler
    <2>2. UNCHANGED <<threads, n_scheduled_bootups, n_inhibited_starts>>
      BY <2>1 DEF SetLoading, SendStarts, StartGuarding, Run, Unload, master
    <2>3. BootupsCounted'
      BY <1>0, <2>2, CountKeeps DEF threads
    <2>4. ASSUME master_state' = "STARTUP"
          PROVE  /\ master_state = "STARTUP"
                 /\ \A n \in Nodes : /\ node'[n].inhibit = node[n].inhibit
                                     /\ node'[n].is_initialized = node[n].is_initialized
      <3>1. CASE SetLoading
        BY <1>0, <2>4, <3>1, SMT DEF SetLoading, master, Node
      <3>2. CASE SendStarts
        BY <2>4, <3>2 DEF SendStarts, master
      <3>3. CASE StartGuarding
        <4>1. /\ UNCHANGED master_state
              /\ \A n \in Nodes : node'[n] = node[n] \/ node'[n] = start_nodeguarding(n, node[n])
          BY <3>3 DEF StartGuarding, master
        <4>2. ASSUME NEW n \in Nodes, NEW o \in Node
              PROVE  /\ start_nodeguarding(n, o).inhibit = o.inhibit
                     /\ start_nodeguarding(n, o).is_initialized = o.is_initialized
          BY DEF start_nodeguarding, Node
        <4> QED BY <1>0, <2>4, <4>1, <4>2, SMT
      <3>4. CASE Run
        BY <2>4, <3>4 DEF Run
      <3>5. CASE Unload
        <4>1. todo # <<>> /\ Head(todo).do = "unload" /\ UNCHANGED master_state
          BY <3>5 DEF Unload, Remains, master
        <4>2. master_state = "STOPPING"
          BY <1>0, <4>1, Forms
        <4> QED BY <2>4, <4>1, <4>2
      <3> QED BY <2>1, <3>1, <3>2, <3>3, <3>4, <3>5
    <2> QED BY <1>0, <2>2, <2>3, <2>4, HoldingKeeps, CountIs
  <1> QED BY <1>1, <1>2, <1>3

\* A node of which a load ends holds up start-up from now on, if its driver
\* asked for it.
LEMMA LoadHolds ==
    ASSUME Countable, NodesInv, HoldingCounted, NEW n \in Nodes, Taking(Load(n)), on_load_driver_done(n)
    PROVE  HoldingCounted'
  <1> SUFFICES ASSUME master_state = "STARTUP" PROVE n_inhibited_starts' = Cardinality(Holding')
    BY DEF HoldingCounted, on_load_driver_done
  <1>0. node \in [Nodes -> Node] /\ node[n] \in Node
    BY DEF NodesInv, TypeOK
  <1>1. ~node[n].is_initialized /\ ~node[n].inhibit /\ n \notin Holding
    BY ResultTaken DEF NodesInv, BootInv, Holding
  <1>2. n_inhibited_starts = Cardinality(Holding)
    BY DEF HoldingCounted
  <1>3. CASE UNCHANGED <<node, n_inhibited_starts>>
    <2>1. Holding' = Holding
      BY <1>3 DEF Holding
    <2> QED BY <1>2, <1>3, <2>1
  <1>4. CASE /\ node' = [node EXCEPT ![n].driver_type = "NONE", ![n].inhibit = FALSE]
             /\ UNCHANGED n_inhibited_starts
    <2>1. ~node'[n].inhibit /\ \A m \in Nodes : m # n => node'[m] = node[m]
      BY <1>0, <1>4 DEF Node
    <2>2. n \notin Holding'
      BY <2>1 DEF Holding
    <2>3. Holding' = Holding
      BY <1>1, <2>1, <2>2, HoldingChange
    <2> QED BY <1>2, <1>4, <2>3
  <1>5. ASSUME NEW outcome, node' = [node EXCEPT ![n] = Initialized(node[n], outcome)],
               n_inhibited_starts' = n_inhibited_starts
                   + IF CountsInhibited(Initialized(node[n], outcome)) THEN 1 ELSE 0
        PROVE  n_inhibited_starts' = Cardinality(Holding')
    <2>1. /\ \A m \in Nodes : m # n => node'[m] = node[m]
          /\ node'[n] = Initialized(node[n], outcome) /\ node'[n].is_initialized
      BY <1>0, <1>5 DEF Initialized, Node
    <2>2. n \in Holding' <=> node'[n].inhibit
      BY <2>1 DEF Holding
    <2>3. CountsInhibited(Initialized(node[n], outcome)) <=> node'[n].inhibit
      BY <2>1 DEF CountsInhibited
    <2>4. /\ n \in Holding' => Cardinality(Holding') = Cardinality(Holding) + 1
          /\ n \notin Holding' => Holding' = Holding
          /\ Cardinality(Holding) \in Nat
      BY <1>1, <2>1, HoldingChange
    <2> QED BY <1>2, <1>5, <2>2, <2>3, <2>4, SMT
  <1>6. \/ UNCHANGED <<node, n_inhibited_starts>>
        \/ /\ node' = [node EXCEPT ![n].driver_type = "NONE", ![n].inhibit = FALSE]
           /\ UNCHANGED n_inhibited_starts
        \/ \E outcome :
              /\ node' = [node EXCEPT ![n] = Initialized(node[n], outcome)]
              /\ n_inhibited_starts' = n_inhibited_starts
                     + IF CountsInhibited(Initialized(node[n], outcome)) THEN 1 ELSE 0
    BY DEF on_load_driver_done
  <1> QED BY <1>3, <1>4, <1>5, <1>6

\* What the main loop does with a result keeps the counters exact.
LEMMA DoneCount ==
    ASSUME Countable, NodesInv, CountInv, Within(Done)
    PROVE  CountInv' /\ n_scheduled_bootups' \in Nat
  <1>0. BootupsCounted /\ HoldingCounted /\ n_scheduled_bootups \in Nat
    BY CountIs DEF NodesInv, TypeOK
  <1>1. PICK x : x = Head(done)
    OBVIOUS
  <1>2. Taking(x) /\ \/ x.fn = "probe" /\ on_net_probe_done
                     \/ x.fn = "load" /\ on_load_driver_done(x.node)
                     \/ x.fn = "wait" /\ on_bootup_done
    BY <1>1 DEF Within, Done, Taking
  <1>3. x \in AnyJob
    BY <1>2, ResultTaken
  <1>4. CASE x.fn = "load"
    <2>1. PICK n \in Nodes : x = Load(n)
      BY <1>3, <1>4, SMT DEF AnyJob, Probe, Wait, Job
    <2>2. on_load_driver_done(n) /\ n_scheduled_bootups' = n_scheduled_bootups - 1
      BY <1>2, <1>4, <2>1 DEF Load, Job, on_load_driver_done
    <2>3. Weight(x) = 1
      BY <1>4 DEF Weight
    <2>4. BootupsCounted' /\ n_scheduled_bootups' \in Nat
      BY <1>0, <1>2, <2>2, <2>3, ResultCount
    <2>5. HoldingCounted'
      BY <1>0, <1>2, <2>1, <2>2, LoadHolds
    <2> QED BY <2>4, <2>5, CountIs
  <1>5. CASE x.fn # "load"
    <2>1. UNCHANGED <<node, master_state, n_scheduled_bootups, n_inhibited_starts>>
      BY <1>2, <1>5 DEF on_net_probe_done, on_bootup_done, master
    <2>2. Weight(x) = 0
      BY <1>5 DEF Weight
    <2>3. BootupsCounted' /\ n_scheduled_bootups' \in Nat
      BY <1>0, <1>2, <2>1, <2>2, ResultCount, SMT
    <2>4. HoldingCounted'
      BY <1>0, <2>1, HoldingKeeps
    <2> QED BY <2>3, <2>4, CountIs
  <1> QED BY <1>4, <1>5

\* A driver starts its node: it is one that held up start-up, and was counted.
LEMMA StartCount ==
    ASSUME Countable, NodesInv, CountInv, NEW n \in Nodes, Within(co__start(n))
    PROVE  CountInv' /\ (master_state = "STARTUP" => n_inhibited_starts' \in Nat)
  <1>0. BootupsCounted /\ HoldingCounted /\ node \in [Nodes -> Node]
    BY CountIs DEF NodesInv, TypeOK
  <1>1. /\ node[n].is_initialized /\ node[n].inhibit
        /\ UNCHANGED <<master_state, n_scheduled_bootups, threads>>
    BY HeldBack
  <1>2. BootupsCounted'
    BY <1>0, <1>1, CountKeeps DEF threads
  <1>3. CASE master_state = "STARTUP"
    <2>1. /\ node' = [node EXCEPT ![n] = [node[n] EXCEPT !.inhibit = FALSE]]
          /\ n_inhibited_starts' = n_inhibited_starts - 1
      BY <1>3 DEF Within, co__start
    <2>2. ~node'[n].inhibit /\ \A m \in Nodes : m # n => node'[m] = node[m]
      BY <1>0, <2>1 DEF Node
    <2>3. n \in Holding /\ n \notin Holding'
      BY <1>1, <2>2 DEF Holding
    <2>4. /\ Cardinality(Holding') = Cardinality(Holding) - 1
          /\ Cardinality(Holding) > 0 /\ Cardinality(Holding) \in Nat
      BY <2>2, <2>3, HoldingChange
    <2>5. n_inhibited_starts = Cardinality(Holding)
      BY <1>0, <1>3 DEF HoldingCounted
    <2>6. HoldingCounted' /\ n_inhibited_starts' \in Nat
      BY <2>1, <2>4, <2>5, SMT DEF HoldingCounted
    <2> QED BY <1>2, <2>6, CountIs
  <1>4. CASE master_state # "STARTUP"
    <2>1. HoldingCounted'
      BY <1>1, <1>4 DEF HoldingCounted
    <2> QED BY <1>2, <1>4, <2>1, CountIs
  <1> QED BY <1>3, <1>4

\* The other events, and the end, leave the counters exact.
LEMMA EventCount ==
    ASSUME NodesInv, CountInv, NEW n \in Nodes,
           Within(handle_bootup(n)) \/ Within(handle_heartbeat(n)) \/ Within(on_heartbeat_timeout(n))
             \/ Within(on_stop_signal)
    PROVE  CountInv'
  <1>0. BootupsCounted /\ HoldingCounted
    BY CountIs
  <1>1. UNCHANGED <<threads, n_scheduled_bootups, n_inhibited_starts>>
    BY DEF Within, handle_bootup, handle_heartbeat, on_heartbeat_timeout, on_stop_signal, master
  <1>2. BootupsCounted'
    BY <1>0, <1>1, CountKeeps DEF threads
  <1>3. ASSUME master_state' = "STARTUP" PROVE master_state = "STARTUP" /\ UNCHANGED node
    <2>1. CASE Within(handle_bootup(n)) \/ Within(handle_heartbeat(n))
      BY <1>3, <2>1 DEF Within, handle_bootup, handle_heartbeat, master
    <2>2. CASE Within(on_heartbeat_timeout(n))
      <3>1. AtLoop /\ node[n].heartbeat_timer /\ UNCHANGED master_state
        BY <2>2 DEF Within, on_heartbeat_timeout, master
      <3>2. master_state # "STARTUP"
        BY <3>1 DEF AtLoop, NodesInv, TimerInv, RunStep
      <3> QED BY <1>3, <3>1, <3>2
    <2>3. CASE Within(on_stop_signal)
      BY <1>3, <2>3 DEF Within, on_stop_signal
    <2> QED BY <2>1, <2>2, <2>3
  <1>4. HoldingCounted'
    BY <1>0, <1>1, <1>3, HoldingKeeps
  <1> QED BY <1>2, <1>4, CountIs

-----------------------------------------------------------------------------
(* The invariant. *)

LEMMA InitType ==
    ASSUME Init
    PROVE  setup \in Setups /\ TypeOK /\ JobsInv /\ TodoInv
  <1>1. setup \in Setups /\ setup.MaxBootups \in Nat /\ n_timeouts_max \in Nat
    BY MasterAssumption DEF Init, Setup, n_timeouts_max
  <1>2. node \in [Nodes -> Node]
    BY <1>1, SMT DEF Init, Node
  <1>3. jobs \in Seq(JobRecord) /\ done \in Seq(JobRecord)
    BY SMT DEF Init, JobRecord, Job
  <1>4. worker \in [Workers -> WorkerRecord]
    BY DEF Init, Idle, JobRecord, Job, WorkerRecord
  <1>5. TypeOK
    <2>1. nmt \in [Nodes -> NmtCommand]
      BY DEF Init, NmtCommand
    <2>2. /\ master_state = "STARTUP" /\ n_scheduled_bootups = 0 /\ n_inhibited_starts = 0
          /\ nodes_seen = {} /\ nodes_seen_late = {} /\ n_syncs = 0 /\ mux = FALSE /\ bootups = 0
          /\ fault = "none"
      BY DEF Init
    <2>3. bootups \in 0..setup.MaxBootups
      BY <1>1, <2>2, SMT
    <2> QED BY <1>2, <1>3, <1>4, <2>1, <2>2, <2>3 DEF TypeOK
  <1>6. JobsInv
    <2>1. Job("probe", NoNode) \in AnyJob /\ Wait \in AnyJob
      BY DEF AnyJob, Probe
    <2>2. jobs \in Seq(AnyJob) /\ done \in Seq(AnyJob)
      BY <2>1, SMT DEF Init
    <2>3. \A w \in Workers : worker[w].at = "idle" /\ worker[w].job = Wait
      BY DEF Init, Idle, Wait
    <2> QED BY <2>1, <2>2, <2>3 DEF JobsInv, BeforeEnd
  <1> QED BY <1>1, <1>5, <1>6 DEF TodoInv, Init

LEMMA InitNodes ==
    ASSUME Init
    PROVE  NodesInv
  <1>1. setup \in Setups /\ TypeOK /\ JobsInv /\ TodoInv
    BY InitType
  <1>2. /\ \A x : Has(jobs, x) <=> x = Probe
        /\ \A x : ~Has(done, x)
    BY SMT DEF Init, Has, Probe
  <1>3. \A x : Busy(x) = {} /\ Early(x) = {}
    BY DEF Init, Idle, Busy, Early, BeforeEnd
  <1>4. \A x : (Occurs(x) <=> x = Probe) /\ Single(jobs, x)
    <2>1. \A x : Single(jobs, x)
      BY SMT DEF Init, Single
    <2> QED BY <1>2, <1>3, <2>1 DEF Occurs
  <1>5. \A x : Once(x)
    <2>1. \A x : Single(done, x)
      BY SMT DEF Init, Single
    <2> QED BY <1>2, <1>3, <1>4, <2>1 DEF Once
  <1>6. Wait # Probe /\ \A n : Load(n) # Probe
    BY DEF Wait, Probe, Load, Job
  <1>7. todo = <<>> /\ \A n : ~Scheduled(n) /\ ~Marking(n)
    BY SMT DEF Init, Scheduled, ScheduledIn, Marking
  <1>8. ~BootForm(<<>>) /\ ~StartForm(<<>>) /\ <<>> # <<RunStep>>
    BY DEF BootForm, StartForm, start_all_nodes
  <1>9. \A n \in Nodes : /\ Fresh(n) /\ ~node[n].is_loading /\ ~node[n].heartbeat_timer
                         /\ ~node[n].ping_timer
    BY DEF Init, Fresh
  <1>10. /\ master_state = "STARTUP" /\ ~mux /\ n_syncs = 0 /\ n_inhibited_starts = 0
         /\ fault = "none"
    BY DEF Init
  <1>11. BootInv
    BY <1>4, <1>5, <1>6, <1>7, <1>8, <1>9, <1>10, SMT DEF BootInv
  <1>12. LoadsInv
    BY <1>2, <1>3, <1>4, <1>6, <1>7, <1>9 DEF LoadsInv, LoadInv, Outstanding, Fresh
  <1>13. StartInv /\ TimerInv
    BY <1>7, <1>8, <1>9, <1>10, SMT DEF StartInv, TimerInv
  <1>14. GuardInv
    <2>1. \A n \in Nodes : GuardedNode(n)
      BY <1>7, <1>9, <1>10 DEF GuardedNode, Fresh
    <2>2. ~Waited
      BY <1>2, <1>3 DEF Waited
    <2> QED BY <1>4, <1>6, <1>7, <1>8, <1>10, <2>1, <2>2 DEF GuardInv, FaultsAtStop
  <1> QED BY <1>1, <1>11, <1>12, <1>13, <1>14 DEF NodesInv

LEMMA InitCount ==
    ASSUME Countable, Init
    PROVE  CountInv
  <1>1. Loads(jobs) = {} /\ Loads(done) = {} /\ LoadingWorkers = {} /\ Holding = {}
    BY SMT DEF Init, Loads, LoadingWorkers, Holding, Idle, Job
  <1>2. Cardinality({}) = 0
    BY DEF Countable, Counted
  <1>3. n_scheduled_bootups = 0 /\ n_inhibited_starts = 0
    BY DEF Init
  <1> QED BY <1>1, <1>2, <1>3, SMT DEF CountInv, BootupsCounted

\* A step of a worker.
LEMMA WorkerStep ==
    ASSUME Countable, Inv, NEW w \in Workers, Within(Worker(w))
    PROVE  Inv'
  <1>0. NodesInv /\ CountInv
    BY DEF Inv
  <1>1. CountInv'
    BY <1>0, WorkerCount
  <1>2. n_scheduled_bootups = 0 => \A n \in Nodes : ~Occurs(Load(n))
    BY <1>0, NoneCounted, CountIs DEF NodesInv
  <1>3. \/ Within(mloop__worker_fn(w)) \/ Within(run_net_probe(w)) \/ Within(LoadIdentify(w))
        \/ Within(LoadHeartbeat(w)) \/ Within(LoadDriver(w)) \/ Within(LoadEnd(w))
        \/ Within(wait_for_bootup(w)) \/ Within(mloop__forward_work(w))
    BY DEF Within, Worker
  <1>4. NodesInv'
    BY <1>0, <1>2, <1>3, TakeStep, ProbeStep, IdentifyStep, HeartbeatStep, DriverStep, EndStep,
       WaitStepInv, ForwardStep
  <1> QED BY <1>1, <1>4 DEF Inv

\* A step of a handler in the main thread.
LEMMA HandlerStep ==
    ASSUME FirstIsIn, Countable, Inv, Within(Handler)
    PROVE  Inv'
  <1>0. NodesInv /\ CountInv
    BY DEF Inv
  <1>1. CountInv'
    BY <1>0, HandlerCount
  <1>2. \/ Within(Schedule) \/ Within(SetLoading) \/ Within(schedule_bootup_done)
        \/ Within(SendStarts) \/ Within(StartGuarding) \/ Within(Run) \/ Within(Unload)
    BY DEF Within, Handler
  <1>3. NodesInv'
    BY <1>0, <1>2, ScheduleInv, MarkStep, WaitAdded, SendStartsStep, StartGuardingStep, RunStepInv,
       UnloadStep
  <1> QED BY <1>1, <1>3 DEF Inv

\* What starts a handler.
LEMMA EventStep ==
    ASSUME Countable, Inv, NEW n \in Nodes, Within(Event(n))
    PROVE  Inv'
  <1>0. NodesInv /\ CountInv
    BY DEF Inv
  <1>1. \/ Within(co__start(n)) \/ Within(handle_bootup(n)) \/ Within(handle_heartbeat(n))
        \/ Within(on_heartbeat_timeout(n))
    BY DEF Within, Event
  <1>2. CASE Within(co__start(n))
    <2>1. CountInv' /\ (master_state = "STARTUP" => n_inhibited_starts' \in Nat)
      BY <1>0, <1>2, StartCount
    <2>2. NodesInv'
      BY <1>0, <1>2, <2>1, EarlyStart, LateStart
    <2> QED BY <2>1, <2>2 DEF Inv
  <1>3. CASE ~Within(co__start(n))
    <2>1. CountInv'
      BY <1>0, <1>1, <1>3, EventCount
    <2>2. NodesInv'
      BY <1>0, <1>1, <1>3, BootupStep, HeartbeatSeen, TimeoutStep
    <2> QED BY <2>1, <2>2 DEF Inv
  <1> QED BY <1>2, <1>3

\* The main loop ends, or takes a result.
LEMMA LoopStep ==
    ASSUME Countable, Inv, Within(on_stop_signal) \/ Within(Done)
    PROVE  Inv'
  <1>0. NodesInv /\ CountInv
    BY DEF Inv
  <1>1. CASE Within(Done)
    <2>1. CountInv' /\ n_scheduled_bootups' \in Nat
      BY <1>0, <1>1, DoneCount
    <2> QED BY <1>0, <1>1, <2>1, DoneStep DEF Inv
  <1>2. CASE Within(on_stop_signal)
    <2>1. NodesInv'
      BY <1>0, <1>2, StopStep
    <2>2. 1 \in Nodes
      BY MasterAssumption, SMT DEF Nodes
    <2>3. CountInv'
      BY <1>0, <1>2, <2>2, EventCount
    <2> QED BY <2>1, <2>3 DEF Inv
  <1> QED BY <1>1, <1>2

\* Nothing happens.
LEMMA Stutter ==
    ASSUME Inv, UNCHANGED vars
    PROVE  Inv'
  <1>0. /\ UNCHANGED <<node, master, threads, todo, setup>>
        /\ UNCHANGED <<nmt, fault>>
    BY DEF vars
  <1>1. NodesInv /\ BootupsCounted /\ HoldingCounted
    BY CountIs DEF Inv
  <1>2. NodesInv'
    <2>1. /\ nmt' \in [Nodes -> NmtCommand]
          /\ fault' \in {"none", "timer", "abort", "heartbeat"}
      BY <1>0, <1>1 DEF NodesInv, TypeOK
    <2>2. Outcomes = {"ok"} => FaultsAtStop'
      <3>1. Outcomes = {"ok"} => FaultsAtStop
        BY <1>1 DEF NodesInv, GuardInv
      <3>2. UNCHANGED <<fault, master_state, n_syncs, node, todo>>
        BY <1>0 DEF master
      <3> QED BY <3>1, <3>2 DEF FaultsAtStop, NodeToDo
    <2> QED BY <1>0, <1>1, <2>1, <2>2, FaultStep
  <1>3. CountInv'
    <2>1. UNCHANGED <<node, master_state, n_scheduled_bootups, n_inhibited_starts, jobs, worker, done>>
      BY <1>0 DEF master, threads
    <2>2. BootupsCounted'
      BY <1>1, <2>1, CountKeeps
    <2>3. HoldingCounted'
      BY <1>1, <2>1, HoldingKeeps
    <2> QED BY <2>2, <2>3, CountIs
  <1> QED BY <1>2, <1>3 DEF Inv

-----------------------------------------------------------------------------
(* What the invariant says. *)

\* The places of the queue that hold the load of a node, and the workers that
\* have it before its end.
LEMMA Places ==
    ASSUME JobsInv, NEW n \in Nodes
    PROVE  /\ Queued(n) = {i \in DOMAIN jobs : jobs[i] = Load(n)}
           /\ Finished(n) = {i \in DOMAIN done : done[i] = Load(n)}
           /\ \A where : "idle" \notin where =>
                 Loading(n, where) = {w \in Busy(Load(n)) : worker[w].at \in where}
  <1>1. \A x \in AnyJob : IsLoad(x, n) <=> x = Load(n)
    BY SMT DEF AnyJob, IsLoad, Probe, Wait, Load, Job
  <1>2. /\ \A i \in DOMAIN jobs : jobs[i] \in AnyJob
        /\ \A i \in DOMAIN done : done[i] \in AnyJob
        /\ \A w \in Workers : worker[w].job \in AnyJob
    BY SMT DEF JobsInv
  <1>3. Queued(n) = {i \in DOMAIN jobs : jobs[i] = Load(n)}
    BY <1>1, <1>2 DEF Queued
  <1>4. Finished(n) = {i \in DOMAIN done : done[i] = Load(n)}
    BY <1>1, <1>2 DEF Finished
  <1>5. ASSUME NEW where, "idle" \notin where
        PROVE  Loading(n, where) = {w \in Busy(Load(n)) : worker[w].at \in where}
    BY <1>1, <1>2, <1>5 DEF Loading, Busy
  <1> QED BY <1>3, <1>4, <1>5

\* A driver that is not initialised, and a mark, have their load.
LEMMA InvPending ==
    ASSUME Inv
    PROVE  UninitializedIsPending /\ LoadingIsOutstanding
  <1>1. ASSUME NEW n \in Nodes
        PROVE  /\ node[n].driver_type # "NONE" /\ ~node[n].is_initialized =>
                     Loading(n, {"end", "forward"}) # {} \/ Finished(n) # {}
               /\ ~setup.QuickLoads /\ node[n].is_loading =>
                     Queued(n) # {} \/ Loading(n, BeforeEnd) # {}
    <2>1. JobsInv /\ LoadInv(n)
      BY DEF Inv, NodesInv, LoadsInv
    <2>2. /\ Queued(n) = {i \in DOMAIN jobs : jobs[i] = Load(n)}
          /\ Finished(n) = {i \in DOMAIN done : done[i] = Load(n)}
      BY <2>1, Places
    <2>3. Loading(n, {"end", "forward"}) = {w \in Busy(Load(n)) : worker[w].at \in {"end", "forward"}}
      BY <2>1, Places
    <2>4. Loading(n, BeforeEnd) = Early(Load(n))
      <3>1. "idle" \notin BeforeEnd
        BY DEF BeforeEnd
      <3>2. Loading(n, BeforeEnd) = {w \in Busy(Load(n)) : worker[w].at \in BeforeEnd}
        BY <2>1, <3>1, Places
      <3> QED BY <3>1, <3>2 DEF Busy, Early
    <2>5. node[n].driver_type # "NONE" /\ ~node[n].is_initialized =>
             \/ \E w \in Busy(Load(n)) : worker[w].at \in {"end", "forward"}
             \/ Has(done, Load(n))
      BY <2>1 DEF LoadInv
    <2>6. ~setup.QuickLoads /\ node[n].is_loading => Outstanding(n)
      BY <2>1 DEF LoadInv
    <2>7. Has(done, Load(n)) => Finished(n) # {}
      BY <2>2 DEF Has
    <2>8. Outstanding(n) => Queued(n) # {} \/ Loading(n, BeforeEnd) # {}
      BY <2>2, <2>4 DEF Outstanding, Has
    <2> QED BY <2>3, <2>5, <2>6, <2>7, <2>8
  <1> QED BY <1>1 DEF UninitializedIsPending, LoadingIsOutstanding

\* A set of which no two members differ has at most one.
LEMMA AtMostOne ==
    ASSUME Countable, NEW S, \A v, w \in S : v = w
    PROVE  Cardinality(S) \in Nat /\ Cardinality(S) <= 1 /\ (S = {} => Cardinality(S) = 0)
  <1>0. Cardinality({}) = 0
    BY DEF Countable, Counted
  <1>1. CASE S = {}
    BY <1>1, <1>0, SMT
  <1>2. CASE S # {}
    <2>1. PICK x : x \in S
      BY <1>2
    <2>2. S = {x}
      BY <2>1
    <2>3. Cardinality({x}) = 1
      BY DEF Countable
    <2> QED BY <1>2, <2>2, <2>3, SMT
  <1> QED BY <1>1, <1>2

\* A node has one load at a time.
LEMMA InvOneLoad ==
    ASSUME Countable, Inv
    PROVE  OneLoad
  <1> SUFFICES ASSUME NEW n \in Nodes
               PROVE  Cardinality(Queued(n)) + Cardinality(Loading(n, BeforeEnd)) <= 1
    BY DEF OneLoad
  <1>1. JobsInv /\ LoadInv(n)
    BY DEF Inv, NodesInv, LoadsInv
  <1>2. /\ Queued(n) = {i \in DOMAIN jobs : jobs[i] = Load(n)}
        /\ Loading(n, BeforeEnd) = Early(Load(n))
    <2>1. "idle" \notin BeforeEnd
      BY DEF BeforeEnd
    <2>2. Loading(n, BeforeEnd) = {w \in Busy(Load(n)) : worker[w].at \in BeforeEnd}
      BY <1>1, <2>1, Places
    <2> QED BY <1>1, <2>1, <2>2, Places DEF Busy, Early
  <1>3. \A i, j \in Queued(n) : i = j
    BY <1>1, <1>2 DEF LoadInv, Single
  <1>4. \A v, w \in Loading(n, BeforeEnd) : v = w
    BY <1>1, <1>2 DEF LoadInv
  <1>5. Queued(n) = {} \/ Loading(n, BeforeEnd) = {}
    BY <1>1, <1>2 DEF LoadInv, Has
  <1>6. /\ Cardinality(Queued(n)) \in Nat /\ Cardinality(Queued(n)) <= 1
        /\ Queued(n) = {} => Cardinality(Queued(n)) = 0
    BY <1>3, AtMostOne
  <1>7. /\ Cardinality(Loading(n, BeforeEnd)) \in Nat /\ Cardinality(Loading(n, BeforeEnd)) <= 1
        /\ Loading(n, BeforeEnd) = {} => Cardinality(Loading(n, BeforeEnd)) = 0
    BY <1>4, AtMostOne
  <1> QED BY <1>5, <1>6, <1>7, SMT

\* Where the invariant holds, loads are accounted for.
LEMMA InvLoadsAccounted ==
    ASSUME Countable, Inv
    PROVE  LoadsAccounted
  <1>1. BootupsCounted /\ HoldingCounted
    BY CountIs DEF Inv
  <1>2. StartInv /\ master_state \in {"STARTUP", "RUNNING", "STOPPING"} /\ n_syncs \in Nat
    BY DEF Inv, NodesInv, TypeOK
  <1>3. InhibitedCounted
    <2>1. CASE n_syncs > 0
      BY <1>2, <2>1 DEF InhibitedCounted, StartInv
    <2>2. CASE n_syncs = 0
      BY <1>1, <1>2, <2>2 DEF InhibitedCounted, StartInv, HoldingCounted, Holding
    <2> QED BY <1>2, <2>1, <2>2, SMT
  <1> QED BY <1>1, <1>3, InvOneLoad, InvPending DEF LoadsAccounted

\* Where the invariant holds, drivers are guarded.
LEMMA InvDriversGuarded ==
    ASSUME Inv
    PROVE  DriversGuarded
  <1>1. TypeOK /\ StartInv /\ GuardInv /\ n_syncs \in Nat
    BY DEF Inv, NodesInv, TypeOK
  <1>2. ASSUME Outcomes = {"ok"} PROVE TimerHasDriver /\ GuardedHasTimer /\ FaultsAtStop
    <2>1. (\A n \in Nodes : GuardedNode(n)) /\ FaultsAtStop
      BY <1>1, <1>2 DEF GuardInv
    <2>2. TimerHasDriver
      BY <2>1 DEF TimerHasDriver, GuardedNode
    <2>3. GuardedHasTimer
      <3> SUFFICES ASSUME master_state = "RUNNING", todo = <<>>, NEW n \in Guarded,
                          node[n].driver_type # "NONE", node[n].is_initialized
                   PROVE  /\ node[n].heartbeat_timer
                          /\ node[n].is_heartbeat_supported \/ node[n].ping_timer
        BY DEF GuardedHasTimer
      <3>1. n \in Nodes
        BY MasterAssumption DEF Inv, NodesInv, Setup, Guarded
      <3>2. n_syncs # 0
        BY <1>1 DEF StartInv
      <3> QED BY <2>1, <3>1, <3>2 DEF GuardedNode
    <2> QED BY <2>1, <2>2, <2>3
  <1> QED BY <1>1, <1>2 DEF DriversGuarded

-----------------------------------------------------------------------------
(* Finite sets and the order of numbers. *)

INSTANCE FiniteSetTheorems

LEMMA FiniteCounted ==
    ASSUME NEW S, IsFiniteSet(S)
    PROVE  Counted(S)
  <1>1. Cardinality(S) \in Nat
    BY FS_CardinalityType
  <1>2. Cardinality(S) = 0 <=> S = {}
    BY FS_EmptySet
  <1>3. ASSUME NEW x
        PROVE  Cardinality(S \ {x}) = IF x \in S THEN Cardinality(S) - 1 ELSE Cardinality(S)
    BY FS_RemoveElement
  <1> QED BY <1>1, <1>2, <1>3 DEF Counted

\* The loads in a queue are finitely many.
LEMMA LoadsFinite ==
    ASSUME NEW s \in Seq(AnyJob)
    PROVE  IsFiniteSet(Loads(s)) /\ Cardinality(Loads(s)) \in Nat
  <1>1. Len(s) \in Nat /\ Loads(s) \in SUBSET (1..Len(s))
    BY SMT DEF Loads
  <1>2. IsFiniteSet(1..Len(s))
    BY <1>1, FS_Interval, SMT
  <1>3. IsFiniteSet(Loads(s))
    BY <1>1, <1>2, FS_Subset
  <1> QED BY <1>3, FS_CardinalityType

\* A queue that a job is appended to has a load more if the job is one.
LEMMA AppendCounted ==
    ASSUME NEW s \in Seq(AnyJob), NEW y \in AnyJob
    PROVE  Cardinality(Loads(Append(s, y))) = Cardinality(Loads(s)) + Weight(y)
  <1>1. Len(s) \in Nat /\ Len(s) + 1 \notin Loads(s)
    BY SMT DEF Loads
  <1>2. \A i \in 1..Len(s) : Append(s, y)[i] = s[i]
    BY SMT
  <1>3. DOMAIN Append(s, y) = 1..Len(s) + 1 /\ DOMAIN s = 1..Len(s) /\ Append(s, y)[Len(s) + 1] = y
    BY SMT
  <1>4. CASE y.fn = "load"
    <2>1. Loads(Append(s, y)) = Loads(s) \union {Len(s) + 1}
      BY <1>1, <1>2, <1>3, <1>4, SMT DEF Loads
    <2> QED BY <1>1, <1>4, <2>1, LoadsFinite, FS_AddElement DEF Weight
  <1>5. CASE y.fn # "load"
    <2>1. Loads(Append(s, y)) = Loads(s)
      BY <1>1, <1>2, <1>3, <1>5, SMT DEF Loads
    <2> QED BY <1>5, <2>1, LoadsFinite, SMT DEF Weight
  <1> QED BY <1>4, <1>5

\* A queue that a job is taken from has a load less if the job is one.
LEMMA TailCounted ==
    ASSUME NEW s \in Seq(AnyJob), s # <<>>
    PROVE  Cardinality(Loads(s)) = Cardinality(Loads(Tail(s))) + Weight(Head(s))
  <1> DEFINE A == Loads(Tail(s))
             B == Loads(s) \ {1}
             f == [i \in A |-> i + 1]
  <1>1. /\ Len(s) \in Nat /\ Len(s) > 0 /\ DOMAIN s = 1..Len(s) /\ DOMAIN Tail(s) = 1..Len(s) - 1
        /\ \A i \in 1..Len(s) - 1 : Tail(s)[i] = s[i + 1]
        /\ Tail(s) \in Seq(AnyJob) /\ Head(s) = s[1]
    BY SMT
  <1>2. ExistsBijection(A, B)
    <2>1. \A i \in A : i \in Nat /\ i + 1 \in B
      BY <1>1, SMT DEF Loads
    <2>2. \A j \in B : j - 1 \in A /\ j = (j - 1) + 1
      BY <1>1, SMT DEF Loads
    <2> HIDE DEF A, B
    <2>3. f \in [A -> B] /\ \A i \in A : f[i] = i + 1
      BY <2>1
    <2>4. \A i, j \in A : f[i] = f[j] => i = j
      BY <2>1, <2>3, SMT
    <2>5. \A j \in B : \E i \in A : f[i] = j
      BY <2>2, <2>3
    <2> HIDE DEF f
    <2>6. IsInjective(f)
      BY <2>3, <2>4 DEF IsInjective
    <2>7. f \in Bijection(A, B)
      BY <2>3, <2>5, <2>6 DEF Bijection, Injection, Surjection
    <2> QED BY <2>7 DEF ExistsBijection
  <1>3. Cardinality(B) = Cardinality(A)
    BY <1>1, <1>2, LoadsFinite, FS_Bijection
  <1>4. Cardinality(B) = IF 1 \in Loads(s) THEN Cardinality(Loads(s)) - 1 ELSE Cardinality(Loads(s))
    BY LoadsFinite, FS_RemoveElement
  <1>5. 1 \in Loads(s) <=> Head(s).fn = "load"
    BY <1>1, SMT DEF Loads
  <1> HIDE DEF A, B
  <1>6. Cardinality(A) \in Nat /\ Cardinality(Loads(s)) \in Nat
    BY <1>1, LoadsFinite DEF A
  <1> QED BY <1>3, <1>4, <1>5, <1>6, SMT DEF Weight, A

LEMMA Counting == Countable
  <1>0. \A x : Cardinality({x}) = 1
    BY FS_Singleton
  <1>1. \A S \in SUBSET Workers : Counted(S)
    BY MasterAssumption, FS_Subset, FiniteCounted
  <1>2. \A S \in SUBSET Nodes : Counted(S)
    <2>1. IsFiniteSet(Nodes)
      BY MasterAssumption, FS_Interval, SMT DEF Nodes
    <2> QED BY <2>1, FS_Subset, FiniteCounted
  <1>3. ASSUME NEW s \in Seq(AnyJob)
        PROVE  Counted(Loads(s))
    BY LoadsFinite, FiniteCounted
  <1> QED BY <1>0, <1>1, <1>2, <1>3, AppendCounted, TailCounted DEF Countable

INSTANCE WellFoundedInduction

LEMMA FirstNode == FirstIsIn
  <1> SUFFICES ASSUME NEW S \in NonEmpty PROVE First(S) \in S
    BY DEF FirstIsIn
  <1>0. NNodes \in Nat
    BY MasterAssumption
  <1>1. S \subseteq Nat /\ S # {}
    <2>1. S \subseteq 1..NNodes /\ S # {}
      BY DEF NonEmpty, Nodes
    <2> QED BY <1>0, <2>1, SMT
  <1>2. \E x \in S : \A y \in S : x <= y
    <2> DEFINE R == OpToRel(<, Nat)
    <2>1. IsWellFoundedOn(R, Nat)
      BY NatLessThanWellFounded
    <2>2. PICK x \in S : \A y \in S : ~(<<y, x>> \in R)
      <3> HIDE DEF R
      <3> QED BY <1>1, <2>1, WFMin
    <2>3. \A y \in S : <<y, x>> \in R <=> y < x
      BY <1>1 DEF OpToRel
    <2>4. \A y \in S : ~(y < x)
      BY <2>2, <2>3
    <2> HIDE DEF R
    <2> QED BY <1>1, <2>4, SMT
  <1> QED BY <1>2 DEF First

-----------------------------------------------------------------------------
(* The theorems. *)

\* The invariant holds whatever the workers, the main loop and the network do.
THEOREM Invariance == Spec => []Inv
  <1>1. Init => Inv
    BY Counting, InitNodes, InitCount DEF Inv
  <1>2. Inv /\ [Next]_vars => Inv'
    BY Counting, FirstNode, WorkerStep, HandlerStep, EventStep, LoopStep, Stutter DEF Next
  <1> QED BY <1>1, <1>2, PTL DEF Spec

\* A node has one load at a time; a driver that a load has left behind without
\* initialising it is seen to by the main loop; is_loading does not outlive a
\* load; n_scheduled_bootups and n_inhibited_starts, which start-up waits for,
\* are exact.  For any number of nodes and workers, and whatever comes of
\* loads and drivers.
THEOREM LoadsAreAccounted == Spec => []LoadsAccounted
  <1>1. Inv => LoadsAccounted
    BY Counting, InvLoadsAccounted
  <1> QED BY <1>1, Invariance, PTL

\* Where every driver initialises, timers and drivers come and go together:
\* no timer without a driver, no guarded node without its timers, and no
\* missing timer is used before the program ends; the state is as declared.
THEOREM DriversAreGuarded == Spec => []DriversGuarded
  <1>1. Inv => DriversGuarded
    BY InvDriversGuarded
  <1> QED BY <1>1, Invariance, PTL
=============================================================================
