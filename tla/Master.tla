------------------------------- MODULE Master -------------------------------
(***************************************************************************)
(* The life of the nodes in the CANopen master, src/master.c: the network  *)
(* is probed, a driver is loaded for each node by a worker thread and      *)
(* initialised on the main loop, the nodes are started, guarded, unloaded  *)
(* when they time out and loaded again when they boot up again.            *)
(*                                                                         *)
(* The main thread runs one handler at a time.  todo holds what remains of *)
(* the handler it is in, so that the worker threads step in between.  Jobs *)
(* and their results travel in two FIFO queues (MloopWork and Prioq model  *)
(* them); an SDO transaction (SdoReq models it) ends in the main loop, so  *)
(* a worker gets past one only while the main loop is between handlers.    *)
(***************************************************************************)
EXTENDS Integers, Sequences, FiniteSets

CONSTANTS NNodes,         \* the nodes are 1..NNodes
          Workers,        \* the worker threads
          Setups          \* the configurations and surroundings considered

Nodes == 1..NNodes

\* What the program is run with and may meet.  QuickLoads: a load can fail
\* without a transaction, as the SDO queue is full or memory is out.
Setup ==
    [Present: SUBSET Nodes,     \* the nodes on the bus
     Guarded: SUBSET Nodes,     \* the nodes with enable_node_guarding
     n_timeouts_max: Nat,       \* timeouts that a node survives
     Outcomes: SUBSET {"ok", "fail", "inhibit"},    \* of co_drv_init
     QuickLoads: BOOLEAN,
     MayStop: BOOLEAN,          \* the program may be told to stop
     MaxBootups: Nat]           \* bound on the boot-up messages

ASSUME MasterAssumption == /\ NNodes \in Nat \ {0}
                           /\ IsFiniteSet(Workers)
                           /\ Setups \subseteq Setup

VARIABLES node,                 \* co_master_node_
          nmt,                  \* the last NMT command sent to each node
          master_state,
          n_scheduled_bootups,
          n_inhibited_starts,
          nodes_seen,
          nodes_seen_late,
          n_syncs,              \* SYNC timers that run
          mux,                  \* whether the multiplexer takes frames
          jobs,                 \* the queue of the workers
          worker,               \* what each worker does
          done,                 \* results for the main loop
          todo,                 \* the rest of the handler in the main thread
          fault,                \* why the program died, if it did
          bootups,              \* boot-up messages so far
          setup

master == <<master_state, n_scheduled_bootups, n_inhibited_starts, nodes_seen,
            nodes_seen_late, n_syncs, mux, bootups>>
threads == <<jobs, worker, done>>
vars == <<node, nmt, master, threads, todo, fault, setup>>

Guarded == setup.Guarded
n_timeouts_max == setup.n_timeouts_max
Outcomes == setup.Outcomes

Node ==
    [driver_type: {"NONE", "NEW"},
     is_initialized: BOOLEAN,
     is_loading: BOOLEAN,
     is_heartbeat_supported: BOOLEAN,
     heartbeat_timer: BOOLEAN,          \* there is one, and it runs
     ping_timer: BOOLEAN,
     ntimeouts: 0..n_timeouts_max + 1,
     inhibit: BOOLEAN]                  \* CO_OPT_INHIBIT_START

NoNode == 0

Job(fn, n) == [fn |-> fn, node |-> n]

JobRecord == [fn: {"probe", "load", "wait"}, node: Nodes \cup {NoNode}]

\* A step that a handler still has to make, for_each_node of a set if there is one.
Do(what, S) == [do |-> what, nodes |-> S]

ForEach(what, S) == IF S = {} THEN <<>> ELSE <<Do(what, S)>>

Idle == [at |-> "idle", job |-> Job("wait", NoNode)]

\* memset in co_master_run, and start_bootup
Init ==
    /\ node = [n \in Nodes |->
                 [driver_type |-> "NONE", is_initialized |-> FALSE,
                  is_loading |-> FALSE, is_heartbeat_supported |-> FALSE,
                  heartbeat_timer |-> FALSE, ping_timer |-> FALSE,
                  ntimeouts |-> 0, inhibit |-> FALSE]]
    /\ nmt = [n \in Nodes |-> "none"]
    /\ master_state = "STARTUP"
    /\ n_scheduled_bootups = 0 /\ n_inhibited_starts = 0
    /\ nodes_seen = {} /\ nodes_seen_late = {}
    /\ n_syncs = 0
    /\ mux = FALSE
    /\ jobs = <<Job("probe", NoNode)>>
    /\ worker = [w \in Workers |-> Idle]
    /\ done = <<>>
    /\ todo = <<>>
    /\ fault = "none"
    /\ bootups = 0
    /\ setup \in Setups

----------------------------------------------------------------------------
(* What is done to one node *)

start_nodeguarding(n, o) ==
    IF n \notin Guarded THEN o
    ELSE [o EXCEPT !.ping_timer = @ \/ ~o.is_heartbeat_supported,
                   !.heartbeat_timer = TRUE,
                   !.ntimeouts = 0]

\* A timer that is not there is stopped: a null pointer is followed.
StopsNull(n, o) ==
    /\ n \in Guarded
    /\ ~o.heartbeat_timer \/ (~o.is_heartbeat_supported /\ ~o.ping_timer)

stop_node_guarding(n, o) ==
    IF n \notin Guarded THEN o
    ELSE [o EXCEPT !.heartbeat_timer = FALSE,
                   !.ping_timer = @ /\ o.is_heartbeat_supported]

\* co_drv_unload clears the driver, its options included.
unload_driver(n, o) ==
    [stop_node_guarding(n, o) EXCEPT
        !.is_initialized = FALSE, !.driver_type = "NONE",
        !.is_heartbeat_supported = FALSE, !.inhibit = FALSE]

UnloadFault(n, o) ==
    IF StopsNull(n, o) THEN "timer"
    ELSE IF o.driver_type = "NONE" THEN "abort" ELSE "none"

----------------------------------------------------------------------------
(* Worker threads *)

Working(w, at) == fault = "none" /\ worker[w].at = at

Goto(w, at) == worker' = [worker EXCEPT ![w].at = at]

\* An SDO transaction ends: the main loop takes its last frame.  A load makes
\* several, and each round of the main loop takes a result off done as well, so
\* that no result waits there while a load goes on.  A result that a thread is
\* slow to forward stands for one that waits.
Transaction == todo = <<>> /\ done = <<>> /\ master_state # "STOPPING"

mloop__worker_fn(w) ==
    /\ Working(w, "idle")
    /\ jobs # <<>>
    /\ worker' = [worker EXCEPT ![w] = [at |-> Head(jobs).fn,
                                        job |-> Head(jobs)]]
    /\ jobs' = Tail(jobs)
    /\ UNCHANGED <<node, nmt, master, done, todo, fault>>

\* The nodes that answer are found.
run_net_probe(w) ==
    /\ Working(w, "probe")
    /\ \E S \in SUBSET setup.Present : nodes_seen' = S
    /\ Goto(w, "forward")
    /\ UNCHANGED <<node, nmt, master_state, n_scheduled_bootups,
                   n_inhibited_starts, nodes_seen_late, n_syncs, mux, bootups,
                   jobs, done, todo, fault>>

\* load_driver up to the name of the node.
LoadIdentify(w) ==
    /\ Working(w, "load")
    /\ \/ /\ node[worker[w].job.node].driver_type = "NONE"
          /\ Transaction
          /\ Goto(w, "heartbeat")
       \/ /\ \/ Transaction \/ setup.QuickLoads
             \/ node[worker[w].job.node].driver_type # "NONE"
          /\ Goto(w, "end")
    /\ UNCHANGED <<node, nmt, master, jobs, done, todo, fault>>

\* load_driver: whether the node takes a heartbeat period.
LoadHeartbeat(w) ==
    /\ Working(w, "heartbeat")
    /\ Transaction
    /\ \E supported \in BOOLEAN :
         node' = [node EXCEPT ![worker[w].job.node].is_heartbeat_supported =
                     IF worker[w].job.node \in Guarded THEN supported ELSE @]
    /\ Goto(w, "driver")
    /\ UNCHANGED <<nmt, master, jobs, done, todo, fault>>

\* load_driver: there is a driver, or the node is told to stop.
LoadDriver(w) ==
    /\ Working(w, "driver")
    /\ LET n == worker[w].job.node IN
       \/ /\ node' = [node EXCEPT ![n].driver_type = "NEW"]
          /\ UNCHANGED nmt
       \/ /\ nmt' = [nmt EXCEPT ![n] = "STOP"]
          /\ UNCHANGED node
    /\ Goto(w, "end")
    /\ UNCHANGED <<master, jobs, done, todo, fault>>

\* run_load_driver, once load_driver has returned.
LoadEnd(w) ==
    /\ Working(w, "end")
    /\ node' = [node EXCEPT ![worker[w].job.node].is_loading = FALSE]
    /\ Goto(w, "forward")
    /\ UNCHANGED <<nmt, master, jobs, done, todo, fault>>

wait_for_bootup(w) ==
    /\ Working(w, "wait")
    /\ n_scheduled_bootups = 0
    /\ Goto(w, "forward")
    /\ UNCHANGED <<node, nmt, master, jobs, done, todo, fault>>

mloop__forward_work(w) ==
    /\ Working(w, "forward")
    /\ done' = Append(done, worker[w].job)
    /\ worker' = [worker EXCEPT ![w] = Idle]
    /\ UNCHANGED <<node, nmt, master, jobs, todo, fault>>

----------------------------------------------------------------------------
(* What a handler of the main thread has still to do *)

Remains(what) == fault = "none" /\ todo # <<>> /\ Head(todo).do = what

\* for_each_node goes up.
First(S) == CHOOSE n \in S : \A m \in S : n <= m

NodeToDo == First(Head(todo).nodes)

\* What remains when the node has been seen to.
Onward == ForEach(Head(todo).do, Head(todo).nodes \ {NodeToDo}) \o Tail(todo)

\* The work is started, and the node marked as loading in a later step.
StartLoad(n, o) ==
    /\ node' = [node EXCEPT ![n] = o]
    /\ jobs' = Append(jobs, Job("load", n))
    /\ n_scheduled_bootups' = n_scheduled_bootups + 1
    /\ todo' = <<Do("set_loading", {n})>> \o Onward

\* Mutant: a load that is under way does not keep another from being started.
ScheduleAgain(n) ==
    LET o == node[n]
        loaded == o.driver_type # "NONE"
    IN  \/ /\ loaded /\ ~o.is_initialized
           /\ todo' = Onward
           /\ UNCHANGED <<node, jobs, n_scheduled_bootups, fault>>
        \/ /\ loaded => o.is_initialized
           /\ ~(loaded /\ UnloadFault(n, o) # "none")
           /\ StartLoad(n, IF loaded THEN unload_driver(n, o) ELSE o)
           /\ UNCHANGED fault
        \/ /\ loaded /\ o.is_initialized
           /\ UnloadFault(n, o) # "none"
           /\ fault' = UnloadFault(n, o)
           /\ UNCHANGED <<node, jobs, n_scheduled_bootups, todo>>

schedule_load_driver(n) ==
    LET o == node[n]
        loaded == o.driver_type # "NONE"
    IN  \/ /\ o.is_loading \/ (loaded /\ ~o.is_initialized)
           /\ todo' = Onward
           /\ UNCHANGED <<node, jobs, n_scheduled_bootups, fault>>
        \/ /\ ~o.is_loading
           /\ loaded => o.is_initialized /\ UnloadFault(n, o) = "none"
           /\ StartLoad(n, IF loaded THEN unload_driver(n, o) ELSE o)
           /\ UNCHANGED fault
        \/ /\ ~o.is_loading /\ loaded /\ o.is_initialized
           /\ UnloadFault(n, o) # "none"
           /\ fault' = UnloadFault(n, o)
           /\ UNCHANGED <<node, jobs, n_scheduled_bootups, todo>>

Schedule ==
    /\ Remains("schedule")
    /\ schedule_load_driver(NodeToDo)
    /\ UNCHANGED <<nmt, master_state, n_inhibited_starts, nodes_seen,
                   nodes_seen_late, n_syncs, mux, bootups, worker, done>>

\* The last statement of schedule_load_driver.
SetLoading ==
    /\ Remains("set_loading")
    /\ node' = [node EXCEPT ![NodeToDo].is_loading = TRUE]
    /\ todo' = Tail(todo)
    /\ UNCHANGED <<nmt, master, threads, fault>>

schedule_bootup_done ==
    /\ Remains("wait")
    /\ jobs' = Append(jobs, Job("wait", NoNode))
    /\ todo' = Tail(todo)
    /\ UNCHANGED <<node, nmt, master, worker, done, fault>>

Registered == {n \in Nodes : node[n].driver_type # "NONE"}

\* start_all_nodes in its passes.
start_all_nodes == <<Do("start", {}), Do("guard", {}), Do("running", {})>>

SendStarts ==
    /\ Remains("start")
    /\ nmt' = [n \in Nodes |-> IF n \in Registered THEN "START" ELSE nmt[n]]
    /\ todo' = Tail(todo)
    /\ UNCHANGED <<node, master, threads, fault>>

StartGuarding ==
    /\ Remains("guard")
    /\ node' = [n \in Nodes |-> IF n \in Registered
                                THEN start_nodeguarding(n, node[n])
                                ELSE node[n]]
    /\ todo' = Tail(todo)
    /\ UNCHANGED <<nmt, master, threads, fault>>

\* Mutant: the nodes that were late are not loaded.
RunWithoutLate ==
    /\ Remains("running")
    /\ master_state' = "RUNNING"
    /\ n_syncs' = n_syncs + 1
    /\ todo' = Tail(todo)
    /\ UNCHANGED <<node, nmt, n_scheduled_bootups, n_inhibited_starts,
                   nodes_seen, nodes_seen_late, mux, bootups, threads, fault>>

\* The drivers are told, the state is set, load_late_nodes, start_sync_timer.
Run ==
    /\ Remains("running")
    /\ master_state' = "RUNNING"
    /\ n_syncs' = n_syncs + 1
    /\ todo' = ForEach("schedule", nodes_seen_late) \o Tail(todo)
    /\ UNCHANGED <<node, nmt, n_scheduled_bootups, n_inhibited_starts,
                   nodes_seen, nodes_seen_late, mux, bootups, threads, fault>>

\* unload_all_drivers, one node
Unload ==
    /\ Remains("unload")
    /\ LET n == NodeToDo IN
       \/ /\ node[n].driver_type = "NONE"
          /\ todo' = Onward
          /\ UNCHANGED <<node, nmt, fault>>
       \/ /\ node[n].driver_type # "NONE"
          /\ UnloadFault(n, node[n]) = "none"
          /\ node' = [node EXCEPT ![n] = unload_driver(n, @)]
          /\ nmt' = [nmt EXCEPT ![n] = "STOP"]
          /\ todo' = Onward
          /\ UNCHANGED fault
       \/ /\ node[n].driver_type # "NONE"
          /\ UnloadFault(n, node[n]) # "none"
          /\ fault' = UnloadFault(n, node[n])
          /\ UNCHANGED <<node, nmt, todo>>
    /\ UNCHANGED <<master, threads>>

----------------------------------------------------------------------------
(* Handlers of the main loop *)

AtLoop == fault = "none" /\ todo = <<>> /\ master_state # "STOPPING"

run_bootup == ForEach("schedule", nodes_seen) \o <<Do("wait", {})>>

\* on_net_probe_done: init_multiplexer and run_bootup.
on_net_probe_done ==
    /\ mux' = TRUE
    /\ todo' = run_bootup
    /\ UNCHANGED <<node, nmt, master_state, n_scheduled_bootups,
                   n_inhibited_starts, nodes_seen, nodes_seen_late, n_syncs,
                   bootups>>

\* co_drv_init succeeded; the driver may have asked not to be started.
Initialized(o, outcome) ==
    [o EXCEPT !.is_initialized = TRUE,
              !.inhibit = @ \/ outcome = "inhibit"]

\* Whether initialize_new_driver counts an inhibited start.
CountsInhibited(o) == master_state = "STARTUP" /\ o.inhibit

\* The end of a load: the driver is initialised, and once start-up is over
\* the node is started (start_single_node).
on_load_driver_done(n) ==
    /\ n_scheduled_bootups' = n_scheduled_bootups - 1
    /\ \/ /\ node[n].driver_type = "NONE"
          /\ UNCHANGED <<node, nmt, n_inhibited_starts>>
       \/ /\ node[n].driver_type # "NONE"
          /\ "fail" \in Outcomes
          /\ node' = [node EXCEPT ![n].driver_type = "NONE",
                                  ![n].inhibit = FALSE]
          /\ nmt' = [nmt EXCEPT ![n] = "STOP"]
          /\ UNCHANGED n_inhibited_starts
       \/ /\ node[n].driver_type # "NONE"
          /\ \E outcome \in Outcomes \ {"fail"} :
               LET o == Initialized(node[n], outcome)
                   start == master_state # "STARTUP" /\ ~o.inhibit
               IN  /\ node' = [node EXCEPT ![n] =
                                 IF start THEN start_nodeguarding(n, o) ELSE o]
                   /\ nmt' = [nmt EXCEPT ![n] = IF start THEN "START" ELSE @]
                   /\ n_inhibited_starts' = n_inhibited_starts +
                                            IF CountsInhibited(o) THEN 1 ELSE 0
    /\ UNCHANGED <<master_state, nodes_seen, nodes_seen_late, n_syncs, mux,
                   bootups, todo>>

on_bootup_done ==
    /\ todo' = IF n_inhibited_starts = 0 THEN start_all_nodes ELSE <<>>
    /\ UNCHANGED <<node, nmt, master>>

\* mloop__process_async_jobs: the result of a job comes back.
Done ==
    /\ AtLoop
    /\ done # <<>>
    /\ done' = Tail(done)
    /\ \/ Head(done).fn = "probe" /\ on_net_probe_done
       \/ Head(done).fn = "load" /\ on_load_driver_done(Head(done).node)
       \/ Head(done).fn = "wait" /\ on_bootup_done
    /\ UNCHANGED <<jobs, worker, fault>>

\* Mutant: the counter is compared before it is decremented.
ComparedFirst == n_inhibited_starts = 0

LastStart == n_inhibited_starts - 1 = 0

\* co__start, called by the driver of a node from one of its callbacks.
co__start(n) ==
    /\ AtLoop
    /\ node[n].driver_type # "NONE" /\ node[n].is_initialized
    /\ node[n].inhibit
    /\ LET o == [node[n] EXCEPT !.inhibit = FALSE] IN
       \/ /\ master_state # "STARTUP"
          /\ node' = [node EXCEPT ![n] = start_nodeguarding(n, o)]
          /\ nmt' = [nmt EXCEPT ![n] = "START"]
          /\ UNCHANGED <<n_inhibited_starts, todo>>
       \/ /\ master_state = "STARTUP"
          /\ node' = [node EXCEPT ![n] = o]
          /\ n_inhibited_starts' = n_inhibited_starts - 1
          /\ todo' = IF LastStart THEN start_all_nodes ELSE <<>>
          /\ UNCHANGED nmt
    /\ UNCHANGED <<master_state, n_scheduled_bootups, nodes_seen,
                   nodes_seen_late, n_syncs, mux, bootups, threads, fault>>

\* A boot-up message: a heartbeat with state 0, or an empty emergency.
handle_bootup(n) ==
    /\ AtLoop
    /\ mux /\ n \in setup.Present
    /\ bootups < setup.MaxBootups
    /\ bootups' = bootups + 1
    /\ \/ /\ master_state = "STARTUP"
          /\ nodes_seen_late' = nodes_seen_late \cup {n}
          /\ UNCHANGED todo
       \/ /\ master_state # "STARTUP"
          /\ todo' = <<Do("schedule", {n})>>
          /\ UNCHANGED nodes_seen_late
    /\ UNCHANGED <<node, nmt, master_state, n_scheduled_bootups,
                   n_inhibited_starts, nodes_seen, n_syncs, mux, threads,
                   fault>>

\* Any other heartbeat; in start-up it is ignored.
handle_heartbeat(n) ==
    /\ AtLoop
    /\ mux /\ n \in setup.Present
    /\ master_state # "STARTUP"
    /\ \E state \in {"OPERATIONAL", "STOPPED", "PREOPERATIONAL"} :
       \/ /\ node[n].driver_type = "NONE"
          /\ state # "STOPPED" /\ ~node[n].is_loading
          /\ nmt' = [nmt EXCEPT ![n] = "RESET_COMMUNICATION"]
          /\ UNCHANGED fault
       \/ /\ node[n].driver_type # "NONE" /\ node[n].is_initialized
          /\ n \in Guarded => node[n].heartbeat_timer
          /\ state # "OPERATIONAL"
          /\ nmt' = [nmt EXCEPT ![n] = "START"]
          /\ UNCHANGED fault
       \/ /\ node[n].driver_type # "NONE" /\ node[n].is_initialized
          /\ n \in Guarded /\ ~node[n].heartbeat_timer
          /\ fault' = "heartbeat"
          /\ UNCHANGED nmt
    /\ UNCHANGED <<node, master, threads, todo>>

\* Mutant: the node keeps its timer.
TimeoutKeepsTimer(n) ==
    /\ AtLoop
    /\ node[n].heartbeat_timer
    /\ \/ /\ node[n].ntimeouts < n_timeouts_max
          /\ node' = [node EXCEPT ![n].ntimeouts = @ + 1]
          /\ UNCHANGED nmt
       \/ /\ node[n].ntimeouts >= n_timeouts_max
          /\ nmt' = [nmt EXCEPT ![n] = "RESET_NODE"]
          /\ node' = [node EXCEPT ![n] = [unload_driver(n, @) EXCEPT
                                            !.heartbeat_timer = TRUE]]
    /\ UNCHANGED <<master, threads, todo, fault>>

on_heartbeat_timeout(n) ==
    /\ AtLoop
    /\ node[n].heartbeat_timer
    /\ LET o == [node[n] EXCEPT !.ntimeouts = @ + 1] IN
       \/ /\ o.ntimeouts <= n_timeouts_max
          /\ node' = [node EXCEPT ![n] = o]
          /\ UNCHANGED <<nmt, fault>>
       \/ /\ o.ntimeouts > n_timeouts_max
          /\ nmt' = [nmt EXCEPT ![n] = "RESET_NODE"]
          /\ node' = [node EXCEPT ![n] = unload_driver(n, o)]
          /\ fault' = UnloadFault(n, o)
    /\ UNCHANGED <<master, threads, todo>>

\* A signal ends mloop_run; co_master_run goes on with unload_all_drivers.
on_stop_signal ==
    /\ AtLoop
    /\ setup.MayStop
    /\ master_state' = "STOPPING"
    /\ todo' = ForEach("unload", Nodes)
    /\ UNCHANGED <<node, nmt, n_scheduled_bootups, n_inhibited_starts,
                   nodes_seen, nodes_seen_late, n_syncs, mux, bootups, threads,
                   fault>>

Worker(w) ==
    \/ mloop__worker_fn(w) \/ run_net_probe(w) \/ LoadIdentify(w)
    \/ LoadHeartbeat(w) \/ LoadDriver(w) \/ LoadEnd(w) \/ wait_for_bootup(w)
    \/ mloop__forward_work(w)

Handler ==
    \/ Schedule \/ SetLoading \/ schedule_bootup_done \/ SendStarts
    \/ StartGuarding \/ Run \/ Unload

Event(n) ==
    \/ co__start(n) \/ handle_bootup(n) \/ handle_heartbeat(n)
    \/ on_heartbeat_timeout(n)

\* The setup stays what it was.
Within(A) == A /\ UNCHANGED setup

Next ==
    \/ \E w \in Workers : Within(Worker(w))
    \/ Within(Handler)
    \/ Within(Done)
    \/ \E n \in Nodes : Within(Event(n))
    \/ Within(on_stop_signal)

Spec == Init /\ [][Next]_vars

\* Threads are scheduled, the main loop handles what is there, an SDO
\* transaction ends in an answer or a timeout (SdoReq), and a driver that asked
\* not to be started starts its node some day.
Fairness ==
    /\ \A w \in Workers : SF_vars(Within(Worker(w)))
    /\ WF_vars(Within(Handler)) /\ SF_vars(Within(Done))
    /\ \A n \in Nodes : SF_vars(Within(co__start(n)))

FairSpec == Spec /\ Fairness

----------------------------------------------------------------------------
(* Properties *)

IsLoad(job, n) == job.fn = "load" /\ job.node = n

Queued(n) == {i \in DOMAIN jobs : IsLoad(jobs[i], n)}
Loading(n, where) == {w \in Workers : worker[w].at \in where
                                      /\ IsLoad(worker[w].job, n)}
Finished(n) == {i \in DOMAIN done : IsLoad(done[i], n)}

BeforeEnd == {"load", "heartbeat", "driver", "end"}

NmtCommand == {"none", "START", "STOP", "RESET_NODE", "RESET_COMMUNICATION"}

WorkerRecord ==
    [at: BeforeEnd \cup {"idle", "probe", "wait", "forward"}, job: JobRecord]

\* The state of the master, its threads and its nodes is as declared.
TypeOK ==
    /\ node \in [Nodes -> Node]
    /\ nmt \in [Nodes -> NmtCommand]
    /\ master_state \in {"STARTUP", "RUNNING", "STOPPING"}
    /\ n_scheduled_bootups \in Nat /\ n_inhibited_starts \in Nat
    /\ nodes_seen \subseteq Nodes /\ nodes_seen_late \subseteq Nodes
    /\ n_syncs \in Nat /\ mux \in BOOLEAN /\ bootups \in 0..setup.MaxBootups
    /\ jobs \in Seq(JobRecord) /\ done \in Seq(JobRecord)
    /\ worker \in [Workers -> WorkerRecord]
    /\ fault \in {"none", "timer", "abort", "heartbeat"}

Loads(queue) == {i \in DOMAIN queue : queue[i].fn = "load"}
LoadingWorkers == {w \in Workers : worker[w].job.fn = "load"}

\* n_scheduled_bootups, which wait_for_bootup polls from another thread, is
\* the number of loads whose end the main loop has not seen.
BootupsCounted ==
    n_scheduled_bootups = Cardinality(Loads(jobs)) + Cardinality(LoadingWorkers)
                          + Cardinality(Loads(done))

\* is_loading keeps two workers from loading a driver for the same node,
\* though it is set after the work is started and reset by the worker.
OneLoad ==
    \A n \in Nodes :
        Cardinality(Queued(n)) + Cardinality(Loading(n, BeforeEnd)) <= 1

\* A node that is marked as loading is waiting for a worker or has one: it is
\* not shut out from being loaded again.  A load that ends before
\* schedule_load_driver sets is_loading leaves the mark behind, so this holds
\* only where a load makes a transaction.
LoadingIsOutstanding ==
    ~setup.QuickLoads => \A n \in Nodes : node[n].is_loading =>
        Queued(n) # {} \/ Loading(n, BeforeEnd) # {}

\* A driver that is loaded and not initialised, which makes
\* schedule_load_driver refuse the node, is on its way to the main loop.
UninitializedIsPending ==
    \A n \in Nodes :
        node[n].driver_type # "NONE" /\ ~node[n].is_initialized =>
            Loading(n, {"end", "forward"}) # {} \/ Finished(n) # {}

\* n_inhibited_starts counts the drivers that hold up start-up, and none once
\* it is over.
InhibitedCounted ==
    master_state # "STOPPING" => n_inhibited_starts =
        IF n_syncs > 0 THEN 0
        ELSE Cardinality({n \in Nodes : node[n].inhibit
                                        /\ node[n].is_initialized})

\* The timers of a node run only while its driver is loaded and initialised:
\* on_heartbeat_timeout never unloads what is not there.
TimerHasDriver ==
    \A n \in Nodes : node[n].heartbeat_timer \/ node[n].ping_timer =>
        node[n].driver_type # "NONE" /\ node[n].is_initialized

\* Once start-up is over, a guarded node with a driver is watched: by its
\* heartbeat, and when it has none by pings as well.
GuardedHasTimer ==
    master_state = "RUNNING" /\ todo = <<>> =>
        \A n \in Guarded :
            node[n].driver_type # "NONE" /\ node[n].is_initialized =>
                /\ node[n].heartbeat_timer
                /\ node[n].is_heartbeat_supported \/ node[n].ping_timer

\* Only the end of the program meets a missing timer: unload_all_drivers
\* stops the timers of drivers whose nodes were never started.
FaultsAtStop ==
    fault # "none" => /\ fault = "timer"
                      /\ master_state = "STOPPING"
                      /\ n_syncs = 0 \/ ~node[NodeToDo].is_initialized

\* Start-up ends, whatever the loads come to: wait_for_bootup holds a worker
\* while the loads need one, and the last driver that put off its start ends it.
BootsUp == <>(master_state # "STARTUP")

\* A node that boots up while the master starts up is loaded afterwards, unless
\* the program is stopped.
LateNodesLoaded ==
    \A n \in Nodes : n \in nodes_seen_late /\ master_state = "STARTUP" ~>
        \/ node[n].is_loading \/ node[n].driver_type # "NONE"
        \/ master_state = "STOPPING"

\* Timers and drivers come and go together, through any number of loads,
\* timeouts and boot-ups, where every driver initialises: no timer without
\* driver, no guarded node without timer, and no missing timer is used before
\* the program ends.
DriversGuarded ==
    /\ TypeOK
    /\ Outcomes = {"ok"} => TimerHasDriver /\ GuardedHasTimer /\ FaultsAtStop

\* A node has one load at a time, and a driver that a load has left behind
\* without initialising it is seen to by the main loop; is_loading does not
\* outlive a load; the two counters that start-up waits for are exact.
LoadsAccounted ==
    /\ OneLoad /\ UninitializedIsPending /\ LoadingIsOutstanding
    /\ BootupsCounted /\ InhibitedCounted
====
