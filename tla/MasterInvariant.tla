-------------------------- MODULE MasterInvariant ---------------------------
(***************************************************************************)
(* The life of the nodes (Master), for any number of nodes and workers and *)
(* any setup: the inductive invariant, and the steps of the workers, of    *)
(* the handlers in the main thread and of what starts a handler keep it.   *)
(* MasterProofs goes on with the results of work, the counters of start-up *)
(* and the theorems.                                                       *)
(***************************************************************************)
EXTENDS Master, TLAPS

\* Leaves that need arithmetic, or much about records, cite SMT.
USE Zenon

Probe == Job("probe", NoNode)
Wait == Job("wait", NoNode)
Load(n) == Job("load", n)
AnyJob == {Probe, Wait} \union {Load(n) : n \in Nodes}

Has(s, x) == \E i \in DOMAIN s : s[i] = x
Single(s, x) == \A i, j \in DOMAIN s : s[i] = x /\ s[j] = x => i = j

\* The workers that have a job, and those that have not come to the end of it.
Busy(x) == {w \in Workers : worker[w].at # "idle" /\ worker[w].job = x}
Early(x) == {w \in Workers : worker[w].at \in BeforeEnd /\ worker[w].job = x}

Occurs(x) == Has(jobs, x) \/ Has(done, x) \/ Busy(x) # {}

\* A job is in at most one place.
Once(x) ==
    /\ Single(jobs, x) /\ Single(done, x)
    /\ \A v, w \in Busy(x) : v = w
    /\ ~(Has(jobs, x) /\ Has(done, x))
    /\ Busy(x) # {} => ~Has(jobs, x) /\ ~Has(done, x)

\* Where a worker is tells what job it has.
JobsInv ==
    /\ jobs \in Seq(AnyJob) /\ done \in Seq(AnyJob)
    /\ \A w \in Workers :
         /\ worker[w].job \in AnyJob
         /\ worker[w].at \in {"idle", "wait"} => worker[w].job = Wait
         /\ worker[w].at = "probe" => worker[w].job = Probe
         /\ worker[w].at \in BeforeEnd => \E n \in Nodes : worker[w].job = Load(n)

-----------------------------------------------------------------------------
(* What may remain of a handler. *)

SetLoadingStep(n) == Do("set_loading", {n})
ScheduleStep(S) == Do("schedule", S)
WaitStep == Do("wait", {})
RunStep == Do("running", {})

NonEmpty == {S \in SUBSET Nodes : S # {}}

\* A set of nodes has a first.  (FirstNode shows that it is so.)
FirstIsIn == \A S \in NonEmpty : First(S) \in S

BootForm(t) ==
    \/ t = <<WaitStep>>
    \/ \E S \in NonEmpty : t = <<ScheduleStep(S), WaitStep>>
    \/ \E n \in Nodes : t = <<SetLoadingStep(n), WaitStep>>
    \/ \E n \in Nodes, S \in NonEmpty : t = <<SetLoadingStep(n), ScheduleStep(S), WaitStep>>

LoadForm(t) ==
    \/ \E S \in NonEmpty : t = <<ScheduleStep(S)>>
    \/ \E n \in Nodes : t = <<SetLoadingStep(n)>>
    \/ \E n \in Nodes, S \in NonEmpty : t = <<SetLoadingStep(n), ScheduleStep(S)>>

StartForm(t) == t \in {start_all_nodes, <<Do("guard", {}), RunStep>>, <<RunStep>>}

StopForm(t) == \E S \in NonEmpty : t = <<Do("unload", S)>>

TodoInv ==
    \/ todo = <<>>
    \/ master_state = "STARTUP" /\ BootForm(todo)
    \/ master_state = "RUNNING" /\ LoadForm(todo)
    \/ master_state # "STOPPING" /\ StartForm(todo)
    \/ master_state = "STOPPING" /\ StopForm(todo)

ScheduledIn(t, n) == \E i \in DOMAIN t : t[i].do = "schedule" /\ n \in t[i].nodes
Scheduled(n) == ScheduledIn(todo, n)
Marking(n) == todo # <<>> /\ Head(todo) = SetLoadingStep(n)

Fresh(n) == node[n].driver_type = "NONE" /\ ~node[n].is_initialized /\ ~node[n].inhibit

\* The probe, the wait and, in start-up, the load of each node are made once.
BootInv ==
    /\ Once(Probe) /\ Once(Wait)
    /\ mux => ~Occurs(Probe)
    /\ master_state = "RUNNING" => mux
    /\ BootForm(todo) => ~Occurs(Wait) /\ mux
    /\ master_state = "STARTUP" =>
         /\ ~mux => /\ todo = <<>> /\ ~Occurs(Wait)
                    /\ \A n \in Nodes : Fresh(n) /\ ~Occurs(Load(n))
         /\ \A n \in Nodes :
              /\ Once(Load(n))
              /\ Occurs(Load(n)) => /\ ~node[n].is_initialized /\ ~node[n].inhibit
                                    /\ ~Scheduled(n)
              /\ Scheduled(n) => Fresh(n)

Outstanding(n) == Has(jobs, Load(n)) \/ Early(Load(n)) # {}

\* A node that has a load before its end is marked, or is about to be, and has
\* no driver yet; a driver that is not initialised has a load behind its end.
LoadInv(n) ==
    /\ Single(jobs, Load(n))
    /\ \A v, w \in Early(Load(n)) : v = w
    /\ Has(jobs, Load(n)) => Early(Load(n)) = {}
    /\ Outstanding(n) => node[n].is_loading \/ Marking(n)
    /\ Has(jobs, Load(n)) => node[n].driver_type = "NONE"
    /\ \A w \in Early(Load(n)) : worker[w].at # "end" => node[n].driver_type = "NONE"
    /\ node[n].driver_type # "NONE" /\ ~node[n].is_initialized =>
          \/ \E w \in Busy(Load(n)) : worker[w].at \in {"end", "forward"}
          \/ Has(done, Load(n))
    /\ ~setup.QuickLoads =>
          /\ node[n].is_loading => Outstanding(n)
          /\ Marking(n) => \/ Has(jobs, Load(n))
                           \/ \E w \in Early(Load(n)) : worker[w].at = "load"

LoadsInv == \A n \in Nodes : LoadInv(n)

Holding == {n \in Nodes : node[n].inhibit /\ node[n].is_initialized}

\* Once start-up is over, or about to be, nothing holds it up.
StartInv ==
    /\ n_syncs = 0 => master_state # "RUNNING"
    /\ n_syncs > 0 => master_state # "STARTUP"
    /\ master_state = "RUNNING" \/ StartForm(todo) => n_inhibited_starts = 0

\* The counters of start-up are exact.
CountInv ==
    /\ BootupsCounted
    /\ master_state = "STARTUP" => n_inhibited_starts = Cardinality(Holding)

TimerInv ==
    \A n \in Nodes :
        node[n].heartbeat_timer =>
            /\ n \in Guarded
            /\ node[n].ntimeouts <= n_timeouts_max
            /\ master_state = "STARTUP" => todo = <<RunStep>>

\* wait_for_bootup has returned, and on_bootup_done is still to come.
Waited == Has(done, Wait) \/ \E w \in Busy(Wait) : worker[w].at = "forward"

\* The timers of a node, where every driver initialises.
GuardedNode(n) ==
    /\ ~node[n].inhibit
    /\ node[n].is_initialized => node[n].driver_type # "NONE"
    /\ node[n].heartbeat_timer \/ node[n].ping_timer => node[n].is_initialized
    /\ node[n].ping_timer => n \in Guarded /\ ~node[n].is_heartbeat_supported
    /\ node[n].heartbeat_timer => node[n].is_heartbeat_supported \/ node[n].ping_timer
    /\ n \in Guarded /\ node[n].is_initialized =>
         node[n].heartbeat_timer \/ (n_syncs = 0 /\ todo # <<RunStep>>)

GuardInv ==
    Outcomes = {"ok"} =>
        /\ \A n \in Nodes : GuardedNode(n)
        /\ n_inhibited_starts = 0
        /\ StartForm(todo) \/ n_syncs > 0 => ~Occurs(Wait)
        /\ (StartForm(todo) \/ Waited) /\ master_state = "STARTUP" =>
              \A n \in Nodes : ~Occurs(Load(n))
        /\ StartForm(todo) => master_state = "STARTUP"
        /\ FaultsAtStop

NodesInv ==
    /\ setup \in Setups /\ TypeOK /\ JobsInv /\ TodoInv
    /\ BootInv /\ LoadsInv /\ StartInv /\ TimerInv /\ GuardInv

Inv == NodesInv /\ CountInv

-----------------------------------------------------------------------------
(* Queues. *)

\* What is in a queue that a job is appended to.
LEMMA Appended ==
    ASSUME NEW s \in Seq(AnyJob), NEW y \in AnyJob
    PROVE  /\ Append(s, y) \in Seq(AnyJob)
           /\ \A x : /\ Has(Append(s, y), x) <=> Has(s, x) \/ x = y
                     /\ Single(s, x) /\ (x = y => ~Has(s, x)) => Single(Append(s, y), x)
  BY SMT DEF Has, Single

\* What is in a queue that a job is taken from.
LEMMA Popped ==
    ASSUME NEW s \in Seq(AnyJob), s # <<>>
    PROVE  /\ Head(s) \in AnyJob /\ Tail(s) \in Seq(AnyJob)
           /\ \A x : /\ Has(s, x) <=> x = Head(s) \/ Has(Tail(s), x)
                     /\ Single(s, x) => /\ Single(Tail(s), x)
                                        /\ x = Head(s) => ~Has(Tail(s), x)
  <1>1. Head(s) \in AnyJob /\ Tail(s) \in Seq(AnyJob)
    BY SMT
  <1>2. ASSUME NEW x PROVE Has(s, x) <=> x = Head(s) \/ Has(Tail(s), x)
    <2>1. ASSUME NEW i \in DOMAIN s, s[i] = x PROVE x = Head(s) \/ Has(Tail(s), x)
      <3>1. CASE i = 1
        BY <2>1, <3>1, SMT
      <3>2. CASE i # 1
        <4>1. i - 1 \in DOMAIN Tail(s) /\ Tail(s)[i - 1] = x
          BY <2>1, <3>2, SMT
        <4> QED BY <4>1 DEF Has
      <3> QED BY <3>1, <3>2
    <2>2. ASSUME NEW i \in DOMAIN Tail(s), Tail(s)[i] = x PROVE Has(s, x)
      <3>1. i + 1 \in DOMAIN s /\ s[i + 1] = x
        BY <2>2, SMT
      <3> QED BY <3>1 DEF Has
    <2>3. x = Head(s) => Has(s, x)
      <3>1. 1 \in DOMAIN s /\ s[1] = Head(s)
        BY SMT
      <3> QED BY <3>1 DEF Has
    <2> QED BY <2>1, <2>2, <2>3 DEF Has
  <1>3. ASSUME NEW x, Single(s, x)
        PROVE  Single(Tail(s), x) /\ (x = Head(s) => ~Has(Tail(s), x))
    <2>1. ASSUME NEW i \in DOMAIN Tail(s) PROVE i + 1 \in DOMAIN s /\ s[i + 1] = Tail(s)[i] /\ i \in Nat
      BY SMT
    <2>2. Single(Tail(s), x)
      <3> SUFFICES ASSUME NEW i \in DOMAIN Tail(s), NEW j \in DOMAIN Tail(s),
                          Tail(s)[i] = x, Tail(s)[j] = x
                   PROVE  i = j
        BY DEF Single
      <3>1. i + 1 = j + 1
        BY <1>3, <2>1 DEF Single
      <3> QED BY <2>1, <3>1, SMT
    <2>3. ASSUME x = Head(s), Has(Tail(s), x) PROVE FALSE
      <3>1. PICK i \in DOMAIN Tail(s) : Tail(s)[i] = x
        BY <2>3 DEF Has
      <3>2. 1 \in DOMAIN s /\ s[1] = x
        BY <2>3, SMT
      <3>3. i + 1 = 1
        BY <1>3, <2>1, <3>1, <3>2 DEF Single
      <3> QED BY <2>1, <3>3, SMT
    <2> QED BY <2>2, <2>3
  <1> QED BY <1>1, <1>2, <1>3

-----------------------------------------------------------------------------
(* Handlers. *)

\* The forms of what remains, by its first step.
LEMMA Forms ==
    ASSUME TodoInv, todo # <<>>
    PROVE  /\ Head(todo).do = "schedule" =>
                \E S \in NonEmpty :
                   \/ master_state = "STARTUP" /\ todo = <<ScheduleStep(S), WaitStep>>
                   \/ master_state = "RUNNING" /\ todo = <<ScheduleStep(S)>>
           /\ Head(todo).do = "set_loading" =>
                \E n \in Nodes :
                   \/ /\ master_state = "STARTUP"
                      /\ \/ todo = <<SetLoadingStep(n), WaitStep>>
                         \/ \E S \in NonEmpty :
                               todo = <<SetLoadingStep(n), ScheduleStep(S), WaitStep>>
                   \/ /\ master_state = "RUNNING"
                      /\ \/ todo = <<SetLoadingStep(n)>>
                         \/ \E S \in NonEmpty : todo = <<SetLoadingStep(n), ScheduleStep(S)>>
           /\ Head(todo).do = "wait" => master_state = "STARTUP" /\ todo = <<WaitStep>>
           /\ Head(todo).do = "start" => master_state # "STOPPING" /\ todo = start_all_nodes
           /\ Head(todo).do = "guard" =>
                master_state # "STOPPING" /\ todo = <<Do("guard", {}), RunStep>>
           /\ Head(todo).do = "running" => master_state # "STOPPING" /\ todo = <<RunStep>>
           /\ Head(todo).do = "unload" =>
                master_state = "STOPPING" /\ \E S \in NonEmpty : todo = <<Do("unload", S)>>
  <1> USE DEF ScheduleStep, SetLoadingStep, WaitStep, RunStep, Do
  <1>1. CASE BootForm(todo) /\ master_state = "STARTUP"
    BY <1>1, SMT DEF BootForm
  <1>2. CASE LoadForm(todo) /\ master_state = "RUNNING"
    BY <1>2, SMT DEF LoadForm
  <1>3. CASE StartForm(todo) /\ master_state # "STOPPING"
    BY <1>3, SMT DEF StartForm, start_all_nodes
  <1>4. CASE StopForm(todo) /\ master_state = "STOPPING"
    BY <1>4, SMT DEF StopForm
  <1> QED BY <1>1, <1>2, <1>3, <1>4 DEF TodoInv

\* Short sequences are joined to what one would write.
LEMMA JoinTwo ==
    ASSUME NEW a, NEW b
    PROVE  <<a>> \o <<b>> = <<a, b>>
  <1> DEFINE s == <<a>> \o <<b>>
             t == <<a, b>>
  <1>1. s \in Seq({a, b}) /\ Len(s) = 2 /\ s[1] = a /\ s[2] = b
    BY SMT
  <1>2. t \in Seq({a, b}) /\ Len(t) = 2 /\ t[1] = a /\ t[2] = b
    BY SMT
  <1> HIDE DEF s, t
  <1>3. s \in [1..2 -> {a, b}] /\ t \in [1..2 -> {a, b}]
    BY <1>1, <1>2, SMT
  <1>4. \A i \in 1..2 : s[i] = t[i]
    BY <1>1, <1>2, SMT
  <1>5. s = t
    BY <1>3, <1>4, SMT
  <1> QED BY <1>5 DEF s, t

LEMMA JoinThree ==
    ASSUME NEW a, NEW b, NEW c
    PROVE  <<a>> \o <<b, c>> = <<a, b, c>>
  <1> DEFINE s == <<a>> \o <<b, c>>
             t == <<a, b, c>>
  <1>1. s \in Seq({a, b, c}) /\ Len(s) = 3 /\ s[1] = a /\ s[2] = b /\ s[3] = c
    BY SMT
  <1>2. t \in Seq({a, b, c}) /\ Len(t) = 3 /\ t[1] = a /\ t[2] = b /\ t[3] = c
    BY SMT
  <1> HIDE DEF s, t
  <1>3. s \in [1..3 -> {a, b, c}] /\ t \in [1..3 -> {a, b, c}]
    BY <1>1, <1>2, SMT
  <1>4. \A i \in 1..3 : s[i] = t[i]
    BY <1>1, <1>2, SMT
  <1>5. s = t
    BY <1>3, <1>4, SMT
  <1> QED BY <1>5 DEF s, t

\* What remains once a node of the last loop of a handler has been seen to.
LEMMA OnwardLast ==
    ASSUME FirstIsIn, NEW S \in NonEmpty, NEW what, todo = <<Do(what, S)>>
    PROVE  /\ NodeToDo \in S /\ NodeToDo \in Nodes
           /\ \/ S \ {NodeToDo} = {} /\ Onward = <<>>
              \/ S \ {NodeToDo} \in NonEmpty /\ Onward = <<Do(what, S \ {NodeToDo})>>
  <1>1. Head(todo) = Do(what, S) /\ Tail(todo) = <<>>
    BY SMT
  <1>2. NodeToDo = First(S) /\ Head(todo).do = what /\ Head(todo).nodes = S
    BY <1>1, SMT DEF NodeToDo, Do
  <1>3. Onward = ForEach(what, S \ {NodeToDo}) \o <<>>
    BY <1>1, <1>2 DEF Onward
  <1>4. S \ {NodeToDo} \in SUBSET Nodes
    BY DEF NonEmpty
  <1> QED BY <1>2, <1>3, <1>4, SMT DEF ForEach, NonEmpty, FirstIsIn

\* What remains once a node of the loop of run_bootup has been seen to.
LEMMA OnwardBoot ==
    ASSUME FirstIsIn, NEW S \in NonEmpty, todo = <<ScheduleStep(S), WaitStep>>
    PROVE  /\ NodeToDo \in S /\ NodeToDo \in Nodes
           /\ \/ S \ {NodeToDo} = {} /\ Onward = <<WaitStep>>
              \/ /\ S \ {NodeToDo} \in NonEmpty
                 /\ Onward = <<ScheduleStep(S \ {NodeToDo}), WaitStep>>
  <1>1. Head(todo) = ScheduleStep(S) /\ Tail(todo) = <<WaitStep>>
    BY SMT
  <1>2. NodeToDo = First(S) /\ Head(todo).do = "schedule" /\ Head(todo).nodes = S
    BY <1>1, SMT DEF NodeToDo, Do, ScheduleStep
  <1>3. Onward = ForEach("schedule", S \ {NodeToDo}) \o <<WaitStep>>
    BY <1>1, <1>2 DEF Onward
  <1>4. S \ {NodeToDo} \in SUBSET Nodes
    BY DEF NonEmpty
  <1>5. CASE S \ {NodeToDo} = {}
    BY <1>2, <1>3, <1>5, SMT DEF ForEach, FirstIsIn, NonEmpty
  <1>6. CASE S \ {NodeToDo} # {}
    BY <1>2, <1>3, <1>4, <1>6, JoinTwo DEF ForEach, NonEmpty, ScheduleStep, FirstIsIn
  <1> QED BY <1>5, <1>6

-----------------------------------------------------------------------------
(* Nodes. *)

\* The fields of a node that guarding is started for.
LEMMA Guarding ==
    ASSUME setup \in Setups, NEW n \in Nodes, NEW o \in Node
    PROVE  LET g == start_nodeguarding(n, o) IN
           /\ g \in Node
           /\ g.driver_type = o.driver_type /\ g.is_initialized = o.is_initialized
           /\ g.is_loading = o.is_loading /\ g.inhibit = o.inhibit
           /\ g.is_heartbeat_supported = o.is_heartbeat_supported
           /\ n \notin Guarded => g = o
           /\ n \in Guarded => /\ g.heartbeat_timer /\ g.ntimeouts = 0
                               /\ g.ping_timer <=> o.ping_timer \/ ~o.is_heartbeat_supported
  <1>1. n_timeouts_max \in Nat
    BY MasterAssumption DEF Setup, n_timeouts_max
  <1>2. CASE n \notin Guarded
    BY <1>2 DEF start_nodeguarding
  <1>3. CASE n \in Guarded
    <2>1. start_nodeguarding(n, o) = [o EXCEPT !.ping_timer = @ \/ ~o.is_heartbeat_supported,
                                               !.heartbeat_timer = TRUE, !.ntimeouts = 0]
      BY <1>3 DEF start_nodeguarding
    <2>2. 0 \in 0..n_timeouts_max + 1
      BY <1>1, SMT
    <2> QED BY <1>3, <2>1, <2>2, ZenonT(30) DEF Node
  <1> QED BY <1>2, <1>3

\* The fields of a node whose driver is unloaded.
LEMMA Unloading ==
    ASSUME setup \in Setups, NEW n \in Nodes, NEW o \in Node
    PROVE  LET u == unload_driver(n, o) IN
           /\ u \in Node
           /\ u.driver_type = "NONE" /\ ~u.is_initialized /\ ~u.inhibit
           /\ u.is_loading = o.is_loading /\ ~u.is_heartbeat_supported
           /\ u.ntimeouts = o.ntimeouts
           /\ n \notin Guarded => /\ u.heartbeat_timer = o.heartbeat_timer
                                  /\ u.ping_timer = o.ping_timer
           /\ n \in Guarded => /\ ~u.heartbeat_timer
                               /\ u.ping_timer <=> o.ping_timer /\ o.is_heartbeat_supported
  <1>1. CASE n \notin Guarded
    BY <1>1 DEF unload_driver, stop_node_guarding, Node
  <1>2. CASE n \in Guarded
    BY <1>2, ZenonT(30) DEF unload_driver, stop_node_guarding, Node
  <1> QED BY <1>1, <1>2

-----------------------------------------------------------------------------
(* Steps of the workers. *)

\* What a worker does to a node leaves its timers alone.
NodeByWorker(n) ==
    /\ node'[n].is_initialized = node[n].is_initialized
    /\ node'[n].inhibit = node[n].inhibit
    /\ node'[n].heartbeat_timer = node[n].heartbeat_timer
    /\ node'[n].ping_timer = node[n].ping_timer
    /\ node'[n].ntimeouts = node[n].ntimeouts
    /\ \/ node'[n].driver_type = node[n].driver_type
       \/ node'[n].driver_type # "NONE" /\ Occurs(Load(n))
    /\ \/ node'[n].is_heartbeat_supported = node[n].is_heartbeat_supported
       \/ node[n].driver_type = "NONE"

\* Of what no worker changes, all is kept.
LEMMA WorkerKeeps ==
    ASSUME NodesInv, fault = "none",
           UNCHANGED <<todo, master_state, mux, n_inhibited_starts, n_syncs, setup, fault>>,
           \A x : Occurs(x)' <=> Occurs(x), \A x : Once(x) => Once(x)',
           \A n \in Nodes : NodeByWorker(n),
           Waited' => Waited \/ \A n \in Nodes : ~Occurs(Load(n))
    PROVE  setup' \in Setups /\ (TodoInv /\ BootInv /\ StartInv /\ TimerInv /\ GuardInv)'
  <1>1. setup' \in Setups
    BY DEF NodesInv
  <1>2. TodoInv'
    BY DEF NodesInv, TodoInv
  <1>3. BootInv'
    <2>1. \A n \in Nodes : (Scheduled(n)' <=> Scheduled(n)) /\ (Fresh(n) /\ ~Occurs(Load(n)) => Fresh(n)')
      BY DEF Scheduled, Fresh, NodeByWorker
    <2>2. \A n \in Nodes : /\ node'[n].is_initialized = node[n].is_initialized
                           /\ node'[n].inhibit = node[n].inhibit
      BY DEF NodeByWorker
    <2> QED BY <2>1, <2>2 DEF NodesInv, BootInv
  <1>4. StartInv'
    BY DEF NodesInv, StartInv
  <1>5. TimerInv'
    BY DEF NodesInv, TimerInv, NodeByWorker, Guarded, n_timeouts_max
  <1>6. GuardInv'
    <2>1. Outcomes' = Outcomes /\ (StartForm(todo)' <=> StartForm(todo)) /\ (FaultsAtStop')
      BY DEF Outcomes, FaultsAtStop
    <2>2. ASSUME NEW n \in Nodes, GuardedNode(n) PROVE GuardedNode(n)'
      BY <2>2 DEF GuardedNode, NodeByWorker, Guarded
    <2> QED BY <2>1, <2>2 DEF NodesInv, GuardInv
  <1> QED BY <1>1, <1>2, <1>3, <1>4, <1>5, <1>6

\* A worker goes on with its job: the job is where it was.
LEMMA GoingOn ==
    ASSUME NodesInv, NEW w \in Workers, NEW at, Goto(w, at), UNCHANGED <<jobs, done>>,
           worker[w].at # "idle", at \in BeforeEnd \union {"forward"},
           at = "forward" \/ worker[w].at \in BeforeEnd
    PROVE  /\ \A x : Occurs(x)' <=> Occurs(x)
           /\ \A x : Once(x) => Once(x)'
           /\ \A v \in Workers : v # w => worker'[v] = worker[v]
           /\ worker'[w].at = at /\ worker'[w].job = worker[w].job
           /\ \A x : Busy(x)' = Busy(x)
           /\ JobsInv'
           /\ worker' \in [Workers -> WorkerRecord]
  <1>0. worker \in [Workers -> WorkerRecord]
    BY DEF NodesInv, TypeOK
  <1>1. /\ \A v \in Workers : v # w => worker'[v] = worker[v]
        /\ worker'[w].at = at /\ worker'[w].job = worker[w].job
    BY <1>0, SMT DEF Goto
  <1>2. worker' \in [Workers -> WorkerRecord]
    BY <1>0 DEF Goto, WorkerRecord
  <1>3. ASSUME NEW x PROVE Busy(x)' = Busy(x)
    <2>1. at # "idle"
      BY DEF BeforeEnd
    <2> QED BY <1>1, <2>1 DEF Busy
  <1>4. ASSUME NEW x PROVE (Occurs(x)' <=> Occurs(x)) /\ (Once(x) => Once(x)')
    BY <1>3 DEF Occurs, Once
  <1>5. JobsInv'
    <2>1. ASSUME NEW v \in Workers
          PROVE  /\ worker'[v].job \in AnyJob
                 /\ worker'[v].at \in {"idle", "wait"} => worker'[v].job = Wait
                 /\ worker'[v].at = "probe" => worker'[v].job = Probe
                 /\ worker'[v].at \in BeforeEnd => \E n \in Nodes : worker'[v].job = Load(n)
      <3>1. CASE v = w
        BY <1>1, <3>1 DEF NodesInv, JobsInv, BeforeEnd
      <3>2. CASE v # w
        BY <1>1, <3>2 DEF NodesInv, JobsInv
      <3> QED BY <3>1, <3>2
    <2> QED BY <2>1 DEF NodesInv, JobsInv
  <1> QED BY <1>1, <1>2, <1>3, <1>4, <1>5

\* The set of nodes as declared depends on the setup alone.
LEMMA SameNode ==
    ASSUME setup' = setup
    PROVE  Node' = Node /\ Guarded' = Guarded /\ n_timeouts_max' = n_timeouts_max
           /\ Outcomes' = Outcomes
  BY DEF Node, n_timeouts_max, Guarded, Outcomes

\* The loads of a node that a step does not touch.
LEMMA LoadKeeps ==
    ASSUME NEW n \in Nodes, LoadInv(n), setup' = setup, Marking(n)' <=> Marking(n),
           Has(jobs, Load(n))' <=> Has(jobs, Load(n)), Single(jobs, Load(n)) => Single(jobs, Load(n))',
           Has(done, Load(n)) => Has(done, Load(n))',
           \A v \in Workers : worker[v].job = Load(n) \/ worker'[v].job = Load(n)
                                  => worker'[v] = worker[v],
           node'[n].driver_type = node[n].driver_type,
           node'[n].is_initialized = node[n].is_initialized,
           node'[n].is_loading = node[n].is_loading
    PROVE  LoadInv(n)'
  <1>1. Early(Load(n))' = Early(Load(n)) /\ Busy(Load(n))' = Busy(Load(n))
    BY DEF Early, Busy
  <1>2. \A v \in Early(Load(n)) \union Busy(Load(n)) : worker'[v] = worker[v]
    BY DEF Early, Busy
  <1> QED BY <1>1, <1>2 DEF LoadInv, Outstanding

\* The nodes that answer the probe are found.
LEMMA ProbeStep ==
    ASSUME NodesInv, NEW w \in Workers, Within(run_net_probe(w))
    PROVE  NodesInv'
  <1>0. setup \in Setups /\ TypeOK /\ JobsInv /\ LoadsInv
    BY DEF NodesInv
  <1>1. /\ Goto(w, "forward") /\ worker[w].at = "probe" /\ fault = "none"
        /\ UNCHANGED <<node, nmt, master_state, n_scheduled_bootups, n_inhibited_starts,
                       nodes_seen_late, n_syncs, mux, bootups, jobs, done, todo, fault, setup>>
        /\ nodes_seen' \subseteq setup.Present
    BY DEF Within, run_net_probe, Working
  <1>2. setup.Present \subseteq Nodes
    BY <1>0, MasterAssumption DEF Setup
  <1>3. /\ \A x : Occurs(x)' <=> Occurs(x)
        /\ \A x : Once(x) => Once(x)'
        /\ \A v \in Workers : v # w => worker'[v] = worker[v]
        /\ worker'[w].at = "forward" /\ worker'[w].job = worker[w].job
        /\ JobsInv'
        /\ worker' \in [Workers -> WorkerRecord]
    BY <1>1, GoingOn
  <1>4. TypeOK'
    BY <1>0, <1>1, <1>2, <1>3, SameNode DEF TypeOK
  <1>5. worker[w].job = Probe
    BY <1>0, <1>1 DEF JobsInv
  <1>6. Waited' => Waited
    BY <1>1, <1>3, <1>5, SMT DEF Waited, Busy, Probe, Wait, Job
  <1>7. \A n \in Nodes : NodeByWorker(n)
    BY <1>1 DEF NodeByWorker
  <1>8. LoadsInv'
    <2> SUFFICES ASSUME NEW n \in Nodes PROVE LoadInv(n)'
      BY DEF LoadsInv
    <2>1. LoadInv(n) /\ (Marking(n)' <=> Marking(n))
      BY <1>0, <1>1 DEF LoadsInv, Marking
    <2>2. Probe # Load(n)
      BY DEF Probe, Load, Job
    <2> QED BY <1>1, <1>3, <1>5, <2>1, <2>2, LoadKeeps
  <1> QED BY <1>1, <1>3, <1>4, <1>6, <1>7, <1>8, WorkerKeeps DEF NodesInv
\* A load goes on: what remains to be seen is what becomes of its node.
LEMMA LoadGoesOn ==
    ASSUME NodesInv, NEW w \in Workers, NEW n \in Nodes, NEW at,
           fault = "none", worker[w].at \in BeforeEnd, worker[w].job = Load(n), Goto(w, at),
           at \in BeforeEnd \union {"forward"},
           UNCHANGED <<master, jobs, done, todo, fault, setup>>,
           node' \in [Nodes -> Node], \A m \in Nodes \ {n} : node'[m] = node[m],
           nmt' \in [Nodes -> NmtCommand],
           NodeByWorker(n), LoadInv(n)'
    PROVE  NodesInv'
  <1>0. setup \in Setups /\ TypeOK /\ JobsInv /\ LoadsInv
    BY DEF NodesInv
  <1>1. worker[w].at # "idle" /\ UNCHANGED <<jobs, done>>
    BY DEF BeforeEnd
  <1>3. /\ \A x : Occurs(x)' <=> Occurs(x)
        /\ \A x : Once(x) => Once(x)'
        /\ \A v \in Workers : v # w => worker'[v] = worker[v]
        /\ worker'[w].at = at /\ worker'[w].job = worker[w].job
        /\ JobsInv'
        /\ worker' \in [Workers -> WorkerRecord]
    BY <1>1, GoingOn
  <1>4. TypeOK'
    BY <1>0, <1>3, SameNode DEF TypeOK, master
  <1>6. Waited' => Waited
    BY <1>3, SMT DEF Waited, Busy, Load, Wait, Job
  <1>7. \A m \in Nodes : NodeByWorker(m)
    BY DEF NodeByWorker
  <1>8. LoadsInv'
    <2> SUFFICES ASSUME NEW m \in Nodes, m # n PROVE LoadInv(m)'
      BY DEF LoadsInv
    <2>1. LoadInv(m) /\ (Marking(m)' <=> Marking(m))
      BY <1>0 DEF LoadsInv, Marking
    <2>2. Load(n) # Load(m)
      BY DEF Load, Job
    <2> QED BY <1>3, <2>1, <2>2, LoadKeeps
  <1>9. UNCHANGED <<todo, master_state, mux, n_inhibited_starts, n_syncs, setup, fault>>
    BY DEF master
  <1> QED BY <1>3, <1>4, <1>6, <1>7, <1>8, <1>9, WorkerKeeps DEF NodesInv

\* The node of a load before its end, which no other worker has.
LEMMA LoadOf ==
    ASSUME NodesInv, NEW w \in Workers, worker[w].at \in BeforeEnd
    PROVE  \E n \in Nodes :
              /\ worker[w].job = Load(n) /\ worker[w].job.node = n
              /\ ~Has(jobs, Load(n)) /\ Early(Load(n)) = {w}
              /\ node[n].is_loading \/ Marking(n)
              /\ worker[w].at # "end" => node[n].driver_type = "NONE"
              /\ Occurs(Load(n)) /\ LoadInv(n) /\ node[n] \in Node
  <1>1. PICK n \in Nodes : worker[w].job = Load(n)
    BY DEF NodesInv, JobsInv
  <1>2. w \in Early(Load(n)) /\ w \in Busy(Load(n)) /\ worker[w].job.node = n
    BY <1>1, SMT DEF Early, Busy, BeforeEnd, Load, Job
  <1>3. LoadInv(n) /\ node[n] \in Node
    BY DEF NodesInv, LoadsInv, TypeOK
  <1> QED BY <1>1, <1>2, <1>3, SMT DEF LoadInv, Outstanding, Occurs

\* The load finds the node, or ends.
LEMMA IdentifyStep ==
    ASSUME NodesInv, NEW w \in Workers, Within(LoadIdentify(w))
    PROVE  NodesInv'
  <1>1. /\ worker[w].at = "load" /\ fault = "none"
        /\ UNCHANGED <<node, nmt, master, jobs, done, todo, fault, setup>>
    BY DEF Within, LoadIdentify, Working
  <1>2. worker[w].at \in BeforeEnd
    BY <1>1 DEF BeforeEnd
  <1>3. PICK n \in Nodes : /\ worker[w].job = Load(n) /\ worker[w].job.node = n
                           /\ ~Has(jobs, Load(n)) /\ Early(Load(n)) = {w}
                           /\ node[n].is_loading \/ Marking(n)
                           /\ worker[w].at # "end" => node[n].driver_type = "NONE"
                           /\ Occurs(Load(n)) /\ LoadInv(n) /\ node[n] \in Node
    BY <1>2, LoadOf
  <1>4. PICK at \in {"heartbeat", "end"} : Goto(w, at)
    BY DEF Within, LoadIdentify
  <1>5. ~Marking(n) \/ setup.QuickLoads
    <2>1. todo = <<>> \/ setup.QuickLoads
      BY <1>1, <1>3 DEF Within, LoadIdentify, Transaction
    <2> QED BY <2>1 DEF Marking
  <1>6. LoadInv(n)'
    <2>1. /\ \A v \in Workers : v # w => worker'[v] = worker[v]
          /\ worker'[w].at = at /\ worker'[w].job = worker[w].job
      BY <1>4, SMT DEF Goto, NodesInv, TypeOK
    <2>2. Early(Load(n))' = {w} /\ Busy(Load(n))' = Busy(Load(n))
      BY <1>1, <1>3, <1>4, <2>1, SMT DEF Early, Busy, BeforeEnd
    <2>3. \A v \in Busy(Load(n)) : worker[v].at \in {"end", "forward"} => worker'[v] = worker[v]
      BY <1>1, <2>1 DEF Busy
    <2>4. Marking(n)' <=> Marking(n)
      BY <1>1 DEF Marking
    <2> QED BY <1>1, <1>3, <1>5, <2>1, <2>2, <2>3, <2>4 DEF LoadInv, Outstanding
  <1>7. NodeByWorker(n) /\ UNCHANGED node
    BY <1>1 DEF NodeByWorker
  <1>8. at \in BeforeEnd \union {"forward"}
    BY DEF BeforeEnd
  <1>9. TypeOK
    BY DEF NodesInv
  <1> QED BY <1>1, <1>2, <1>3, <1>4, <1>6, <1>7, <1>8, <1>9, LoadGoesOn DEF TypeOK

\* The workers that a load has when its worker goes on within the load.
LEMMA StillEarly ==
    ASSUME NodesInv, NEW w \in Workers, NEW n \in Nodes, NEW at \in BeforeEnd,
           worker[w].at \in BeforeEnd, worker[w].job = Load(n), Goto(w, at)
    PROVE  /\ \A v \in Workers : v # w => worker'[v] = worker[v]
           /\ worker'[w].at = at /\ worker'[w].job = worker[w].job
           /\ Early(Load(n))' = Early(Load(n)) /\ Busy(Load(n))' = Busy(Load(n))
  <1>1. /\ \A v \in Workers : v # w => worker'[v] = worker[v]
        /\ worker'[w].at = at /\ worker'[w].job = worker[w].job
    BY SMT DEF Goto, NodesInv, TypeOK
  <1> QED BY <1>1 DEF Early, Busy, BeforeEnd

\* The node takes a heartbeat period or not.
LEMMA HeartbeatStep ==
    ASSUME NodesInv, NEW w \in Workers, Within(LoadHeartbeat(w))
    PROVE  NodesInv'
  <1>1. /\ worker[w].at = "heartbeat" /\ fault = "none" /\ Goto(w, "driver")
        /\ UNCHANGED <<nmt, master, jobs, done, todo, fault, setup>>
        /\ todo = <<>>
    BY DEF Within, LoadHeartbeat, Working, Transaction
  <1>2. worker[w].at \in BeforeEnd /\ "driver" \in BeforeEnd
    BY <1>1 DEF BeforeEnd
  <1>3. PICK n \in Nodes : /\ worker[w].job = Load(n) /\ worker[w].job.node = n
                           /\ ~Has(jobs, Load(n)) /\ Early(Load(n)) = {w}
                           /\ node[n].is_loading \/ Marking(n)
                           /\ worker[w].at # "end" => node[n].driver_type = "NONE"
                           /\ Occurs(Load(n)) /\ LoadInv(n) /\ node[n] \in Node
    BY <1>2, LoadOf
  <1>4. TypeOK
    BY DEF NodesInv
  <1>5. PICK supported \in BOOLEAN :
            node' = [node EXCEPT ![n].is_heartbeat_supported = supported]
    <2>1. PICK s \in BOOLEAN : node' = [node EXCEPT ![n].is_heartbeat_supported =
                                          IF n \in Guarded THEN s ELSE @]
      BY <1>3 DEF Within, LoadHeartbeat
    <2>2. node[n].is_heartbeat_supported \in BOOLEAN
      BY <1>3 DEF Node
    <2> QED BY <2>1, <2>2
  <1>6. node' \in [Nodes -> Node] /\ \A m \in Nodes \ {n} : node'[m] = node[m]
    <2>1. [node[n] EXCEPT !.is_heartbeat_supported = supported] \in Node
      BY <1>3 DEF Node
    <2> QED BY <1>4, <1>5, <2>1 DEF TypeOK
  <1>7. /\ node'[n].driver_type = node[n].driver_type
        /\ node'[n].is_initialized = node[n].is_initialized
        /\ node'[n].is_loading = node[n].is_loading
        /\ NodeByWorker(n)
    BY <1>1, <1>3, <1>4, <1>5 DEF TypeOK, Node, NodeByWorker
  <1>8. LoadInv(n)'
    <2>1. /\ \A v \in Workers : v # w => worker'[v] = worker[v]
          /\ worker'[w].at = "driver"
          /\ Early(Load(n))' = Early(Load(n)) /\ Busy(Load(n))' = Busy(Load(n))
      BY <1>1, <1>2, <1>3, StillEarly
    <2>2. Marking(n)' <=> Marking(n)
      BY <1>1 DEF Marking
    <2>3. ~Marking(n)
      BY <1>1 DEF Marking
    <2> QED BY <1>1, <1>3, <1>7, <2>1, <2>2, <2>3, SMT DEF LoadInv, Outstanding
  <1> QED BY <1>1, <1>2, <1>3, <1>4, <1>6, <1>7, <1>8, LoadGoesOn DEF TypeOK

\* There is a driver for the node, or the node is told to stop.
LEMMA DriverStep ==
    ASSUME NodesInv, NEW w \in Workers, Within(LoadDriver(w))
    PROVE  NodesInv'
  <1>1. /\ worker[w].at = "driver" /\ fault = "none" /\ Goto(w, "end")
        /\ UNCHANGED <<master, jobs, done, todo, fault, setup>>
    BY DEF Within, LoadDriver, Working
  <1>2. worker[w].at \in BeforeEnd /\ "end" \in BeforeEnd
    BY <1>1 DEF BeforeEnd
  <1>3. PICK n \in Nodes : /\ worker[w].job = Load(n) /\ worker[w].job.node = n
                           /\ ~Has(jobs, Load(n)) /\ Early(Load(n)) = {w}
                           /\ node[n].is_loading \/ Marking(n)
                           /\ worker[w].at # "end" => node[n].driver_type = "NONE"
                           /\ Occurs(Load(n)) /\ LoadInv(n) /\ node[n] \in Node
    BY <1>2, LoadOf
  <1>4. TypeOK
    BY DEF NodesInv
  <1>5. PICK type \in {"NONE", "NEW"} : node' = [node EXCEPT ![n].driver_type = type]
    <2>1. node' = [node EXCEPT ![n].driver_type = "NEW"] \/ UNCHANGED node
      BY <1>3 DEF Within, LoadDriver
    <2>2. node = [node EXCEPT ![n].driver_type = node[n].driver_type]
      BY <1>4 DEF TypeOK, Node
    <2> QED BY <1>1, <1>3, <2>1, <2>2
  <1>6. nmt' \in [Nodes -> NmtCommand]
    BY <1>4 DEF TypeOK, Within, LoadDriver, NmtCommand
  <1>7. node' \in [Nodes -> Node] /\ \A m \in Nodes \ {n} : node'[m] = node[m]
    <2>1. [node[n] EXCEPT !.driver_type = type] \in Node
      BY <1>3 DEF Node
    <2> QED BY <1>4, <1>5, <2>1 DEF TypeOK
  <1>8. /\ node'[n].is_initialized = node[n].is_initialized
        /\ node'[n].is_loading = node[n].is_loading
        /\ NodeByWorker(n)
    BY <1>1, <1>3, <1>4, <1>5 DEF TypeOK, Node, NodeByWorker
  <1>9. LoadInv(n)'
    <2>1. /\ \A v \in Workers : v # w => worker'[v] = worker[v]
          /\ worker'[w].at = "end"
          /\ Early(Load(n))' = Early(Load(n)) /\ Busy(Load(n))' = Busy(Load(n))
      BY <1>1, <1>2, <1>3, StillEarly
    <2>2. Marking(n)' <=> Marking(n)
      BY <1>1 DEF Marking
    <2>3. w \in Busy(Load(n))
      BY <1>1, <1>3 DEF Busy
    <2> QED BY <1>1, <1>3, <1>8, <2>1, <2>2, <2>3, SMT DEF LoadInv, Outstanding
  <1> QED BY <1>1, <1>2, <1>3, <1>6, <1>7, <1>8, <1>9, LoadGoesOn

\* The load is over, and its mark is taken away.
LEMMA EndStep ==
    ASSUME NodesInv, NEW w \in Workers, Within(LoadEnd(w))
    PROVE  NodesInv'
  <1>1. /\ worker[w].at = "end" /\ fault = "none" /\ Goto(w, "forward")
        /\ UNCHANGED <<nmt, master, jobs, done, todo, fault, setup>>
    BY DEF Within, LoadEnd, Working
  <1>2. worker[w].at \in BeforeEnd
    BY <1>1 DEF BeforeEnd
  <1>3. PICK n \in Nodes : /\ worker[w].job = Load(n) /\ worker[w].job.node = n
                           /\ ~Has(jobs, Load(n)) /\ Early(Load(n)) = {w}
                           /\ node[n].is_loading \/ Marking(n)
                           /\ worker[w].at # "end" => node[n].driver_type = "NONE"
                           /\ Occurs(Load(n)) /\ LoadInv(n) /\ node[n] \in Node
    BY <1>2, LoadOf
  <1>4. TypeOK
    BY DEF NodesInv
  <1>5. node' = [node EXCEPT ![n].is_loading = FALSE]
    BY <1>3 DEF Within, LoadEnd
  <1>7. node' \in [Nodes -> Node] /\ \A m \in Nodes \ {n} : node'[m] = node[m]
    <2>1. [node[n] EXCEPT !.is_loading = FALSE] \in Node
      BY <1>3 DEF Node
    <2> QED BY <1>4, <1>5, <2>1 DEF TypeOK
  <1>8. /\ node'[n].is_initialized = node[n].is_initialized
        /\ node'[n].driver_type = node[n].driver_type
        /\ ~node'[n].is_loading
        /\ NodeByWorker(n)
    BY <1>1, <1>3, <1>4, <1>5 DEF TypeOK, Node, NodeByWorker
  <1>9. LoadInv(n)'
    <2>1. /\ \A v \in Workers : v # w => worker'[v] = worker[v]
          /\ worker'[w].at = "forward" /\ worker'[w].job = Load(n)
      BY <1>1, <1>3, <1>4, SMT DEF Goto, TypeOK
    <2>2. Early(Load(n))' = {} /\ w \in Busy(Load(n))'
      BY <1>3, <2>1, SMT DEF Early, Busy, BeforeEnd
    <2>3. ~setup.QuickLoads => ~Marking(n)
      BY <1>1, <1>3 DEF LoadInv
    <2>4. Marking(n)' <=> Marking(n)
      BY <1>1 DEF Marking
    <2> QED BY <1>1, <1>3, <1>8, <2>1, <2>2, <2>3, <2>4 DEF LoadInv, Outstanding
  <1> QED BY <1>1, <1>2, <1>3, <1>4, <1>7, <1>8, <1>9, LoadGoesOn DEF TypeOK

\* wait_for_bootup returns: the loads of start-up are over.
LEMMA WaitStepInv ==
    ASSUME NodesInv, NEW w \in Workers, Within(wait_for_bootup(w)),
           n_scheduled_bootups = 0 => \A n \in Nodes : ~Occurs(Load(n))
    PROVE  NodesInv'
  <1>0. setup \in Setups /\ TypeOK /\ JobsInv /\ LoadsInv
    BY DEF NodesInv
  <1>1. /\ Goto(w, "forward") /\ worker[w].at = "wait" /\ fault = "none"
        /\ n_scheduled_bootups = 0
        /\ UNCHANGED <<node, nmt, master, jobs, done, todo, fault, setup>>
    BY DEF Within, wait_for_bootup, Working
  <1>3. /\ \A x : Occurs(x)' <=> Occurs(x)
        /\ \A x : Once(x) => Once(x)'
        /\ \A v \in Workers : v # w => worker'[v] = worker[v]
        /\ worker'[w].at = "forward" /\ worker'[w].job = worker[w].job
        /\ JobsInv'
        /\ worker' \in [Workers -> WorkerRecord]
    BY <1>1, GoingOn
  <1>4. TypeOK'
    BY <1>0, <1>1, <1>3, SameNode DEF TypeOK, master
  <1>5. worker[w].job = Wait
    BY <1>0, <1>1 DEF JobsInv
  <1>6. \A n \in Nodes : ~Occurs(Load(n))
    BY <1>1
  <1>7. \A n \in Nodes : NodeByWorker(n)
    BY <1>1 DEF NodeByWorker
  <1>8. LoadsInv'
    <2> SUFFICES ASSUME NEW n \in Nodes PROVE LoadInv(n)'
      BY DEF LoadsInv
    <2>1. LoadInv(n) /\ (Marking(n)' <=> Marking(n))
      BY <1>0, <1>1 DEF LoadsInv, Marking
    <2>2. Wait # Load(n)
      BY DEF Wait, Load, Job
    <2> QED BY <1>1, <1>3, <1>5, <2>1, <2>2, LoadKeeps
  <1>9. UNCHANGED <<todo, master_state, mux, n_inhibited_starts, n_syncs, setup, fault>>
    BY <1>1 DEF master
  <1> QED BY <1>1, <1>3, <1>4, <1>6, <1>7, <1>8, <1>9, WorkerKeeps DEF NodesInv

\* A worker takes the next job.
LEMMA TakeStep ==
    ASSUME NodesInv, NEW w \in Workers, Within(mloop__worker_fn(w))
    PROVE  NodesInv'
  <1>0. setup \in Setups /\ TypeOK /\ JobsInv /\ LoadsInv
    BY DEF NodesInv
  <1> DEFINE x == Head(jobs)
  <1>1. /\ worker[w].at = "idle" /\ fault = "none" /\ jobs # <<>> /\ jobs' = Tail(jobs)
        /\ worker' = [worker EXCEPT ![w] = [at |-> x.fn, job |-> x]]
        /\ UNCHANGED <<node, nmt, master, done, todo, fault, setup>>
    BY DEF Within, mloop__worker_fn, Working
  <1>2. /\ x \in AnyJob /\ Tail(jobs) \in Seq(AnyJob)
        /\ \A y : /\ Has(jobs, y) <=> y = x \/ Has(jobs', y)
                  /\ Single(jobs, y) => /\ Single(jobs', y)
                                        /\ y = x => ~Has(jobs', y)
    BY <1>0, <1>1, Popped DEF JobsInv
  <1> HIDE DEF x
  <1>3. /\ \A v \in Workers : v # w => worker'[v] = worker[v]
        /\ worker'[w].at = x.fn /\ worker'[w].job = x
    BY <1>0, <1>1 DEF TypeOK
  <1>4. /\ x \in JobRecord /\ x.fn \in {"probe", "load", "wait"}
        /\ x.fn = "probe" => x = Probe
        /\ x.fn = "wait" => x = Wait
        /\ x.fn = "load" => \E n \in Nodes : x = Load(n)
    BY <1>2, SMT DEF AnyJob, JobRecord, Probe, Wait, Load, Job
  <1>5. ASSUME NEW y PROVE Busy(y)' = Busy(y) \union (IF y = x THEN {w} ELSE {}) /\ w \notin Busy(y)
    BY <1>1, <1>3, <1>4 DEF Busy
  <1>6. ASSUME NEW y PROVE (Occurs(y)' <=> Occurs(y)) /\ (Once(y) => Once(y)')
    <2>1. CASE y = x
      BY <1>1, <1>2, <1>5, <2>1 DEF Occurs, Once
    <2>2. CASE y # x
      BY <1>1, <1>2, <1>5, <2>2 DEF Occurs, Once
    <2> QED BY <2>1, <2>2
  <1>7. worker' \in [Workers -> WorkerRecord]
    BY <1>0, <1>1, <1>4 DEF TypeOK, BeforeEnd, WorkerRecord
  <1>8. JobsInv'
    <2> SUFFICES ASSUME NEW v \in Workers
          PROVE  /\ worker'[v].job \in AnyJob
                 /\ worker'[v].at \in {"idle", "wait"} => worker'[v].job = Wait
                 /\ worker'[v].at = "probe" => worker'[v].job = Probe
                 /\ worker'[v].at \in BeforeEnd => \E n \in Nodes : worker'[v].job = Load(n)
      BY <1>0, <1>1, <1>2 DEF JobsInv
    <2>1. CASE v = w
      BY <1>2, <1>3, <1>4, <2>1 DEF BeforeEnd
    <2>2. CASE v # w
      BY <1>0, <1>3, <2>2 DEF JobsInv
    <2> QED BY <2>1, <2>2
  <1>9. TypeOK'
    <2>1. jobs' \in Seq(JobRecord)
      BY <1>0, <1>1, SMT DEF TypeOK
    <2> QED BY <1>0, <1>1, <1>7, <2>1, SameNode DEF TypeOK, master
  <1>10. Waited' => Waited
    BY <1>1, <1>3, <1>4, SMT DEF Waited, Busy
  <1>11. \A n \in Nodes : NodeByWorker(n)
    BY <1>1 DEF NodeByWorker
  <1>12. LoadsInv'
    <2> SUFFICES ASSUME NEW n \in Nodes PROVE LoadInv(n)'
      BY DEF LoadsInv
    <2>1. LoadInv(n) /\ (Marking(n)' <=> Marking(n))
      BY <1>0, <1>1 DEF LoadsInv, Marking
    <2>2. CASE x # Load(n)
      <3>1. worker[w].job # Load(n)
        BY <1>0, <1>1, SMT DEF JobsInv, Wait, Load, Job
      <3> QED BY <1>1, <1>2, <1>3, <2>1, <2>2, <3>1, LoadKeeps
    <2>3. CASE x = Load(n)
      <3>1. Early(Load(n)) = {} /\ ~Has(jobs', Load(n)) /\ Has(jobs, Load(n))
        BY <1>2, <2>1, <2>3 DEF LoadInv
      <3>2. worker'[w].at = "load"
        BY <1>3, <2>3, SMT DEF Load, Job
      <3>3. Early(Load(n))' = {w} /\ Busy(Load(n)) \subseteq Busy(Load(n))'
        BY <1>3, <1>5, <2>3, <3>1, <3>2, SMT DEF Early, BeforeEnd
      <3>4. \A v \in Busy(Load(n)) : worker'[v] = worker[v]
        BY <1>3, <1>5 DEF Busy
      <3> QED BY <1>1, <1>2, <2>1, <3>1, <3>2, <3>3, <3>4 DEF LoadInv, Outstanding
    <2> QED BY <2>2, <2>3
  <1>13. UNCHANGED <<todo, master_state, mux, n_inhibited_starts, n_syncs, setup, fault>>
    BY <1>1 DEF master
  <1> QED BY <1>1, <1>6, <1>8, <1>9, <1>10, <1>11, <1>12, <1>13, WorkerKeeps DEF NodesInv

\* The result of a job goes to the main loop.
LEMMA ForwardStep ==
    ASSUME NodesInv, NEW w \in Workers, Within(mloop__forward_work(w))
    PROVE  NodesInv'
  <1>0. setup \in Setups /\ TypeOK /\ JobsInv /\ LoadsInv
    BY DEF NodesInv
  <1> DEFINE x == worker[w].job
  <1>1. /\ worker[w].at = "forward" /\ fault = "none" /\ done' = Append(done, x)
        /\ worker' = [worker EXCEPT ![w] = Idle]
        /\ UNCHANGED <<node, nmt, master, jobs, todo, fault, setup>>
    BY DEF Within, mloop__forward_work, Working
  <1>2. /\ x \in AnyJob /\ done' \in Seq(AnyJob)
        /\ \A y : /\ Has(done', y) <=> Has(done, y) \/ y = x
                  /\ Single(done, y) /\ (y = x => ~Has(done, y)) => Single(done', y)
    BY <1>0, <1>1, Appended, SMT DEF JobsInv
  <1>p. worker[w].job = x
    OBVIOUS
  <1>x. x \in JobRecord
    BY <1>0 DEF TypeOK, WorkerRecord
  <1> HIDE DEF x
  <1>3. /\ \A v \in Workers : v # w => worker'[v] = worker[v]
        /\ worker'[w].at = "idle" /\ worker'[w].job = Wait
    BY <1>0, <1>1 DEF TypeOK, Idle, Wait
  <1>5. ASSUME NEW y PROVE Busy(y)' = Busy(y) \ {w} /\ (w \in Busy(y) <=> y = x)
    BY <1>1, <1>3, <1>p DEF Busy
  <1>6. ASSUME NEW y PROVE (Occurs(y)' <=> Occurs(y)) /\ (Once(y) => Once(y)')
    <2>1. CASE y = x
      BY <1>1, <1>2, <1>5, <2>1 DEF Occurs, Once
    <2>2. CASE y # x
      BY <1>1, <1>2, <1>5, <2>2 DEF Occurs, Once
    <2> QED BY <2>1, <2>2
  <1>7. worker' \in [Workers -> WorkerRecord]
    BY <1>0, <1>1 DEF TypeOK, Idle, Job, JobRecord, WorkerRecord
  <1>8. JobsInv'
    <2> SUFFICES ASSUME NEW v \in Workers
          PROVE  /\ worker'[v].job \in AnyJob
                 /\ worker'[v].at \in {"idle", "wait"} => worker'[v].job = Wait
                 /\ worker'[v].at = "probe" => worker'[v].job = Probe
                 /\ worker'[v].at \in BeforeEnd => \E n \in Nodes : worker'[v].job = Load(n)
      BY <1>0, <1>1, <1>2 DEF JobsInv
    <2>1. CASE v = w
      BY <1>3, <2>1 DEF BeforeEnd, AnyJob
    <2>2. CASE v # w
      BY <1>0, <1>3, <2>2 DEF JobsInv
    <2> QED BY <2>1, <2>2
  <1>9. TypeOK'
    <2>1. done' \in Seq(JobRecord)
      BY <1>0, <1>1, <1>x, SMT DEF TypeOK
    <2> QED BY <1>0, <1>1, <1>7, <2>1, SameNode DEF TypeOK, master
  <1>10. Waited' => Waited
    <2>1. x = Wait => Waited
      BY <1>1, <1>5 DEF Waited
    <2> QED BY <1>1, <1>2, <1>3, <1>5, <2>1, SMT DEF Waited
  <1>11. \A n \in Nodes : NodeByWorker(n)
    BY <1>1 DEF NodeByWorker
  <1>12. LoadsInv'
    <2> SUFFICES ASSUME NEW n \in Nodes PROVE LoadInv(n)'
      BY DEF LoadsInv
    <2>1. LoadInv(n) /\ (Marking(n)' <=> Marking(n))
      BY <1>0, <1>1 DEF LoadsInv, Marking
    <2>2. CASE x # Load(n)
      <3>1. worker'[w].job # Load(n)
        BY <1>3, SMT DEF Wait, Load, Job
      <3> QED BY <1>1, <1>2, <1>3, <1>p, <2>1, <2>2, <3>1, LoadKeeps
    <2>3. CASE x = Load(n)
      <3>1. Early(Load(n))' = Early(Load(n)) /\ w \notin Early(Load(n))
        BY <1>1, <1>3 DEF Early, BeforeEnd
      <3>2. Has(done', Load(n))
        BY <1>2, <2>3
      <3>3. \A v \in Early(Load(n)) : worker'[v] = worker[v]
        BY <1>3, <3>1 DEF Early
      <3> QED BY <1>1, <2>1, <3>1, <3>2, <3>3 DEF LoadInv, Outstanding
    <2> QED BY <2>2, <2>3
  <1>13. UNCHANGED <<todo, master_state, mux, n_inhibited_starts, n_syncs, setup, fault>>
    BY <1>1 DEF master
  <1> QED BY <1>1, <1>6, <1>8, <1>9, <1>10, <1>11, <1>12, <1>13, WorkerKeeps DEF NodesInv

-----------------------------------------------------------------------------
(* Steps of the main thread. *)

\* The first step tells the handlers apart.
LEMMA Kinds ==
    /\ \A t : BootForm(t) => t # <<>> /\ Head(t).do \in {"wait", "schedule", "set_loading"}
    /\ \A t : LoadForm(t) => t # <<>> /\ Head(t).do \in {"schedule", "set_loading"}
    /\ \A t : StartForm(t) => t # <<>> /\ Head(t).do \in {"start", "guard", "running"}
    /\ \A t : StopForm(t) => t # <<>> /\ Head(t).do = "unload"
    /\ <<RunStep>> # <<>> /\ Head(<<RunStep>>).do = "running" /\ StartForm(<<RunStep>>)
    /\ ~BootForm(<<>>) /\ ~StartForm(<<>>)
  <1> USE DEF Do, SetLoadingStep, ScheduleStep, WaitStep, RunStep
  <1>1. ASSUME NEW t, BootForm(t) PROVE t # <<>> /\ Head(t).do \in {"wait", "schedule", "set_loading"}
    BY <1>1, SMT DEF BootForm
  <1>2. ASSUME NEW t, LoadForm(t) PROVE t # <<>> /\ Head(t).do \in {"schedule", "set_loading"}
    BY <1>2, SMT DEF LoadForm
  <1>3. ASSUME NEW t, StartForm(t) PROVE t # <<>> /\ Head(t).do \in {"start", "guard", "running"}
    BY <1>3, SMT DEF StartForm, start_all_nodes
  <1>4. ASSUME NEW t, StopForm(t) PROVE t # <<>> /\ Head(t).do = "unload"
    BY <1>4, SMT DEF StopForm
  <1>5. <<RunStep>> # <<>> /\ Head(<<RunStep>>).do = "running" /\ StartForm(<<RunStep>>)
    BY SMT DEF StartForm
  <1> QED BY <1>1, <1>2, <1>3, <1>4, <1>5

\* Only the step set_loading marks.
LEMMA MarkingIs ==
    ASSUME NEW n, Marking(n)
    PROVE  todo # <<>> /\ Head(todo).do = "set_loading" /\ Head(todo).nodes = {n}
  BY SMT DEF Marking, SetLoadingStep, Do

\* Jobs stay where they are while no thread moves one.
LEMMA Quiet ==
    ASSUME UNCHANGED threads
    PROVE  /\ \A x : (Occurs(x)' <=> Occurs(x)) /\ (Once(x)' <=> Once(x))
           /\ \A x : Busy(x)' = Busy(x) /\ Early(x)' = Early(x)
           /\ Waited' <=> Waited
           /\ JobsInv' <=> JobsInv
  <1>1. UNCHANGED <<jobs, worker, done>>
    BY DEF threads
  <1>2. \A x : Busy(x)' = Busy(x) /\ Early(x)' = Early(x)
    BY <1>1 DEF Busy, Early
  <1> QED BY <1>1, <1>2 DEF Occurs, Once, Waited, JobsInv

\* Start-up as a step finds it that schedules nothing.
LEMMA BootKeeps ==
    ASSUME NodesInv, \A x : (Occurs(x)' => Occurs(x)) /\ (Once(x) => Once(x)'), mux' = mux,
           BootForm(todo') => BootForm(todo),
           master_state' = "RUNNING" => mux,
           master_state' = "STARTUP" =>
              /\ master_state = "STARTUP"
              /\ ~mux => todo' = <<>>
              /\ \A n \in Nodes :
                   /\ Scheduled(n)' => Scheduled(n)
                   /\ Fresh(n) /\ ~Occurs(Load(n)) => Fresh(n)'
                   /\ Occurs(Load(n))' /\ ~node[n].is_initialized /\ ~node[n].inhibit
                         => ~node'[n].is_initialized /\ ~node'[n].inhibit
    PROVE  BootInv'
  <1>1. BootInv
    BY DEF NodesInv
  <1>2. CASE master_state' = "STARTUP"
    BY <1>1, <1>2 DEF BootInv
  <1>3. CASE master_state' # "STARTUP"
    BY <1>1, <1>3 DEF BootInv
  <1> QED BY <1>2, <1>3

NodeByMain(n) ==
    /\ node'[n].is_loading = node[n].is_loading
    /\ node'[n].driver_type # "NONE" => node[n].driver_type # "NONE"
    /\ node'[n].driver_type # "NONE" /\ ~node'[n].is_initialized => ~node[n].is_initialized

\* Loads as a step finds them that neither schedules nor marks one.
LEMMA LoadsKeep ==
    ASSUME NodesInv, UNCHANGED <<threads, setup>>,
           \A n \in Nodes : NodeByMain(n) /\ (Marking(n)' <=> Marking(n))
    PROVE  LoadsInv'
  <1> SUFFICES ASSUME NEW n \in Nodes PROVE LoadInv(n)'
    BY DEF LoadsInv
  <1>1. LoadInv(n) /\ NodeByMain(n)
    BY DEF NodesInv, LoadsInv
  <1>2. /\ Early(Load(n))' = Early(Load(n)) /\ Busy(Load(n))' = Busy(Load(n))
        /\ UNCHANGED <<jobs, done, worker>>
    BY Quiet DEF threads
  <1> QED BY <1>1, <1>2, SMT DEF LoadInv, Outstanding, NodeByMain

\* start_all_nodes: the commands are sent.
LEMMA SendStartsStep ==
    ASSUME NodesInv, Within(SendStarts)
    PROVE  NodesInv'
  <1>0. setup \in Setups /\ TypeOK /\ JobsInv /\ TodoInv /\ StartInv /\ TimerInv /\ GuardInv
    BY DEF NodesInv
  <1>1. /\ fault = "none" /\ todo # <<>> /\ Head(todo).do = "start" /\ todo' = Tail(todo)
        /\ nmt' = [n \in Nodes |-> IF n \in Registered THEN "START" ELSE nmt[n]]
        /\ UNCHANGED <<node, master, threads, fault, setup>>
    BY DEF Within, SendStarts, Remains
  <1>2. master_state # "STOPPING" /\ todo = start_all_nodes
    BY <1>0, <1>1, Forms
  <1>3. todo' = <<Do("guard", {}), RunStep>>
    BY <1>1, <1>2, SMT DEF start_all_nodes, RunStep
  <1>4. StartForm(todo) /\ StartForm(todo') /\ todo # <<RunStep>> /\ todo' # <<RunStep>>
    BY <1>2, <1>3 DEF StartForm, start_all_nodes
  <1>5. ~BootForm(todo') /\ todo' # <<>> /\ \A n : ~Scheduled(n)' /\ ~Marking(n) /\ ~Marking(n)'
    <2>1. ~BootForm(todo')
      BY <1>4, Kinds
    <2>2. \A n : ~Scheduled(n)' /\ ~Marking(n)'
      BY <1>3, SMT DEF Scheduled, ScheduledIn, Marking, Do, SetLoadingStep, RunStep
    <2>3. \A n : ~Marking(n)
      BY <1>1, MarkingIs
    <2> QED BY <1>3, <2>1, <2>2, <2>3
  <1>6. UNCHANGED <<node, master_state, n_scheduled_bootups, n_inhibited_starts, nodes_seen,
                    nodes_seen_late, n_syncs, mux, bootups, jobs, worker, done, fault, setup>>
    BY <1>1 DEF master, threads
  <1>7. TypeOK'
    <2>1. nmt' \in [Nodes -> NmtCommand]
      BY <1>0, <1>1 DEF TypeOK, NmtCommand
    <2> QED BY <1>0, <1>6, <2>1, SameNode DEF TypeOK
  <1>8. TodoInv'
    BY <1>2, <1>4, <1>6 DEF TodoInv
  <1>9. BootInv'
    <2>1. mux
      <3>1. ~mux /\ master_state = "STARTUP" => todo = <<>>
        BY DEF NodesInv, BootInv
      <3>2. master_state = "RUNNING" => mux
        BY DEF NodesInv, BootInv
      <3> QED BY <1>0, <1>1, <1>2, <3>1, <3>2 DEF TypeOK
    <2> QED BY <1>1, <1>5, <1>6, <2>1, Quiet, BootKeeps DEF Fresh
  <1>10. LoadsInv'
    BY <1>1, <1>5, LoadsKeep DEF NodeByMain
  <1>11. StartInv' /\ TimerInv'
    BY <1>0, <1>4, <1>6, SameNode DEF StartInv, TimerInv
  <1>12. GuardInv'
    BY <1>0, <1>1, <1>4, <1>6, Quiet, SameNode DEF GuardInv, GuardedNode, FaultsAtStop
  <1> QED BY <1>0, <1>1, <1>6, <1>7, <1>8, <1>9, <1>10, <1>11, <1>12, Quiet DEF NodesInv

\* Whenever nodes are about to be started, the multiplexer is there.
LEMMA MuxIsThere ==
    ASSUME NodesInv, master_state # "STOPPING", todo # <<>>
    PROVE  mux
  <1>1. ~mux /\ master_state = "STARTUP" => todo = <<>>
    BY DEF NodesInv, BootInv
  <1>2. master_state = "RUNNING" => mux
    BY DEF NodesInv, BootInv
  <1> QED BY <1>1, <1>2 DEF NodesInv, TypeOK

\* start_all_nodes: the guards are started.
LEMMA StartGuardingStep ==
    ASSUME NodesInv, Within(StartGuarding)
    PROVE  NodesInv'
  <1>0. setup \in Setups /\ TypeOK /\ JobsInv /\ TodoInv /\ StartInv /\ TimerInv /\ GuardInv /\ LoadsInv
    BY DEF NodesInv
  <1>1. /\ fault = "none" /\ todo # <<>> /\ Head(todo).do = "guard" /\ todo' = Tail(todo)
        /\ node' = [n \in Nodes |-> IF n \in Registered THEN start_nodeguarding(n, node[n])
                                                        ELSE node[n]]
        /\ UNCHANGED <<nmt, master, threads, fault, setup>>
    BY DEF Within, StartGuarding, Remains
  <1>2. master_state # "STOPPING" /\ todo = <<Do("guard", {}), RunStep>>
    BY <1>0, <1>1, Forms
  <1>3. todo' = <<RunStep>>
    BY <1>1, <1>2, SMT
  <1>4. StartForm(todo) /\ StartForm(todo') /\ todo # <<RunStep>>
    BY <1>2, <1>3 DEF StartForm
  <1>5. ~BootForm(todo') /\ todo' # <<>> /\ \A n : ~Scheduled(n)' /\ ~Marking(n) /\ ~Marking(n)'
    <2>1. ~BootForm(todo')
      BY <1>4, Kinds
    <2>2. \A n : ~Scheduled(n)' /\ ~Marking(n)'
      BY <1>3, SMT DEF Scheduled, ScheduledIn, Marking, Do, SetLoadingStep, RunStep
    <2>3. \A n : ~Marking(n)
      BY <1>1, MarkingIs
    <2> QED BY <1>3, <2>1, <2>2, <2>3
  <1>6. UNCHANGED <<nmt, master_state, n_scheduled_bootups, n_inhibited_starts, nodes_seen,
                    nodes_seen_late, n_syncs, mux, bootups, jobs, worker, done, fault, setup>>
    BY <1>1 DEF master, threads
  <1>7. ASSUME NEW n \in Nodes
        PROVE  /\ node[n] \in Node /\ node'[n] \in Node
               /\ node'[n].driver_type = node[n].driver_type
               /\ node'[n].is_initialized = node[n].is_initialized
               /\ node'[n].is_loading = node[n].is_loading /\ node'[n].inhibit = node[n].inhibit
               /\ node'[n].is_heartbeat_supported = node[n].is_heartbeat_supported
               /\ n \in Guarded /\ n \in Registered =>
                     /\ node'[n].heartbeat_timer /\ node'[n].ntimeouts = 0
                     /\ node'[n].ping_timer <=> node[n].ping_timer \/ ~node[n].is_heartbeat_supported
               /\ ~(n \in Guarded /\ n \in Registered) => node'[n] = node[n]
    <2>1. node[n] \in Node
      BY <1>0 DEF TypeOK
    <2>2. CASE n \in Registered
      <3>1. node'[n] = start_nodeguarding(n, node[n])
        BY <1>1, <2>2
      <3> QED BY <1>0, <2>1, <2>2, <3>1, Guarding, SMT
    <2>3. CASE n \notin Registered
      BY <1>1, <2>1, <2>3
    <2> QED BY <2>2, <2>3
  <1>8. TypeOK'
    <2>1. node' \in [Nodes -> Node]
      BY <1>1, <1>7
    <2> QED BY <1>0, <1>6, <2>1, SameNode DEF TypeOK
  <1>9. TodoInv'
    BY <1>2, <1>4, <1>6 DEF TodoInv
  <1>10. BootInv'
    BY <1>1, <1>2, <1>5, <1>6, <1>7, MuxIsThere, Quiet, BootKeeps DEF Fresh
  <1>11. LoadsInv'
    BY <1>1, <1>5, <1>7, LoadsKeep DEF NodeByMain
  <1>12. StartInv'
    BY <1>0, <1>4, <1>6 DEF StartInv
  <1>13. TimerInv'
    <2>1. n_timeouts_max \in Nat
      BY <1>0, MasterAssumption DEF Setup, n_timeouts_max
    <2> QED BY <1>0, <1>3, <1>4, <1>6, <1>7, <2>1, SameNode, SMT DEF TimerInv
  <1>14. GuardInv'
    <2>1. ASSUME Outcomes = {"ok"}, NEW n \in Nodes PROVE GuardedNode(n)'
      <3>1. GuardedNode(n) /\ ~Occurs(Load(n))
        BY <1>0, <1>4, <2>1 DEF GuardInv
      <3>2. n \in Registered => node[n].is_initialized
        BY <1>0, <3>1 DEF LoadsInv, LoadInv, Registered, Occurs
      <3>3. n \in Registered <=> node[n].driver_type # "NONE"
        BY DEF Registered
      <3> QED BY <1>6, <1>7, <3>1, <3>2, <3>3, SameNode DEF GuardedNode
    <2> QED BY <1>0, <1>1, <1>4, <1>6, <2>1, Quiet, SameNode DEF GuardInv, FaultsAtStop
  <1> QED BY <1>0, <1>1, <1>6, <1>8, <1>9, <1>10, <1>11, <1>12, <1>13, <1>14, Quiet DEF NodesInv

\* start_all_nodes: the master runs, and the nodes that were late are loaded.
LEMMA RunStepInv ==
    ASSUME NodesInv, Within(Run)
    PROVE  NodesInv'
  <1>0. setup \in Setups /\ TypeOK /\ JobsInv /\ TodoInv /\ StartInv /\ TimerInv /\ GuardInv
    BY DEF NodesInv
  <1>1. /\ fault = "none" /\ todo # <<>> /\ Head(todo).do = "running"
        /\ todo' = ForEach("schedule", nodes_seen_late) \o Tail(todo)
        /\ master_state' = "RUNNING" /\ n_syncs' = n_syncs + 1
        /\ UNCHANGED <<node, nmt, n_scheduled_bootups, n_inhibited_starts, nodes_seen,
                       nodes_seen_late, mux, bootups, threads, fault, setup>>
    BY DEF Within, Run, Remains
  <1>2. master_state # "STOPPING" /\ todo = <<RunStep>>
    BY <1>0, <1>1, Forms
  <1>3. todo' = <<>> \/ \E S \in NonEmpty : todo' = <<ScheduleStep(S)>>
    <2>1. todo' = ForEach("schedule", nodes_seen_late) \o <<>>
      BY <1>1, <1>2, SMT
    <2>2. nodes_seen_late \in SUBSET Nodes
      BY <1>0 DEF TypeOK
    <2> QED BY <2>1, <2>2, SMT DEF ForEach, NonEmpty, ScheduleStep
  <1>4. StartForm(todo) /\ ~StartForm(todo') /\ ~BootForm(todo') /\ todo' # <<RunStep>>
    <2>1. StartForm(todo)
      BY <1>2 DEF StartForm
    <2>2. todo' # <<>> => Head(todo').do = "schedule"
      BY <1>3, SMT DEF ScheduleStep, Do
    <2>3. ~BootForm(todo')
      BY <1>3, SMT DEF BootForm, ScheduleStep, SetLoadingStep, WaitStep, Do
    <2> QED BY <2>1, <2>2, <2>3, Kinds
  <1>5. \A n : ~Marking(n) /\ ~Marking(n)'
    <2>1. \A n : ~Marking(n)'
      BY <1>3, SMT DEF Marking, Do, SetLoadingStep, ScheduleStep
    <2>2. \A n : ~Marking(n)
      BY <1>1, MarkingIs
    <2> QED BY <2>1, <2>2
  <1>6. UNCHANGED <<jobs, worker, done>>
    BY <1>1 DEF threads
  <1>7. n_syncs' \in Nat /\ n_syncs' > 0
    BY <1>0, <1>1, SMT DEF TypeOK
  <1>8. TypeOK'
    BY <1>0, <1>1, <1>6, <1>7, SameNode DEF TypeOK
  <1>9. TodoInv'
    BY <1>1, <1>3 DEF TodoInv, LoadForm
  <1>10. BootInv'
    BY <1>1, <1>2, <1>4, MuxIsThere, Quiet, BootKeeps
  <1>11. LoadsInv'
    BY <1>1, <1>5, LoadsKeep DEF NodeByMain
  <1>12. StartInv'
    BY <1>0, <1>1, <1>4, <1>7, SMT DEF StartInv
  <1>13. TimerInv'
    BY <1>0, <1>1, SameNode DEF TimerInv
  <1>14. GuardInv'
    BY <1>0, <1>1, <1>2, <1>4, Quiet, SameNode DEF GuardInv, GuardedNode, FaultsAtStop
  <1> QED BY <1>0, <1>1, <1>8, <1>9, <1>10, <1>11, <1>12, <1>13, <1>14, Quiet DEF NodesInv

\* The nodes M that a handler marks first, and the nodes R that it schedules.
Shape(t, M, R) ==
    /\ \A m : (t # <<>> /\ Head(t) = SetLoadingStep(m)) <=> m \in M
    /\ \A m : ScheduledIn(t, m) <=> m \in R
    /\ t # <<>> => Head(t).do \in {"wait", "schedule", "set_loading"}

LEMMA ShapeOne ==
    ASSUME NEW n, NEW R
    PROVE  /\ Shape(<<>>, {}, {}) /\ Shape(<<WaitStep>>, {}, {})
           /\ Shape(<<ScheduleStep(R)>>, {}, R) /\ Shape(<<SetLoadingStep(n)>>, {n}, {})
  BY SMT DEF Shape, ScheduledIn, WaitStep, ScheduleStep, SetLoadingStep, Do

LEMMA ShapeMore ==
    ASSUME NEW n, NEW R
    PROVE  /\ Shape(<<ScheduleStep(R), WaitStep>>, {}, R)
           /\ Shape(<<SetLoadingStep(n), WaitStep>>, {n}, {})
           /\ Shape(<<SetLoadingStep(n), ScheduleStep(R)>>, {n}, R)
           /\ Shape(<<SetLoadingStep(n), ScheduleStep(R), WaitStep>>, {n}, R)
  <1> USE DEF Shape, ScheduledIn, WaitStep, ScheduleStep, SetLoadingStep, Do
  <1>1. Shape(<<ScheduleStep(R), WaitStep>>, {}, R)
    BY SMT
  <1>2. Shape(<<SetLoadingStep(n), WaitStep>>, {n}, {})
    BY SMT
  <1>3. Shape(<<SetLoadingStep(n), ScheduleStep(R)>>, {n}, R)
    BY SMT
  <1>4. Shape(<<SetLoadingStep(n), ScheduleStep(R), WaitStep>>, {n}, R)
    BY SMT
  <1> QED BY <1>1, <1>2, <1>3, <1>4

\* run_bootup ends in a wait, and a load by itself does not.
LEMMA LoadIsNotBoot ==
    ASSUME NEW t, LoadForm(t)
    PROVE  ~BootForm(t)
  <1> USE DEF WaitStep, ScheduleStep, SetLoadingStep, Do
  <1>1. t[Len(t)].do # "wait"
    <2>1. ASSUME NEW S, t = <<ScheduleStep(S)>> PROVE t[Len(t)].do # "wait"
      BY <2>1
    <2>2. ASSUME NEW n, t = <<SetLoadingStep(n)>> PROVE t[Len(t)].do # "wait"
      BY <2>2
    <2>3. ASSUME NEW n, NEW S, t = <<SetLoadingStep(n), ScheduleStep(S)>> PROVE t[Len(t)].do # "wait"
      BY <2>3
    <2> QED BY <2>1, <2>2, <2>3 DEF LoadForm
  <1>2. ASSUME BootForm(t) PROVE t[Len(t)].do = "wait"
    <2>1. t = <<WaitStep>> => t[Len(t)].do = "wait"
      BY SMT
    <2>2. ASSUME NEW S, t = <<ScheduleStep(S), WaitStep>> PROVE t[Len(t)].do = "wait"
      BY <2>2
    <2>3. ASSUME NEW n, t = <<SetLoadingStep(n), WaitStep>> PROVE t[Len(t)].do = "wait"
      BY <2>3
    <2>4. ASSUME NEW n, NEW S, t = <<SetLoadingStep(n), ScheduleStep(S), WaitStep>>
          PROVE  t[Len(t)].do = "wait"
      BY <2>4
    <2> QED BY <1>2, <2>1, <2>2, <2>3, <2>4 DEF BootForm
  <1> QED BY <1>1, <1>2

\* What schedule_load_driver leaves to do, with the nodes M that it marks.
LEMMA ScheduleForms ==
    ASSUME FirstIsIn, NodesInv, todo # <<>>, Head(todo).do = "schedule", UNCHANGED master_state, NEW M,
           \/ M = {} /\ todo' = Onward
           \/ M = {NodeToDo} /\ todo' = <<SetLoadingStep(NodeToDo)>> \o Onward
    PROVE  /\ NodeToDo \in Nodes /\ Scheduled(NodeToDo)
           /\ \A m : ~Marking(m) /\ (Marking(m)' <=> m \in M)
           /\ \A m : Scheduled(m)' => Scheduled(m) /\ m # NodeToDo
           /\ TodoInv' /\ ~StartForm(todo) /\ ~StartForm(todo')
           /\ todo # <<RunStep>> /\ todo' # <<RunStep>>
           /\ \/ master_state = "STARTUP" /\ BootForm(todo)
              \/ master_state = "RUNNING" /\ ~BootForm(todo')
  <1> DEFINE n == NodeToDo
  <1>0. TodoInv
    BY DEF NodesInv
  <1>1. PICK S \in NonEmpty : \/ master_state = "STARTUP" /\ todo = <<ScheduleStep(S), WaitStep>>
                              \/ master_state = "RUNNING" /\ todo = <<ScheduleStep(S)>>
    BY <1>0, Forms
  <1> DEFINE R == S \ {n}
  <1>2. Shape(todo, {}, S)
    BY <1>1, ShapeOne, ShapeMore
  <1>3. /\ n \in S /\ n \in Nodes
        /\ \/ master_state = "STARTUP" /\ R = {} /\ Onward = <<WaitStep>>
           \/ master_state = "STARTUP" /\ R \in NonEmpty /\ Onward = <<ScheduleStep(R), WaitStep>>
           \/ master_state = "RUNNING" /\ R = {} /\ Onward = <<>>
           \/ master_state = "RUNNING" /\ R \in NonEmpty /\ Onward = <<ScheduleStep(R)>>
    <2>1. CASE todo = <<ScheduleStep(S), WaitStep>> /\ master_state = "STARTUP"
      BY <2>1, OnwardBoot
    <2>2. CASE todo = <<ScheduleStep(S)>> /\ master_state = "RUNNING"
      BY <2>2, OnwardLast DEF ScheduleStep
    <2> QED BY <1>1, <2>1, <2>2
  <1>4. \A m : m \in R <=> m \in S /\ m # n
    OBVIOUS
  <1> HIDE DEF R, n
  <1>5. /\ Shape(todo', M, R)
        /\ \/ master_state = "STARTUP" /\ BootForm(todo')
           \/ master_state = "RUNNING" /\ (todo' = <<>> \/ LoadForm(todo'))
    <2>1. CASE M = {} /\ todo' = Onward
      <3>1. \/ Onward = <<>> \/ Onward = <<WaitStep>> \/ Onward = <<ScheduleStep(R), WaitStep>>
            \/ Onward = <<ScheduleStep(R)>>
        BY <1>3
      <3>2. Shape(Onward, {}, R)
        BY <1>3, ShapeOne, ShapeMore
      <3> QED BY <1>3, <2>1, <3>2 DEF BootForm, LoadForm
    <2>2. CASE M = {n} /\ todo' = <<SetLoadingStep(n)>> \o Onward
      <3>1. CASE master_state = "STARTUP" /\ R = {} /\ Onward = <<WaitStep>>
        BY <1>3, <2>2, <3>1, JoinTwo, ShapeMore DEF BootForm
      <3>2. CASE master_state = "STARTUP" /\ R \in NonEmpty /\ Onward = <<ScheduleStep(R), WaitStep>>
        BY <1>3, <2>2, <3>2, JoinThree, ShapeMore DEF BootForm
      <3>3. CASE master_state = "RUNNING" /\ R = {} /\ Onward = <<>>
        <4>1. todo' = <<SetLoadingStep(n)>>
          BY <2>2, <3>3, SMT
        <4> QED BY <1>3, <2>2, <3>3, <4>1, ShapeOne DEF LoadForm
      <3>4. CASE master_state = "RUNNING" /\ R \in NonEmpty /\ Onward = <<ScheduleStep(R)>>
        BY <1>3, <2>2, <3>4, JoinTwo, ShapeMore DEF LoadForm
      <3> QED BY <1>3, <3>1, <3>2, <3>3, <3>4
    <2> QED BY <2>1, <2>2 DEF n
  <1>6. /\ Scheduled(n) /\ \A m : Scheduled(m)' => Scheduled(m) /\ m # n
        /\ \A m : ~Marking(m) /\ (Marking(m)' <=> m \in M)
    BY <1>2, <1>3, <1>4, <1>5 DEF Shape, Scheduled, Marking
  <1>7. ~StartForm(todo) /\ ~StartForm(todo') /\ todo # <<RunStep>> /\ todo' # <<RunStep>>
    BY <1>2, <1>5, Kinds DEF Shape
  <1>8. TodoInv'
    BY <1>5 DEF TodoInv
  <1>9. master_state = "STARTUP" => BootForm(todo)
    BY <1>1 DEF BootForm
  <1>10. master_state = "RUNNING" => ~BootForm(todo')
    BY <1>5, Kinds, LoadIsNotBoot
  <1>11. /\ NodeToDo \in Nodes /\ Scheduled(NodeToDo)
         /\ \A m : Scheduled(m)' => Scheduled(m) /\ m # NodeToDo
    BY <1>3, <1>6 DEF n
  <1>12. \A m : ~Marking(m) /\ (Marking(m)' <=> m \in M)
    BY <1>6
  <1>13. \/ master_state = "STARTUP" /\ BootForm(todo)
         \/ master_state = "RUNNING" /\ ~BootForm(todo')
    BY <1>5, <1>9, <1>10
  <1> QED BY <1>7, <1>8, <1>11, <1>12, <1>13

\* schedule_load_driver refuses a node that is being loaded.
LEMMA ScheduleRefused ==
    ASSUME FirstIsIn, NodesInv, fault = "none", todo # <<>>, Head(todo).do = "schedule", todo' = Onward,
           UNCHANGED <<node, nmt, master, threads, fault, setup>>
    PROVE  NodesInv'
  <1>0. setup \in Setups /\ TypeOK /\ JobsInv /\ StartInv /\ TimerInv /\ GuardInv
    BY DEF NodesInv
  <1>1. UNCHANGED <<master_state, n_scheduled_bootups, n_inhibited_starts, nodes_seen,
                    nodes_seen_late, n_syncs, mux, bootups, jobs, worker, done>>
    BY DEF master, threads
  <1>2. /\ \A m : ~Marking(m) /\ ~Marking(m)'
        /\ \A m : Scheduled(m)' => Scheduled(m)
        /\ TodoInv' /\ ~StartForm(todo) /\ ~StartForm(todo')
        /\ todo # <<RunStep>> /\ todo' # <<RunStep>>
        /\ \/ master_state = "STARTUP" /\ BootForm(todo)
           \/ master_state = "RUNNING" /\ ~BootForm(todo')
    <2> DEFINE M == {}
    <2>1. M = {} /\ todo' = Onward
      OBVIOUS
    <2>2. \A m : m \notin M
      OBVIOUS
    <2> HIDE DEF M
    <2> QED BY <1>1, <2>1, <2>2, ScheduleForms
  <1>3. TypeOK'
    BY <1>0, <1>1, SameNode DEF TypeOK
  <1>4. BootInv'
    BY <1>1, <1>2, MuxIsThere, Quiet, BootKeeps DEF Fresh
  <1>5. LoadsInv'
    BY <1>2, LoadsKeep DEF NodeByMain
  <1>6. StartInv' /\ TimerInv'
    BY <1>0, <1>1, <1>2, SameNode DEF StartInv, TimerInv
  <1>7. GuardInv'
    BY <1>0, <1>1, <1>2, Quiet, SameNode DEF GuardInv, GuardedNode, FaultsAtStop
  <1> QED BY <1>0, <1>1, <1>2, <1>3, <1>4, <1>5, <1>6, <1>7, Quiet DEF NodesInv

\* schedule_load_driver follows no null pointer where every driver initialises.
LEMMA ScheduleFault ==
    ASSUME FirstIsIn, NodesInv, fault = "none", todo # <<>>, Head(todo).do = "schedule",
           node[NodeToDo].driver_type # "NONE", node[NodeToDo].is_initialized,
           UnloadFault(NodeToDo, node[NodeToDo]) # "none", Outcomes = {"ok"}
    PROVE  FALSE
  <1> DEFINE n == NodeToDo
  <1>0. BootInv /\ StartInv /\ GuardInv /\ TodoInv /\ TypeOK
    BY DEF NodesInv
  <1>1. PICK S \in NonEmpty : \/ master_state = "STARTUP" /\ todo = <<ScheduleStep(S), WaitStep>>
                              \/ master_state = "RUNNING" /\ todo = <<ScheduleStep(S)>>
    BY <1>0, Forms
  <1>2. n \in Nodes /\ n \in S
    BY <1>1, OnwardBoot, OnwardLast DEF ScheduleStep
  <1>3. Shape(todo, {}, S)
    BY <1>1, ShapeOne, ShapeMore
  <1> HIDE DEF n
  <1>4. CASE master_state = "STARTUP"
    <2>1. Scheduled(n)
      BY <1>2, <1>3 DEF Shape, Scheduled
    <2> QED BY <1>0, <1>2, <1>4, <2>1 DEF BootInv, Fresh, n
  <1>5. CASE master_state = "RUNNING"
    <2>1. n_syncs # 0
      BY <1>0, <1>5 DEF StartInv
    <2>2. GuardedNode(n)
      BY <1>0, <1>2 DEF GuardInv
    <2>3. ~StopsNull(n, node[n])
      BY <2>1, <2>2 DEF StopsNull, GuardedNode, n
    <2> QED BY <2>3 DEF UnloadFault, n
  <1> QED BY <1>1, <1>4, <1>5

\* A job is put into the queue of the workers.
LEMMA JobAdded ==
    ASSUME NodesInv, NEW y \in AnyJob, jobs' = Append(jobs, y), UNCHANGED <<worker, done>>
    PROVE  /\ \A x : Occurs(x)' <=> Occurs(x) \/ x = y
           /\ \A x : Once(x) /\ (x = y => ~Occurs(x)) => Once(x)'
           /\ \A x : Busy(x)' = Busy(x) /\ Early(x)' = Early(x)
           /\ \A x : /\ Has(jobs', x) <=> Has(jobs, x) \/ x = y
                     /\ Single(jobs, x) /\ (x = y => ~Has(jobs, x)) => Single(jobs', x)
           /\ Waited' <=> Waited
           /\ JobsInv' /\ jobs' \in Seq(JobRecord)
  <1>0. JobsInv /\ TypeOK
    BY DEF NodesInv
  <1>1. /\ jobs' \in Seq(AnyJob)
        /\ \A x : /\ Has(jobs', x) <=> Has(jobs, x) \/ x = y
                  /\ Single(jobs, x) /\ (x = y => ~Has(jobs, x)) => Single(jobs', x)
    BY <1>0, Appended DEF JobsInv
  <1>2. \A x : Busy(x)' = Busy(x) /\ Early(x)' = Early(x)
    BY DEF Busy, Early
  <1>3. ASSUME NEW x
        PROVE  /\ Occurs(x)' <=> Occurs(x) \/ x = y
               /\ Once(x) /\ (x = y => ~Occurs(x)) => Once(x)'
    BY <1>1, <1>2 DEF Occurs, Once
  <1>4. Waited' <=> Waited
    BY <1>2 DEF Waited
  <1>5. JobsInv'
    BY <1>0, <1>1 DEF JobsInv
  <1>6. jobs' \in Seq(JobRecord)
    <2>1. y \in JobRecord
      BY SMT DEF AnyJob, Probe, Wait, Load, Job, JobRecord
    <2> QED BY <1>0, <2>1, SMT DEF TypeOK
  <1> QED BY <1>1, <1>2, <1>3, <1>4, <1>5, <1>6

\* The node as a load finds it.
ToLoad(n) == IF node[n].driver_type # "NONE" THEN unload_driver(n, node[n]) ELSE node[n]

LoadStarts(n) ==
    /\ fault = "none" /\ todo # <<>> /\ Head(todo).do = "schedule"
    /\ n = NodeToDo /\ ~node[n].is_loading /\ (node[n].driver_type # "NONE" => node[n].is_initialized)
    /\ StartLoad(n, ToLoad(n))
    /\ UNCHANGED <<nmt, master_state, n_inhibited_starts, nodes_seen, nodes_seen_late, n_syncs,
                   mux, bootups, worker, done, fault, setup>>

\* A load is started: what remains of the handler.
LEMMA StartTodo ==
    ASSUME FirstIsIn, NodesInv, NEW n, LoadStarts(n)
    PROVE  /\ n \in Nodes /\ Scheduled(n)
           /\ \A m : ~Marking(m) /\ (Marking(m)' <=> m = n)
           /\ \A m : Scheduled(m)' => Scheduled(m) /\ m # n
           /\ TodoInv' /\ ~StartForm(todo) /\ ~StartForm(todo')
           /\ todo # <<RunStep>> /\ todo' # <<RunStep>>
           /\ \/ master_state = "STARTUP" /\ BootForm(todo)
              \/ master_state = "RUNNING" /\ ~BootForm(todo')
  <1> DEFINE M == {n}
  <1>1. n = NodeToDo /\ UNCHANGED master_state /\ todo # <<>> /\ Head(todo).do = "schedule"
    BY DEF LoadStarts
  <1>2. M = {NodeToDo} /\ todo' = <<SetLoadingStep(NodeToDo)>> \o Onward
    BY <1>1 DEF LoadStarts, StartLoad, SetLoadingStep
  <1>3. \A m : m \in M <=> m = n
    OBVIOUS
  <1> HIDE DEF M
  <1> QED BY <1>1, <1>2, <1>3, ScheduleForms

\* A load is started: the node has no driver any more.
LEMMA StartNode ==
    ASSUME NodesInv, NEW n \in Nodes, LoadStarts(n)
    PROVE  /\ node' \in [Nodes -> Node] /\ \A m \in Nodes : m # n => node'[m] = node[m]
           /\ node'[n].driver_type = "NONE" /\ ~node'[n].is_loading /\ ~node[n].is_loading
           /\ node'[n].ntimeouts = node[n].ntimeouts
           /\ node'[n].heartbeat_timer => node[n].heartbeat_timer
           /\ Fresh(n) => Fresh(n)'
           /\ GuardedNode(n) /\ TimerInv => GuardedNode(n)'
  <1>1. /\ setup \in Setups /\ node \in [Nodes -> Node] /\ node[n] \in Node
        /\ UNCHANGED <<n_syncs, setup>> /\ node' = [node EXCEPT ![n] = ToLoad(n)]
        /\ ~node[n].is_loading /\ (node[n].driver_type # "NONE" => node[n].is_initialized)
    BY DEF NodesInv, TypeOK, LoadStarts, StartLoad
  <1>2. node'[n] = ToLoad(n) /\ \A m \in Nodes : m # n => node'[m] = node[m]
    BY <1>1
  <1>3. CASE node[n].driver_type = "NONE"
    <2>1. node' = node
      BY <1>1, <1>3 DEF ToLoad
    <2>2. GuardedNode(n) => GuardedNode(n)'
      BY <1>1, <1>3, <2>1, SameNode DEF GuardedNode
    <2> QED BY <1>1, <1>3, <2>1, <2>2 DEF Fresh
  <1>4. CASE node[n].driver_type # "NONE"
    <2>1. node'[n] = unload_driver(n, node[n])
      BY <1>2, <1>4 DEF ToLoad
    <2>2. /\ node'[n] \in Node
          /\ node'[n].driver_type = "NONE" /\ ~node'[n].is_initialized /\ ~node'[n].inhibit
          /\ node'[n].is_loading = node[n].is_loading
          /\ node'[n].ntimeouts = node[n].ntimeouts
          /\ n \notin Guarded => /\ node'[n].heartbeat_timer = node[n].heartbeat_timer
                                 /\ node'[n].ping_timer = node[n].ping_timer
          /\ n \in Guarded => /\ ~node'[n].heartbeat_timer
                              /\ node'[n].ping_timer <=> node[n].ping_timer /\ node[n].is_heartbeat_supported
      BY <1>1, <2>1, Unloading, SMT
    <2>3. GuardedNode(n) /\ TimerInv => GuardedNode(n)'
      BY <1>1, <2>2, SameNode DEF GuardedNode, TimerInv
    <2>4. node' \in [Nodes -> Node]
      BY <1>1, <1>2, <2>2
    <2> QED BY <1>1, <1>2, <2>2, <2>3, <2>4 DEF Fresh
  <1> QED BY <1>3, <1>4

\* A load is started: the job is in the queue.
LEMMA StartJob ==
    ASSUME FirstIsIn, NodesInv, NEW n \in Nodes, LoadStarts(n)
    PROVE  /\ \A x : Occurs(x)' <=> Occurs(x) \/ x = Load(n)
           /\ \A x : Once(x) /\ (x = Load(n) => ~Occurs(x)) => Once(x)'
           /\ \A x : Busy(x)' = Busy(x) /\ Early(x)' = Early(x)
           /\ \A x : /\ Has(jobs', x) <=> Has(jobs, x) \/ x = Load(n)
                     /\ Single(jobs, x) /\ (x = Load(n) => ~Has(jobs, x)) => Single(jobs', x)
           /\ Waited' <=> Waited
           /\ JobsInv' /\ jobs' \in Seq(JobRecord)
           /\ Load(n) # Probe /\ Load(n) # Wait /\ \A m : Load(m) = Load(n) <=> m = n
           /\ master_state = "STARTUP" => ~Occurs(Load(n)) /\ Fresh(n) /\ ~Occurs(Wait) /\ ~Waited
  <1>1. Load(n) \in AnyJob /\ jobs' = Append(jobs, Load(n)) /\ UNCHANGED <<worker, done>>
    BY DEF AnyJob, LoadStarts, StartLoad, Load
  <1>2. Load(n) # Probe /\ Load(n) # Wait /\ \A m : Load(m) = Load(n) <=> m = n
    BY DEF Load, Probe, Wait, Job
  <1>3. master_state = "STARTUP" => ~Occurs(Load(n)) /\ Fresh(n) /\ ~Occurs(Wait)
    BY StartTodo DEF NodesInv, BootInv
  <1>4. Waited => Occurs(Wait)
    BY DEF Waited, Occurs
  <1> QED BY <1>1, <1>2, <1>3, <1>4, JobAdded

LEMMA StartBoot ==
    ASSUME FirstIsIn, NodesInv, NEW n \in Nodes, LoadStarts(n)
    PROVE  BootInv'
  <1>1. BootInv /\ mux /\ UNCHANGED <<mux, master_state>>
    BY StartTodo, MuxIsThere DEF NodesInv, LoadStarts
  <1>2. ASSUME NEW m \in Nodes, master_state = "STARTUP"
        PROVE  /\ Once(Load(m))'
               /\ Occurs(Load(m))' => /\ ~node'[m].is_initialized /\ ~node'[m].inhibit
                                      /\ ~Scheduled(m)'
               /\ Scheduled(m)' => Fresh(m)'
    <2>1. /\ Once(Load(m))
          /\ Occurs(Load(m)) => ~node[m].is_initialized /\ ~node[m].inhibit /\ ~Scheduled(m)
          /\ Scheduled(m) => Fresh(m)
      BY <1>1, <1>2 DEF BootInv
    <2>2. CASE m = n
      <3>1. ~Occurs(Load(n)) /\ Fresh(n) /\ Once(Load(n))'
        BY <1>2, <2>1, <2>2, StartJob
      <3>2. Fresh(n)' /\ ~Scheduled(n)'
        BY <3>1, StartNode, StartTodo
      <3> QED BY <2>2, <3>1, <3>2 DEF Fresh
    <2>3. CASE m # n
      <3>1. Load(m) # Load(n)
        BY <2>3, StartJob
      <3>2. Once(Load(m))' /\ (Occurs(Load(m))' => Occurs(Load(m)))
        BY <2>1, <3>1, StartJob
      <3>3. node'[m] = node[m] /\ (Scheduled(m)' => Scheduled(m))
        BY <2>3, StartNode, StartTodo
      <3> QED BY <2>1, <3>2, <3>3 DEF Fresh
    <2> QED BY <2>2, <2>3
  <1>3. Once(Probe)' /\ Once(Wait)' /\ ~Occurs(Probe)'
    BY <1>1, StartJob DEF BootInv
  <1>4. BootForm(todo') => ~Occurs(Wait)'
    BY StartTodo, StartJob
  <1> QED BY <1>1, <1>2, <1>3, <1>4 DEF BootInv

LEMMA StartLoads ==
    ASSUME FirstIsIn, NodesInv, NEW n \in Nodes, LoadStarts(n)
    PROVE  LoadsInv'
  <1> SUFFICES ASSUME NEW m \in Nodes PROVE LoadInv(m)'
    BY DEF LoadsInv
  <1>1. LoadInv(m) /\ UNCHANGED <<worker, done, setup>>
    BY DEF NodesInv, LoadsInv, LoadStarts
  <1>2. ~Marking(m) /\ (Marking(m)' <=> m = n)
    BY StartTodo
  <1>3. /\ Busy(Load(m))' = Busy(Load(m)) /\ Early(Load(m))' = Early(Load(m))
        /\ Has(jobs', Load(m)) <=> Has(jobs, Load(m)) \/ m = n
        /\ Single(jobs, Load(m)) /\ (m = n => ~Has(jobs, Load(m))) => Single(jobs', Load(m))
    BY StartJob
  <1>4. CASE m = n
    <2>1. ~node[n].is_loading /\ ~node'[n].is_loading /\ node'[n].driver_type = "NONE"
      BY StartNode
    <2>2. ~Has(jobs, Load(n)) /\ Early(Load(n)) = {} /\ Single(jobs, Load(n))
      BY <1>1, <1>2, <1>4, <2>1 DEF LoadInv, Outstanding
    <2> QED BY <1>1, <1>2, <1>3, <1>4, <2>1, <2>2 DEF LoadInv, Outstanding
  <1>5. CASE m # n
    <2>1. node'[m] = node[m]
      BY <1>5, StartNode
    <2> QED BY <1>1, <1>2, <1>3, <1>5, <2>1 DEF LoadInv, Outstanding
  <1> QED BY <1>4, <1>5

LEMMA StartGuards ==
    ASSUME FirstIsIn, NodesInv, NEW n \in Nodes, LoadStarts(n)
    PROVE  StartInv' /\ TimerInv' /\ GuardInv'
  <1>1. /\ StartInv /\ TimerInv /\ GuardInv /\ fault = "none"
        /\ UNCHANGED <<n_syncs, n_inhibited_starts, master_state, setup, fault>>
    BY DEF NodesInv, LoadStarts
  <1>2. StartInv'
    BY <1>1, StartTodo DEF StartInv
  <1>3. TimerInv'
    <2> SUFFICES ASSUME NEW m \in Nodes, node'[m].heartbeat_timer
                 PROVE  /\ m \in Guarded /\ node'[m].ntimeouts <= n_timeouts_max
                        /\ master_state # "STARTUP"
      BY <1>1, SameNode DEF TimerInv
    <2>1. node[m].heartbeat_timer /\ node'[m].ntimeouts = node[m].ntimeouts
      BY StartNode
    <2> QED BY <1>1, <2>1, StartTodo DEF TimerInv
  <1>4. GuardInv'
    <2> SUFFICES ASSUME Outcomes = {"ok"} PROVE GuardInv'
      BY <1>1, SameNode DEF GuardInv
    <2>1. ASSUME NEW m \in Nodes PROVE GuardedNode(m)'
      <3>1. GuardedNode(m)
        BY <1>1 DEF GuardInv
      <3>2. CASE m = n
        BY <1>1, <3>1, <3>2, StartNode
      <3>3. CASE m # n
        <4>1. node'[m] = node[m] /\ todo # <<RunStep>> /\ todo' # <<RunStep>>
          BY <3>3, StartNode, StartTodo
        <4> QED BY <1>1, <3>1, <4>1, SameNode, SMT DEF GuardedNode
      <3> QED BY <3>2, <3>3
    <2>2. FaultsAtStop'
      BY <1>1 DEF FaultsAtStop
    <2>3. /\ ~StartForm(todo') /\ (Waited' <=> Waited) /\ (Occurs(Wait)' <=> Occurs(Wait))
          /\ master_state = "STARTUP" => ~Waited
      BY StartTodo, StartJob
    <2> QED BY <1>1, <2>1, <2>2, <2>3 DEF GuardInv
  <1> QED BY <1>2, <1>3, <1>4

\* schedule_load_driver starts a load.
LEMMA ScheduleStart ==
    ASSUME FirstIsIn, NodesInv, NEW n, LoadStarts(n)
    PROVE  NodesInv'
  <1>1. n \in Nodes /\ TodoInv'
    BY StartTodo
  <1>2. TypeOK'
    <2>1. TypeOK /\ node' \in [Nodes -> Node] /\ jobs' \in Seq(JobRecord)
      BY <1>1, StartNode, StartJob DEF NodesInv
    <2>2. /\ n_scheduled_bootups' = n_scheduled_bootups + 1
          /\ UNCHANGED <<nmt, master_state, n_inhibited_starts, nodes_seen, nodes_seen_late,
                         n_syncs, mux, bootups, worker, done, fault, setup>>
      BY DEF LoadStarts, StartLoad
    <2> QED BY <2>1, <2>2, SameNode, SMT DEF TypeOK
  <1>3. setup' \in Setups
    BY DEF NodesInv, LoadStarts
  <1> QED BY <1>1, <1>2, <1>3, StartJob, StartBoot, StartLoads, StartGuards DEF NodesInv

\* A command is sent to a node, or a null pointer is followed.
LEMMA FaultStep ==
    ASSUME NodesInv, UNCHANGED <<node, master, threads, todo, setup>>,
           nmt' \in [Nodes -> NmtCommand],
           fault' \in {"none", "timer", "abort", "heartbeat"}, Outcomes = {"ok"} => FaultsAtStop'
    PROVE  NodesInv'
  <1>1. UNCHANGED <<master_state, n_scheduled_bootups, n_inhibited_starts, nodes_seen,
                    nodes_seen_late, n_syncs, mux, bootups, jobs, worker, done>>
    BY DEF threads, master
  <1>2. JobsInv' /\ (Waited' <=> Waited) /\ \A x : (Occurs(x)' <=> Occurs(x)) /\ (Once(x)' <=> Once(x))
    BY Quiet DEF NodesInv
  <1>3. TypeOK' /\ TodoInv'
    BY <1>1, SameNode DEF NodesInv, TypeOK, TodoInv
  <1>4. LoadsInv'
    BY LoadsKeep DEF NodeByMain, Marking
  <1>5. BootInv'
    BY <1>1, <1>2 DEF NodesInv, BootInv, Scheduled, Fresh
  <1>6. StartInv' /\ TimerInv'
    BY <1>1, SameNode DEF NodesInv, StartInv, TimerInv
  <1>7. GuardInv'
    BY <1>1, <1>2, SameNode DEF NodesInv, GuardInv, GuardedNode
  <1> QED BY <1>2, <1>3, <1>4, <1>5, <1>6, <1>7 DEF NodesInv

LEMMA ScheduleInv ==
    ASSUME FirstIsIn, NodesInv, Within(Schedule)
    PROVE  NodesInv'
  <1> DEFINE n == NodeToDo
  <1>1. /\ fault = "none" /\ todo # <<>> /\ Head(todo).do = "schedule"
        /\ UNCHANGED <<nmt, master_state, n_inhibited_starts, nodes_seen, nodes_seen_late,
                       n_syncs, mux, bootups, worker, done, setup>>
        /\ \/ todo' = Onward /\ UNCHANGED <<node, jobs, n_scheduled_bootups, fault>>
           \/ LoadStarts(n)
           \/ /\ node[n].driver_type # "NONE" /\ node[n].is_initialized
              /\ UnloadFault(n, node[n]) # "none" /\ fault' = UnloadFault(n, node[n])
              /\ UNCHANGED <<node, jobs, n_scheduled_bootups, todo>>
    BY DEF Within, Schedule, Remains, schedule_load_driver, LoadStarts, ToLoad
  <1>2. CASE todo' = Onward /\ UNCHANGED <<node, jobs, n_scheduled_bootups, fault>>
    BY <1>1, <1>2, ScheduleRefused DEF master, threads
  <1>3. CASE LoadStarts(n)
    BY <1>1, <1>3, ScheduleStart
  <1>4. CASE /\ node[n].driver_type # "NONE" /\ node[n].is_initialized
             /\ UnloadFault(n, node[n]) # "none" /\ fault' = UnloadFault(n, node[n])
             /\ UNCHANGED <<node, jobs, n_scheduled_bootups, todo>>
    <2>1. Outcomes # {"ok"}
      BY <1>1, <1>4, ScheduleFault
    <2>2. fault' \in {"timer", "abort"}
      BY <1>4 DEF UnloadFault
    <2>3. UNCHANGED <<node, nmt, master, threads, todo, setup>>
      BY <1>1, <1>4 DEF threads, master
    <2>4. nmt' \in [Nodes -> NmtCommand]
      BY <2>3 DEF NodesInv, TypeOK
    <2> QED BY <2>1, <2>2, <2>3, <2>4, FaultStep
  <1> QED BY <1>1, <1>2, <1>3, <1>4

\* The mark of a load is set: what remains of the handler.
LEMMA MarkTodo ==
    ASSUME NodesInv, Within(SetLoading)
    PROVE  /\ NodeToDo \in Nodes
           /\ \A m : (Marking(m) <=> m = NodeToDo) /\ ~Marking(m)'
           /\ \A m : Scheduled(m)' => Scheduled(m)
           /\ TodoInv' /\ ~StartForm(todo) /\ ~StartForm(todo')
           /\ todo # <<RunStep>> /\ todo' # <<RunStep>>
           /\ \/ master_state = "STARTUP" /\ BootForm(todo)
              \/ master_state = "RUNNING" /\ ~BootForm(todo')
  <1>1. /\ todo # <<>> /\ Head(todo).do = "set_loading" /\ todo' = Tail(todo)
        /\ UNCHANGED master_state
    BY DEF Within, SetLoading, Remains, master
  <1>2. PICK n \in Nodes :
           \/ /\ master_state = "STARTUP"
              /\ \/ todo = <<SetLoadingStep(n), WaitStep>>
                 \/ \E S \in NonEmpty : todo = <<SetLoadingStep(n), ScheduleStep(S), WaitStep>>
           \/ /\ master_state = "RUNNING"
              /\ \/ todo = <<SetLoadingStep(n)>>
                 \/ \E S \in NonEmpty : todo = <<SetLoadingStep(n), ScheduleStep(S)>>
    BY <1>1, Forms DEF NodesInv
  <1>3. NodeToDo = n
    <2>2. First({n}) = n
      BY SMT DEF First, Nodes
    <2>3. Head(todo) = SetLoadingStep(n)
      BY <1>2, SMT
    <2> QED BY <2>2, <2>3, SMT DEF NodeToDo, SetLoadingStep, Do
  <1>4. \E R : /\ Shape(todo, {n}, R) /\ Shape(todo', {}, R)
               /\ \/ master_state = "STARTUP" /\ BootForm(todo) /\ BootForm(todo')
                  \/ master_state = "RUNNING" /\ (todo' = <<>> \/ LoadForm(todo'))
    <2>1. CASE master_state = "STARTUP" /\ todo = <<SetLoadingStep(n), WaitStep>>
      <3>1. todo' = <<WaitStep>>
        BY <1>1, <2>1, SMT
      <3>2. BootForm(todo) /\ BootForm(todo')
        BY <2>1, <3>1 DEF BootForm
      <3> QED BY <2>1, <3>1, <3>2, ShapeOne, ShapeMore
    <2>2. ASSUME NEW S \in NonEmpty, master_state = "STARTUP",
                 todo = <<SetLoadingStep(n), ScheduleStep(S), WaitStep>>
          PROVE  /\ Shape(todo, {n}, S) /\ Shape(todo', {}, S)
                 /\ BootForm(todo) /\ BootForm(todo')
      <3>1. todo' = <<ScheduleStep(S), WaitStep>>
        BY <1>1, <2>2, SMT
      <3>2. BootForm(todo) /\ BootForm(todo')
        BY <2>2, <3>1 DEF BootForm
      <3> QED BY <2>2, <3>1, <3>2, ShapeMore
    <2>3. CASE master_state = "RUNNING" /\ todo = <<SetLoadingStep(n)>>
      <3>1. todo' = <<>>
        BY <1>1, <2>3, SMT
      <3> QED BY <2>3, <3>1, ShapeOne
    <2>4. ASSUME NEW S \in NonEmpty, master_state = "RUNNING",
                 todo = <<SetLoadingStep(n), ScheduleStep(S)>>
          PROVE  Shape(todo, {n}, S) /\ Shape(todo', {}, S) /\ LoadForm(todo')
      <3>1. todo' = <<ScheduleStep(S)>>
        BY <1>1, <2>4, SMT
      <3> QED BY <2>4, <3>1, ShapeOne, ShapeMore DEF LoadForm
    <2> QED BY <1>2, <2>1, <2>2, <2>3, <2>4
  <1>5. PICK R : /\ Shape(todo, {n}, R) /\ Shape(todo', {}, R)
                 /\ \/ master_state = "STARTUP" /\ BootForm(todo) /\ BootForm(todo')
                    \/ master_state = "RUNNING" /\ (todo' = <<>> \/ LoadForm(todo'))
    BY <1>4
  <1>6. /\ \A m : (Marking(m) <=> m = n) /\ ~Marking(m)'
        /\ \A m : Scheduled(m)' => Scheduled(m)
    BY <1>5 DEF Shape, Scheduled, Marking
  <1>7. ~StartForm(todo) /\ ~StartForm(todo') /\ todo # <<RunStep>> /\ todo' # <<RunStep>>
    BY <1>5, Kinds DEF Shape
  <1>8. TodoInv'
    BY <1>1, <1>5 DEF TodoInv
  <1>9. master_state = "RUNNING" => ~BootForm(todo')
    BY <1>5, Kinds, LoadIsNotBoot
  <1>10. \/ master_state = "STARTUP" /\ BootForm(todo)
         \/ master_state = "RUNNING" /\ ~BootForm(todo')
    BY <1>5, <1>9
  <1> QED BY <1>3, <1>6, <1>7, <1>8, <1>10

\* The last statement of schedule_load_driver.
LEMMA MarkStep ==
    ASSUME NodesInv, Within(SetLoading)
    PROVE  NodesInv'
  <1> DEFINE n == NodeToDo
  <1>0. n \in Nodes /\ setup \in Setups /\ TypeOK /\ JobsInv /\ StartInv /\ TimerInv /\ GuardInv
    BY MarkTodo DEF NodesInv
  <1>1. /\ fault = "none" /\ todo # <<>>
        /\ node' = [node EXCEPT ![n].is_loading = TRUE]
        /\ UNCHANGED <<nmt, master, threads, fault, setup>>
    BY DEF Within, SetLoading, Remains
  <1>2. UNCHANGED <<master_state, n_scheduled_bootups, n_inhibited_starts, nodes_seen,
                    nodes_seen_late, n_syncs, mux, bootups, jobs, worker, done>>
    BY <1>1 DEF master, threads
  <1> HIDE DEF n
  <1>3. /\ node' \in [Nodes -> Node] /\ \A m \in Nodes : m # n => node'[m] = node[m]
        /\ node'[n].is_loading
        /\ \A m \in Nodes : /\ node'[m].driver_type = node[m].driver_type
                            /\ node'[m].is_initialized = node[m].is_initialized
                            /\ node'[m].inhibit = node[m].inhibit
                            /\ node'[m].is_heartbeat_supported = node[m].is_heartbeat_supported
                            /\ node'[m].heartbeat_timer = node[m].heartbeat_timer
                            /\ node'[m].ping_timer = node[m].ping_timer
                            /\ node'[m].ntimeouts = node[m].ntimeouts
    <2>1. node[n] \in Node /\ node \in [Nodes -> Node]
      BY <1>0 DEF TypeOK
    <2>2. [node[n] EXCEPT !.is_loading = TRUE] \in Node
      BY <2>1 DEF Node
    <2>3. node'[n] = [node[n] EXCEPT !.is_loading = TRUE] /\ \A m \in Nodes : m # n => node'[m] = node[m]
      BY <1>0, <1>1, <2>1
    <2> QED BY <1>0, <1>1, <2>1, <2>2, <2>3, SMT DEF Node
  <1>4. TypeOK'
    BY <1>0, <1>1, <1>2, <1>3, SameNode DEF TypeOK
  <1>5. BootInv'
    BY <1>1, <1>2, <1>3, MarkTodo, MuxIsThere, Quiet, BootKeeps DEF Fresh
  <1>6. LoadsInv'
    <2> SUFFICES ASSUME NEW m \in Nodes PROVE LoadInv(m)'
      BY DEF LoadsInv
    <2>1. LoadInv(m) /\ (Marking(m) <=> m = n) /\ ~Marking(m)'
      BY MarkTodo DEF NodesInv, LoadsInv, n
    <2>2. Early(Load(m))' = Early(Load(m)) /\ Busy(Load(m))' = Busy(Load(m))
      BY <1>1, Quiet
    <2>3. node'[m].driver_type = node[m].driver_type /\ node'[m].is_initialized = node[m].is_initialized
      BY <1>3
    <2>4. /\ m = n => node'[m].is_loading
          /\ m # n => node'[m].is_loading = node[m].is_loading
      BY <1>3
    <2> QED BY <1>1, <1>2, <2>1, <2>2, <2>3, <2>4 DEF LoadInv, Outstanding
  <1>7. StartInv' /\ TimerInv'
    BY <1>0, <1>1, <1>2, <1>3, MarkTodo, SameNode, SMT DEF StartInv, TimerInv
  <1>8. GuardInv'
    BY <1>0, <1>1, <1>2, <1>3, MarkTodo, Quiet, SameNode, SMT DEF GuardInv, GuardedNode, FaultsAtStop
  <1> QED BY <1>0, <1>1, <1>4, <1>5, <1>6, <1>7, <1>8, MarkTodo, Quiet DEF NodesInv

\* The last statement of run_bootup.
LEMMA WaitAdded ==
    ASSUME NodesInv, Within(schedule_bootup_done)
    PROVE  NodesInv'
  <1>0. /\ setup \in Setups /\ TypeOK /\ TodoInv /\ JobsInv /\ BootInv /\ LoadsInv /\ StartInv
        /\ TimerInv /\ GuardInv
    BY DEF NodesInv
  <1>1. /\ fault = "none" /\ todo # <<>> /\ Head(todo).do = "wait" /\ todo' = Tail(todo)
        /\ jobs' = Append(jobs, Wait)
        /\ UNCHANGED <<node, nmt, master_state, n_scheduled_bootups, n_inhibited_starts, nodes_seen,
                       nodes_seen_late, n_syncs, mux, bootups, worker, done, fault, setup>>
    BY DEF Within, schedule_bootup_done, Remains, master, Wait
  <1>2. master_state = "STARTUP" /\ todo = <<WaitStep>>
    BY <1>0, <1>1, Forms
  <1>3. todo' = <<>>
    BY <1>1, <1>2, SMT
  <1>4. BootForm(todo) /\ ~BootForm(todo') /\ ~StartForm(todo) /\ ~StartForm(todo')
        /\ todo # <<RunStep>> /\ todo' # <<RunStep>>
    <2>1. BootForm(todo)
      BY <1>2 DEF BootForm
    <2> QED BY <1>1, <1>3, <2>1, Kinds
  <1>5. \A m : ~Marking(m) /\ ~Marking(m)' /\ ~Scheduled(m)'
    <2>1. Shape(todo, {}, {}) /\ Shape(todo', {}, {})
      BY <1>2, <1>3, ShapeOne
    <2> QED BY <2>1 DEF Shape, Marking, Scheduled
  <1>6. ~Occurs(Wait) /\ mux
    BY <1>0, <1>4 DEF BootInv
  <1>7. Wait \in AnyJob /\ Probe # Wait /\ \A m : Load(m) # Wait
    BY DEF AnyJob, Load, Probe, Wait, Job
  <1>8. /\ \A x : Occurs(x)' <=> Occurs(x) \/ x = Wait
        /\ \A x : Once(x) /\ (x = Wait => ~Occurs(x)) => Once(x)'
        /\ \A x : Busy(x)' = Busy(x) /\ Early(x)' = Early(x)
        /\ \A x : /\ Has(jobs', x) <=> Has(jobs, x) \/ x = Wait
                  /\ Single(jobs, x) /\ (x = Wait => ~Has(jobs, x)) => Single(jobs', x)
        /\ Waited' <=> Waited
        /\ JobsInv' /\ jobs' \in Seq(JobRecord)
    BY <1>1, <1>7, JobAdded
  <1>9. TypeOK' /\ TodoInv'
    BY <1>0, <1>1, <1>3, <1>8, SameNode DEF TypeOK, TodoInv
  <1>10. BootInv'
    BY <1>0, <1>1, <1>4, <1>5, <1>6, <1>7, <1>8 DEF BootInv, Fresh
  <1>11. LoadsInv'
    <2> SUFFICES ASSUME NEW m \in Nodes PROVE LoadInv(m)'
      BY DEF LoadsInv
    <2>1. LoadInv(m) /\ Load(m) # Wait
      BY <1>0, <1>7 DEF LoadsInv
    <2> QED BY <1>1, <1>5, <1>8, <2>1 DEF LoadInv, Outstanding
  <1>12. StartInv' /\ TimerInv'
    <2>1. StartInv'
      BY <1>0, <1>1, <1>4 DEF StartInv
    <2>2. TimerInv'
      BY <1>0, <1>1, <1>4, SameNode DEF TimerInv
    <2> QED BY <2>1, <2>2
  <1>13. GuardInv'
    <2>1. ~(n_syncs > 0)
      BY <1>0, <1>2 DEF StartInv
    <2> QED BY <1>0, <1>1, <1>4, <1>7, <1>8, <2>1, SameNode DEF GuardInv, GuardedNode, FaultsAtStop
  <1> QED BY <1>0, <1>1, <1>8, <1>9, <1>10, <1>11, <1>12, <1>13 DEF NodesInv

\* A signal ends the main loop.
LEMMA StopStep ==
    ASSUME NodesInv, Within(on_stop_signal)
    PROVE  NodesInv'
  <1>0. /\ setup \in Setups /\ TypeOK /\ JobsInv /\ BootInv /\ LoadsInv /\ StartInv
        /\ TimerInv /\ GuardInv
    BY DEF NodesInv
  <1>1. /\ fault = "none" /\ todo = <<>> /\ master_state' = "STOPPING" /\ todo' = ForEach("unload", Nodes)
        /\ UNCHANGED <<node, nmt, n_scheduled_bootups, n_inhibited_starts, nodes_seen,
                       nodes_seen_late, n_syncs, mux, bootups, threads, fault, setup>>
    BY DEF Within, on_stop_signal, AtLoop
  <1>2. UNCHANGED <<jobs, worker, done>>
    BY <1>1 DEF threads
  <1>3. StopForm(todo')
    <2>1. Nodes \in NonEmpty
      BY MasterAssumption, SMT DEF Nodes, NonEmpty
    <2> QED BY <1>1, <2>1 DEF ForEach, StopForm, NonEmpty
  <1>4. ~BootForm(todo') /\ ~StartForm(todo') /\ todo' # <<RunStep>> /\ todo # <<RunStep>>
    BY <1>1, <1>3, Kinds
  <1>5. \A m : ~Marking(m) /\ ~Marking(m)'
    <2>1. todo' # <<>> /\ Head(todo').do = "unload"
      BY <1>3, Kinds
    <2> QED BY <1>1, <2>1, SMT DEF Marking, SetLoadingStep, Do
  <1>6. TypeOK' /\ TodoInv'
    BY <1>0, <1>1, <1>2, <1>3, SameNode DEF TypeOK, TodoInv
  <1>7. BootInv'
    BY <1>1, <1>4, Quiet, BootKeeps
  <1>8. LoadsInv'
    BY <1>1, <1>5, LoadsKeep DEF NodeByMain
  <1>9. StartInv' /\ TimerInv'
    BY <1>0, <1>1, <1>4, SameNode DEF StartInv, TimerInv
  <1>10. GuardInv'
    BY <1>0, <1>1, <1>4, Quiet, SameNode DEF GuardInv, GuardedNode, FaultsAtStop
  <1> QED BY <1>0, <1>1, <1>6, <1>7, <1>8, <1>9, <1>10, Quiet DEF NodesInv

\* A boot-up message is noted, or starts a load.
LEMMA BootupStep ==
    ASSUME NodesInv, NEW n \in Nodes, Within(handle_bootup(n))
    PROVE  NodesInv'
  <1>0. /\ setup \in Setups /\ TypeOK /\ JobsInv /\ BootInv /\ LoadsInv /\ StartInv
        /\ TimerInv /\ GuardInv
    BY DEF NodesInv
  <1>1. /\ fault = "none" /\ todo = <<>> /\ master_state # "STOPPING" /\ mux
        /\ bootups < setup.MaxBootups /\ bootups' = bootups + 1
        /\ \/ master_state = "STARTUP" /\ nodes_seen_late' = nodes_seen_late \union {n} /\ todo' = <<>>
           \/ /\ master_state # "STARTUP" /\ nodes_seen_late' = nodes_seen_late
              /\ todo' = <<ScheduleStep({n})>>
        /\ UNCHANGED <<node, nmt, master_state, n_scheduled_bootups, n_inhibited_starts, nodes_seen,
                       n_syncs, mux, threads, fault, setup>>
    BY DEF Within, handle_bootup, AtLoop, ScheduleStep
  <1>2. UNCHANGED <<jobs, worker, done>>
    BY <1>1 DEF threads
  <1>3. TodoInv'
    <2>1. {n} \in NonEmpty
      BY DEF NonEmpty
    <2>2. master_state \in {"STARTUP", "RUNNING"}
      BY <1>0, <1>1 DEF TypeOK
    <2> QED BY <1>1, <2>1, <2>2 DEF TodoInv, LoadForm
  <1>4. Shape(todo', {}, {}) \/ Shape(todo', {}, {n})
    BY <1>1, ShapeOne
  <1>5. ~BootForm(todo') /\ ~StartForm(todo') /\ ~StartForm(todo) /\ todo' # <<RunStep>> /\ todo # <<RunStep>>
    <2>1. {n} \in NonEmpty
      BY DEF NonEmpty
    <2>2. todo' # <<>> => LoadForm(todo')
      BY <1>1, <2>1 DEF LoadForm
    <2> QED BY <1>1, <2>2, LoadIsNotBoot, Kinds
  <1>6. \A m : ~Marking(m) /\ ~Marking(m)'
    BY <1>1, <1>4 DEF Shape, Marking
  <1>7. TypeOK'
    <2>1. setup.MaxBootups \in Nat
      BY <1>0, MasterAssumption DEF Setup
    <2>2. bootups' \in 0..setup.MaxBootups
      BY <1>0, <1>1, <2>1, SMT DEF TypeOK
    <2>3. nodes_seen_late' \subseteq Nodes
      BY <1>0, <1>1 DEF TypeOK
    <2> QED BY <1>0, <1>1, <1>2, <2>2, <2>3, SameNode DEF TypeOK
  <1>8. BootInv'
    <2>1. \A m : master_state = "STARTUP" => ~Scheduled(m)'
      BY <1>1, SMT DEF Scheduled, ScheduledIn
    <2> QED BY <1>1, <1>5, <2>1, Quiet, BootKeeps DEF Fresh
  <1>9. LoadsInv'
    BY <1>1, <1>6, LoadsKeep DEF NodeByMain
  <1>10. StartInv' /\ TimerInv'
    BY <1>0, <1>1, <1>5, SameNode DEF StartInv, TimerInv
  <1>11. GuardInv'
    BY <1>0, <1>1, <1>5, Quiet, SameNode DEF GuardInv, GuardedNode, FaultsAtStop
  <1> QED BY <1>0, <1>1, <1>3, <1>7, <1>8, <1>9, <1>10, <1>11, Quiet DEF NodesInv
=============================================================================
