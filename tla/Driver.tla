------------------------------- MODULE Driver -------------------------------
(***************************************************************************)
(* The driver of a node, src/driver.c: a shared object that a worker loads *)
(* and the main thread initialises, calls and unloads (src/master.c), and  *)
(* what it asks of the SDO queue of its node (SdoReq).  Functions of the   *)
(* driver are known to others by pointers into the shared object.  A       *)
(* number stands for each load of it, 0 for no pointer.                    *)
(***************************************************************************)
EXTENDS SdoReq

CONSTANTS DriverReqs,   \* the requests that drivers may make
          MaxLoads      \* bound on the loads

ASSUME DriverAssumption == DriverReqs \subseteq Reqs /\ MaxLoads \in Nat

VARIABLES drv,          \* struct co_drv of the node, and whether it is used
          code,         \* what the on_done of a co_sdo_req, or the function
                        \* that frees its context, points into
          held          \* the requests that the driver has a reference to

drvvars == <<drv, code, held>>

DriverNode == 1

NoCodeLoaded == 0

\* dso; the functions set by co_set_pdo1_fn, ..., co_set_emcy_fn and
\* co_set_start_fn, taken together; and a count of the loads.
NoDriver(loads) ==
    [phase |-> "none", dso |-> NoCodeLoaded, fns |-> NoCodeLoaded, loads |-> loads]

DriverInit ==
    /\ drv = NoDriver(0)
    /\ code = [r \in Reqs |-> NoCodeLoaded]
    /\ held = {}

----------------------------------------------------------------------------
(* What the driver may do in its functions, all of them called by the main *)
(* thread.                                                                 *)

InDriver ==
    /\ HandlesEvents
    /\ drv.phase \in {"init", "ready"}
    /\ main' = [main EXCEPT !.pc = "events"]

co_set_fns ==
    /\ InDriver
    /\ drv' = [drv EXCEPT !.fns = drv.dso]
    /\ UNCHANGED <<req, queue, client, idle, wake, worker, code, held>>

\* With co_sdo_req_set_type, co_sdo_req_set_done_fn, co_sdo_req_set_context:
\* the driver sets a function of its own, or none.
co_sdo_req_new(r, type) ==
    /\ InDriver
    /\ ~req[r].made
    /\ req' = [req EXCEPT ![r] = sdo_req_new(type, TRUE)]
    /\ \E fn \in {NoCodeLoaded, drv.dso} : code' = [code EXCEPT ![r] = fn]
    /\ held' = held \union {r}
    /\ UNCHANGED <<queue, client, idle, wake, worker, drv>>

\* A request is started once.
co_sdo_req_start(r) ==
    /\ InDriver
    /\ r \in held
    /\ req[r].order = 0
    /\ sdo_req_queue__enqueue(DriverNode, r)
    /\ req' = sdo_req_start(req, DriverNode, r)
    /\ UNCHANGED <<client, idle, worker, drvvars>>

co_sdo_req_unref(r) ==
    /\ InDriver
    /\ r \in held
    /\ req' = Unref(req, r)
    /\ held' = held \ {r}
    /\ UNCHANGED <<queue, client, idle, wake, worker, drv, code>>

\* A download without a callback.
co_sdo_send_blob(r) ==
    /\ InDriver
    /\ ~req[r].made
    /\ sdo_req_queue__enqueue(DriverNode, r)
    /\ req' = Unref(sdo_req_start([req EXCEPT ![r] = sdo_req_new("DOWNLOAD", FALSE)],
                                  DriverNode, r), r)
    /\ UNCHANGED <<client, idle, worker, drvvars>>

DriverCall ==
    \/ co_set_fns
    \/ \E r \in DriverReqs :
                       \/ \E type \in {"UPLOAD", "DOWNLOAD"} : co_sdo_req_new(r, type)
                       \/ co_sdo_req_start(r) \/ co_sdo_req_unref(r)
                       \/ co_sdo_send_blob(r)

----------------------------------------------------------------------------
(* What is done with the driver. *)

\* By a worker; a load that fails leaves nothing behind.
co_drv_load ==
    /\ drv.phase = "none"
    /\ drv.loads < MaxLoads
    /\ drv' = [drv EXCEPT !.phase = "loaded", !.loads = @ + 1, !.dso = drv.loads + 1]
    /\ UNCHANGED <<vars, code, held>>

\* The driver's free_fn gives back what the driver holds.
Released(rs) == [r \in Reqs |-> IF r \in held THEN Unref(rs, r)[r] ELSE rs[r]]

co_drv_unload(rs) ==
    /\ req' = Released(rs)
    /\ held' = {}
    /\ drv' = NoDriver(drv.loads)
    /\ UNCHANGED code

\* initialize_new_driver calls co_drv_init, up to its return.
co_drv_init ==
    /\ HandlesEvents
    /\ drv.phase = "loaded"
    /\ drv' = [drv EXCEPT !.phase = "init"]
    /\ main' = [main EXCEPT !.pc = "events"]
    /\ UNCHANGED <<req, queue, client, idle, wake, worker, code, held>>

\* The requests in the queue or at the client that point into the driver.
Outstanding ==
    {r \in Elems(queue[DriverNode].list) \union ({client[DriverNode]} \ {NoReq}) :
        code[r] # NoCodeLoaded}

\* The queue is not flushed when a driver fails to initialise: this is for
\* drivers that leave nothing there then that would call them.
initialize_new_driver ==
    /\ drv.phase = "init"
    /\ \/ /\ drv' = [drv EXCEPT !.phase = "ready"]
          /\ UNCHANGED <<req, code, held>>
       \/ /\ Outstanding = {}
          /\ co_drv_unload(req)
    /\ UNCHANGED <<queue, client, idle, wake, main, worker>>

\* Mutant: the queue is not flushed.
UnloadUnflushed ==
    /\ HandlesEvents
    /\ drv.phase = "ready"
    /\ co_drv_unload(req)
    /\ main' = [main EXCEPT !.pc = "events"]
    /\ UNCHANGED <<queue, client, idle, wake, worker>>

\* A timer, a boot-up or the end of the program unloads the driver.
unload_driver ==
    /\ HandlesEvents
    /\ drv.phase = "ready"
    /\ ~queue[DriverNode].locked
    /\ queue' = [queue EXCEPT ![DriverNode].list = <<>>, ![DriverNode].size = 0]
    /\ client' = [client EXCEPT ![DriverNode] = NoReq]
    /\ co_drv_unload(Cancelled(DriverNode))
    /\ main' = [main EXCEPT !.pc = "events"]
    /\ UNCHANGED <<idle, wake, worker>>

DriverStep ==
    \/ DriverCall \/ co_drv_load \/ co_drv_init \/ initialize_new_driver
    \/ unload_driver

\* All of it together: workers make requests while the driver does, and the
\* main loop does nothing else until co_drv_init has returned.
DriverNext ==
    \/ drv.phase # "init" /\ Main /\ UNCHANGED drvvars
    \/ (\E w \in Workers : Worker(w)) /\ UNCHANGED drvvars
    \/ DriverStep

DriverSpec == Init /\ DriverInit /\ [][DriverNext]_<<vars, drvvars>>

----------------------------------------------------------------------------
(* The code that is called when a request ends, and for a frame of the     *)
(* node.                                                                   *)

co__sdo_req_on_done(r) == code[r]

DriverObjects == {"TPDO1", "TPDO2", "TPDO3", "TPDO4", "EMCY"}

handle_emcy == IF drv.phase = "none" THEN NoCodeLoaded ELSE drv.fns

handle_not_loaded(object) == IF object = "EMCY" THEN handle_emcy ELSE NoCodeLoaded

handle_with_new_driver(object) == IF object = "EMCY" THEN handle_emcy ELSE drv.fns

\* A frame of another kind is the master's own (Master, SdoReq).
mux_on_frame(object) ==
    IF drv.phase = "ready" THEN handle_with_new_driver(object)
    ELSE handle_not_loaded(object)

----------------------------------------------------------------------------
(* Properties. *)

\* Every request has an owner, those of the driver included, and on_done is
\* called once (SdoReq): through flushes, full queues and unloaded drivers.
RequestsOwned == RequestsOwnedWith(held)

\* No function is called in a driver that has been unloaded: not by a request
\* that ends later, or frees its context, and not by a frame from the node,
\* whatever the driver started before and however often it is loaded again.
CodeIsLoaded ==
    /\ \A r \in Reqs : req[r].ref > 0 =>
          co__sdo_req_on_done(r) \in {NoCodeLoaded, drv.dso}
    /\ \A object \in DriverObjects : mux_on_frame(object) \in {NoCodeLoaded, drv.dso}
=============================================================================
