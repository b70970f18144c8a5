------------------------------- MODULE SdoReq -------------------------------
(***************************************************************************)
(* The SDO request queues, src/sdo_req.c, and the two ways to use them:    *)
(* a worker thread that waits (src/sdo_sync.c) and a callback on the main  *)
(* loop.  Each node has a FIFO queue and one SDO client; an idle job of    *)
(* the main loop (src/mloop.c) starts the client on the next request.  The *)
(* client is abstracted to the request it runs: SdoAsync models it.        *)
(***************************************************************************)
EXTENDS Integers, Sequences, FiniteSets

CONSTANTS NNodes,       \* the number of nodes, each with a queue
          Workers,      \* threads that call sdo_sync_read and sdo_sync_write
          Reqs,         \* the requests that may be made, each at most once
          NoReq,        \* not a request
          Limit,        \* sdo_queue_length
          OutOfMemory   \* whether vector_copy may fail

ASSUME SdoReqAssumption ==
    /\ NNodes \in Nat \ {0}
    /\ NoReq \notin Reqs /\ IsFiniteSet(Reqs)
    /\ Limit \in Nat
    /\ OutOfMemory \in BOOLEAN

VARIABLES req,      \* the requests
          queue,    \* struct sdo_req_queue of each node
          client,   \* the request that the SDO client of each node runs
          idle,     \* idle_jobs of the main loop: one job per node
          main,     \* where the main loop is
          wake,     \* the event that mloop_iterate raises
          worker    \* where each worker is

vars == <<req, queue, client, idle, main, wake, worker>>

Nodes == 1..NNodes

Status == {"PENDING", "OK", "ABORT", "NOMEM", "CANCELLED"}

Request ==
    [ref: Nat,
     made: BOOLEAN,                    \* sdo_req_new has returned it
     type: {"UPLOAD", "DOWNLOAD"},
     callback: BOOLEAN,                \* on_done is set
     status: Status,
     copied: BOOLEAN,                  \* data holds what was uploaded
     called: Nat,                      \* history: calls of on_done
     order: Nat]                       \* history: rank among those enqueued

Unmade == [ref |-> 0, made |-> FALSE, type |-> "UPLOAD", callback |-> FALSE,
           status |-> "PENDING", copied |-> FALSE, called |-> 0, order |-> 0]

sdo_req_new(type, callback) ==
    [Unmade EXCEPT !.ref = 1, !.made = TRUE, !.type = type,
                   !.callback = callback]

Unref(rs, r) == [rs EXCEPT ![r].ref = @ - 1]

Elems(s) == {s[i] : i \in DOMAIN s}

\* sdo_req_queues_init starts the idle jobs in the order of the nodes.
sdo_req_queues_init ==
    /\ queue = [n \in Nodes |-> [list |-> <<>>, size |-> 0, locked |-> FALSE]]
    /\ client = [n \in Nodes |-> NoReq]
    /\ idle = [n \in Nodes |-> n]

Init ==
    /\ sdo_req_queues_init
    /\ req = [r \in Reqs |-> Unmade]
    /\ main = [pc |-> "check", arg |-> NoReq]
    /\ wake = FALSE
    /\ worker = [w \in Workers |-> [pc |-> "free", req |-> NoReq]]

(***************************************************************************)
(* Starting a request.                                                     *)
(***************************************************************************)
HasRoom(n) == queue[n].size < Limit

\* Mutants: the main loop is not woken; the newest request goes first.
EnqueueSilently(n, r) ==
    /\ ~queue[n].locked
    /\ queue' = IF HasRoom(n)
                THEN [queue EXCEPT ![n].size = @ + 1,
                                   ![n].list = Append(@, r)]
                ELSE queue
    /\ UNCHANGED wake
EnqueueFirst(n, r) ==
    /\ ~queue[n].locked
    /\ queue' = IF HasRoom(n)
                THEN [queue EXCEPT ![n].size = @ + 1,
                                   ![n].list = <<r>> \o @]
                ELSE queue
    /\ wake' = (wake \/ HasRoom(n))

\* The whole of it is done with the queue locked.
sdo_req_queue__enqueue(n, r) ==
    /\ ~queue[n].locked
    /\ queue' = IF HasRoom(n)
                THEN [queue EXCEPT ![n].size = @ + 1,
                                   ![n].list = Append(@, r)]
                ELSE queue
    /\ wake' = (wake \/ HasRoom(n))

\* The requests after sdo_req_start: the queue holds a reference to r, unless
\* it was full.
sdo_req_start(rs, n, r) ==
    IF HasRoom(n)
    THEN [rs EXCEPT ![r].ref = @ + 1,
                    ![r].order = Cardinality({q \in Reqs : rs[q].order > 0}) + 1]
    ELSE rs

\* sdo_sync_read, sdo_sync_write: up to the wait.
SyncStart(w, n, r, type) ==
    /\ worker[w].pc = "free"
    /\ ~req[r].made
    /\ sdo_req_queue__enqueue(n, r)
    /\ LET rs == sdo_req_start([req EXCEPT ![r] = sdo_req_new(type, FALSE)],
                               n, r)
       IN  IF HasRoom(n)
           THEN /\ req' = rs
                /\ worker' = [worker EXCEPT ![w] = [pc |-> "wait", req |-> r]]
           ELSE /\ req' = Unref(rs, r)
                /\ UNCHANGED worker
    /\ UNCHANGED <<client, idle, main>>

\* sdo_req_wait polls the status without a lock.
SyncWait(w) ==
    /\ worker[w].pc = "wait"
    /\ req[worker[w].req].status # "PENDING"
    /\ worker' = [worker EXCEPT ![w].pc = "result"]
    /\ UNCHANGED <<req, queue, client, idle, main, wake>>

\* The status is read again, then the data; the reference is dropped.
SyncResult(w) ==
    /\ worker[w].pc = "result"
    /\ req' = Unref(req, worker[w].req)
    /\ worker' = [worker EXCEPT ![w] = [pc |-> "free", req |-> NoReq]]
    /\ UNCHANGED <<queue, client, idle, main, wake>>

(***************************************************************************)
(* The main loop.  "block" is an epoll_wait without a time-out.            *)
(***************************************************************************)
sdo_req__have_req(n) == client[n] = NoReq /\ queue[n].list # <<>>

\* mloop_run picks the time-out of epoll_wait.
MainCheck ==
    /\ main.pc = "check"
    /\ main' = [main EXCEPT !.pc = IF \E n \in Elems(idle) :
                                          sdo_req__have_req(n)
                                   THEN "events" ELSE "block"]
    /\ UNCHANGED <<req, queue, client, idle, wake, worker>>

HandlesEvents == main.pc \in {"block", "events"}

\* The event that mloop_iterate raised.
MainWake ==
    /\ HandlesEvents
    /\ wake
    /\ wake' = FALSE
    /\ main' = [main EXCEPT !.pc = "events"]
    /\ UNCHANGED <<req, queue, client, idle, worker>>

\* A callback on the main loop makes a request with a callback of its own, as
\* the REST service and drivers do, and drops its reference.
AsyncStart(n, r, type) ==
    /\ HandlesEvents
    /\ ~req[r].made
    /\ sdo_req_queue__enqueue(n, r)
    /\ req' = Unref(sdo_req_start([req EXCEPT ![r] = sdo_req_new(type, TRUE)],
                                  n, r), r)
    /\ main' = [main EXCEPT !.pc = "events"]
    /\ UNCHANGED <<client, idle, worker>>

\* sdo_req__queue_clear, then sdo_req__on_stop for the transfer that runs.
Cancelled(n) ==
    [r \in Reqs |->
        IF r \in Elems(queue[n].list) \/ r = client[n]
        THEN [req[r] EXCEPT !.ref = @ - 1, !.status = "CANCELLED"]
        ELSE req[r]]

\* No on_done is called.
sdo_req_queue_flush(n) ==
    /\ HandlesEvents
    /\ ~queue[n].locked
    /\ req' = Cancelled(n)
    /\ queue' = [queue EXCEPT ![n].list = <<>>, ![n].size = 0]
    /\ client' = [client EXCEPT ![n] = NoReq]
    /\ main' = [main EXCEPT !.pc = "events"]
    /\ UNCHANGED <<idle, wake, worker>>

\* sdo_req__on_done, first the status: a worker may see it from here on.
OnDoneStatus(n, status) ==
    /\ HandlesEvents
    /\ client[n] # NoReq
    /\ req' = [req EXCEPT ![client[n]].status = status]
    /\ client' = [client EXCEPT ![n] = NoReq]
    /\ main' = [pc |-> "copy", arg |-> client[n]]
    /\ UNCHANGED <<queue, idle, wake, worker>>

\* Mutant: the data is not copied.
DoneUncopied(r, ok) ==
    [req EXCEPT ![r].called = @ + (IF req[r].callback THEN 1 ELSE 0),
                ![r].ref = @ - 1]

\* Then the data, the callback and, by free_fn, the reference.
Done(r, ok) ==
    [req EXCEPT ![r].copied = (ok /\ req[r].type = "UPLOAD"),
                ![r].status = IF ok THEN @ ELSE "NOMEM",
                ![r].called = @ + (IF req[r].callback THEN 1 ELSE 0),
                ![r].ref = @ - 1]

OnDoneData ==
    /\ main.pc = "copy"
    /\ \E ok \in {TRUE} \union
                 (IF OutOfMemory /\ req[main.arg].type = "UPLOAD"
                  THEN {FALSE} ELSE {}) :
           req' = Done(main.arg, ok)
    /\ wake' = TRUE
    /\ main' = [pc |-> "events", arg |-> NoReq]
    /\ UNCHANGED <<queue, client, idle, worker>>

EventsDone ==
    /\ main.pc = "events"
    /\ main' = [main EXCEPT !.pc = "idle"]
    /\ UNCHANGED <<req, queue, client, idle, wake, worker>>

\* The job that was popped goes back to the end of the list.
Rotated == Append(Tail(idle), Head(idle))

\* mloop__process_idle_jobs: one job, if there is something for it to do.
IdleJob ==
    /\ main.pc = "idle"
    /\ main' = [main EXCEPT !.pc = IF sdo_req__have_req(Head(idle))
                                   THEN "process" ELSE "check"]
    /\ idle' = IF sdo_req__have_req(Head(idle)) THEN idle ELSE Rotated
    /\ UNCHANGED <<req, queue, client, wake, worker>>

\* With an empty list the queue would be left locked.
sdo_req_queue__dequeue(n) ==
    IF queue[n].list = <<>>
    THEN /\ queue' = [queue EXCEPT ![n].locked = TRUE]
         /\ UNCHANGED client
    ELSE /\ queue' = [queue EXCEPT ![n].list = Tail(@), ![n].size = @ - 1]
         /\ client' = [client EXCEPT ![n] = Head(queue[n].list)]

sdo_req__process_queue ==
    /\ main.pc = "process"
    /\ ~queue[Head(idle)].locked
    /\ sdo_req_queue__dequeue(Head(idle))
    /\ idle' = Rotated
    /\ main' = [main EXCEPT !.pc = "check"]
    /\ UNCHANGED <<req, wake, worker>>

Worker(w) ==
    \/ \E n \in Nodes, r \in Reqs, type \in {"UPLOAD", "DOWNLOAD"} :
           SyncStart(w, n, r, type)
    \/ SyncWait(w)
    \/ SyncResult(w)

Main ==
    \/ MainCheck
    \/ MainWake
    \/ \E n \in Nodes, r \in Reqs, type \in {"UPLOAD", "DOWNLOAD"} :
           AsyncStart(n, r, type)
    \/ \E n \in Nodes : sdo_req_queue_flush(n)
    \/ \E n \in Nodes, status \in {"OK", "ABORT"} : OnDoneStatus(n, status)
    \/ OnDoneData
    \/ EventsDone
    \/ IdleJob
    \/ sdo_req__process_queue

Next == Main \/ \E w \in Workers : Worker(w)

Spec == Init /\ [][Next]_vars

\* The main loop and the workers keep running.  A transfer ends at the latest
\* when its timer expires; the expired timer stays readable, so the loop finds
\* it on a later pass through epoll_wait.
Fairness ==
    /\ WF_vars(MainCheck \/ OnDoneData \/ EventsDone \/ IdleJob
               \/ sdo_req__process_queue)
    /\ SF_vars(MainWake)
    /\ \A n \in Nodes :
           SF_vars(\E status \in {"OK", "ABORT"} : OnDoneStatus(n, status))
    /\ \A w \in Workers : WF_vars(SyncWait(w)) /\ WF_vars(SyncResult(w))

FairSpec == Spec /\ Fairness

TypeOK ==
    /\ req \in [Reqs -> Request]
    /\ queue \in [Nodes -> [list: Seq(Reqs), size: Nat, locked: BOOLEAN]]
    /\ client \in [Nodes -> Reqs \union {NoReq}]
    /\ idle \in Seq(Nodes)
    /\ main \in [pc: {"check", "block", "events", "copy", "idle", "process"},
                 arg: Reqs \union {NoReq}]
    /\ wake \in BOOLEAN
    /\ worker \in [Workers -> [pc: {"free", "wait", "result"},
                               req: Reqs \union {NoReq}]]

\* size counts the list, also after a flush, and never passes the limit that
\* sdo_req_queue__enqueue enforces; dequeue's assertion on size holds.
SizeIsLength ==
    \A n \in Nodes : /\ queue[n].size = Len(queue[n].list)
                     /\ queue[n].size <= Limit

\* The references to a request are the queue's, the client's (or that of the
\* callback that ends its transfer), the waiting worker's and those that a
\* driver has kept: none is dropped
\* early, which would free a request that is in use, and none leaks.
Holders(r) ==
    {<<"queue", n>> : n \in {m \in Nodes : r \in Elems(queue[m].list)}}
    \union {<<"client", n>> : n \in {m \in Nodes : client[m] = r}}
    \union {<<"worker", w>> : w \in {v \in Workers : worker[v].req = r}}
    \union (IF main.arg = r THEN {<<"main", 0>>} ELSE {})

RefCounted(kept) ==
    \A r \in Reqs :
        req[r].ref = Cardinality(Holders(r)) + (IF r \in kept THEN 1 ELSE 0)

\* A request whose status a worker may be polling is in a queue or is run by a
\* client, so that something will change the status; it is in one place only.
PendingIsOwned ==
    \A w \in Workers :
        worker[w].pc = "wait" /\ req[worker[w].req].status = "PENDING" =>
            Cardinality(Holders(worker[w].req)) = 2

\* sdo_req__process_queue never finds its queue empty, which would make
\* sdo_req_queue__dequeue return with the queue locked, nor its client busy,
\* which it asserts.
QueueUnlocked ==
    /\ \A n \in Nodes : ~queue[n].locked
    /\ main.pc = "process" => client[Head(idle)] = NoReq

\* "They will be queued up in FIFO order" (sdo_req.c): the requests to one node
\* are started in the order they were made.
FifoOrder ==
    \A n \in Nodes :
        LET line == (IF client[n] = NoReq THEN <<>> ELSE <<client[n]>>)
                    \o queue[n].list
        IN  \A i, j \in DOMAIN line :
                i < j => req[line[i]].order < req[line[j]].order

\* on_done is called at most once, after the transfer ended and with the data
\* of an upload in place, and never for a request that was cancelled.
CallbackOnce ==
    \A r \in Reqs :
        req[r].called > 0 => /\ req[r].called = 1
                             /\ req[r].status \in {"OK", "ABORT", "NOMEM"}
                             /\ req[r].type = "UPLOAD" =>
                                    req[r].copied \/ req[r].status = "NOMEM"

\* A worker in sdo_req_wait returns: the main loop is always woken for a new
\* request, and no node's queue is passed over by the idle jobs.
WaitEnds ==
    \A w \in Workers : worker[w].pc = "wait" ~> worker[w].pc = "free"

\* "... by either waiting for it to finish using sdo_req_wait() or registering
\* an "on_done" callback" (sdo_req.c): an upload that a worker finds OK has
\* finished, its data is there.
WaitMeansFinished ==
    [][ \A w \in Workers :
            LET r == req[worker[w].req] IN
            SyncResult(w) /\ r.type = "UPLOAD" /\ r.status = "OK" =>
                r.copied ]_vars

\* The queues are in order whoever works on them: size counts the requests that
\* wait, they wait in the order in which they were started, and no way through
\* the main loop leaves a mutex locked.
QueuesInOrder == TypeOK /\ SizeIsLength /\ FifoOrder /\ QueueUnlocked

\* Every request has an owner: as many references as holders, and while it is
\* pending a queue or the client that will end it, with one call of on_done.
RequestsOwnedWith(kept) == RefCounted(kept) /\ PendingIsOwned /\ CallbackOnce
=============================================================================
