----------------------------- MODULE MloopWork ------------------------------
(***************************************************************************)
(* The work of src/mloop.c: the main loop puts jobs on the job queue, the  *)
(* worker threads run them and send them back on the queue of async jobs,  *)
(* from which the main loop calls their done functions.  Both queues are   *)
(* FIFO for jobs of one priority (Prioq).  The jobs are reference counted; *)
(* those that nobody refers to are freed at the end of an iteration.       *)
(***************************************************************************)
EXTENDS Integers, Sequences

CONSTANTS Works,       \* struct mloop_work objects
          Threads,     \* worker threads
          Nobody,      \* not a work and not a thread
          MaxStarts,   \* bound: starts of each work
          OutOfMemory  \* whether prioq_insert may fail

ASSUME MloopWorkAssumption ==
    /\ Nobody \notin Works \union Threads
    /\ MaxStarts \in Nat
    /\ OutOfMemory \in BOOLEAN

VARIABLES work,    \* the works
          jobs,    \* mloop__job_queue
          async,   \* core->async_jobs
          lock,    \* the thread that has async_jobs locked
          wake,    \* the event of break_out_socket
          main,    \* where the main loop is
          thread   \* where each worker thread is

vars == <<work, jobs, async, lock, wake, main, thread>>

Work ==
    [mem: {"none", "live", "scheduled", "freed"},
     state: {"STOPPED", "STARTING", "STARTED"},
     ref: Nat,
     held: BOOLEAN,          \* the user has a reference
     listed: BOOLEAN,        \* on the list of active objects
     done_fn: BOOLEAN,       \* has a done function
     is_cancelled: BOOLEAN,
     starts: Nat,            \* history: successful starts,
     calls: Nat,             \*   calls of done_fn,
     cancels: Nat,           \*   jobs that came back cancelled,
     lost: Nat]              \*   jobs that could not be sent back

NoWork ==
    [mem |-> "none", state |-> "STOPPED", ref |-> 0, held |-> FALSE,
     listed |-> FALSE, done_fn |-> FALSE, is_cancelled |-> FALSE,
     starts |-> 0, calls |-> 0, cancels |-> 0, lost |-> 0]

Init ==
    /\ work = [w \in Works |-> NoWork]
    /\ jobs = <<>>
    /\ async = <<>>
    /\ lock = Nobody
    /\ wake = FALSE
    /\ main = "check"
    /\ thread = [t \in Threads |-> [pc |-> "pop", job |-> Nobody]]

\* An object that loses its last reference is put on the free list.
mloop__unref_any(o) ==
    [o EXCEPT !.ref = @ - 1,
              !.mem = IF o.ref = 1 THEN "scheduled" ELSE @]

mloop__object_list_add(o) == [o EXCEPT !.listed = TRUE, !.ref = @ + 1]

mloop__object_list_remove(o) ==
    mloop__unref_any([o EXCEPT !.listed = FALSE])

(***************************************************************************)
(* What the program does with works, on the main thread.                   *)
(***************************************************************************)
mloop_work_new(w, done_fn) ==
    /\ main = "events"
    /\ work[w].mem = "none"
    /\ work' = [work EXCEPT ![w] = [NoWork EXCEPT !.mem = "live", !.ref = 1,
                                                  !.held = TRUE,
                                                  !.done_fn = done_fn]]
    /\ UNCHANGED <<jobs, async, lock, wake, main, thread>>

\* No work of the program is started more than once.  Here they may be, but not
\* after a job that could not be sent back: it is still on the list.
CanStart(w) == work[w].starts < MaxStarts /\ work[w].lost = 0

Starting(o) ==
    mloop__object_list_add([o EXCEPT !.state = "STARTING", !.is_cancelled = FALSE,
                                     !.starts = @ + 1])

\* A work that is not stopped is refused.  When prioq_insert fails the work is
\* stopped again.
mloop_work_start(w) ==
    /\ main = "events"
    /\ work[w].held
    /\ CanStart(w)
    /\ work[w].state = "STOPPED"
    /\ \/ /\ jobs' = Append(jobs, w)
          /\ work' = [work EXCEPT ![w] = Starting(@)]
       \/ /\ OutOfMemory
          /\ work' = [work EXCEPT ![w].is_cancelled = FALSE]
          /\ UNCHANGED jobs
    /\ UNCHANGED <<async, lock, wake, main, thread>>

mloop_work_unref(w) ==
    /\ main = "events"
    /\ work[w].held
    /\ work' = [work EXCEPT ![w] = mloop__unref_any([@ EXCEPT !.held = FALSE])]
    /\ UNCHANGED <<jobs, async, lock, wake, main, thread>>

(***************************************************************************)
(* The worker threads: mloop__worker_fn.                                   *)
(***************************************************************************)
At(t, pc) == thread[t].pc = pc
Job(t) == thread[t].job
Goto(t, pc) == thread' = [thread EXCEPT ![t].pc = pc]
Idle(t) == thread' = [thread EXCEPT ![t] = [pc |-> "pop", job |-> Nobody]]

PopJob(t) ==
    /\ At(t, "pop")
    /\ jobs # <<>>
    /\ jobs' = Tail(jobs)
    /\ thread' = [thread EXCEPT
                     ![t] = [pc |-> IF work[Head(jobs)].is_cancelled
                                    THEN "remove" ELSE "ref",
                             job |-> Head(jobs)]]
    /\ UNCHANGED <<work, async, lock, wake, main>>

RefJob(t) ==
    /\ At(t, "ref")
    /\ work' = [work EXCEPT ![Job(t)].ref = @ + 1]
    /\ Goto(t, "run")
    /\ UNCHANGED <<jobs, async, lock, wake, main>>

\* work_fn.  It may cancel its own work, as sdo_rest__eds_job does to keep the
\* done function from being called.
RunJob(t, cancel) ==
    /\ At(t, "run")
    /\ work' = [work EXCEPT ![Job(t)].is_cancelled = @ \/ cancel]
    /\ Goto(t, "unref")
    /\ UNCHANGED <<jobs, async, lock, wake, main>>

UnrefJob(t) ==
    /\ At(t, "unref")
    /\ LET job == mloop__unref_any(work[Job(t)]) IN
       /\ work' = [work EXCEPT ![Job(t)] = job]
       /\ IF job.ref = 0 THEN Idle(t)
          ELSE IF job.done_fn THEN Goto(t, "forward")
          ELSE Goto(t, "remove")
    /\ UNCHANGED <<jobs, async, lock, wake, main>>

\* Mutants: the queue is not locked; the main loop is not woken.
ForwardUnlocked(t) ==
    /\ At(t, "forward")
    /\ lock = Nobody
    /\ async' = Append(async, Job(t))
    /\ wake' = TRUE
    /\ Goto(t, "started")
    /\ UNCHANGED <<work, jobs, lock, main>>
ForwardSilently(t) ==
    /\ At(t, "forward")
    /\ lock = Nobody
    /\ lock' = t
    /\ async' = Append(async, Job(t))
    /\ Goto(t, "started")
    /\ UNCHANGED <<work, jobs, wake, main>>

\* mloop__forward_work keeps the queue locked until the state is changed.
ForwardWork(t) ==
    /\ At(t, "forward")
    /\ lock = Nobody
    /\ \/ /\ lock' = t
          /\ async' = Append(async, Job(t))
          /\ wake' = TRUE
          /\ Goto(t, "started")
          /\ UNCHANGED work
       \/ /\ OutOfMemory
          /\ work' = [work EXCEPT ![Job(t)].state = "STOPPED",
                                  ![Job(t)].lost = @ + 1]
          /\ Idle(t)
          /\ UNCHANGED <<async, lock, wake>>
    /\ UNCHANGED <<jobs, main>>

ForwardStarted(t) ==
    /\ At(t, "started")
    /\ work' = [work EXCEPT ![Job(t)].state = "STARTED"]
    /\ lock' = Nobody
    /\ Idle(t)
    /\ UNCHANGED <<jobs, async, wake, main>>

\* A job without a done function ends here.
RemoveJob(t) ==
    /\ At(t, "remove")
    /\ LET job == mloop__object_list_remove(work[Job(t)]) IN
       /\ work' = [work EXCEPT ![Job(t)] = job]
       /\ IF job.ref = 0 THEN Idle(t) ELSE Goto(t, "stop")
    /\ UNCHANGED <<jobs, async, lock, wake, main>>

StopJob(t) ==
    /\ At(t, "stop")
    /\ work' = [work EXCEPT ![Job(t)].state = "STOPPED"]
    /\ Idle(t)
    /\ UNCHANGED <<jobs, async, lock, wake, main>>

(***************************************************************************)
(* The main loop: mloop_run.                                               *)
(***************************************************************************)
\* The length of the queue is read without a lock.  The loop blocks in
\* epoll_wait when it is zero.
MainCheck ==
    /\ main = "check"
    /\ main' = IF async # <<>> THEN "events" ELSE "wait"
    /\ UNCHANGED <<work, jobs, async, lock, wake, thread>>

\* Some other event, such as a timer, may also end the wait.
MainWait ==
    /\ main = "wait"
    /\ wake' = FALSE
    /\ main' = "events"
    /\ UNCHANGED <<work, jobs, async, lock, thread>>

EventsDone ==
    /\ main = "events"
    /\ main' = "async"
    /\ UNCHANGED <<work, jobs, async, lock, wake, thread>>

\* Mutant: the callback is also made for a cancelled job.
CallAlways(o) == [o EXCEPT !.calls = @ + 1]

Called(o) ==
    IF o.is_cancelled THEN [o EXCEPT !.cancels = @ + 1]
    ELSE [o EXCEPT !.calls = @ + 1]

\* The state of a work with other references is changed to STOPPED.
Stopped(o) == IF o.ref = 0 THEN o ELSE [o EXCEPT !.state = "STOPPED"]

mloop__process_async_jobs ==
    /\ main = "async"
    /\ lock = Nobody
    /\ main' = "collect"
    /\ IF async = <<>> THEN UNCHANGED <<work, async>>
       ELSE /\ async' = Tail(async)
            /\ work' = [work EXCEPT
                           ![Head(async)] = Stopped(mloop__object_list_remove(
                                                        Called(@)))]
    /\ UNCHANGED <<jobs, lock, wake, thread>>

mloop__collect ==
    /\ main = "collect"
    /\ main' = "check"
    /\ work' = [w \in Works |-> IF work[w].mem = "scheduled"
                                THEN [work[w] EXCEPT !.mem = "freed"]
                                ELSE work[w]]
    /\ UNCHANGED <<jobs, async, lock, wake, thread>>

User ==
    \E w \in Works :
        \/ \E done_fn \in BOOLEAN : mloop_work_new(w, done_fn)
        \/ mloop_work_start(w)
        \/ mloop_work_unref(w)

Thread(t) ==
    \/ PopJob(t)
    \/ RefJob(t)
    \/ \E cancel \in BOOLEAN : RunJob(t, cancel)
    \/ UnrefJob(t)
    \/ ForwardWork(t)
    \/ ForwardStarted(t)
    \/ RemoveJob(t)
    \/ StopJob(t)

Main ==
    \/ MainCheck
    \/ MainWait
    \/ EventsDone
    \/ mloop__process_async_jobs
    \/ mloop__collect

Next == User \/ Main \/ \E t \in Threads : Thread(t)

Spec == Init /\ [][Next]_vars

\* The threads and the main loop keep running; work functions return.  A
\* blocked loop wakes up when its event was raised.
Fairness ==
    /\ \A t \in Threads : WF_vars(Thread(t))
    /\ WF_vars(Main /\ (main = "wait" => wake))

FairSpec == Spec /\ Fairness

-----------------------------------------------------------------------------
TypeOK ==
    /\ work \in [Works -> Work]
    /\ jobs \in Seq(Works)
    /\ async \in Seq(Works)
    /\ lock \in Threads \union {Nobody}
    /\ wake \in BOOLEAN
    /\ main \in {"check", "wait", "events", "async", "collect"}
    /\ thread \in [Threads -> [pc: {"pop", "ref", "run", "unref", "forward",
                                    "started", "remove", "stop"},
                               job: Works \union {Nobody}]]

Elems(s) == {s[i] : i \in DOMAIN s}

\* The references to a work: the user's, the list's and the running thread's.
Holders(w) ==
    (IF work[w].held THEN 1 ELSE 0)
    + (IF work[w].listed THEN 1 ELSE 0)
    + (IF \E t \in Threads : Job(t) = w /\ thread[t].pc \in {"run", "unref"}
       THEN 1 ELSE 0)

\* The reference count of a work is the number of its holders, so that it is
\* neither freed too early nor leaked by a path through the worker's loop.
RefCounted ==
    \A w \in Works : /\ work[w].ref = Holders(w)
                     /\ work[w].mem = "live" <=> work[w].ref > 0

\* "We lock the work queue here so that we can keep it blocked until the
\* object has been added to the list of active objects": what is queued or
\* run is on the list, so a thread that pops a job finds it alive, and keeps
\* it alive until it forwards it or takes it off the list.
QueuedIsListed ==
    /\ \A w \in Elems(jobs) \union Elems(async) :
           work[w].listed /\ work[w].mem = "live"
    /\ \A t \in Threads :
           thread[t].pc \in {"ref", "run", "unref", "forward", "remove"} =>
               work[Job(t)].listed /\ work[Job(t)].mem = "live"

\* A work is in one place: it waits in one queue, once, or one thread has it.
InOnePlace ==
    /\ \A i, j \in DOMAIN jobs : i # j => jobs[i] # jobs[j]
    /\ \A i, j \in DOMAIN async : i # j => async[i] # async[j]
    /\ Elems(jobs) \intersect Elems(async) = {}
    /\ \A t \in Threads : thread[t].pc \notin {"started", "stop"} =>
           Job(t) \notin Elems(jobs) \union Elems(async)

\* "Otherwise the main thread can start processing the job before the state
\* has been changed": the assertion of mloop__process_async_jobs holds when
\* it takes a job.
AsyncIsStarted ==
    main = "async" /\ lock = Nobody /\ async # <<>> =>
        work[Head(async)].state = "STARTED"

\* Every start of a work with a done function is answered before the work
\* can be started again: by one call, or by a cancellation from its work
\* function (or not at all when memory ran out).
EachStartAnswered ==
    \A w \in Works :
        LET o == work[w] IN
        /\ o.done_fn => o.calls + o.cancels + o.lost <= o.starts
        /\ o.done_fn /\ o.state = "STOPPED" =>
               o.calls + o.cancels + o.lost = o.starts

\* A done function is never called for a work that cancelled itself.
CancelIsFinal ==
    [][\A w \in Works : work[w].is_cancelled =>
           work'[w].calls = work[w].calls]_vars

\* "When it's done, it sends the result back to the main loop": every work
\* that is started is called back, or cancels itself.
ResultComesBack ==
    \A w \in Works :
        work[w].done_fn /\ work[w].state = "STARTING" ~>
            work[w].state = "STOPPED" \/ work[w].mem = "freed"

\* The works are accounted for in every interleaving of the threads: a job is in
\* one place, what is queued is on the list of active objects, what came back
\* is still marked as started, each reference has a holder and each start is
\* answered.
WorksAccounted ==
    /\ TypeOK /\ InOnePlace /\ QueuedIsListed /\ AsyncIsStarted /\ RefCounted
    /\ EachStartAnswered
=============================================================================
