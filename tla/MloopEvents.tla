---------------------------- MODULE MloopEvents ----------------------------
(***************************************************************************)
(* Timers and sockets of the main loop (mloop.c): how they are started,    *)
(* stopped, referenced and freed, and how one iteration of mloop_run       *)
(* handles a batch of epoll events.                                        *)
(*                                                                         *)
(* A callback may call any function of mloop.h, for its own object and for *)
(* others, also for those whose events follow in the same batch.  The loop *)
(* is a thread of its own and its objects are not touched by others, so a  *)
(* call is one step; the kernel lets timers expire and sockets become      *)
(* readable between any two steps.                                         *)
(***************************************************************************)
EXTENDS Integers, Sequences, Functions

CONSTANTS
    Timers, Sockets,    \* objects of type MLOOP_TIMER and MLOOP_SOCKET
    Periodic,           \* the timers with MLOOP_TIMER_PERIODIC
    MAX_EVENTS,         \* the size of the array that epoll_wait fills
    MaxCalls            \* bound: calls to mloop.h in a callback

ASSUME ObjectsAssumption == Periodic \subseteq Timers /\ Timers \cap Sockets = {}

ASSUME BoundsAssumption == MAX_EVENTS \in Nat \ {0} /\ MaxCalls \in Nat

Objects == Timers \cup Sockets

VARIABLES
    obj,        \* the objects
    events,     \* the array filled by epoll_wait
    at,         \* i, the event that is handled
    pc,         \* where the loop is
    calls,      \* calls made by the current callback
    free_list,  \* objects without references, until the end of the iteration
    wanted,     \* history: the program started the object and since then it
                \* was neither stopped nor, for a single shot, called back
    due         \* history: the object had an event since it was started

vars == <<obj, events, at, pc, calls, free_list, wanted, due>>

\* fd: a timer that is armed has yet to expire, one that has fired can be read.
\* in_epoll also stands for the object's place in mloop->objects.
New == [exists |-> TRUE, state |-> "STOPPED", ref |-> 1, owned |-> TRUE,
        in_epoll |-> FALSE, armed |-> FALSE, fired |-> FALSE, had_parent |-> FALSE]

Gone == [New EXCEPT !.exists = FALSE, !.ref = 0, !.owned = FALSE]

Init ==
    /\ obj = [o \in Objects |-> New]
    /\ events = <<>>
    /\ at = 0
    /\ pc = "wait"
    /\ calls = 0
    /\ free_list = {}
    /\ wanted = [o \in Objects |-> FALSE]
    /\ due = [o \in Objects |-> FALSE]

Current == events[at]

-----------------------------------------------------------------------------
(* References. *)

\* mloop__unref_any with mloop__schedule_free: an object that was never started
\* has no parent and is freed at once.
Unref(x) ==
    IF x.ref = 1 /\ ~x.had_parent THEN Gone ELSE [x EXCEPT !.ref = @ - 1]

Scheduled(new) == {o \in Objects : new[o].exists /\ new[o].ref = 0}

\* mloop__socket_stop: out of the epoll set and of the list of objects.
mloop__socket_stop(x) == Unref([x EXCEPT !.in_epoll = FALSE])

\* mloop__start_socket.
mloop__start_socket(x) ==
    [x EXCEPT !.in_epoll = TRUE, !.had_parent = TRUE, !.ref = @ + 1]

-----------------------------------------------------------------------------
(* What a callback calls. *)

\* A callback knows its own object, and those that the program has kept.
Known(o) ==
    /\ obj[o].exists
    /\ obj[o].owned \/ (pc = "callback" /\ Current = o)

Call ==
    /\ pc \in {"callback", "jobs"}
    /\ calls < MaxCalls
    /\ calls' = calls + 1
    /\ UNCHANGED <<events, at, pc>>

\* timerfd_settime forgets an expiration that was not read.
Armed(x, timer) ==
    [mloop__start_socket(x) EXCEPT
        !.state = "STARTED", !.armed = timer, !.fired = x.fired /\ ~timer]

Disarmed(x, timer) ==
    mloop__socket_stop([x EXCEPT
        !.state = "STOPPED", !.armed = FALSE, !.fired = x.fired /\ ~timer])

\* mloop_timer_start, mloop_socket_start; on a started object they return -1.
Start(o) ==
    /\ Call
    /\ Known(o)
    /\ obj[o].state = "STOPPED"
    /\ obj' = [obj EXCEPT ![o] = Armed(obj[o], o \in Timers)]
    /\ wanted' = [wanted EXCEPT ![o] = TRUE]
    /\ due' = [due EXCEPT ![o] = obj[o].fired /\ o \in Sockets]
    /\ UNCHANGED free_list

\* epoll_ctl fails: the object stays stopped, but it has a parent from now on,
\* and a timer stays armed.
Unlisted(x, timer) ==
    [x EXCEPT !.had_parent = TRUE, !.armed = timer, !.fired = x.fired /\ ~timer]

StartFails(o) ==
    /\ Call
    /\ Known(o)
    /\ obj[o].state = "STOPPED"
    /\ obj' = [obj EXCEPT ![o] = Unlisted(obj[o], o \in Timers)]
    /\ UNCHANGED <<free_list, wanted, due>>

\* mloop_timer_stop, mloop_socket_stop; a stopped object returns -1.
Stop(o) ==
    /\ Call
    /\ Known(o)
    /\ obj[o].state = "STARTED"
    /\ obj' = [obj EXCEPT ![o] = Disarmed(obj[o], o \in Timers)]
    /\ free_list' = Scheduled(obj')
    /\ wanted' = [wanted EXCEPT ![o] = FALSE]
    /\ due' = [due EXCEPT ![o] = FALSE]

\* mloop_timer_unref, mloop_socket_unref by the owner.
Release(o) ==
    /\ Call
    /\ obj[o].exists /\ obj[o].owned
    /\ obj' = [obj EXCEPT ![o] = Unref([obj[o] EXCEPT !.owned = FALSE])]
    /\ free_list' = Scheduled(obj')
    /\ UNCHANGED <<wanted, due>>

\* mloop_timer_new, mloop_socket_new.
Create(o) ==
    /\ Call
    /\ ~obj[o].exists
    /\ obj' = [obj EXCEPT ![o] = New]
    /\ UNCHANGED <<free_list, wanted, due>>

-----------------------------------------------------------------------------
(* The kernel. *)

\* A timer expires; a periodic one stays armed.
Expire(t) ==
    /\ obj[t].armed
    /\ obj' = [obj EXCEPT ![t] = [obj[t] EXCEPT !.fired = TRUE, !.armed = t \in Periodic]]
    /\ due' = [due EXCEPT ![t] = TRUE]
    /\ UNCHANGED <<events, at, pc, calls, free_list, wanted>>

\* Data arrives at a socket.
Arrive(s) ==
    /\ obj[s].exists
    /\ obj' = [obj EXCEPT ![s] = [obj[s] EXCEPT !.fired = TRUE]]
    /\ due' = [due EXCEPT ![s] = obj[s].state = "STARTED"]
    /\ UNCHANGED <<events, at, pc, calls, free_list, wanted>>

-----------------------------------------------------------------------------
(* The loop. *)

Ready == {o \in Objects : obj[o].in_epoll /\ obj[o].fired}

\* What epoll_wait may report: the objects that are ready, in any order, or as
\* many of them as the array holds.
Batches ==
    {s \in UNION {[1..n -> Ready] : n \in 1..MAX_EVENTS} :
        /\ \A i, j \in DOMAIN s : s[i] = s[j] => i = j
        /\ Len(s) = MAX_EVENTS \/ Range(s) = Ready}

\* epoll_wait fills the array, and process_events references all the objects.
epoll_wait ==
    /\ pc = "wait"
    /\ Ready # {}
    /\ events' \in Batches
    /\ at' = 1
    /\ pc' = "event"
    /\ obj' = [o \in Objects |->
                 IF o \in Range(events') THEN [obj[o] EXCEPT !.ref = @ + 1] ELSE obj[o]]
    /\ UNCHANGED <<calls, free_list, wanted, due>>

\* Mutant: the reference of the list of objects is not allowed for.
SkipListed ==
    /\ pc = "event"
    /\ at <= Len(events)
    /\ obj[Current].ref <= 2
    /\ at' = at + 1
    /\ UNCHANGED <<obj, events, pc, calls, free_list, wanted, due>>

\* An object whose only reference is that of the batch is not processed.
SkipFreed ==
    /\ pc = "event"
    /\ at <= Len(events)
    /\ obj[Current].ref <= 1
    /\ at' = at + 1
    /\ UNCHANGED <<obj, events, pc, calls, free_list, wanted, due>>

\* Mutant: the callback is called whatever the state of the object.
CallAlways ==
    /\ pc = "event"
    /\ at <= Len(events)
    /\ obj[Current].ref > 1
    /\ pc' = "callback"
    /\ calls' = 0
    /\ UNCHANGED <<obj, events, at, free_list, wanted, due>>

\* The callback is called; that of a socket reads what has arrived.
CallBack ==
    /\ pc = "event"
    /\ at <= Len(events)
    /\ obj[Current].ref > 1
    /\ obj[Current].state = "STARTED"
    /\ pc' = "callback"
    /\ calls' = 0
    /\ obj' = [obj EXCEPT ![Current] =
                 [obj[Current] EXCEPT !.fired = obj[Current].fired /\ Current \in Timers]]
    /\ UNCHANGED <<events, at, free_list, wanted, due>>

\* mloop__process_timer: the expiration is read, and a single shot stopped.
\* The program's timer is then done with, provided that it was due.
mloop__process_timer(t) ==
    LET ends == t \notin Periodic /\ obj[t].state = "STARTED"
        read == [obj[t] EXCEPT !.fired = FALSE]
    IN  /\ obj' = [obj EXCEPT ![t] =
                     IF ends THEN mloop__socket_stop([read EXCEPT !.state = "STOPPED"])
                             ELSE read]
        /\ wanted' = [wanted EXCEPT ![t] = @ /\ ~(ends /\ due[t])]
        /\ due' = [due EXCEPT ![t] = FALSE]

Finish ==
    /\ at' = at + 1
    /\ pc' = "event"
    /\ calls' = 0
    /\ IF Current \in Timers
       THEN mloop__process_timer(Current)
       ELSE /\ due' = [due EXCEPT ![Current] = FALSE]
            /\ UNCHANGED <<obj, wanted>>
    /\ free_list' = Scheduled(obj')
    /\ UNCHANGED events

\* The callback returns.
Return == pc = "callback" /\ Finish

\* The object was stopped by an earlier callback of the batch.
SkipStopped ==
    /\ pc = "event"
    /\ at <= Len(events)
    /\ obj[Current].ref > 1
    /\ obj[Current].state # "STARTED"
    /\ Finish

EndOfEvents ==
    /\ pc = "event"
    /\ at > Len(events)
    /\ obj' = [o \in Objects |-> IF o \in Range(events) THEN Unref(obj[o]) ELSE obj[o]]
    /\ free_list' = Scheduled(obj')
    /\ events' = <<>>
    /\ at' = 0
    /\ pc' = "jobs"
    /\ UNCHANGED <<calls, wanted, due>>

\* mloop_iterate was called or there is work: an iteration without events.
BreakOut ==
    /\ pc = "wait"
    /\ pc' = "jobs"
    /\ calls' = 0
    /\ UNCHANGED <<obj, events, at, free_list, wanted, due>>

\* The async and idle jobs of the iteration are done (their callbacks make the
\* calls above), and mloop__collect frees.
mloop__collect ==
    /\ pc = "jobs"
    /\ pc' = "wait"
    /\ calls' = 0
    /\ obj' = [o \in Objects |-> IF o \in free_list THEN Gone ELSE obj[o]]
    /\ free_list' = {}
    /\ UNCHANGED <<events, at, wanted, due>>

-----------------------------------------------------------------------------
Kernel == (\E t \in Timers : Expire(t)) \/ (\E s \in Sockets : Arrive(s))

Program == \E o \in Objects :
    Start(o) \/ StartFails(o) \/ Stop(o) \/ Release(o) \/ Create(o)

mloop__process_events == SkipFreed \/ CallBack \/ Return \/ SkipStopped \/ EndOfEvents

mloop_run == epoll_wait \/ mloop__process_events \/ BreakOut \/ mloop__collect

Next == Kernel \/ Program \/ mloop_run

Spec == Init /\ [][Next]_vars

\* The loop goes on, callbacks return, and epoll_wait reports what is ready
\* when the loop sleeps, however often it is woken up for other reasons.
FairSpec ==
    /\ Spec
    /\ WF_vars(mloop__process_events)
    /\ WF_vars(mloop__collect)
    /\ SF_vars(epoll_wait)
    /\ \A t \in Timers : WF_vars(Expire(t))

-----------------------------------------------------------------------------
(* Properties. *)

\* Types; in particular the event that is handled is one of the batch.
TypeOK ==
    /\ \A o \in Objects :
          /\ obj[o].state \in {"STOPPED", "STARTED"}
          /\ obj[o].ref \in 0..3
          /\ obj[o].fired => obj[o].exists
          /\ obj[o].armed => o \in Timers
    /\ Range(events) \subseteq Objects
    /\ at \in 0..(Len(events) + 1)
    /\ pc \in {"wait", "event", "callback", "jobs"}
    /\ calls \in 0..MaxCalls
    /\ free_list \subseteq Objects

One(held) == IF held THEN 1 ELSE 0

\* Each reference has a holder: the program, the list of started objects and
\* the batch that is processed.  None is lost or given back twice, whatever
\* callbacks do to objects whose events are still to come.
RefCounted ==
    \A o \in Objects : obj[o].exists =>
        obj[o].ref = One(obj[o].owned) + One(obj[o].in_epoll) + One(o \in Range(events))

\* The kernel and the batch hold no pointer to an object that was freed: what
\* is in the epoll set is started and alive, and so is what has an event.
NoDanglingEvent ==
    /\ \A o \in Objects : obj[o].in_epoll => obj[o].exists /\ obj[o].state = "STARTED"
    /\ \A o \in Range(events) : obj[o].exists
    /\ free_list = {o \in Objects : obj[o].exists /\ obj[o].ref = 0}

\* A callback is called for an object that the program has started and neither
\* stopped nor, if it is a single shot, seen expire: also when it was stopped
\* by the callback of an earlier event of the batch.
CalledIsWanted ==
    (pc = "callback" /\ calls = 0) => wanted[Current]

\* A timer that has expired is called back, unless it is stopped or its
\* single-shot event was spent.
ExpiredIsCalled ==
    \A t \in Timers :
        (obj[t].fired /\ obj[t].state = "STARTED") ~>
            (\/ pc = "callback" /\ at > 0 /\ events[at] = t
             \/ obj[t].state = "STOPPED")

\* The objects are accounted for whatever callbacks do to those whose events are
\* still to come: each reference has a holder, and neither the kernel nor the
\* batch holds a pointer to an object that was freed, or calls one back that the
\* program has stopped.
ObjectsAccounted == TypeOK /\ RefCounted /\ NoDanglingEvent /\ CalledIsWanted
=============================================================================
