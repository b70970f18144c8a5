---------------------------- MODULE MloopProofs -----------------------------
(***************************************************************************)
(* Proofs about the main loop (mloop.c) and the queue of its jobs          *)
(* (prioq.c).  The timers and sockets, for any number of them, any length  *)
(* of the array that epoll_wait fills and any number of calls in a         *)
(* callback: what MloopEvents calls ObjectsAccounted.  The queue, a stable *)
(* priority queue whatever the number of elements, the priorities and the  *)
(* width of the sequence numbers, as long as no element waits for more     *)
(* than a quarter of their range.                                          *)
(***************************************************************************)
EXTENDS MloopEvents, Prioq, TLAPS

-----------------------------------------------------------------------------
(* The inductive invariant. *)

Obj == [exists : BOOLEAN, state : {"STOPPED", "STARTED"}, ref : Int, owned : BOOLEAN,
        in_epoll : BOOLEAN, armed : BOOLEAN, fired : BOOLEAN, had_parent : BOOLEAN]

\* An object x that is or is not a timer, has or has not an event in the batch
\* and is or is not wanted by the program.  What was freed holds nothing; what
\* is in the epoll set is what is started, has had a parent and so is never
\* freed at once, and neither is what has an event.
Sound(x, timer, batch, want) ==
    /\ x.exists => x.ref = One(x.owned) + One(x.in_epoll) + One(batch)
    /\ ~x.exists => x = Gone
    /\ x.in_epoll <=> x.state = "STARTED"
    /\ x.in_epoll => x.exists /\ x.had_parent
    /\ batch => x.exists /\ x.had_parent
    /\ x.armed => timer
    /\ x.in_epoll => want

Types ==
    /\ obj \in [Objects -> Obj]
    /\ wanted \in [Objects -> BOOLEAN]
    /\ events \in Seq(Objects)
    /\ at \in Nat
    /\ calls \in 0..MaxCalls
    /\ pc \in {"wait", "event", "callback", "jobs"}

\* The array is in use only while its events are processed, and the event that
\* is handled is one of it.
Batch ==
    /\ pc \in {"wait", "jobs"} => events = <<>> /\ at = 0
    /\ pc = "event" => at \in 1..(Len(events) + 1)
    /\ pc = "callback" => at \in 1..Len(events)

AllSound == \A o \in Objects :
    Sound(obj[o], o \in Timers, o \in Range(events), wanted[o])

\* What the program wanted when a callback starts is what is called.
Called == (pc = "callback" /\ calls = 0) => wanted[Current]

Inv ==
    /\ Types
    /\ Batch
    /\ AllSound
    /\ free_list = Scheduled(obj)
    /\ Called

-----------------------------------------------------------------------------
(* What the functions of mloop.c do to one object. *)

\* Objects as they are created, and as they are when they were freed.
LEMMA NewAndGone ==
    ASSUME NEW timer \in BOOLEAN, NEW want
    PROVE  /\ New \in Obj /\ Sound(New, timer, FALSE, want)
           /\ New.exists /\ New.ref # 0
           /\ Gone \in Obj /\ Sound(Gone, timer, FALSE, want)
           /\ ~Gone.exists /\ ~Gone.armed
<1>1. New \in Obj
  BY DEF New, Obj
<1>2. /\ New.exists = TRUE /\ New.state = "STOPPED" /\ New.ref = 1 /\ New.ref # 0 /\ New.owned = TRUE
      /\ New.in_epoll = FALSE /\ New.armed = FALSE /\ New.had_parent = FALSE
  BY DEF New
<1>3. Sound(New, timer, FALSE, want)
  BY <1>2 DEF Sound, One
<1>4. Gone \in Obj
  <2> PICK n : n = New
    OBVIOUS
  <2>1. Gone = [n EXCEPT !.exists = FALSE, !.ref = 0, !.owned = FALSE]
    BY DEF Gone
  <2>2. n \in Obj /\ 0 \in Int
    BY <1>1
  <2> QED
    BY <2>1, <2>2, Zenon DEF Obj
<1>5. /\ Gone.exists = FALSE /\ Gone.state = "STOPPED"
      /\ Gone.in_epoll = FALSE /\ Gone.armed = FALSE
  BY <1>1, <1>2 DEF Gone, Obj
<1>6. Sound(Gone, timer, FALSE, want)
  BY <1>5, Zenon DEF Sound
<1> QED
  BY <1>1, <1>2, <1>3, <1>4, <1>5, <1>6, Zenon

\* mloop__start_socket with the timer armed: the list of started objects takes
\* a reference, and the object is started.
LEMMA ArmedSound ==
    ASSUME NEW x \in Obj, NEW timer \in BOOLEAN, NEW batch \in BOOLEAN, NEW want,
           Sound(x, timer, batch, want), x.exists, x.state = "STOPPED"
    PROVE  /\ Armed(x, timer) \in Obj
           /\ Sound(Armed(x, timer), timer, batch, TRUE)
           /\ Armed(x, timer).exists /\ Armed(x, timer).ref # 0
<1> PICK y : y = Armed(x, timer)
  OBVIOUS
<1> PICK r : r = x.ref + 1
  OBVIOUS
<1>a. r \in Int
  BY DEF Obj
<1>b. y = [[x EXCEPT !.in_epoll = TRUE, !.had_parent = TRUE, !.ref = r] EXCEPT
              !.state = "STARTED", !.armed = timer, !.fired = x.fired /\ ~timer]
  BY DEF Armed, mloop__start_socket
<1>c. y \in Obj
  BY <1>a, <1>b, ZenonT(30) DEF Obj
<1>1. /\ y.exists = x.exists /\ y.state = "STARTED" /\ y.ref = x.ref + 1
      /\ y.owned = x.owned /\ y.in_epoll = TRUE /\ y.armed = timer /\ y.had_parent = TRUE
  BY <1>b, ZenonT(30) DEF Obj
<1>2. x.in_epoll = FALSE /\ x.ref = One(x.owned) + One(x.in_epoll) + One(batch)
  BY DEF Sound, Obj
<1>3. y.ref = One(y.owned) + One(y.in_epoll) + One(batch) /\ y.ref # 0
  BY <1>c, <1>1, <1>2 DEF One, Obj
<1> QED
  BY <1>c, <1>1, <1>3 DEF Sound

\* Only the state of y and its descriptor differ from x.
Same(x, y, timer) ==
    /\ y.exists = x.exists /\ y.ref = x.ref /\ y.owned = x.owned
    /\ y.in_epoll = x.in_epoll /\ y.had_parent = x.had_parent
    /\ y.armed => timer

\* mloop__socket_stop of a started object, with whatever was done to its timer:
\* the list of started objects gives its reference back, and the object stays.
LEMMA StoppedSound ==
    ASSUME NEW x \in Obj, NEW timer \in BOOLEAN, NEW batch \in BOOLEAN, NEW want,
           NEW y \in Obj, NEW want2,
           Sound(x, timer, batch, want), x.state = "STARTED",
           Same(x, y, timer), y.state = "STOPPED"
    PROVE  /\ mloop__socket_stop(y) \in Obj
           /\ Sound(mloop__socket_stop(y), timer, batch, want2)
<1> USE DEF Same
<1> PICK z : z = [y EXCEPT !.in_epoll = FALSE]
  BY Zenon
<1>1. /\ z \in Obj
      /\ z.exists = y.exists /\ z.state = "STOPPED" /\ z.ref = y.ref /\ z.owned = y.owned
      /\ z.in_epoll = FALSE /\ z.armed = y.armed /\ z.had_parent = y.had_parent
  BY Zenon DEF Obj
<1>2. /\ x.in_epoll = TRUE /\ x.exists = TRUE /\ x.had_parent = TRUE
      /\ x.ref = One(x.owned) + One(x.in_epoll) + One(batch)
  BY DEF Sound, Obj
<1> PICK u : u = [z EXCEPT !.ref = z.ref - 1]
  OBVIOUS
<1>3. mloop__socket_stop(y) = u
  BY <1>1, <1>2 DEF mloop__socket_stop, Unref
<1>4. /\ u \in Obj
      /\ u.exists = z.exists /\ u.state = "STOPPED" /\ u.ref = z.ref - 1 /\ u.owned = z.owned
      /\ u.in_epoll = FALSE /\ u.armed = z.armed /\ u.had_parent = z.had_parent
  <2> PICK r : r = z.ref - 1
    OBVIOUS
  <2>1. r \in Int
    BY <1>1 DEF Obj
  <2>2. u = [z EXCEPT !.ref = r]
    OBVIOUS
  <2>3. z \in Obj
    BY <1>1, Zenon
  <2>4. u \in Obj
    BY <2>1, <2>2, <2>3, Zenon DEF Obj
  <2>5. /\ u.exists = z.exists /\ u.state = z.state /\ u.ref = r /\ u.owned = z.owned
        /\ u.in_epoll = z.in_epoll /\ u.armed = z.armed /\ u.had_parent = z.had_parent
    BY <2>2, <2>3 DEF Obj
  <2> QED
    BY <1>1, <2>4, <2>5
<1>5. u.ref = One(u.owned) + One(u.in_epoll) + One(batch)
  BY <1>1, <1>2, <1>4 DEF One, Obj
<1> QED
  BY <1>1, <1>2, <1>3, <1>4, <1>5, ZenonT(30) DEF Sound

\* mloop_timer_unref, mloop_socket_unref by the owner: without a parent the
\* object is gone if nothing else holds it, otherwise it is kept or scheduled.
LEMMA ReleasedSound ==
    ASSUME NEW x \in Obj, NEW timer \in BOOLEAN, NEW batch \in BOOLEAN, NEW want,
           Sound(x, timer, batch, want), x.exists, x.owned
    PROVE  /\ Unref([x EXCEPT !.owned = FALSE]) \in Obj
           /\ Sound(Unref([x EXCEPT !.owned = FALSE]), timer, batch, want)
<1> PICK z : z = [x EXCEPT !.owned = FALSE]
  BY Zenon
<1>1. /\ z \in Obj
      /\ z.exists = x.exists /\ z.state = x.state /\ z.ref = x.ref /\ z.owned = FALSE
      /\ z.in_epoll = x.in_epoll /\ z.armed = x.armed /\ z.had_parent = x.had_parent
  BY Zenon DEF Obj
<1>2. x.ref = 1 + One(x.in_epoll) + One(batch)
  BY DEF Sound, Obj, One
<1>3. CASE z.ref = 1 /\ ~z.had_parent
  <2>1. batch = FALSE
    BY <1>1, <1>3 DEF Sound
  <2>2. Unref(z) = Gone
    BY <1>3 DEF Unref
  <2> QED
    BY <2>1, <2>2, NewAndGone, Zenon
<1>4. CASE ~(z.ref = 1 /\ ~z.had_parent)
  <2> PICK u : u = [z EXCEPT !.ref = z.ref - 1]
    OBVIOUS
  <2>1. Unref(z) = u
    BY <1>4 DEF Unref
  <2>2. /\ u \in Obj
        /\ u.exists = z.exists /\ u.state = z.state /\ u.ref = z.ref - 1 /\ u.owned = FALSE
        /\ u.in_epoll = z.in_epoll /\ u.armed = z.armed /\ u.had_parent = z.had_parent
    <3> PICK r : r = z.ref - 1
      OBVIOUS
    <3>1. r \in Int
      BY <1>1 DEF Obj
    <3>2. u = [z EXCEPT !.ref = r]
      OBVIOUS
    <3>3. z \in Obj
      BY <1>1, Zenon
    <3>4. u \in Obj
      BY <3>1, <3>2, <3>3, Zenon DEF Obj
    <3>5. /\ u.exists = z.exists /\ u.state = z.state /\ u.ref = r /\ u.owned = z.owned
          /\ u.in_epoll = z.in_epoll /\ u.armed = z.armed /\ u.had_parent = z.had_parent
      BY <3>2, <3>3 DEF Obj
    <3> QED
      BY <1>1, <3>4, <3>5
  <2>3. u.ref = One(u.owned) + One(u.in_epoll) + One(batch)
    BY <1>1, <1>2, <2>2 DEF One, Obj
  <2> QED
    BY <1>1, <2>1, <2>2, <2>3, ZenonT(30) DEF Sound
<1> QED
  BY <1>3, <1>4

\* The batch gives its reference back; nothing of it is freed at once.
LEMMA UnbatchedSound ==
    ASSUME NEW x \in Obj, NEW timer \in BOOLEAN, NEW want,
           Sound(x, timer, TRUE, want)
    PROVE  Unref(x) \in Obj /\ Sound(Unref(x), timer, FALSE, want)
<1>1. /\ x.exists = TRUE /\ x.had_parent = TRUE
      /\ x.ref = One(x.owned) + One(x.in_epoll) + One(TRUE)
  BY Zenon DEF Sound, Obj
<1> PICK u : u = [x EXCEPT !.ref = x.ref - 1]
  BY Zenon
<1>2. Unref(x) = u
  BY <1>1, Zenon DEF Unref
<1>3. /\ u \in Obj
      /\ u.exists = x.exists /\ u.state = x.state /\ u.ref = x.ref - 1 /\ u.owned = x.owned
      /\ u.in_epoll = x.in_epoll /\ u.armed = x.armed /\ u.had_parent = x.had_parent
  <2> PICK r : r = x.ref - 1
    OBVIOUS
  <2>1. r \in Int
    BY DEF Obj
  <2>2. u = [x EXCEPT !.ref = r]
    OBVIOUS
  <2>3. x \in Obj
    BY Zenon
  <2>4. u \in Obj
    BY <2>1, <2>2, <2>3 DEF Obj
  <2>5. /\ u.exists = x.exists /\ u.state = x.state /\ u.ref = r /\ u.owned = x.owned
        /\ u.in_epoll = x.in_epoll /\ u.armed = x.armed /\ u.had_parent = x.had_parent
    BY <2>2, <2>3 DEF Obj
  <2> QED
    BY <2>4, <2>5
<1>4. u.ref = One(u.owned) + One(u.in_epoll) + One(FALSE)
  BY <1>1, <1>3 DEF One, Obj
<1> QED
  BY <1>1, <1>2, <1>3, <1>4, Zenon DEF Sound

\* The batch takes a reference to an object that is in the epoll set.
LEMMA BatchedSound ==
    ASSUME NEW x \in Obj, NEW timer \in BOOLEAN, NEW want,
           Sound(x, timer, FALSE, want), x.in_epoll
    PROVE  /\ [x EXCEPT !.ref = @ + 1] \in Obj
           /\ Sound([x EXCEPT !.ref = @ + 1], timer, TRUE, want)
           /\ x.ref # 0 /\ [x EXCEPT !.ref = @ + 1].ref # 0
<1>1. /\ x.exists = TRUE /\ x.had_parent = TRUE
      /\ x.ref = One(x.owned) + One(x.in_epoll) + One(FALSE)
  BY Zenon DEF Sound, Obj
<1> PICK u : u = [x EXCEPT !.ref = x.ref + 1]
  BY Zenon
<1>3. /\ u \in Obj
      /\ u.exists = x.exists /\ u.state = x.state /\ u.ref = x.ref + 1 /\ u.owned = x.owned
      /\ u.in_epoll = x.in_epoll /\ u.armed = x.armed /\ u.had_parent = x.had_parent
  <2> PICK r : r = x.ref + 1
    OBVIOUS
  <2>1. r \in Int
    BY DEF Obj
  <2>2. u = [x EXCEPT !.ref = r]
    OBVIOUS
  <2>3. x \in Obj
    BY Zenon
  <2>4. u \in Obj
    BY <2>1, <2>2, <2>3 DEF Obj
  <2>5. /\ u.exists = x.exists /\ u.state = x.state /\ u.ref = r /\ u.owned = x.owned
        /\ u.in_epoll = x.in_epoll /\ u.armed = x.armed /\ u.had_parent = x.had_parent
    BY <2>2, <2>3, Zenon DEF Obj
  <2> QED
    BY <2>4, <2>5, Zenon
<1>4. u.ref = One(u.owned) + One(u.in_epoll) + One(TRUE) /\ u.ref # 0 /\ x.ref # 0
  BY <1>1, <1>3 DEF One, Obj
<1> QED
  BY <1>1, <1>3, <1>4, Zenon DEF Sound

\* The kernel sets, and callbacks clear, what can be read from the descriptor.
LEMMA FiredSound ==
    ASSUME NEW x \in Obj, NEW timer \in BOOLEAN, NEW batch \in BOOLEAN, NEW want,
           NEW y \in Obj,
           Sound(x, timer, batch, want), x.exists,
           Same(x, y, timer), y.state = x.state
    PROVE  Sound(y, timer, batch, want)
  BY DEF Sound, Same

-----------------------------------------------------------------------------
(* The steps preserve the invariant. *)

LEMMA InitInv ==
    ASSUME Init
    PROVE  Inv
<1> USE DEF Init
<1>a. New \in Obj
  BY NewAndGone, Zenon
<1>1. Types
  BY <1>a, BoundsAssumption DEF Types
<1>2. Range(events) = {}
  BY DEF Range
<1>3. AllSound
  <2> SUFFICES ASSUME NEW o \in Objects
               PROVE  Sound(obj[o], o \in Timers, o \in Range(events), wanted[o])
    BY Zenon DEF AllSound
  <2> PICK t, b : t = (o \in Timers) /\ b = (o \in Range(events))
    OBVIOUS
  <2>a. (o \in Timers) \in BOOLEAN /\ (o \in Range(events)) \in BOOLEAN
    OBVIOUS
  <2>b. t \in BOOLEAN /\ b \in BOOLEAN
    BY <2>a
  <2>c. (o \in Range(events)) = FALSE
    BY <1>2
  <2>1. b = FALSE
    BY <2>c, Zenon
  <2>2. Sound(New, t, FALSE, FALSE)
    BY <2>b, NewAndGone, Zenon
  <2>3. obj[o] = New /\ wanted[o] = FALSE
    OBVIOUS
  <2> QED
    BY <2>1, <2>2, <2>3, Zenon
<1>4. free_list = Scheduled(obj)
  <2>1. \A o \in Objects : obj[o].ref # 0
    BY NewAndGone, Zenon
  <2> QED
    BY <2>1 DEF Scheduled
<1> QED
  BY <1>1, <1>3, <1>4 DEF Inv, Batch, Called

\* A step that changes one object and keeps the batch.
LEMMA OneObject ==
    ASSUME Inv, UNCHANGED events,
           NEW o \in Objects, NEW x \in Obj, NEW w \in BOOLEAN, NEW t, NEW b,
           t = (o \in Timers), b = (o \in Range(events)),
           obj' = [obj EXCEPT ![o] = x], wanted' = [wanted EXCEPT ![o] = w],
           Sound(x, t, b, w)
    PROVE  /\ obj' \in [Objects -> Obj]
           /\ wanted' \in [Objects -> BOOLEAN]
           /\ AllSound'
<1>1. /\ obj \in [Objects -> Obj] /\ wanted \in [Objects -> BOOLEAN]
      /\ AllSound
  BY DEF Inv, Types
<1>2. obj' \in [Objects -> Obj] /\ wanted' \in [Objects -> BOOLEAN]
  BY <1>1
<1>3. ASSUME NEW p \in Objects
      PROVE  Sound(obj'[p], p \in Timers, p \in Range(events), wanted'[p])
  <2>1. CASE p = o
    <3>1. obj'[p] = x /\ wanted'[p] = w
      BY <1>1, <2>1
    <3> QED
      BY <2>1, <3>1
  <2>2. CASE p # o
    <3>1. obj'[p] = obj[p] /\ wanted'[p] = wanted[p]
      BY <1>1, <2>2
    <3> QED
      BY <1>1, <3>1 DEF AllSound
  <2> QED
    BY <2>1, <2>2
<1>4. AllSound'
  BY <1>3 DEF AllSound
<1> QED
  BY <1>2, <1>4

\* The objects as the steps below use them.
LEMMA ObjectFacts ==
    ASSUME Inv, NEW o \in Objects
    PROVE  /\ obj[o] \in Obj /\ wanted[o] \in BOOLEAN
           /\ Sound(obj[o], o \in Timers, o \in Range(events), wanted[o])
           /\ obj \in [Objects -> Obj] /\ wanted \in [Objects -> BOOLEAN]
           /\ \E t \in BOOLEAN, b \in BOOLEAN :
                /\ t = (o \in Timers) /\ b = (o \in Range(events))
                /\ Sound(obj[o], t, b, wanted[o])
<1>1. /\ obj[o] \in Obj /\ wanted[o] \in BOOLEAN
      /\ Sound(obj[o], o \in Timers, o \in Range(events), wanted[o])
      /\ obj \in [Objects -> Obj] /\ wanted \in [Objects -> BOOLEAN]
  BY DEF Inv, Types, AllSound
<1> PICK t, b : t = (o \in Timers) /\ b = (o \in Range(events))
  OBVIOUS
<1>a. (o \in Timers) \in BOOLEAN /\ (o \in Range(events)) \in BOOLEAN
  OBVIOUS
<1>b. t \in BOOLEAN /\ b \in BOOLEAN
  BY <1>a
<1>2. Sound(obj[o], t, b, wanted[o])
  BY <1>1
<1> QED
  BY <1>1, <1>2, <1>b, Zenon

\* The free list is right when the object that changed has a reference, before
\* and after the step, or does not exist.
LEMMA FreeListKept ==
    ASSUME Inv, UNCHANGED free_list,
           NEW o \in Objects, NEW x \in Obj,
           obj' = [obj EXCEPT ![o] = x],
           (x.exists /\ x.ref = 0) <=> (obj[o].exists /\ obj[o].ref = 0)
    PROVE  free_list' = Scheduled(obj')
<1>1. obj \in [Objects -> Obj] /\ free_list = Scheduled(obj)
  BY DEF Inv, Types
<1>2. ASSUME NEW p \in Objects
      PROVE  (obj'[p].exists /\ obj'[p].ref = 0) <=> (obj[p].exists /\ obj[p].ref = 0)
  BY <1>1
<1> QED
  BY <1>1, <1>2 DEF Scheduled

\* The callback that runs, or the event that is handled, is an object.
LEMMA CurrentFacts ==
    ASSUME Inv, at \in 1..Len(events)
    PROVE  Current \in Objects /\ Current \in Range(events)
  BY DEF Inv, Types, Current, Range

\* What the program knows has a reference.
LEMMA KnownFacts ==
    ASSUME Inv, NEW o \in Objects, Known(o)
    PROVE  obj[o].exists /\ obj[o].ref # 0
<1>1. obj[o].owned \/ o \in Range(events)
  BY CurrentFacts DEF Known, Inv, Batch
<1>2. /\ obj[o] \in Obj /\ obj[o].exists
      /\ obj[o].ref = One(obj[o].owned) + One(obj[o].in_epoll) + One(o \in Range(events))
  BY ObjectFacts DEF Known, Sound
<1> QED
  BY <1>1, <1>2 DEF One, Obj

\* A call of a callback or a job leaves the batch alone.
LEMMA CallFacts ==
    ASSUME Inv, Call,
           obj' \in [Objects -> Obj], wanted' \in [Objects -> BOOLEAN],
           AllSound', free_list' = Scheduled(obj')
    PROVE  Inv'
<1>1. calls \in 0..MaxCalls /\ MaxCalls \in Nat
  BY BoundsAssumption DEF Inv, Types
<1>2. calls' \in 0..MaxCalls /\ calls' # 0
  BY <1>1 DEF Call
<1>3. Types'
  BY <1>2 DEF Inv, Types, Call
<1>4. Batch'
  BY DEF Inv, Batch, Call
<1>5. Called'
  BY <1>2 DEF Called
<1> QED
  BY <1>3, <1>4, <1>5 DEF Inv

LEMMA StartInv ==
    ASSUME Inv, NEW o \in Objects, Start(o)
    PROVE  Inv'
<1>0. obj[o] \in Obj /\ wanted[o] \in BOOLEAN
  BY ObjectFacts
<1> PICK t \in BOOLEAN, b \in BOOLEAN :
        /\ t = (o \in Timers) /\ b = (o \in Range(events))
        /\ Sound(obj[o], t, b, wanted[o])
  BY ObjectFacts, Zenon
<1> PICK x : x = Armed(obj[o], t)
  OBVIOUS
<1>1. Call /\ Known(o) /\ obj[o].state = "STOPPED" /\ UNCHANGED free_list
  BY DEF Start
<1>2. obj' = [obj EXCEPT ![o] = x] /\ wanted' = [wanted EXCEPT ![o] = TRUE]
  BY DEF Start
<1>3. obj[o].exists /\ obj[o].ref # 0
  BY <1>1, KnownFacts
<1>4. /\ x \in Obj /\ x.exists /\ x.ref # 0
      /\ Sound(x, t, b, TRUE)
  BY <1>1, <1>0, <1>3, ArmedSound, ZenonT(30)
<1>5. UNCHANGED events
  BY <1>1 DEF Call
<1>6. obj' \in [Objects -> Obj] /\ wanted' \in [Objects -> BOOLEAN] /\ AllSound'
  BY <1>2, <1>4, <1>5, OneObject, Zenon
<1>7. free_list' = Scheduled(obj')
  BY <1>1, <1>2, <1>3, <1>4, FreeListKept, Zenon
<1> QED
  BY <1>1, <1>6, <1>7, CallFacts

LEMMA StartFailsInv ==
    ASSUME Inv, NEW o \in Objects, StartFails(o)
    PROVE  Inv'
<1>0. obj[o] \in Obj /\ wanted[o] \in BOOLEAN /\ wanted \in [Objects -> BOOLEAN]
  BY ObjectFacts
<1> PICK t \in BOOLEAN, b \in BOOLEAN :
        /\ t = (o \in Timers) /\ b = (o \in Range(events))
        /\ Sound(obj[o], t, b, wanted[o])
  BY ObjectFacts, Zenon
<1>x. PICK x : x = Unlisted(obj[o], t)
  OBVIOUS
<1>1. Call /\ obj[o].exists /\ obj[o].state = "STOPPED" /\ UNCHANGED <<free_list, wanted>>
  BY DEF StartFails, Known
<1>2. obj' = [obj EXCEPT ![o] = x] /\ wanted' = [wanted EXCEPT ![o] = wanted[o]]
  BY <1>0, <1>1, <1>x DEF StartFails
<1>3. x \in Obj
  BY <1>0, <1>x, Zenon DEF Obj, Unlisted
<1>4. /\ x.exists = obj[o].exists /\ x.state = obj[o].state /\ x.ref = obj[o].ref
      /\ x.owned = obj[o].owned /\ x.in_epoll = obj[o].in_epoll
      /\ x.armed = t /\ x.had_parent = TRUE
  BY <1>0, <1>x DEF Obj, Unlisted
<1>5. Sound(x, t, b, wanted[o])
  BY <1>1, <1>4 DEF Sound
<1>6. UNCHANGED events
  BY <1>1 DEF Call
<1>7. obj' \in [Objects -> Obj] /\ wanted' \in [Objects -> BOOLEAN] /\ AllSound'
  BY <1>0, <1>2, <1>3, <1>5, <1>6, OneObject, ZenonT(30)
<1>8. free_list' = Scheduled(obj')
  BY <1>1, <1>2, <1>3, <1>4, FreeListKept, Zenon
<1> QED
  BY <1>1, <1>7, <1>8, CallFacts

LEMMA StopInv ==
    ASSUME Inv, NEW o \in Objects, Stop(o)
    PROVE  Inv'
<1>0. obj[o] \in Obj /\ wanted[o] \in BOOLEAN
  BY ObjectFacts
<1> PICK t \in BOOLEAN, b \in BOOLEAN :
        /\ t = (o \in Timers) /\ b = (o \in Range(events))
        /\ Sound(obj[o], t, b, wanted[o])
  BY ObjectFacts, Zenon
<1>y. PICK y : y = [obj[o] EXCEPT !.state = "STOPPED", !.armed = FALSE,
                                  !.fired = obj[o].fired /\ ~t]
  OBVIOUS
<1> PICK x : x = mloop__socket_stop(y)
  OBVIOUS
<1>1. Call /\ obj[o].state = "STARTED" /\ free_list' = Scheduled(obj')
  BY DEF Stop
<1>2. obj' = [obj EXCEPT ![o] = x] /\ wanted' = [wanted EXCEPT ![o] = FALSE]
  BY <1>y, Zenon DEF Stop, Disarmed
<1>3. obj[o] \in Obj
  BY ObjectFacts
<1>4. y \in Obj
  BY <1>3, <1>y, Zenon DEF Obj
<1>5. Same(obj[o], y, t) /\ y.state = "STOPPED"
  BY <1>3, <1>y DEF Obj, Same
<1>6. x \in Obj /\ Sound(x, t, b, FALSE)
  <2>1. Sound(obj[o], t, b, wanted[o]) /\ obj[o].state = "STARTED" /\ obj[o] \in Obj
    BY <1>1, <1>0
  <2>2. mloop__socket_stop(y) \in Obj /\ Sound(mloop__socket_stop(y), t, b, FALSE)
    BY <2>1, <1>4, <1>5, StoppedSound, ZenonT(30)
  <2> QED
    BY <2>2, Zenon
<1>7. UNCHANGED events
  BY <1>1 DEF Call
<1>8. obj' \in [Objects -> Obj] /\ wanted' \in [Objects -> BOOLEAN] /\ AllSound'
  BY <1>2, <1>6, <1>7, OneObject, Zenon
<1> QED
  BY <1>1, <1>8, CallFacts

LEMMA ReleaseInv ==
    ASSUME Inv, NEW o \in Objects, Release(o)
    PROVE  Inv'
<1>0. obj[o] \in Obj /\ wanted[o] \in BOOLEAN
  BY ObjectFacts
<1> PICK t \in BOOLEAN, b \in BOOLEAN :
        /\ t = (o \in Timers) /\ b = (o \in Range(events))
        /\ Sound(obj[o], t, b, wanted[o])
  BY ObjectFacts, Zenon
<1> PICK x : x = Unref([obj[o] EXCEPT !.owned = FALSE])
  OBVIOUS
<1>1. Call /\ obj[o].exists /\ obj[o].owned /\ free_list' = Scheduled(obj')
  BY DEF Release
<1>2. obj' = [obj EXCEPT ![o] = x] /\ wanted' = [wanted EXCEPT ![o] = wanted[o]]
  BY ObjectFacts DEF Release
<1>3. x \in Obj /\ Sound(x, t, b, wanted[o])
  BY <1>1, <1>0, ReleasedSound, Zenon
<1>4. UNCHANGED events
  BY <1>1 DEF Call
<1>5. obj' \in [Objects -> Obj] /\ wanted' \in [Objects -> BOOLEAN] /\ AllSound'
  BY <1>2, <1>3, <1>4, <1>0, OneObject, Zenon
<1> QED
  BY <1>1, <1>5, CallFacts

LEMMA CreateInv ==
    ASSUME Inv, NEW o \in Objects, Create(o)
    PROVE  Inv'
<1>0. obj[o] \in Obj /\ wanted[o] \in BOOLEAN
  BY ObjectFacts
<1> PICK t \in BOOLEAN, b \in BOOLEAN :
        /\ t = (o \in Timers) /\ b = (o \in Range(events))
        /\ Sound(obj[o], t, b, wanted[o])
  BY ObjectFacts, Zenon
<1>1. Call /\ ~obj[o].exists /\ UNCHANGED free_list
  BY DEF Create
<1>2. obj' = [obj EXCEPT ![o] = New] /\ wanted' = [wanted EXCEPT ![o] = wanted[o]]
  BY ObjectFacts DEF Create
<1>3. b = FALSE
  BY <1>1 DEF Sound
<1>4. New \in Obj /\ New.ref # 0 /\ Sound(New, t, b, wanted[o])
  BY <1>3, NewAndGone, Zenon
<1>5. UNCHANGED events
  BY <1>1 DEF Call
<1>6. obj' \in [Objects -> Obj] /\ wanted' \in [Objects -> BOOLEAN] /\ AllSound'
  BY <1>2, <1>4, <1>5, <1>0, OneObject, Zenon
<1>7. free_list' = Scheduled(obj')
  BY <1>1, <1>2, <1>4, FreeListKept, Zenon
<1> QED
  BY <1>1, <1>6, <1>7, CallFacts

\* A step that changes only what can be read from the descriptor of an object.
LEMMA OneDescriptor ==
    ASSUME Inv, UNCHANGED <<events, free_list, wanted>>,
           NEW o \in Objects, NEW y \in Obj, NEW t \in BOOLEAN, t = (o \in Timers),
           obj' = [obj EXCEPT ![o] = y],
           obj[o].exists, Same(obj[o], y, t), y.state = obj[o].state
    PROVE  /\ obj' \in [Objects -> Obj]
           /\ wanted' \in [Objects -> BOOLEAN]
           /\ AllSound'
           /\ free_list' = Scheduled(obj')
<1>0. /\ obj[o] \in Obj /\ wanted[o] \in BOOLEAN
      /\ wanted \in [Objects -> BOOLEAN]
  BY ObjectFacts
<1> PICK t2 \in BOOLEAN, b \in BOOLEAN :
        /\ t2 = (o \in Timers) /\ b = (o \in Range(events))
        /\ Sound(obj[o], t2, b, wanted[o])
  BY ObjectFacts, Zenon
<1>1. Sound(obj[o], t, b, wanted[o])
  OBVIOUS
<1>2. Sound(y, t, b, wanted[o])
  BY <1>0, <1>1, FiredSound, ZenonT(30)
<1>3. wanted' = [wanted EXCEPT ![o] = wanted[o]]
  BY <1>0
<1>4. obj' \in [Objects -> Obj] /\ wanted' \in [Objects -> BOOLEAN] /\ AllSound'
  BY <1>0, <1>2, <1>3, OneObject, ZenonT(30)
<1>5. free_list' = Scheduled(obj')
  BY FreeListKept, Zenon DEF Same
<1> QED
  BY <1>4, <1>5

LEMMA ExpireInv ==
    ASSUME Inv, NEW o \in Timers, Expire(o)
    PROVE  Inv'
<1>1. o \in Objects
  BY DEF Objects
<1>2. obj[o] \in Obj
  BY <1>1, ObjectFacts
<1>3. obj[o].exists
  <2>1. obj[o].exists \/ obj[o] = Gone
    BY <1>1, ObjectFacts DEF Sound
  <2> QED
    BY <2>1, NewAndGone, Zenon DEF Expire
<1>y. PICK y : y = [obj[o] EXCEPT !.fired = TRUE, !.armed = o \in Periodic]
  OBVIOUS
<1>4. y \in Obj
  <2>1. (o \in Periodic) \in BOOLEAN
    OBVIOUS
  <2> QED
    BY <1>2, <1>y, <2>1, Zenon DEF Obj
<1>5. Same(obj[o], y, TRUE) /\ y.state = obj[o].state
  BY <1>2, <1>y DEF Obj, Same
<1>6. TRUE = (o \in Timers)
  OBVIOUS
<1>7. obj' = [obj EXCEPT ![o] = y] /\ UNCHANGED <<events, at, pc, calls, free_list, wanted>>
  BY <1>y DEF Expire
<1>8. /\ obj' \in [Objects -> Obj] /\ wanted' \in [Objects -> BOOLEAN]
      /\ AllSound' /\ free_list' = Scheduled(obj')
  BY <1>1, <1>3, <1>4, <1>5, <1>6, <1>7, OneDescriptor, Zenon
<1> QED
  BY <1>7, <1>8 DEF Inv, Types, Batch, Called, Current

LEMMA ArriveInv ==
    ASSUME Inv, NEW o \in Sockets, Arrive(o)
    PROVE  Inv'
<1>1. o \in Objects
  BY DEF Objects
<1>2. obj[o] \in Obj /\ obj[o].exists
  BY <1>1, ObjectFacts DEF Arrive
<1>y. PICK y : y = [obj[o] EXCEPT !.fired = TRUE]
  BY Zenon
<1>4. y \in Obj
  BY <1>2, <1>y, Zenon DEF Obj
<1>6. FALSE = (o \in Timers)
  BY ObjectsAssumption
<1>a. ~obj[o].armed
  BY <1>1, <1>6, ObjectFacts DEF Sound
<1>5. Same(obj[o], y, FALSE) /\ y.state = obj[o].state
  BY <1>2, <1>a, <1>y, Zenon DEF Obj, Same
<1>7. obj' = [obj EXCEPT ![o] = y] /\ UNCHANGED <<events, at, pc, calls, free_list, wanted>>
  BY <1>y DEF Arrive
<1>8. /\ obj' \in [Objects -> Obj] /\ wanted' \in [Objects -> BOOLEAN]
      /\ AllSound' /\ free_list' = Scheduled(obj')
  BY <1>1, <1>2, <1>4, <1>5, <1>6, <1>7, OneDescriptor, Zenon
<1> QED
  BY <1>7, <1>8 DEF Inv, Types, Batch, Called, Current

LEMMA CallBackInv ==
    ASSUME Inv, CallBack
    PROVE  Inv'
<1> PICK o : o = Current
  OBVIOUS
<1>0. at \in 1..Len(events)
  <2>1. at \in 1..(Len(events) + 1) /\ Len(events) \in Nat /\ at <= Len(events)
    BY DEF Inv, Batch, Types, CallBack
  <2> QED
    BY <2>1
<1>1. o \in Objects /\ o \in Range(events)
  BY <1>0, CurrentFacts
<1>2. obj[o] \in Obj /\ obj[o].exists /\ (obj[o].armed => o \in Timers) /\ wanted[o]
  BY <1>1, ObjectFacts DEF CallBack, Sound
<1> PICK t : t = (o \in Timers)
  OBVIOUS
<1>3. t \in BOOLEAN
  <2>1. (o \in Timers) \in BOOLEAN
    OBVIOUS
  <2> QED
    BY <2>1
<1>y. PICK y : y = [obj[o] EXCEPT !.fired = obj[o].fired /\ t]
  BY Zenon
<1>4. y \in Obj
  BY <1>2, <1>y DEF Obj
<1>5. Same(obj[o], y, t) /\ y.state = obj[o].state
  BY <1>2, <1>y, Zenon DEF Obj, Same
<1>7. obj' = [obj EXCEPT ![o] = y] /\ UNCHANGED <<events, at, free_list, wanted>>
  BY <1>y, Zenon DEF CallBack
<1>8. /\ obj' \in [Objects -> Obj] /\ wanted' \in [Objects -> BOOLEAN]
      /\ AllSound' /\ free_list' = Scheduled(obj')
  BY <1>1, <1>2, <1>3, <1>4, <1>5, <1>7, OneDescriptor, Zenon
<1>9. pc' = "callback" /\ calls' = 0 /\ calls' \in 0..MaxCalls
  BY BoundsAssumption DEF CallBack
<1>10. Types' /\ Batch'
  BY <1>0, <1>7, <1>8, <1>9 DEF Inv, Types, Batch
<1>11. Called'
  BY <1>2, <1>7 DEF Called, Current
<1> QED
  BY <1>8, <1>10, <1>11 DEF Inv

LEMMA SkipFreedInv ==
    ASSUME Inv, SkipFreed
    PROVE  Inv'
<1>1. at \in 1..(Len(events) + 1) /\ Len(events) \in Nat /\ at <= Len(events)
  BY DEF Inv, Batch, Types, SkipFreed
<1>2. at' \in 1..(Len(events) + 1) /\ at' \in Nat
  BY <1>1 DEF SkipFreed
<1>3. Types' /\ Batch' /\ Called'
  BY <1>2 DEF Inv, Types, Batch, Called, SkipFreed
<1>4. AllSound' /\ free_list' = Scheduled(obj')
  BY DEF Inv, AllSound, Scheduled, SkipFreed
<1> QED
  BY <1>3, <1>4 DEF Inv

\* The end of what the loop does for an event.
LEMMA FinishInv ==
    ASSUME Inv, Finish, at \in 1..Len(events)
    PROVE  Inv'
<1> PICK o : o = Current
  OBVIOUS
<1>1. o \in Objects /\ o \in Range(events)
  BY CurrentFacts
<1>0. obj[o] \in Obj /\ wanted[o] \in BOOLEAN
  BY <1>1, ObjectFacts
<1>2. /\ at' = at + 1 /\ pc' = "event" /\ calls' = 0 /\ events' = events
      /\ free_list' = Scheduled(obj')
  BY DEF Finish
<1>3. SUFFICES obj' \in [Objects -> Obj] /\ wanted' \in [Objects -> BOOLEAN] /\ AllSound'
  <2>1. at' \in 1..(Len(events) + 1) /\ at' \in Nat /\ calls' \in 0..MaxCalls
    <3>1. Len(events) \in Nat /\ MaxCalls \in Nat
      BY BoundsAssumption DEF Inv, Types
    <3> QED
      BY <3>1, <1>2
  <2>2. Types' /\ Batch' /\ Called'
    BY <1>2, <1>3, <2>1 DEF Inv, Types, Batch, Called
  <2> QED
    BY <1>2, <1>3, <2>2 DEF Inv
<1>4. CASE ~(o \in Timers)
  <2>1. UNCHANGED <<obj, wanted>>
    BY <1>4 DEF Finish
  <2> QED
    BY <1>2, <2>1 DEF Inv, Types, AllSound
<1>5. CASE o \in Timers
  <2>r. PICK read : read = [obj[o] EXCEPT !.fired = FALSE]
    BY Zenon
  <2>1. mloop__process_timer(o)
    BY <1>5 DEF Finish
  <2>2. read \in Obj
    BY <1>0, <2>r, Zenon DEF Obj
  <2>3. Same(obj[o], read, TRUE) /\ read.state = obj[o].state
    BY <1>0, <2>r DEF Obj, Same
  <2>4. Sound(obj[o], TRUE, TRUE, wanted[o])
    <3>1. (o \in Timers) = TRUE /\ (o \in Range(events)) = TRUE
      BY <1>1, <1>5
    <3>2. Sound(obj[o], o \in Timers, o \in Range(events), wanted[o])
      BY <1>1, ObjectFacts
    <3> QED
      BY <3>1, <3>2, Zenon
  <2>5. obj[o].exists
    BY <2>4 DEF Sound
  <2>6. TRUE = (o \in Timers) /\ TRUE = (o \in Range(events)) /\ TRUE \in BOOLEAN
    BY <1>1, <1>5
  <2>7. CASE o \notin Periodic /\ obj[o].state = "STARTED"
    <3>y. PICK y : y = [read EXCEPT !.state = "STOPPED"]
      BY Zenon
    <3>x. PICK x : x = mloop__socket_stop(y)
      OBVIOUS
    <3>w. PICK w : w = (wanted[o] /\ ~due[o])
      OBVIOUS
    <3>1. obj' = [obj EXCEPT ![o] = x] /\ wanted' = [wanted EXCEPT ![o] = w]
      BY <2>1, <2>7, <2>r, <3>y, <3>x, <3>w, Zenon DEF mloop__process_timer
    <3>2. y \in Obj
      BY <2>2, <3>y DEF Obj
    <3>3. Same(obj[o], y, TRUE) /\ y.state = "STOPPED"
      BY <2>2, <2>3, <3>y DEF Obj, Same
    <3>4. x \in Obj /\ Sound(x, TRUE, TRUE, w)
      BY <1>0, <2>4, <2>6, <2>7, <3>x, <3>2, <3>3, StoppedSound, Zenon
    <3>5. w \in BOOLEAN
      BY <3>w
    <3> QED
      BY <1>1, <1>2, <2>6, <3>1, <3>4, <3>5, OneObject, Zenon
  <2>8. CASE ~(o \notin Periodic /\ obj[o].state = "STARTED")
    <3>1. obj' = [obj EXCEPT ![o] = read]
      BY <2>1, <2>8, <2>r, Zenon DEF mloop__process_timer
    <3>2. wanted' = [wanted EXCEPT ![o] = wanted[o]]
      BY <1>0, <2>1, <2>8, Zenon DEF mloop__process_timer
    <3>3. Sound(read, TRUE, TRUE, wanted[o])
      BY <1>0, <2>2, <2>3, <2>4, <2>5, <2>6, FiredSound, Zenon
    <3> QED
      BY <1>0, <1>1, <1>2, <2>2, <2>6, <3>1, <3>2, <3>3, OneObject, Zenon
  <2> QED
    BY <2>7, <2>8
<1> QED
  BY <1>4, <1>5

LEMMA ReturnInv ==
    ASSUME Inv, Return
    PROVE  Inv'
<1>1. at \in 1..Len(events) /\ Finish
  BY DEF Inv, Batch, Return
<1> QED
  BY <1>1, FinishInv

LEMMA SkipStoppedInv ==
    ASSUME Inv, SkipStopped
    PROVE  Inv'
<1>1. at \in 1..(Len(events) + 1) /\ Len(events) \in Nat /\ at <= Len(events) /\ Finish
  BY DEF Inv, Batch, Types, SkipStopped
<1>2. at \in 1..Len(events)
  BY <1>1
<1> QED
  BY <1>1, <1>2, FinishInv

LEMMA NothingReported ==
    ASSUME NEW s, s = <<>>, NEW o
    PROVE  (o \in Range(s)) = FALSE
  BY DEF Range

LEMMA EndOfEventsInv ==
    ASSUME Inv, EndOfEvents
    PROVE  Inv'
<1>1. /\ obj' = [o \in Objects |-> IF o \in Range(events) THEN Unref(obj[o]) ELSE obj[o]]
      /\ free_list' = Scheduled(obj') /\ events' = <<>> /\ at' = 0 /\ pc' = "jobs"
      /\ UNCHANGED <<calls, wanted>>
  BY DEF EndOfEvents
<1>2. ASSUME NEW o \in Objects
      PROVE  obj'[o] \in Obj /\ Sound(obj'[o], o \in Timers, o \in Range(events'), wanted[o])
  <2>0. obj[o] \in Obj
    BY ObjectFacts
  <2> PICK t \in BOOLEAN, b \in BOOLEAN :
          /\ t = (o \in Timers) /\ b = (o \in Range(events))
          /\ Sound(obj[o], t, b, wanted[o])
    BY ObjectFacts, Zenon
  <2>1. (o \in Range(events')) = FALSE
    BY <1>1, NothingReported, Zenon
  <2>2. CASE o \in Range(events)
    <3>1. obj'[o] = Unref(obj[o])
      BY <1>1, <2>2
    <3>2. b = TRUE
      BY <2>2, Zenon
    <3>3. Unref(obj[o]) \in Obj /\ Sound(Unref(obj[o]), t, FALSE, wanted[o])
      BY <2>0, <3>2, UnbatchedSound, Zenon
    <3> QED
      BY <2>1, <3>1, <3>3, Zenon
  <2>3. CASE ~(o \in Range(events))
    <3>1. obj'[o] = obj[o]
      BY <1>1, <2>3
    <3>2. b = FALSE
      BY <2>3, Zenon
    <3> QED
      BY <2>0, <2>1, <3>1, <3>2, Zenon
  <2> QED
    BY <2>2, <2>3
<1>3. AllSound'
  BY <1>1, <1>2 DEF AllSound
<1>4. Types'
  <2>1. obj' \in [Objects -> Obj]
    BY <1>1, <1>2
  <2> QED
    BY <1>1, <2>1 DEF Inv, Types
<1> QED
  BY <1>1, <1>3, <1>4 DEF Inv, Batch, Called

LEMMA BreakOutInv ==
    ASSUME Inv, BreakOut
    PROVE  Inv'
<1>1. calls' \in 0..MaxCalls
  BY BoundsAssumption DEF BreakOut
<1>2. Types' /\ Batch' /\ Called'
  BY <1>1 DEF Inv, Types, Batch, Called, BreakOut
<1>3. AllSound' /\ free_list' = Scheduled(obj')
  BY DEF Inv, AllSound, Scheduled, BreakOut
<1> QED
  BY <1>2, <1>3 DEF Inv

LEMMA CollectInv ==
    ASSUME Inv, mloop__collect
    PROVE  Inv'
<1>1. /\ obj' = [o \in Objects |-> IF o \in free_list THEN Gone ELSE obj[o]]
      /\ free_list' = {} /\ pc' = "wait" /\ calls' = 0
      /\ UNCHANGED <<events, at, wanted>>
  BY DEF mloop__collect
<1>2. events = <<>> /\ at = 0 /\ free_list = Scheduled(obj)
  BY DEF Inv, Batch, mloop__collect
<1>3. ASSUME NEW o \in Objects
      PROVE  /\ obj'[o] \in Obj
             /\ Sound(obj'[o], o \in Timers, o \in Range(events), wanted[o])
             /\ ~(obj'[o].exists /\ obj'[o].ref = 0)
  <2>0. obj[o] \in Obj
    BY ObjectFacts
  <2> PICK t \in BOOLEAN, b \in BOOLEAN :
          /\ t = (o \in Timers) /\ b = (o \in Range(events))
          /\ Sound(obj[o], t, b, wanted[o])
    BY ObjectFacts, Zenon
  <2>1. (o \in Range(events)) = FALSE
    BY <1>2, NothingReported, Zenon
  <2>2. CASE o \in free_list
    <3>1. obj'[o] = Gone
      BY <1>1, <2>2
    <3>2. Gone \in Obj /\ Sound(Gone, t, FALSE, wanted[o]) /\ ~Gone.exists
      BY NewAndGone, Zenon
    <3> QED
      BY <2>1, <3>1, <3>2, Zenon
  <2>3. CASE ~(o \in free_list)
    <3>1. obj'[o] = obj[o]
      BY <1>1, <2>3
    <3>2. ~(obj[o].exists /\ obj[o].ref = 0)
      BY <1>2, <2>3 DEF Scheduled
    <3> QED
      BY <2>0, <3>1, <3>2
  <2> QED
    BY <2>2, <2>3
<1>4. AllSound'
  BY <1>1, <1>3 DEF AllSound
<1>5. Types'
  <2>1. obj' \in [Objects -> Obj]
    BY <1>1, <1>3
  <2>2. calls' \in 0..MaxCalls
    BY <1>1, BoundsAssumption
  <2> QED
    BY <1>1, <2>1, <2>2 DEF Inv, Types
<1>6. free_list' = Scheduled(obj')
  BY <1>1, <1>3 DEF Scheduled
<1> QED
  BY <1>1, <1>2, <1>4, <1>5, <1>6 DEF Inv, Batch, Called

LEMMA EpollWaitInv ==
    ASSUME Inv, epoll_wait
    PROVE  Inv'
<1>1. /\ obj' = [o \in Objects |->
                   IF o \in Range(events') THEN [obj[o] EXCEPT !.ref = @ + 1] ELSE obj[o]]
      /\ at' = 1 /\ pc' = "event" /\ events' \in Batches
      /\ UNCHANGED <<calls, free_list, wanted>>
  BY DEF epoll_wait
<1>2. events = <<>> /\ free_list = Scheduled(obj)
  BY DEF Inv, Batch, epoll_wait
<1>3. PICK n \in 1..MAX_EVENTS : events' \in [1..n -> Ready]
  BY <1>1 DEF Batches
<1>4. n \in Nat
  BY <1>3, BoundsAssumption
<1>5. events' \in Seq(Objects) /\ Len(events') = n
  <2>1. events' \in [1..n -> Objects]
    BY <1>3 DEF Ready
  <2> QED
    BY <1>4, <2>1
<1>6. ASSUME NEW o \in Range(events')
      PROVE  o \in Objects /\ obj[o].in_epoll
  BY <1>3 DEF Range, Ready
<1>7. ASSUME NEW o \in Objects
      PROVE  /\ obj'[o] \in Obj
             /\ Sound(obj'[o], o \in Timers, o \in Range(events'), wanted[o])
             /\ (obj'[o].exists /\ obj'[o].ref = 0) <=> (obj[o].exists /\ obj[o].ref = 0)
  <2>0. obj[o] \in Obj
    BY ObjectFacts
  <2> PICK t \in BOOLEAN, b \in BOOLEAN :
          /\ t = (o \in Timers) /\ b = (o \in Range(events))
          /\ Sound(obj[o], t, b, wanted[o])
    BY ObjectFacts, Zenon
  <2>1. (o \in Range(events)) = FALSE
    BY <1>2, NothingReported, Zenon
  <2>2. b = FALSE
    BY <2>1, Zenon
  <2>3. CASE o \in Range(events')
    <3>x. PICK x : x = [obj[o] EXCEPT !.ref = @ + 1]
      BY Zenon
    <3>1. obj'[o] = x
      BY <1>1, <2>3, <3>x
    <3>2. x \in Obj /\ Sound(x, t, TRUE, wanted[o]) /\ x.ref # 0 /\ obj[o].ref # 0
      BY <1>6, <2>0, <2>2, <2>3, <3>x, BatchedSound, Zenon
    <3>3. (o \in Range(events')) = TRUE
      BY <2>3
    <3> QED
      BY <3>1, <3>2, <3>3, Zenon
  <2>4. CASE ~(o \in Range(events'))
    <3>1. obj'[o] = obj[o]
      BY <1>1, <2>4
    <3>2. (o \in Range(events')) = FALSE
      BY <2>4
    <3> QED
      BY <2>0, <2>2, <3>1, <3>2, Zenon
  <2> QED
    BY <2>3, <2>4
<1>8. AllSound'
  BY <1>1, <1>7 DEF AllSound
<1>9. Types'
  <2>1. obj' \in [Objects -> Obj]
    BY <1>1, <1>7
  <2> QED
    BY <1>1, <1>5, <2>1 DEF Inv, Types
<1>10. free_list' = Scheduled(obj')
  BY <1>1, <1>2, <1>7 DEF Scheduled
<1>11. Batch'
  BY <1>1, <1>4, <1>5 DEF Batch
<1> QED
  BY <1>1, <1>8, <1>9, <1>10, <1>11 DEF Inv, Called

LEMMA StutterInv ==
    ASSUME Inv, UNCHANGED vars
    PROVE  Inv'
  BY DEF vars, Inv, Types, Batch, AllSound, Scheduled, Called, Current

-----------------------------------------------------------------------------
(* Theorems. *)

\* The references, the epoll set, the batch and the free list of mloop.c agree
\* with each other in every reachable state.
THEOREM Invariance == Spec => []Inv
<1>1. Init => Inv
  BY InitInv
<1>2. Inv /\ [Next]_vars => Inv'
  <2> SUFFICES ASSUME Inv, [Next]_vars
               PROVE  Inv'
    OBVIOUS
  <2>1. CASE UNCHANGED vars
    BY <2>1, StutterInv
  <2>2. CASE Kernel
    BY <2>2, ExpireInv, ArriveInv DEF Kernel
  <2>3. CASE Program
    BY <2>3, StartInv, StartFailsInv, StopInv, ReleaseInv, CreateInv DEF Program
  <2>4. CASE mloop__process_events
    BY <2>4, SkipFreedInv, CallBackInv, ReturnInv, SkipStoppedInv, EndOfEventsInv
       DEF mloop__process_events
  <2>5. CASE epoll_wait \/ BreakOut \/ mloop__collect
    BY <2>5, EpollWaitInv, BreakOutInv, CollectInv
  <2> QED
    BY <2>1, <2>2, <2>3, <2>4, <2>5 DEF Next, mloop_run
<1> QED
  BY <1>1, <1>2, PTL DEF Spec

\* Whatever callbacks do to timers and sockets whose events are still to come,
\* each reference has a holder, neither the kernel nor the batch holds a pointer
\* to an object that was freed, the free list holds what has no reference, and
\* a callback is called only for what the program has started and not stopped.
THEOREM ObjectsStayAccounted == Spec => []ObjectsAccounted
<1>1. Inv => ObjectsAccounted
  <2> SUFFICES ASSUME Inv
               PROVE  ObjectsAccounted
    OBVIOUS
  <2>1. ASSUME NEW o \in Objects
        PROVE  /\ obj[o].state \in {"STOPPED", "STARTED"}
               /\ obj[o].ref \in 0..3
               /\ obj[o].fired => obj[o].exists
               /\ obj[o].armed => o \in Timers
               /\ obj[o].exists => obj[o].ref = One(obj[o].owned) + One(obj[o].in_epoll)
                                                + One(o \in Range(events))
               /\ obj[o].in_epoll => obj[o].exists /\ obj[o].state = "STARTED"
               /\ o \in Range(events) => obj[o].exists
    <3>1. obj[o] \in Obj /\ Sound(obj[o], o \in Timers, o \in Range(events), wanted[o])
      BY ObjectFacts
    <3>2. obj[o].state \in {"STOPPED", "STARTED"}
      BY <3>1 DEF Obj
    <3>3. /\ obj[o].armed => o \in Timers
          /\ obj[o].exists => obj[o].ref = One(obj[o].owned) + One(obj[o].in_epoll)
                                           + One(o \in Range(events))
          /\ obj[o].in_epoll => obj[o].exists /\ obj[o].state = "STARTED"
          /\ o \in Range(events) => obj[o].exists
          /\ obj[o].exists \/ obj[o] = Gone
      BY <3>1 DEF Sound
    <3>4. Gone.ref = 0 /\ Gone.fired = FALSE
      BY DEF Gone, New
    <3>5. obj[o].ref \in 0..3
      BY <3>3, <3>4 DEF One
    <3>6. obj[o].fired => obj[o].exists
      BY <3>3, <3>4
    <3> QED
      BY <3>2, <3>3, <3>5, <3>6
  <2>2. Range(events) \subseteq Objects
    BY DEF Inv, Types, Range
  <2>3. at \in 0..(Len(events) + 1)
    <3>1. Len(events) \in Nat /\ at \in Nat
      BY DEF Inv, Types
    <3>2. at = 0 \/ at \in 1..(Len(events) + 1) \/ at \in 1..Len(events)
      BY DEF Inv, Types, Batch
    <3> QED
      BY <3>1, <3>2
  <2>4. /\ pc \in {"wait", "event", "callback", "jobs"} /\ calls \in 0..MaxCalls
        /\ free_list = Scheduled(obj)
    BY DEF Inv, Types
  <2>5. TypeOK
    BY <2>1, <2>2, <2>3, <2>4 DEF TypeOK, Scheduled
  <2>6. RefCounted
    BY <2>1 DEF RefCounted
  <2>7. NoDanglingEvent
    BY <2>1, <2>2, <2>4 DEF NoDanglingEvent, Scheduled
  <2>8. CalledIsWanted
    BY DEF Inv, Called, CalledIsWanted
  <2> QED
    BY <2>5, <2>6, <2>7, <2>8 DEF ObjectsAccounted
<1> QED
  BY <1>1, Invariance, PTL

-----------------------------------------------------------------------------
(* The queue. *)

INSTANCE WellFoundedInduction

Before(e, f) == Abstract!Before(e, f)

\* The invariant.  Besides the types it says that the tickets in the heap are
\* distinct and close together, so that the wrapped sequence numbers can be
\* compared, and that the heap is in order but at the position that
\* prioq__bubble_up or prioq__sink_down works on: there, the order is broken
\* towards the parent or the children only, and holds across it.
Close ==
    \A i, j \in 0..(index - 1) :
        head[i].ticket - head[j].ticket <= MaxSpread

Distinct ==
    \A i, j \in 0..(index - 1) :
        i # j => head[i].ticket # head[j].ticket

Fresh == \A i \in 0..(index - 1) : head[i].ticket < ticket

Settled ==
    \A i \in 1..(index - 1) :
        \/ mode = "up" /\ i = pos
        \/ mode = "down" /\ parent(i) = pos
        \/ Before(head[parent(i)], head[i])

Across ==
    mode # "idle" /\ pos # 0 =>
        \A i \in 1..(index - 1) :
            parent(i) = pos => Before(head[parent(pos)], head[i])

Inside == mode = "down" => pos < index \/ index = 0

SizeInv == size > 0

HeapInv ==
    /\ PrioqTypeOK /\ SizeInv /\ Close /\ Distinct /\ Fresh
    /\ Settled /\ Across /\ Inside

-----------------------------------------------------------------------------
(* Arithmetic.                                                             *)

\* A number is its quotient times the modulus plus its remainder.
LEMMA Division ==
    ASSUME NEW a \in Nat, NEW m \in Nat, m > 0
    PROVE  \E k \in Nat : a = m * k + (a % m) /\ a % m \in Nat /\ a % m < m
<1>1. a % m \in Nat /\ a % m < m  OBVIOUS
<1>2. a = m * (a \div m) + (a % m)  OBVIOUS
<1>3. a \div m \in Nat  OBVIOUS
<1> QED  BY <1>1, <1>2, <1>3, Zenon

\* Multiples of a number are at least that number apart.
LEMMA Multiples ==
    ASSUME NEW k \in Nat, NEW l \in Nat, NEW m \in Nat, k < l
    PROVE  m * l >= m * k + m
<1>1. PICK d \in Nat : l = k + 1 + d  BY l - k - 1 \in Nat
<1>2. m * l = m * k + m + m * d  BY <1>1
<1>3. m * d >= 0  OBVIOUS
<1> QED  BY <1>2, <1>3

\* Multiples by numbers two apart are twice that number apart.
LEMMA FarMultiples ==
    ASSUME NEW k \in Nat, NEW l \in Nat, NEW m \in Nat, k + 1 < l
    PROVE  m * l >= m * k + 2 * m
<1>1. m * l >= m * (k + 1) + m  BY Multiples, k + 1 \in Nat
<1>2. m * (k + 1) = m * k + m  OBVIOUS
<1> QED  BY <1>1, <1>2

\* The bounds of the first and of the fourth quarter.
LEMMA Quarters ==
    \E q \in Nat : /\ Modulus = 4 * q /\ q >= 2 /\ MaxSpread <= q
                   /\ ULONG_MAX \div 4 = q - 1
BY PrioqAssumption DEF ULONG_MAX

\* prioq__is_seq_lt orders the sequence numbers of insertions that are at
\* most MaxSpread apart, on whichever side of a wrap-around they are.
LEMMA SequenceOrder ==
    ASSUME NEW a \in Nat, NEW b \in Nat, a < b, b - a <= MaxSpread
    PROVE  /\ prioq__is_seq_lt(a % Modulus, b % Modulus)
           /\ ~prioq__is_seq_lt(b % Modulus, a % Modulus)
<1>1. PICK q \in Nat : /\ Modulus = 4 * q /\ q >= 2 /\ MaxSpread <= q
                       /\ ULONG_MAX \div 4 = q - 1
  BY Quarters
<1>2. Modulus \in Nat /\ Modulus > 0 /\ MaxSpread \in Nat
  BY PrioqAssumption
<1>3. PICK k \in Nat : /\ a = Modulus * k + (a % Modulus)
                       /\ a % Modulus \in Nat /\ a % Modulus < Modulus
  BY <1>2, Division, Zenon
<1>4. PICK l \in Nat : /\ b = Modulus * l + (b % Modulus)
                       /\ b % Modulus \in Nat /\ b % Modulus < Modulus
  BY <1>2, Division
<1> DEFINE x == a % Modulus
           y == b % Modulus
           mk == Modulus * k
           ml == Modulus * l
<1>5. x \in Nat /\ y \in Nat /\ x < 4 * q /\ y < 4 * q
  BY <1>1, <1>3, <1>4
<1>6. mk \in Nat /\ ml \in Nat /\ a = mk + x /\ b = ml + y
  BY <1>2, <1>3, <1>4
<1>7. \/ mk = ml
      \/ ml = mk + 4 * q
      \/ ml >= mk + 8 * q
      \/ mk >= ml + 4 * q
  <2>1. CASE k = l  BY <2>1
  <2>2. CASE l = k + 1
    <3>1. Modulus * (k + 1) = Modulus * k + Modulus  BY <1>2
    <3> QED  BY <2>2, <3>1, <1>1
  <2>3. CASE k + 1 < l
    <3>1. ml >= mk + 2 * Modulus  BY <2>3, <1>2, FarMultiples
    <3> QED  BY <3>1, <1>1, <1>6
  <2>4. CASE l < k
    <3>1. mk >= ml + Modulus  BY <2>4, <1>2, Multiples
    <3> QED  BY <3>1, <1>1, <1>6
  <2> QED  BY <2>1, <2>2, <2>3, <2>4
<1>8. \/ x < y /\ y - x <= q
      \/ x >= 3 * q /\ y <= q - 1
  <2> HIDE DEF x, y, mk, ml
  <2> QED  BY <1>1, <1>2, <1>5, <1>6, <1>7
<1>9. /\ is_on_1st_quarter(x) <=> x <= q - 1
      /\ is_on_1st_quarter(y) <=> y <= q - 1
      /\ is_on_4th_quarter(x) <=> (q - 1) * 3 < x
      /\ is_on_4th_quarter(y) <=> (q - 1) * 3 < y
  BY <1>1 DEF is_on_1st_quarter, is_on_4th_quarter
<1>10. prioq__is_seq_lt(x, y) /\ ~prioq__is_seq_lt(y, x)
  <2> HIDE DEF x, y
  <2> QED  BY <1>1, <1>5, <1>8, <1>9 DEF prioq__is_seq_lt
<1> QED  BY <1>10

\* A set of naturals that is not empty has a least member.
LEMMA Least ==
    ASSUME NEW S \in SUBSET Nat, S # {}
    PROVE  \E n \in S : \A m \in S : n <= m
<1> DEFINE R == OpToRel(<, Nat)
<1>1. IsWellFoundedOn(R, Nat)  BY NatLessThanWellFounded, Zenon
<1>2. PICK n \in S : \A m \in S : ~(<<m, n>> \in R)
  <2> HIDE DEF R
  <2> QED  BY <1>1, WFMin, Zenon
<1>3. \A m \in S : <<m, n>> \in R <=> m < n  BY Zenon DEF OpToRel
<1>4. \A m \in S : ~(m < n)  BY Zenon, <1>2, <1>3
<1> HIDE DEF R
<1> QED  BY <1>4

\* A position other than the first is a child of its parent.
LEMMA ParentChild ==
    ASSUME NEW i \in Nat, i # 0
    PROVE  /\ parent(i) \in Nat /\ parent(i) < i
           /\ i = lchild(parent(i)) \/ i = rchild(parent(i))
BY DEF parent, lchild, rchild

\* The parent of a child is where it came from.
LEMMA ChildParent ==
    ASSUME NEW i \in Nat
    PROVE  /\ lchild(i) \in Nat /\ rchild(i) \in Nat
           /\ lchild(i) > i /\ rchild(i) = lchild(i) + 1
           /\ parent(lchild(i)) = i /\ parent(rchild(i)) = i
BY DEF parent, lchild, rchild

-----------------------------------------------------------------------------
(* The order of the elements.                                              *)

\* The fields of an element are numbers.
LEMMA ElemType ==
    ASSUME NEW e \in Elem
    PROVE  e.priority \in Nat /\ e.ticket \in Nat
<1>1. e.priority \in Priorities /\ e.ticket \in Nat  BY DEF Elem
<1>2. Priorities \subseteq Nat  BY PrioqAssumption
<1> QED  BY <1>1, <1>2, Zenon

\* The order of the queue is strict and total on elements whose tickets
\* differ.
LEMMA BeforeOrder ==
    ASSUME NEW e \in Elem, NEW f \in Elem, NEW g \in Elem
    PROVE  /\ e.ticket # f.ticket => Before(e, f) \/ Before(f, e)
           /\ ~(Before(e, f) /\ Before(f, e))
           /\ Before(e, f) /\ Before(f, g) => Before(e, g)
<1>1. /\ e.priority \in Nat /\ f.priority \in Nat /\ g.priority \in Nat
      /\ e.ticket \in Nat /\ f.ticket \in Nat /\ g.ticket \in Nat
  BY ElemType
<1> QED  BY <1>1 DEF Before, Abstract!Before

\* is_lt compares elements whose tickets are close by priority, then by the
\* order of their insertion.
LEMMA IsLtIsBefore ==
    ASSUME NEW e \in Elem, NEW f \in Elem, e.ticket # f.ticket,
           e.ticket - f.ticket <= MaxSpread, f.ticket - e.ticket <= MaxSpread
    PROVE  is_lt(e, f) <=> Before(e, f)
<1>1. /\ e.priority \in Nat /\ f.priority \in Nat
      /\ e.ticket \in Nat /\ f.ticket \in Nat
  BY ElemType
<1>2. prioq__is_seq_lt(sequence_(e), sequence_(f)) <=> e.ticket < f.ticket
  <2>1. CASE e.ticket < f.ticket
    BY <2>1, <1>1, SequenceOrder DEF sequence_
  <2>2. CASE f.ticket < e.ticket
    <3>1. ~prioq__is_seq_lt(sequence_(e), sequence_(f))
      BY <2>2, <1>1, SequenceOrder DEF sequence_
    <3> QED  BY <3>1, <2>2, <1>1
  <2> QED  BY <2>1, <2>2, <1>1
<1> QED  BY <1>1, <1>2 DEF is_lt, Before, Abstract!Before

\* In the heap, is_lt is that order.
LEMMA HeapComparison ==
    ASSUME PrioqTypeOK, Close, Distinct,
           NEW i \in 0..(index - 1), NEW j \in 0..(index - 1), i # j
    PROVE  /\ head[i] \in Elem /\ head[j] \in Elem
           /\ is_lt(head[i], head[j]) <=> Before(head[i], head[j])
           /\ ~is_lt(head[i], head[j]) <=> Before(head[j], head[i])
<1>1. head[i] \in Elem /\ head[j] \in Elem  BY DEF PrioqTypeOK
<1>2. /\ head[i].ticket # head[j].ticket
      /\ head[i].ticket - head[j].ticket <= MaxSpread
      /\ head[j].ticket - head[i].ticket <= MaxSpread
  BY DEF Close, Distinct
<1>3. is_lt(head[i], head[j]) <=> Before(head[i], head[j])
  BY <1>1, <1>2, IsLtIsBefore
<1> QED  BY <1>1, <1>2, <1>3, BeforeOrder

\* Two elements of the heap may change places: the same elements remain.
LEMMA SwapKeeps ==
    ASSUME PrioqTypeOK, Close, Distinct, Fresh,
           NEW i \in 0..(index - 1), NEW j \in 0..(index - 1), i # j,
           head' = Swapped(i, j), UNCHANGED <<index, ticket>>
    PROVE  /\ head' \in [0..(index - 1) -> Elem]
           /\ head'[i] = head[j] /\ head'[j] = head[i]
           /\ \A k \in 0..(index - 1) : k # i /\ k # j => head'[k] = head[k]
           /\ Close' /\ Distinct' /\ Fresh'
           /\ Items' = Items
<1>1. head \in [0..(index - 1) -> Elem]  BY DEF PrioqTypeOK
<1>2. /\ head' \in [0..(index - 1) -> Elem]
      /\ head'[i] = head[j] /\ head'[j] = head[i]
      /\ \A k \in 0..(index - 1) : k # i /\ k # j => head'[k] = head[k]
  BY <1>1 DEF Swapped
<1> DEFINE from(k) == IF k = i THEN j ELSE IF k = j THEN i ELSE k
<1>3. \A k \in 0..(index - 1) :
          /\ from(k) \in 0..(index - 1) /\ from(from(k)) = k
          /\ head'[k] = head[from(k)]
  BY <1>2
<1>4. \A k, l \in 0..(index - 1) : k # l => from(k) # from(l)
  OBVIOUS
<1> HIDE DEF from
<1>5. Close'  BY <1>3 DEF Close
<1>6. Distinct'  BY <1>3, <1>4 DEF Distinct
<1>7. Fresh'  BY <1>3 DEF Fresh
<1>8. \A k \in 0..(index - 1) : head[k] = head'[from(k)]  BY <1>3
<1>9. Items' = Items  BY <1>3, <1>8 DEF Items
<1> QED  BY <1>2, <1>5, <1>6, <1>7, <1>9

-----------------------------------------------------------------------------
(* Every step keeps the invariant.                                         *)

\* prioq_init makes an empty heap.
LEMMA InitHeap == prioq_init => HeapInv
BY PrioqAssumption
   DEF prioq_init, HeapInv, PrioqTypeOK, Close, Distinct, Fresh, Settled, Across,
       Inside, SizeInv, Nothing

\* A new element goes to the end, and only there can the order be broken.
LEMMA InsertHeap ==
    ASSUME HeapInv, NEW p \in Priorities, prioq_insert(p)
    PROVE  /\ HeapInv'
           /\ Items' = Items \union {[priority |-> p, ticket |-> ticket]}
<1> DEFINE new == [priority |-> p, ticket |-> ticket]
<1>1. /\ index \in Nat /\ index' = index + 1 /\ ticket \in Nat
      /\ ticket' = ticket + 1 /\ mode' = "up" /\ pos' = index
      /\ mode = "idle" /\ popped' = popped
  BY DEF HeapInv, PrioqTypeOK, prioq_insert
<1>2. new \in Elem /\ new.ticket = ticket  BY <1>1 DEF Elem
<1>3. /\ head' \in [0..index -> Elem] /\ head'[index] = new
      /\ \A i \in 0..(index - 1) : head'[i] = head[i] /\ head[i] \in Elem
  BY <1>1, <1>2 DEF HeapInv, PrioqTypeOK, prioq_insert
<1>4. \A i \in 0..(index - 1) : /\ head[i].ticket \in Nat
                                /\ head[i].ticket < ticket
                                /\ ticket - head[i].ticket <= MaxSpread
  BY <1>3, ElemType, Zenon DEF HeapInv, Fresh, prioq_insert
<1> HIDE DEF new
<1>5. size' \in Nat /\ index' <= size'
  <2>1. size \in Nat /\ index <= size /\ size >= 0
    BY DEF HeapInv, PrioqTypeOK
  <2>2. size > 0  BY DEF HeapInv, SizeInv
  <2> QED  BY <1>1, <2>1, <2>2 DEF prioq_insert, GrownSize
<1>6. PrioqTypeOK'  BY <1>1, <1>3, <1>5 DEF HeapInv, PrioqTypeOK
<1>7. Close'
  <2>1. \A i, j \in 0..(index - 1) :
            head[i].ticket - head[j].ticket <= MaxSpread
    BY DEF HeapInv, Close
  <2>2. MaxSpread \in Nat  BY PrioqAssumption
  <2>3. SUFFICES ASSUME NEW i \in 0..index, NEW j \in 0..index
                 PROVE  head'[i].ticket - head'[j].ticket <= MaxSpread
    BY <1>1 DEF Close
  <2>4. CASE i # index /\ j # index
    BY <2>1, <2>4, <1>1, <1>3
  <2>5. CASE i = index /\ j # index
    BY <2>5, <1>1, <1>2, <1>3, <1>4
  <2>6. CASE i # index /\ j = index
    BY <2>2, <2>6, <1>1, <1>2, <1>3, <1>4
  <2>7. CASE i = index /\ j = index
    BY <2>2, <2>7, <1>1, <1>2, <1>3
  <2> QED  BY <2>4, <2>5, <2>6, <2>7
<1>8. Distinct'
  <2>1. SUFFICES ASSUME NEW i \in 0..index, NEW j \in 0..index, i # j
                 PROVE  head'[i].ticket # head'[j].ticket
    BY <1>1 DEF Distinct
  <2>2. CASE i # index /\ j # index
    BY <2>1, <2>2, <1>1, <1>3 DEF HeapInv, Distinct
  <2>3. CASE i = index  BY <2>1, <2>3, <1>1, <1>2, <1>3, <1>4
  <2>4. CASE j = index  BY <2>1, <2>4, <1>1, <1>2, <1>3, <1>4
  <2> QED  BY <2>2, <2>3, <2>4
<1>9. Fresh'
  <2>1. SUFFICES ASSUME NEW i \in 0..index
                 PROVE  head'[i].ticket < ticket + 1
    BY <1>1 DEF Fresh
  <2>2. CASE i = index  BY <2>2, <1>1, <1>2, <1>3
  <2>3. CASE i # index  BY <2>3, <1>1, <1>3, <1>4
  <2> QED  BY <2>2, <2>3
<1>10. Settled'
  <2>1. SUFFICES ASSUME NEW i \in 1..index, i # index
                 PROVE  Before(head'[parent(i)], head'[i])
    BY <1>1 DEF Settled
  <2>2. parent(i) \in 0..(index - 1)  BY <1>1, <2>1, ParentChild
  <2>3. Before(head[parent(i)], head[i])
    BY <1>1, <2>1 DEF HeapInv, Settled
  <2> QED  BY <1>1, <1>3, <2>1, <2>2, <2>3
<1>11. Across'
  <2>1. \A i \in 1..index : parent(i) # index  BY <1>1, ParentChild
  <2> QED  BY <1>1, <2>1 DEF Across
<1>12. Items' = Items \union {new}
  <2>1. Items' = {head'[i] : i \in 0..index}  BY <1>1 DEF Items
  <2>2. 0..index = (0..(index - 1)) \union {index}  BY <1>1
  <2>3. \A i \in 0..(index - 1) : head'[i] = head[i]  BY <1>3
  <2>4. {head'[i] : i \in 0..(index - 1)} = {head[i] : i \in 0..(index - 1)}
    BY <2>3, Zenon
  <2>5. {head'[i] : i \in 0..index}
            = {head'[i] : i \in 0..(index - 1)} \union {head'[index]}
    BY <2>2, Zenon
  <2>6. head'[index] = new  BY <1>3
  <2> QED  BY <2>1, <2>4, <2>5, <2>6, Zenon DEF Items
<1>13. Inside' /\ SizeInv'  BY <1>1, <1>5 DEF Inside, SizeInv
<1> QED
  BY <1>6, <1>7, <1>8, <1>9, <1>10, <1>11, <1>12, <1>13 DEF HeapInv, new

\* prioq__bubble_up moves the element on which the order is broken towards
\* the root, or ends with the order restored.
LEMMA BubbleHeap ==
    ASSUME HeapInv, prioq__bubble_up
    PROVE  HeapInv' /\ Items' = Items
<1>1. /\ index \in Nat /\ index' = index /\ ticket' = ticket /\ size' = size
      /\ popped' = popped /\ mode = "up" /\ pos \in Nat /\ pos < index
  BY DEF HeapInv, PrioqTypeOK, prioq__bubble_up
<1>2. CASE pos # 0 /\ is_lt(head[pos], head[parent(pos)])
  <2> DEFINE up == parent(pos)
  <2>1. up \in Nat /\ up < pos  BY <1>1, <1>2, ParentChild
  <2> HIDE DEF up
  <2>2. head' = Swapped(pos, up) /\ pos' = up /\ mode' = "up"
    BY <1>1, <1>2 DEF prioq__bubble_up, up
  <2>3. pos \in 0..(index - 1) /\ up \in 0..(index - 1) /\ pos # up
    BY <1>1, <2>1
  <2>4. /\ head' \in [0..(index - 1) -> Elem]
        /\ head'[pos] = head[up] /\ head'[up] = head[pos]
        /\ \A k \in 0..(index - 1) :
               k # pos /\ k # up => head'[k] = head[k]
        /\ Close' /\ Distinct' /\ Fresh' /\ Items' = Items
    BY <1>1, <2>2, <2>3, SwapKeeps DEF HeapInv
  <2>5. /\ head[pos] \in Elem /\ head[up] \in Elem
        /\ Before(head[pos], head[up])
    BY <1>2, <2>3, HeapComparison DEF HeapInv, up
  <2>6. \A k \in 1..(index - 1) :
            /\ parent(k) \in 0..(index - 1) /\ parent(k) < k
            /\ k \in 0..(index - 1) /\ head[k] \in Elem
            /\ head[parent(k)] \in Elem
    BY <1>1, ParentChild DEF HeapInv, PrioqTypeOK
  <2>7. \A k \in 1..(index - 1) :
            k # pos => Before(head[parent(k)], head[k])
    BY <1>1 DEF HeapInv, Settled
  <2>8. \A k \in 1..(index - 1) :
            parent(k) = pos => Before(head[up], head[k])
    BY <1>1, <1>2 DEF HeapInv, Across, up
  <2>9. PrioqTypeOK'  BY <1>1, <2>1, <2>2, <2>4 DEF HeapInv, PrioqTypeOK
  <2>10. Settled'
    <3>1. SUFFICES ASSUME NEW k \in 1..(index - 1), k # up
                   PROVE  Before(head'[parent(k)], head'[k])
      BY <1>1, <2>2 DEF Settled
    <3>2. CASE k = pos  BY <3>2, <2>4, <2>5 DEF up
    <3>3. CASE k # pos /\ parent(k) = pos
      BY <3>1, <3>3, <2>4, <2>6, <2>8
    <3>4. CASE k # pos /\ parent(k) = up
      <4>1. Before(head[pos], head[k])
        BY <3>4, <2>5, <2>6, <2>7, BeforeOrder
      <4> QED  BY <3>1, <3>4, <4>1, <2>4, <2>6
    <3>5. CASE k # pos /\ parent(k) # pos /\ parent(k) # up
      BY <3>1, <3>5, <2>4, <2>6, <2>7
    <3> QED  BY <3>2, <3>3, <3>4, <3>5
  <2>11. Across'
    <3>1. SUFFICES ASSUME up # 0, NEW k \in 1..(index - 1), parent(k) = up
                   PROVE  Before(head'[parent(up)], head'[k])
      BY <1>1, <2>2 DEF Across
    <3>2. up \in 1..(index - 1)  BY <2>3, <3>1
    <3>3. parent(up) \in 0..(index - 1) /\ parent(up) < up
      BY <2>6, <3>2
    <3>4. head'[parent(up)] = head[parent(up)]  BY <3>3, <2>1, <2>4
    <3>5. Before(head[parent(up)], head[up])  BY <3>2, <2>3, <2>7
    <3>6. CASE k = pos  BY <3>4, <3>5, <3>6, <2>4
    <3>7. CASE k # pos
      <4>1. k # up  BY <3>1, <2>6
      <4>2. Before(head[up], head[k])  BY <3>1, <3>7, <2>7
      <4>3. head[parent(up)] \in Elem  BY <3>2, <2>6
      <4>4. Before(head[parent(up)], head[k])
        BY <3>5, <4>2, <4>3, <2>5, <2>6, BeforeOrder
      <4> QED  BY <3>4, <3>7, <4>1, <4>4, <2>4, <2>6
    <3> QED  BY <3>6, <3>7
  <2>12. Inside' /\ SizeInv'  BY <1>1, <2>2 DEF HeapInv, Inside, SizeInv
  <2> QED  BY <2>4, <2>9, <2>10, <2>11, <2>12 DEF HeapInv
<1>3. CASE ~(pos # 0 /\ is_lt(head[pos], head[parent(pos)]))
  <2>1. mode' = "idle" /\ head' = head /\ pos' = pos
    BY <1>3 DEF prioq__bubble_up
  <2>2. Settled'
    <3>1. SUFFICES ASSUME NEW k \in 1..(index - 1)
                   PROVE  Before(head[parent(k)], head[k])
      BY <1>1, <2>1 DEF Settled
    <3>2. CASE k # pos  BY <3>2, <1>1 DEF HeapInv, Settled
    <3>3. CASE k = pos
      <4>1. parent(k) \in 0..(index - 1) /\ parent(k) # k
        BY <1>1, ParentChild
      <4> QED  BY <1>1, <1>3, <3>3, <4>1, HeapComparison DEF HeapInv
    <3> QED  BY <3>2, <3>3
  <2>3. PrioqTypeOK' /\ SizeInv'
    BY <1>1, <2>1 DEF HeapInv, PrioqTypeOK, SizeInv
  <2>4. Close' /\ Distinct' /\ Fresh' /\ Items' = Items
    BY <1>1, <2>1 DEF HeapInv, Close, Distinct, Fresh, Items
  <2>5. Across' /\ Inside'  BY <2>1 DEF Across, Inside
  <2> QED  BY <2>2, <2>3, <2>4, <2>5 DEF HeapInv
<1> QED  BY <1>2, <1>3

\* The first element is the smallest.
LEMMA RootIsLeast ==
    ASSUME HeapInv, mode = "idle",
           NEW i \in 0..(index - 1), i # 0
    PROVE  Before(head[0], head[i])
<1> DEFINE Bad == {k \in 1..(index - 1) : ~Before(head[0], head[k])}
<1>1. SUFFICES ASSUME Bad # {} PROVE FALSE  OBVIOUS
<1>2. index \in Nat /\ Bad \in SUBSET Nat  BY DEF HeapInv, PrioqTypeOK
<1>3. PICK k \in Bad : \A m \in Bad : k <= m  BY <1>1, <1>2, Least, Zenon
<1>4. k \in 1..(index - 1) /\ ~Before(head[0], head[k])  BY <1>3
<1>5. parent(k) \in Nat /\ parent(k) < k  BY <1>4, ParentChild
<1>6. Before(head[parent(k)], head[k])  BY <1>4 DEF HeapInv, Settled
<1>7. parent(k) # 0  BY <1>4, <1>6
<1>8. parent(k) \in 1..(index - 1)  BY <1>2, <1>4, <1>5, <1>7
<1>9. parent(k) \notin Bad  BY <1>2, <1>3, <1>4, <1>5
<1>10. Before(head[0], head[parent(k)])  BY <1>8, <1>9
<1>11. head[0] \in Elem /\ head[k] \in Elem /\ head[parent(k)] \in Elem
  BY <1>2, <1>4, <1>8 DEF HeapInv, PrioqTypeOK
<1> QED  BY <1>4, <1>6, <1>10, <1>11, BeforeOrder

\* prioq_pop takes the first element out and puts the last in its place, the
\* only one where the order can then be broken.
LEMMA PopHeap ==
    ASSUME HeapInv, prioq_pop
    PROVE  /\ HeapInv'
           /\ head[0] \in Items /\ popped' = head[0]
           /\ Items' = Items \ {head[0]}
<1>1. /\ index \in Nat /\ index > 0 /\ index' = index - 1 /\ mode = "idle"
      /\ ticket' = ticket /\ size' = size /\ mode' = "down" /\ pos' = 0
      /\ popped' = head[0] /\ head \in [0..(index - 1) -> Elem]
  BY DEF HeapInv, PrioqTypeOK, prioq_pop
<1> DEFINE from(k) == IF k = 0 THEN index - 1 ELSE k
<1>2. \A k \in 0..(index - 2) :
          /\ from(k) \in 0..(index - 1) /\ from(k) # 0
          /\ head'[k] = head[from(k)]
  BY <1>1 DEF prioq_pop
<1>3. \A k, l \in 0..(index - 2) : k # l => from(k) # from(l)
  BY <1>1
<1>4. \A k \in 1..(index - 1) : \E l \in 0..(index - 2) : from(l) = k
  <2>1. SUFFICES ASSUME NEW k \in 1..(index - 1)
                 PROVE  \E l \in 0..(index - 2) : from(l) = k
    OBVIOUS
  <2>2. CASE k = index - 1
    <3>1. 0 \in 0..(index - 2) /\ from(0) = k  BY <1>1, <2>2
    <3> QED  BY <3>1
  <2>3. CASE k # index - 1
    <3>1. k \in 0..(index - 2) /\ from(k) = k  BY <1>1, <2>3
    <3> QED  BY <3>1
  <2> QED  BY <2>2, <2>3
<1>5. \A k \in 1..(index - 2) : from(k) = k  OBVIOUS
<1> HIDE DEF from
<1>6. head' \in [0..(index - 2) -> Elem]  BY <1>1 DEF prioq_pop
<1>7. PrioqTypeOK'
  <2>1. head' \in [0..(index' - 1) -> Elem]
    <3>1. index' - 1 = index - 2  BY <1>1
    <3> QED  BY <1>6, <3>1
  <2>2. head[0] \in Elem  BY <1>1
  <2> QED  BY <1>1, <2>1, <2>2 DEF HeapInv, PrioqTypeOK
<1>8. index' - 1 = index - 2  BY <1>1
<1>9. Close'  BY <1>2, <1>8 DEF HeapInv, Close
<1>10. Distinct'  BY <1>2, <1>3, <1>8 DEF HeapInv, Distinct
<1>11. Fresh'  BY <1>1, <1>2, <1>8 DEF HeapInv, Fresh
<1>12. Settled'
  <2>1. SUFFICES ASSUME NEW k \in 1..(index - 2), parent(k) # 0
                 PROVE  Before(head'[parent(k)], head'[k])
    BY <1>1, <1>8 DEF Settled
  <2>2. parent(k) \in 1..(index - 2)  BY <1>1, <2>1, ParentChild
  <2>3. head'[parent(k)] = head[parent(k)] /\ head'[k] = head[k]
    BY <1>1, <1>2, <1>5, <2>2
  <2>4. Before(head[parent(k)], head[k])
    BY <1>1 DEF HeapInv, Settled
  <2> QED  BY <2>3, <2>4
<1>13. Across' /\ Inside' /\ SizeInv'
  BY <1>1 DEF HeapInv, Across, Inside, SizeInv
<1>14. head[0] \in Items  BY <1>1 DEF Items
<1>15. Items' = Items \ {head[0]}
  <2>1. \A k \in 1..(index - 1) : head[k] # head[0]
    BY <1>1 DEF HeapInv, Distinct
  <2>2. Items' = {head[from(k)] : k \in 0..(index - 2)}
    BY <1>2, <1>8 DEF Items
  <2>3. Items' = {head[k] : k \in 1..(index - 1)}
    BY <1>1, <1>2, <1>4, <2>2
  <2>4. 0..(index - 1) = {0} \union 1..(index - 1)  BY <1>1
  <2> QED  BY <2>1, <2>3, <2>4 DEF Items
<1> QED
  BY <1>1, <1>7, <1>9, <1>10, <1>11, <1>12, <1>13, <1>14, <1>15
  DEF HeapInv

\* prioq__get_smaller_child finds a child smaller than the element and than
\* its sibling, and 0 only when there is none.
LEMMA SmallerChild ==
    ASSUME HeapInv, mode = "down"
    PROVE  LET child == prioq__get_smaller_child(pos)
               Children == {k \in 1..(index - 1) : parent(k) = pos}
           IN \/ /\ child = 0
                 /\ \A k \in Children : Before(head[pos], head[k])
              \/ /\ child \in Children
                 /\ Before(head[child], head[pos])
                 /\ \A k \in Children :
                        k # child => Before(head[child], head[k])
<1> DEFINE l == lchild(pos)
           r == rchild(pos)
           Children == {k \in 1..(index - 1) : parent(k) = pos}
<1>1. index \in Nat /\ pos \in Nat  BY DEF HeapInv, PrioqTypeOK
<1>2. /\ l \in Nat /\ r \in Nat /\ l > pos /\ r = l + 1
      /\ parent(l) = pos /\ parent(r) = pos
  BY <1>1, ChildParent
<1>3. \A k \in Children : k = l \/ k = r  BY <1>1, ParentChild
<1>4. /\ l < index => l \in Children
      /\ r < index => r \in Children
  BY <1>1, <1>2
<1>5. \A k \in Children : k < index  BY <1>1
<1> HIDE DEF l, r
<1>6. l < index =>
        /\ head[l] \in Elem /\ head[pos] \in Elem
        /\ is_lt(head[l], head[pos]) <=> Before(head[l], head[pos])
        /\ ~is_lt(head[l], head[pos]) <=> Before(head[pos], head[l])
  BY <1>1, <1>2, HeapComparison DEF HeapInv
<1>7. r < index =>
        /\ head[r] \in Elem
        /\ is_lt(head[r], head[pos]) <=> Before(head[r], head[pos])
        /\ ~is_lt(head[r], head[pos]) <=> Before(head[pos], head[r])
        /\ is_lt(head[r], head[l]) <=> Before(head[r], head[l])
        /\ ~is_lt(head[r], head[l]) <=> Before(head[l], head[r])
  BY <1>1, <1>2, HeapComparison DEF HeapInv
<1>8. r < index => l < index  BY <1>1, <1>2
<1>9. l # 0 /\ r # 0 /\ l # r  BY <1>1, <1>2
<1> HIDE DEF Children
<1>10. CASE r < index /\ is_lt(head[r], head[pos])
           /\ is_lt(head[r], head[l])
  <2>1. prioq__get_smaller_child(pos) = r
    BY <1>10 DEF prioq__get_smaller_child, l, r
  <2> QED  BY <2>1, <1>3, <1>4, <1>7, <1>10 DEF Children
<1>11. CASE r < index /\ is_lt(head[r], head[pos])
           /\ ~is_lt(head[r], head[l])
  <2>1. prioq__get_smaller_child(pos) = l
    BY <1>11 DEF prioq__get_smaller_child, l, r
  <2>2. Before(head[l], head[pos])
    BY <1>6, <1>7, <1>8, <1>11, BeforeOrder
  <2> QED  BY <2>1, <2>2, <1>3, <1>4, <1>7, <1>8, <1>11 DEF Children
<1>12. CASE ~(r < index /\ is_lt(head[r], head[pos]))
           /\ l < index /\ is_lt(head[l], head[pos])
  <2>1. prioq__get_smaller_child(pos) = l
    BY <1>12 DEF prioq__get_smaller_child, l, r
  <2>2. r < index => Before(head[l], head[r])
    BY <1>6, <1>7, <1>12, BeforeOrder
  <2> QED  BY <2>1, <2>2, <1>3, <1>4, <1>5, <1>6, <1>12 DEF Children
<1>13. CASE ~(r < index /\ is_lt(head[r], head[pos]))
           /\ ~(l < index /\ is_lt(head[l], head[pos]))
  <2>1. prioq__get_smaller_child(pos) = 0
    BY <1>13 DEF prioq__get_smaller_child, l, r
  <2> QED  BY <2>1, <1>3, <1>5, <1>6, <1>7, <1>13 DEF Children
<1> QED  BY <1>10, <1>11, <1>12, <1>13

\* prioq__sink_down moves the element on which the order is broken towards
\* the leaves, or ends with the order restored.
LEMMA SinkHeap ==
    ASSUME HeapInv, prioq__sink_down
    PROVE  HeapInv' /\ Items' = Items
<1> DEFINE child == prioq__get_smaller_child(pos)
           Children == {k \in 1..(index - 1) : parent(k) = pos}
<1>1. /\ index \in Nat /\ index' = index /\ ticket' = ticket /\ size' = size
      /\ popped' = popped /\ mode = "down" /\ pos \in Nat
  BY DEF HeapInv, PrioqTypeOK, prioq__sink_down
<1>2. \/ /\ child = 0
         /\ \A k \in Children : Before(head[pos], head[k])
      \/ /\ child \in Children
         /\ Before(head[child], head[pos])
         /\ \A k \in Children : k # child => Before(head[child], head[k])
  BY <1>1, SmallerChild
<1>3. /\ child = 0 => mode' = "idle" /\ head' = head /\ pos' = pos
      /\ child # 0 => /\ head' = Swapped(pos, child)
                      /\ pos' = child /\ mode' = "down"
  BY <1>1 DEF prioq__sink_down
<1>4. \A k \in 1..(index - 1) :
          k \notin Children => Before(head[parent(k)], head[k])
  BY <1>1 DEF HeapInv, Settled
<1> HIDE DEF child
<1>5. CASE child = 0
  <2>1. mode' = "idle" /\ head' = head /\ pos' = pos  BY <1>3, <1>5
  <2>2. \A k \in Children : Before(head[pos], head[k])  BY <1>2, <1>5
  <2>3. Settled'
    <3>1. \A k \in 1..(index - 1) : Before(head[parent(k)], head[k])
      BY <1>4, <2>2
    <3> QED  BY <3>1, <2>1, <1>1 DEF Settled
  <2>4. PrioqTypeOK' /\ SizeInv'
    BY <1>1, <2>1 DEF HeapInv, PrioqTypeOK, SizeInv
  <2>5. Close' /\ Distinct' /\ Fresh' /\ Items' = Items
    BY <1>1, <2>1 DEF HeapInv, Close, Distinct, Fresh, Items
  <2>6. Across' /\ Inside'  BY <2>1 DEF Across, Inside
  <2> QED  BY <2>3, <2>4, <2>5, <2>6 DEF HeapInv
<1>6. CASE child # 0
  <2>1. /\ child \in 1..(index - 1) /\ parent(child) = pos
        /\ Before(head[child], head[pos])
        /\ \A k \in Children : k # child => Before(head[child], head[k])
    BY <1>2, <1>6
  <2>2. /\ pos \in 0..(index - 1) /\ child \in 0..(index - 1)
        /\ pos < child /\ pos # child
    BY <1>1, <2>1, ParentChild
  <2>3. head' = Swapped(pos, child) /\ pos' = child /\ mode' = "down"
    BY <1>3, <1>6
  <2>4. /\ head' \in [0..(index - 1) -> Elem]
        /\ head'[pos] = head[child] /\ head'[child] = head[pos]
        /\ \A k \in 0..(index - 1) :
               k # pos /\ k # child => head'[k] = head[k]
        /\ Close' /\ Distinct' /\ Fresh' /\ Items' = Items
    BY <1>1, <2>2, <2>3, SwapKeeps DEF HeapInv
  <2>5. \A k \in 1..(index - 1) :
            /\ parent(k) \in 0..(index - 1) /\ parent(k) < k
            /\ k \in 0..(index - 1)
    BY <1>1, ParentChild
  <2>6. pos # 0 => Before(head[parent(pos)], head[child])
    BY <1>1, <2>1 DEF HeapInv, Across
  <2>7. PrioqTypeOK'  BY <1>1, <2>2, <2>3, <2>4 DEF HeapInv, PrioqTypeOK
  <2>8. Settled'
    <3>1. SUFFICES ASSUME NEW k \in 1..(index - 1), parent(k) # child
                   PROVE  Before(head'[parent(k)], head'[k])
      BY <1>1, <2>3 DEF Settled
    <3>2. CASE k = child  BY <3>2, <2>1, <2>4
    <3>3. CASE k # child /\ parent(k) = pos
      <4>1. Before(head[child], head[k])  BY <3>3, <2>1
      <4>2. k # pos  BY <3>3, <2>5
      <4> QED  BY <3>3, <4>1, <4>2, <2>4, <2>5
    <3>4. CASE k = pos
      <4>1. pos # 0 /\ parent(pos) # pos /\ parent(pos) # child
        BY <3>1, <3>4, <2>5
      <4> QED  BY <3>4, <4>1, <2>4, <2>5, <2>6
    <3>5. CASE k # child /\ k # pos /\ parent(k) # pos
      <4>1. Before(head[parent(k)], head[k])  BY <3>5, <1>4
      <4> QED  BY <3>1, <3>5, <4>1, <2>4, <2>5
    <3> QED  BY <3>2, <3>3, <3>4, <3>5
  <2>9. Across'
    <3>1. SUFFICES ASSUME NEW k \in 1..(index - 1), parent(k) = child
                   PROVE  Before(head'[parent(child)], head'[k])
      BY <1>1, <2>3 DEF Across
    <3>2. k # child /\ k # pos /\ parent(k) # pos
      BY <3>1, <2>2, <2>5
    <3>3. Before(head[child], head[k])  BY <3>1, <3>2, <1>4
    <3> QED  BY <3>2, <3>3, <2>1, <2>4, <2>5
  <2>10. Inside' /\ SizeInv'
    BY <1>1, <2>1, <2>3 DEF HeapInv, Inside, SizeInv
  <2> QED  BY <2>4, <2>7, <2>8, <2>9, <2>10 DEF HeapInv
<1> QED  BY <1>5, <1>6

\* A step that changes nothing keeps the invariant.
LEMMA StutterHeap ==
    ASSUME HeapInv, UNCHANGED prioqvars
    PROVE  HeapInv'
BY DEF HeapInv, prioqvars, PrioqTypeOK, SizeInv, Close, Distinct, Fresh, Settled,
       Across, Inside

\* In every state the elements are close and distinct and the heap is in
\* order but where it is being repaired.
THEOREM HeapInvariant == PrioqSpec => []HeapInv
<1>1. prioq_init => HeapInv  BY InitHeap
<1>2. HeapInv /\ [PrioqNext]_prioqvars => HeapInv'
  <2> SUFFICES ASSUME HeapInv, [PrioqNext]_prioqvars PROVE HeapInv'  OBVIOUS
  <2>1. CASE \E p \in Priorities : prioq_insert(p)  BY <2>1, InsertHeap
  <2>2. CASE prioq__bubble_up  BY <2>2, BubbleHeap
  <2>3. CASE prioq_pop  BY <2>3, PopHeap
  <2>4. CASE prioq__sink_down  BY <2>4, SinkHeap
  <2>5. CASE UNCHANGED prioqvars  BY <2>5, StutterHeap
  <2> QED  BY <2>1, <2>2, <2>3, <2>4, <2>5 DEF PrioqNext
<1> QED  BY <1>1, <1>2, PTL DEF PrioqSpec

\* The number of elements never passes the room that prioq_grow made.
THEOREM TypeCorrect == PrioqSpec => []PrioqTypeOK
<1>1. HeapInv => PrioqTypeOK  BY DEF HeapInv
<1> QED  BY <1>1, HeapInvariant, PTL

\* Between two operations no element is smaller, to is_lt, than its parent.
THEOREM HeapOrderedHolds == PrioqSpec => []HeapOrdered
<1>1. HeapInv => HeapOrdered
  <2>1. SUFFICES ASSUME HeapInv, mode = "idle", NEW i \in 1..(index - 1)
                 PROVE  ~is_lt(head[i], head[parent(i)])
    BY DEF HeapOrdered
  <2>2. index \in Nat  BY <2>1 DEF HeapInv, PrioqTypeOK
  <2>3. /\ parent(i) \in 0..(index - 1) /\ i \in 0..(index - 1)
        /\ i # parent(i)
    BY <2>2, ParentChild
  <2>4. Before(head[parent(i)], head[i])  BY <2>1 DEF HeapInv, Settled
  <2> QED  BY <2>1, <2>3, <2>4, HeapComparison, BeforeOrder DEF HeapInv
<1> QED  BY <1>1, HeapInvariant, PTL

\* The heap implements a stable priority queue: prioq_pop returns the element
\* of the smallest priority that was inserted first, and no operation loses,
\* duplicates or changes another one.
THEOREM ImplementsStableQueue == PrioqSpec => StablePriorityQueue
<1>1. prioq_init => Abstract!AbstractInit
  BY DEF prioq_init, Abstract!AbstractInit, Items, Nothing,
         Abstract!Nothing
<1>2. HeapInv /\ [PrioqNext]_prioqvars =>
          [Abstract!AbstractNext]_(Abstract!abstractVars)
  <2> SUFFICES ASSUME HeapInv, [PrioqNext]_prioqvars
               PROVE  [Abstract!AbstractNext]_(Abstract!abstractVars)
    OBVIOUS
  <2>1. ASSUME NEW p \in Priorities, prioq_insert(p)
        PROVE  Abstract!AbstractNext
    <3>1. Items' = Items \union {[priority |-> p, ticket |-> ticket]}
      BY <2>1, InsertHeap
    <3>2. ticket' = ticket + 1 /\ popped' = popped
      BY <2>1 DEF prioq_insert
    <3> QED  BY <3>1, <3>2 DEF Abstract!AbstractNext, Abstract!Put
  <2>2. CASE prioq__bubble_up
    <3>1. Items' = Items  BY <2>2, BubbleHeap
    <3>2. ticket' = ticket /\ popped' = popped
      BY <2>2 DEF prioq__bubble_up
    <3> QED  BY <3>1, <3>2 DEF Abstract!abstractVars
  <2>3. CASE prioq_pop
    <3>1. /\ head[0] \in Items /\ popped' = head[0]
          /\ Items' = Items \ {head[0]}
      BY <2>3, PopHeap
    <3>2. \A f \in Items : f = head[0] \/ Abstract!Before(head[0], f)
      <4>1. mode = "idle"  BY <2>3 DEF prioq_pop
      <4>2. \A i \in 0..(index - 1) :
                i # 0 => Abstract!Before(head[0], head[i])
        BY <4>1, RootIsLeast DEF Before
      <4> QED  BY <4>2 DEF Items
    <3>3. ticket' = ticket  BY <2>3 DEF prioq_pop
    <3> QED
      BY <3>1, <3>2, <3>3 DEF Abstract!AbstractNext, Abstract!Take
  <2>4. CASE prioq__sink_down
    <3>1. Items' = Items  BY <2>4, SinkHeap
    <3>2. ticket' = ticket /\ popped' = popped
      BY <2>4 DEF prioq__sink_down
    <3> QED  BY <3>1, <3>2 DEF Abstract!abstractVars
  <2>5. CASE UNCHANGED prioqvars
    BY <2>5 DEF prioqvars, Abstract!abstractVars, Items
  <2> QED  BY <2>1, <2>2, <2>3, <2>4, <2>5 DEF PrioqNext
<1> QED
  BY <1>1, <1>2, HeapInvariant, PTL
  DEF PrioqSpec, StablePriorityQueue, Abstract!AbstractSpec
=============================================================================
