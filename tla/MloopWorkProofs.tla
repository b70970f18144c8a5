-------------------------- MODULE MloopWorkProofs ---------------------------
(***************************************************************************)
(* The works of mloop.c, for any number of works and threads: every job is *)
(* in one place, alive while it is there, counted and answered.            *)
(***************************************************************************)
EXTENDS MloopWork, TLAPS

\* A thread has a job from the queue and has not yet sent it on or taken it off
\* the list of active objects.
Working == {"ref", "run", "unref", "forward", "remove"}

With(t, w, pcs) == thread[t].job = w /\ thread[t].pc \in pcs

Running(w) == \E t \in Threads : With(t, w, {"run", "unref"})

\* A job is under way from its start until it is taken off the list.
UnderWay(w) ==
    \/ w \in Elems(jobs)
    \/ w \in Elems(async)
    \/ \E t \in Threads : With(t, w, Working)

Distinct(s) == \A i, j \in DOMAIN s : i # j => s[i] # s[j]

\* Each job waits once, or one thread has it.  The thread that has sent a job back
\* keeps the queue locked until it has changed the state of the job.
PlaceInv ==
    /\ Distinct(jobs) /\ Distinct(async)
    /\ Elems(jobs) \intersect Elems(async) = {}
    /\ \A t \in Threads :
           /\ thread[t].pc = "pop" <=> thread[t].job = Nobody
           /\ thread[t].pc \in Working \union {"stop"} =>
                  thread[t].job \notin Elems(jobs) \union Elems(async)
           /\ thread[t].pc = "started" <=> lock = t
           /\ thread[t].pc = "started" => thread[t].job \in Elems(async)
    /\ \A t, u \in Threads :
           t # u /\ thread[t].pc # "pop" => thread[t].job # thread[u].job

\* The path a job takes is that of its kind.  A job whose function has not run
\* is not cancelled.
PathInv ==
    /\ \A w \in Elems(async) : work[w].done_fn
    /\ \A w \in Elems(jobs) : ~work[w].is_cancelled
    /\ \A t \in Threads :
           /\ thread[t].pc = "forward" => work[thread[t].job].done_fn
           /\ thread[t].pc \in {"remove", "stop"} => ~work[thread[t].job].done_fn
           /\ thread[t].pc = "stop" => /\ ~work[thread[t].job].listed
                                       /\ work[thread[t].job].mem # "none"

\* The state of a job under way.
StateInv ==
    /\ \A w \in Elems(jobs) : work[w].state = "STARTING"
    /\ \A t \in Threads :
           thread[t].pc # "pop" => work[thread[t].job].state = "STARTING"
    /\ \A w \in Elems(async) :
           work[w].state = IF \E t \in Threads : With(t, w, {"started"})
                           THEN "STARTING" ELSE "STARTED"

\* What refers to a work, and what it was asked and answered.
Counted(o, underWay, running) ==
    /\ o.listed <=> underWay \/ o.lost > 0
    /\ o.lost > 0 => ~underWay
    /\ o.ref = (IF o.held THEN 1 ELSE 0) + (IF o.listed THEN 1 ELSE 0)
               + (IF running THEN 1 ELSE 0)
    /\ o.mem = "live" <=> o.ref > 0
    /\ o.mem = "none" => o.calls = 0
    /\ o.done_fn => o.starts = o.calls + o.cancels + o.lost + (IF underWay THEN 1 ELSE 0)

CountInv == \A w \in Works : Counted(work[w], UnderWay(w), Running(w))

Inv == TypeOK /\ PlaceInv /\ PathInv /\ StateInv /\ CountInv

-----------------------------------------------------------------------------
(* Queues. *)

LEMMA ElemsAppended ==
    ASSUME NEW s \in Seq(Works), NEW w \in Works, w \notin Elems(s), Distinct(s)
    PROVE  /\ Append(s, w) \in Seq(Works)
           /\ Elems(Append(s, w)) = Elems(s) \union {w}
           /\ Distinct(Append(s, w))
<1>1. /\ DOMAIN Append(s, w) = 1..(Len(s) + 1) /\ DOMAIN s = 1..Len(s) /\ Len(s) \in Nat
      /\ \A i \in 1..Len(s) : Append(s, w)[i] = s[i]
      /\ Append(s, w)[Len(s) + 1] = w
      /\ Append(s, w) \in Seq(Works)
  OBVIOUS
<1>2. Elems(Append(s, w)) = Elems(s) \union {w}
  BY <1>1 DEF Elems
<1>3. \A i \in 1..Len(s) : s[i] # w
  BY <1>1 DEF Elems
<1>4. Distinct(Append(s, w))
  BY <1>1, <1>3 DEF Distinct
<1> QED  BY <1>1, <1>2, <1>4

LEMMA ElemsTaken ==
    ASSUME NEW s \in Seq(Works), s # <<>>, Distinct(s)
    PROVE  /\ Head(s) \in Works /\ Head(s) \in Elems(s) /\ Tail(s) \in Seq(Works)
           /\ Elems(Tail(s)) = Elems(s) \ {Head(s)}
           /\ Distinct(Tail(s))
<1>1. /\ Head(s) \in Works /\ Tail(s) \in Seq(Works) /\ Len(Tail(s)) = Len(s) - 1
      /\ Len(s) \in Nat /\ Len(s) > 0 /\ Head(s) = s[1]
      /\ \A i \in 1..Len(Tail(s)) : Tail(s)[i] = s[i + 1]
      /\ DOMAIN s = 1..Len(s) /\ DOMAIN Tail(s) = 1..Len(Tail(s))
  OBVIOUS
<1>2. \A i \in 1..Len(s) : i = 1 \/ (i - 1 \in 1..Len(Tail(s)) /\ s[i] = Tail(s)[i - 1])
  BY <1>1
<1>3. \A i \in 1..Len(Tail(s)) :
          /\ i + 1 \in 1..Len(s) /\ s[i + 1] = Tail(s)[i]
          /\ s[i + 1] # s[1]
  BY <1>1 DEF Distinct
<1>4. Elems(s) \subseteq Elems(Tail(s)) \union {Head(s)}
  <2> SUFFICES ASSUME NEW i \in 1..Len(s), i # 1 PROVE s[i] \in Elems(Tail(s))
    BY <1>1 DEF Elems
  <2> QED  BY <1>1, <1>2, Zenon DEF Elems
<1>5. Elems(Tail(s)) \subseteq Elems(s) \ {Head(s)}
  <2> SUFFICES ASSUME NEW i \in 1..Len(Tail(s))
               PROVE  Tail(s)[i] \in Elems(s) /\ Tail(s)[i] # Head(s)
    BY <1>1 DEF Elems
  <2> QED  BY <1>1, <1>3 DEF Elems
<1>6. Head(s) \in Elems(s)
  BY <1>1 DEF Elems
<1>7. Distinct(Tail(s))
  BY <1>1, <1>3 DEF Distinct
<1> QED  BY <1>1, <1>4, <1>5, <1>6, <1>7

LEMMA ElemsOf ==
    ASSUME NEW s \in Seq(Works)
    PROVE  Elems(s) \subseteq Works
BY DEF Elems

\* A thread with a job has a work.
LEMMA JobOf ==
    ASSUME Inv, NEW t \in Threads, thread[t].pc # "pop"
    PROVE  thread[t].job \in Works
BY DEF Inv, TypeOK, PlaceInv

-----------------------------------------------------------------------------
(* What is done to one work. *)

Same(o, p) ==
    /\ p.done_fn = o.done_fn /\ p.state = o.state /\ p.is_cancelled = o.is_cancelled
    /\ p.listed = o.listed /\ p.mem = o.mem /\ p.calls = o.calls

LEMMA Referenced ==
    ASSUME NEW o \in Work, NEW u \in BOOLEAN, Counted(o, u, FALSE), o.listed
    PROVE  LET p == [o EXCEPT !.ref = @ + 1] IN
           p \in Work /\ Same(o, p) /\ Counted(p, u, TRUE)
<1> DEFINE p == [o EXCEPT !.ref = @ + 1]
<1>1. p \in Work  BY DEF Work
<1>2. /\ Same(o, p) /\ p.held = o.held /\ p.ref = o.ref + 1
      /\ p.lost = o.lost /\ p.starts = o.starts /\ p.cancels = o.cancels
  BY Zenon DEF Work, Same
<1> HIDE DEF p
<1>3. Counted(p, u, TRUE)  BY <1>1, <1>2 DEF Work, Counted, Same
<1> QED  BY <1>1, <1>2, <1>3, Zenon DEF p

LEMMA Cancelled ==
    ASSUME NEW o \in Work, NEW u, NEW r, Counted(o, u, r), NEW c \in BOOLEAN
    PROVE  LET p == [o EXCEPT !.is_cancelled = @ \/ c] IN
           /\ p \in Work /\ p.done_fn = o.done_fn /\ p.state = o.state
           /\ p.listed = o.listed /\ p.mem = o.mem /\ p.calls = o.calls
           /\ Counted(p, u, r)
BY DEF Work, Counted

LEMMA Uncancelled ==
    ASSUME NEW o \in Work, NEW u, NEW r, Counted(o, u, r)
    PROVE  LET p == [o EXCEPT !.is_cancelled = FALSE] IN
           p \in Work /\ p.calls = o.calls /\ Counted(p, u, r)
BY ZenonT(30) DEF Work, Counted

LEMMA Unreferenced ==
    ASSUME NEW o \in Work, NEW u \in BOOLEAN, Counted(o, u, TRUE), o.listed
    PROVE  LET p == mloop__unref_any(o) IN
           p \in Work /\ Same(o, p) /\ p.ref # 0 /\ Counted(p, u, FALSE)
<1> DEFINE p == mloop__unref_any(o)
<1>0. o.ref \in Nat /\ o.ref > 1 /\ o.ref - 1 \in Nat  BY DEF Work, Counted
<1>1. p \in Work  BY <1>0, Zenon DEF Work, mloop__unref_any
<1>2. /\ p.mem = o.mem /\ p.held = o.held /\ p.ref = o.ref - 1
      /\ p.lost = o.lost /\ p.starts = o.starts /\ p.cancels = o.cancels
  BY <1>0 DEF Work, mloop__unref_any
<1>5. Same(o, p)
  BY <1>0, <1>2, Zenon DEF Work, mloop__unref_any, Same
<1> HIDE DEF p
<1>3. Counted(p, u, FALSE)  BY <1>0, <1>1, <1>2, <1>5 DEF Work, Counted, Same
<1>4. p.ref # 0  BY <1>0, <1>2
<1> QED  BY <1>1, <1>3, <1>4, <1>5, Zenon DEF p

LEMMA Removed ==
    ASSUME NEW o \in Work, Counted(o, TRUE, FALSE)
    PROVE  LET p == mloop__object_list_remove(o) IN
           /\ p \in Work /\ ~p.listed /\ p.mem # "none"
           /\ p.done_fn = o.done_fn /\ p.state = o.state /\ p.calls = o.calls
           /\ p.is_cancelled = o.is_cancelled
           /\ ~o.done_fn => Counted(p, FALSE, FALSE)
<1> DEFINE p == mloop__object_list_remove(o)
<1>0. /\ o.ref \in Nat /\ o.ref > 0 /\ o.ref - 1 \in Nat /\ o.listed /\ o.mem = "live"
      /\ o.ref = (IF o.held THEN 1 ELSE 0) + 1 /\ o.lost = 0
  BY DEF Work, Counted
<1>1. /\ p \in Work /\ p.held = o.held /\ p.ref = o.ref - 1 /\ ~p.listed
      /\ p.mem = (IF o.ref = 1 THEN "scheduled" ELSE "live")
      /\ p.lost = 0 /\ p.starts = o.starts /\ p.cancels = o.cancels
      /\ p.done_fn = o.done_fn /\ p.state = o.state /\ p.calls = o.calls
      /\ p.is_cancelled = o.is_cancelled
  BY <1>0, Zenon DEF Work, mloop__unref_any, mloop__object_list_remove
<1> HIDE DEF p
<1>2. ~o.done_fn => Counted(p, FALSE, FALSE)  BY <1>0, <1>1 DEF Work, Counted
<1> QED  BY <1>1, <1>2, Zenon DEF p

LEMMA StateChanged ==
    ASSUME NEW o \in Work, NEW u, NEW r, Counted(o, u, r),
           NEW state \in {"STOPPED", "STARTING", "STARTED"}
    PROVE  LET p == [o EXCEPT !.state = state] IN
           /\ p \in Work /\ p.state = state /\ p.done_fn = o.done_fn
           /\ p.is_cancelled = o.is_cancelled /\ p.listed = o.listed /\ p.mem = o.mem
           /\ p.calls = o.calls /\ Counted(p, u, r)
BY DEF Work, Counted

LEMMA LostJob ==
    ASSUME NEW o \in Work, Counted(o, TRUE, FALSE)
    PROVE  LET p == [o EXCEPT !.state = "STOPPED", !.lost = @ + 1] IN
           p \in Work /\ p.done_fn = o.done_fn /\ p.calls = o.calls /\ Counted(p, FALSE, FALSE)
<1> DEFINE p == [o EXCEPT !.state = "STOPPED", !.lost = @ + 1]
<1>0. o.lost + 1 \in Nat  BY DEF Work
<1>1. p \in Work  BY <1>0, Zenon DEF Work
<1>2. /\ p.listed = o.listed /\ p.mem = o.mem /\ p.held = o.held /\ p.ref = o.ref
      /\ p.done_fn = o.done_fn /\ p.calls = o.calls /\ p.starts = o.starts
      /\ p.cancels = o.cancels /\ p.lost = o.lost + 1
  BY DEF Work
<1> HIDE DEF p
<1>3. Counted(p, FALSE, FALSE)  BY <1>1, <1>2 DEF Work, Counted
<1> QED  BY <1>1, <1>2, <1>3, Zenon DEF p

LEMMA Answered ==
    ASSUME NEW o \in Work, Counted(o, TRUE, FALSE)
    PROVE  LET p == Stopped(mloop__object_list_remove(Called(o))) IN
           /\ p \in Work /\ p.done_fn = o.done_fn /\ Counted(p, FALSE, FALSE)
           /\ o.is_cancelled => p.calls = o.calls
<1> DEFINE q == Called(o)
           r == mloop__object_list_remove(q)
           p == Stopped(r)
<1>0. /\ o.ref \in Nat /\ o.ref > 0 /\ o.ref - 1 \in Nat /\ o.listed /\ o.mem = "live"
      /\ o.ref = (IF o.held THEN 1 ELSE 0) + 1 /\ o.lost = 0
      /\ o.calls + 1 \in Nat /\ o.cancels + 1 \in Nat
  BY DEF Work, Counted
<1>1. /\ q \in Work /\ q.held = o.held /\ q.ref = o.ref /\ q.mem = o.mem
      /\ q.lost = o.lost /\ q.starts = o.starts /\ q.done_fn = o.done_fn
      /\ q.calls + q.cancels = o.calls + o.cancels + 1
      /\ o.is_cancelled => q.calls = o.calls
  BY <1>0 DEF Work, Called
<1> HIDE DEF q
<1>2. r \in Work
  BY <1>0, <1>1, Zenon DEF Work, mloop__unref_any, mloop__object_list_remove
<1>3. /\ r.held = q.held /\ r.ref = q.ref - 1 /\ ~r.listed
      /\ r.mem = (IF q.ref = 1 THEN "scheduled" ELSE "live")
      /\ r.lost = q.lost /\ r.starts = q.starts /\ r.cancels = q.cancels
      /\ r.done_fn = q.done_fn /\ r.calls = q.calls
  BY <1>0, <1>1 DEF Work, mloop__unref_any, mloop__object_list_remove
<1> HIDE DEF r
<1>4. Counted(r, FALSE, FALSE)  BY <1>0, <1>1, <1>2, <1>3 DEF Work, Counted
<1>5. p \in Work /\ p.done_fn = r.done_fn /\ p.calls = r.calls /\ Counted(p, FALSE, FALSE)
  BY <1>2, <1>4, StateChanged, Zenon DEF Stopped
<1> HIDE DEF p
<1>6. p.done_fn = o.done_fn /\ (o.is_cancelled => p.calls = o.calls)
  BY <1>1, <1>3, <1>5
<1> QED  BY <1>5, <1>6, Zenon DEF p, r, q

LEMMA Freed ==
    ASSUME NEW o \in Work, NEW u, NEW r, Counted(o, u, r), o.mem = "scheduled"
    PROVE  LET p == [o EXCEPT !.mem = "freed"] IN
           /\ p \in Work /\ p.done_fn = o.done_fn /\ p.state = o.state
           /\ p.is_cancelled = o.is_cancelled /\ p.listed = o.listed /\ p.mem # "none"
           /\ p.calls = o.calls /\ Counted(p, u, r)
BY DEF Work, Counted

LEMMA Created ==
    ASSUME NEW done_fn \in BOOLEAN
    PROVE  LET p == [NoWork EXCEPT !.mem = "live", !.ref = 1, !.held = TRUE,
                                   !.done_fn = done_fn] IN
           p \in Work /\ p.calls = 0 /\ Counted(p, FALSE, FALSE)
<1> DEFINE p == [NoWork EXCEPT !.mem = "live", !.ref = 1, !.held = TRUE, !.done_fn = done_fn]
<1>1. p \in Work  BY Zenon DEF Work, NoWork
<1>2. /\ p.mem = "live" /\ p.ref = 1 /\ p.held /\ ~p.listed /\ p.lost = 0 /\ p.calls = 0
      /\ p.cancels = 0 /\ p.starts = 0
  BY DEF NoWork
<1> HIDE DEF p
<1>3. Counted(p, FALSE, FALSE)  BY <1>2 DEF Counted
<1> QED  BY <1>1, <1>2, <1>3, Zenon DEF p

LEMMA Started ==
    ASSUME NEW o \in Work, Counted(o, FALSE, FALSE), o.lost = 0, o.held
    PROVE  LET p == Starting(o) IN
           /\ p \in Work /\ p.state = "STARTING" /\ ~p.is_cancelled
           /\ p.calls = o.calls /\ Counted(p, TRUE, FALSE)
<1> DEFINE q == [o EXCEPT !.state = "STARTING", !.is_cancelled = FALSE, !.starts = @ + 1]
           p == mloop__object_list_add(q)
<1>0. o.starts + 1 \in Nat /\ o.ref \in Nat  BY DEF Work
<1>1. q \in Work  BY <1>0, Zenon DEF Work
<1>2. /\ q.state = "STARTING" /\ q.is_cancelled = FALSE /\ q.starts = o.starts + 1
      /\ q.ref = o.ref /\ q.held = o.held /\ q.mem = o.mem /\ q.lost = o.lost
      /\ q.calls = o.calls /\ q.cancels = o.cancels /\ q.done_fn = o.done_fn
  BY Zenon DEF Work
<1> HIDE DEF q
<1>3. p \in Work
  <2>1. q.ref + 1 \in Nat  BY <1>0, <1>2
  <2> QED  BY <1>1, <2>1, Zenon DEF Work, mloop__object_list_add
<1>4. /\ p.state = q.state /\ p.is_cancelled = q.is_cancelled /\ p.starts = q.starts
      /\ p.ref = q.ref + 1 /\ p.held = q.held /\ p.mem = q.mem /\ p.lost = q.lost
      /\ p.calls = q.calls /\ p.cancels = q.cancels /\ p.done_fn = q.done_fn /\ p.listed
  BY <1>1 DEF Work, mloop__object_list_add
<1> HIDE DEF p
<1>5. Counted(p, TRUE, FALSE)  BY <1>2, <1>3, <1>4 DEF Work, Counted
<1> QED  BY <1>2, <1>3, <1>4, <1>5, Zenon DEF p, q, Starting

LEMMA Released ==
    ASSUME NEW o \in Work, NEW u \in BOOLEAN, NEW r \in BOOLEAN, Counted(o, u, r), o.held
    PROVE  LET p == mloop__unref_any([o EXCEPT !.held = FALSE]) IN
           /\ p \in Work /\ p.mem # "none"
           /\ p.done_fn = o.done_fn /\ p.state = o.state /\ p.is_cancelled = o.is_cancelled
           /\ p.listed = o.listed /\ p.calls = o.calls /\ Counted(p, u, r)
<1> DEFINE q == [o EXCEPT !.held = FALSE]
           p == mloop__unref_any(q)
<1>0. o.ref \in Nat /\ o.ref > 0 /\ o.ref - 1 \in Nat /\ o.mem = "live"
  BY DEF Work, Counted
<1>1. q \in Work  BY Zenon DEF Work
<1>2. /\ q.held = FALSE /\ q.ref = o.ref /\ q.mem = o.mem /\ q.state = o.state
      /\ q.listed = o.listed /\ q.done_fn = o.done_fn /\ q.is_cancelled = o.is_cancelled
      /\ q.starts = o.starts /\ q.calls = o.calls /\ q.cancels = o.cancels /\ q.lost = o.lost
  BY DEF Work
<1> HIDE DEF q
<1>3. p \in Work  BY <1>0, <1>1, <1>2, Zenon DEF Work, mloop__unref_any
<1>4. /\ p.held = q.held /\ p.ref = q.ref - 1 /\ p.mem = (IF q.ref = 1 THEN "scheduled" ELSE q.mem)
      /\ p.starts = q.starts /\ p.cancels = q.cancels /\ p.lost = q.lost
  BY <1>1 DEF Work, mloop__unref_any
<1>5. /\ p.state = q.state /\ p.listed = q.listed /\ p.done_fn = q.done_fn
      /\ p.is_cancelled = q.is_cancelled /\ p.calls = q.calls
  BY <1>1 DEF Work, mloop__unref_any
<1> HIDE DEF p
<1>6. Counted(p, u, r)  BY <1>0, <1>2, <1>3, <1>4, <1>5 DEF Work, Counted
<1>7. p.mem # "none"  BY <1>0, <1>2, <1>4
<1> QED  BY <1>2, <1>3, <1>5, <1>6, <1>7 DEF p, q

\* A work that is changed alone.
LEMMA WorkChanged ==
    ASSUME work \in [Works -> Work], NEW w \in Works, NEW p \in Work,
           work' = [work EXCEPT ![w] = p]
    PROVE  /\ work' \in [Works -> Work] /\ work'[w] = p
           /\ \A v \in Works : v # w => work'[v] = work[v]
OBVIOUS

ThreadType == [pc: {"pop", "ref", "run", "unref", "forward", "started", "remove", "stop"},
               job: Works \union {Nobody}]

LEMMA Types ==
    ASSUME Inv
    PROVE  /\ work \in [Works -> Work] /\ thread \in [Threads -> ThreadType]
           /\ Elems(jobs) \subseteq Works /\ Elems(async) \subseteq Works
           /\ \A t \in Threads : thread[t].pc # "pop" => thread[t].job \in Works
<1>1. Elems(jobs) \subseteq Works /\ Elems(async) \subseteq Works
  BY ElemsOf DEF Inv, TypeOK
<1>2. \A t \in Threads : thread[t].pc # "pop" => thread[t].job \in Works
  BY JobOf
<1> QED  BY <1>1, <1>2 DEF Inv, TypeOK, ThreadType

\* The facts of a thread with a job.
LEMMA Busy ==
    ASSUME Inv, NEW t \in Threads, thread[t].pc \in Working
    PROVE  /\ thread[t].job \in Works /\ UnderWay(thread[t].job)
           /\ Running(thread[t].job) <=> thread[t].pc \in {"run", "unref"}
           /\ work[thread[t].job] \in Work /\ work[thread[t].job].listed
           /\ Counted(work[thread[t].job], TRUE, thread[t].pc \in {"run", "unref"})
<1>1. thread[t].pc # "pop"  BY DEF Working
<1>2. PICK w \in Works : w = thread[t].job  BY <1>1, JobOf, Zenon
<1>3. UnderWay(w)  BY <1>2 DEF UnderWay, With
<1>4. Running(w) <=> thread[t].pc \in {"run", "unref"}
  BY <1>1, <1>2 DEF Inv, PlaceInv, Running, With
<1>5. Counted(work[w], UnderWay(w), Running(w)) /\ work[w] \in Work
  BY <1>2 DEF Inv, TypeOK, CountInv
<1>6. work[w].listed  BY <1>3, <1>5 DEF Counted
<1>7. Counted(work[w], TRUE, thread[t].pc \in {"run", "unref"})
  BY <1>3, <1>4, <1>5 DEF Counted
<1> QED  BY <1>2, <1>3, <1>4, <1>5, <1>6, <1>7, Zenon

\* A thread that goes on with its job.
LEMMA Advanced ==
    ASSUME Inv, NEW t \in Threads, thread[t].pc \in Working,
           NEW pc \in Working, thread' = [thread EXCEPT ![t].pc = pc],
           NEW p \in Work, work' = [work EXCEPT ![thread[t].job] = p],
           UNCHANGED <<jobs, async, lock, wake, main>>,
           p.done_fn = work[thread[t].job].done_fn, p.state = work[thread[t].job].state,
           pc = "forward" => p.done_fn, pc = "remove" => ~p.done_fn,
           Counted(p, TRUE, pc \in {"run", "unref"})
    PROVE  Inv'
<1>1. /\ thread[t].pc \notin {"pop", "started", "stop"} /\ pc \notin {"pop", "started", "stop"}
  BY DEF Working
<1>2. PICK w \in Works : w = thread[t].job  BY Busy, Zenon
<1>3. UnderWay(w)  BY Busy, <1>2, Zenon
<1>4. /\ work \in [Works -> Work] /\ thread \in [Threads -> ThreadType]
      /\ Elems(jobs) \subseteq Works /\ Elems(async) \subseteq Works
      /\ \A u \in Threads : thread[u].pc # "pop" => thread[u].job \in Works
  BY Types, Zenon
<1>5. /\ work' \in [Works -> Work] /\ work'[w] = p
      /\ \A v \in Works : v # w => work'[v] = work[v]
  BY <1>2, <1>4, WorkChanged
<1>6. /\ \A u \in Threads : u # t => thread'[u] = thread[u]
      /\ thread'[t].pc = pc /\ thread'[t].job = w
      /\ thread' \in [Threads -> ThreadType]
  BY <1>2, <1>4 DEF Working, ThreadType
<1>7. TypeOK'  BY <1>5, <1>6 DEF Inv, TypeOK, ThreadType
<1>8. PlaceInv'  BY <1>1, <1>2, <1>6 DEF Inv, PlaceInv
<1>9. w \notin Elems(jobs) /\ w \notin Elems(async)
  BY <1>2 DEF Inv, PlaceInv
<1>10. \A u \in Threads : u # t => thread[u].job # w
  BY <1>1, <1>2, SMTT(30) DEF Inv, PlaceInv
<1>11. PathInv'
  BY <1>1, <1>2, <1>5, <1>6, <1>4, <1>9, <1>10 DEF Inv, PathInv
<1>12. StateInv'
  BY <1>1, <1>2, <1>5, <1>6, <1>4, <1>9, <1>10 DEF Inv, StateInv, With
<1>13. CountInv'
  <2>1. \A v \in Works : v # w => (UnderWay(v)' <=> UnderWay(v)) /\ (Running(v)' <=> Running(v))
    BY <1>2, <1>6, <1>10 DEF UnderWay, Running, With
  <2>2. UnderWay(w)' /\ (Running(w)' <=> pc \in {"run", "unref"})
    BY <1>6, <1>10 DEF UnderWay, Running, With
  <2>3. Counted(work'[w], UnderWay(w)', Running(w)')
    BY <1>5, <2>2 DEF Counted
  <2>4. \A v \in Works : v # w => Counted(work'[v], UnderWay(v)', Running(v)')
    BY <1>5, <2>1, SMTT(30) DEF Inv, CountInv, Counted
  <2> QED  BY <2>3, <2>4 DEF CountInv
<1> QED  BY <1>7, <1>8, <1>11, <1>12, <1>13 DEF Inv

LEMMA RefStep ==
    ASSUME Inv, NEW t \in Threads, RefJob(t)
    PROVE  Inv'
<1>1. thread[t].pc = "ref" /\ thread[t].pc \in Working  BY DEF RefJob, At, Working
<1>2. PICK o \in Work : o = work[thread[t].job] /\ o.listed /\ Counted(o, TRUE, FALSE)
  BY <1>1, Busy DEF Counted
<1>3. PICK p \in Work : p = [o EXCEPT !.ref = @ + 1] /\ Same(o, p) /\ Counted(p, TRUE, TRUE)
  BY <1>2, Referenced, Zenon
<1>4. thread[t].job \in Works /\ work \in [Works -> Work]  BY <1>1, Busy, Types
<1>5. /\ thread' = [thread EXCEPT ![t].pc = "run"]
      /\ work' = [work EXCEPT ![thread[t].job] = p]
      /\ UNCHANGED <<jobs, async, lock, wake, main>>
  BY <1>2, <1>3, <1>4 DEF RefJob, Goto, Job
<1>6. Counted(p, TRUE, "run" \in {"run", "unref"})  BY <1>3 DEF Counted
<1> QED  BY <1>1, <1>2, <1>3, <1>5, <1>6, Advanced, ZenonT(30) DEF Same, Working

LEMMA RunStep ==
    ASSUME Inv, NEW t \in Threads, NEW c \in BOOLEAN, RunJob(t, c)
    PROVE  Inv'
<1>1. thread[t].pc = "run" /\ thread[t].pc \in Working  BY DEF RunJob, At, Working
<1>2. PICK o \in Work : o = work[thread[t].job] /\ o.listed /\ Counted(o, TRUE, TRUE)
  BY <1>1, Busy DEF Counted
<1>3. PICK p \in Work : /\ p = [o EXCEPT !.is_cancelled = @ \/ c]
                        /\ p.done_fn = o.done_fn /\ p.state = o.state
                        /\ Counted(p, TRUE, TRUE)
  BY <1>2, Cancelled, Zenon
<1>4. thread[t].job \in Works /\ work \in [Works -> Work]  BY <1>1, Busy, Types
<1>5. /\ thread' = [thread EXCEPT ![t].pc = "unref"]
      /\ work' = [work EXCEPT ![thread[t].job] = p]
      /\ UNCHANGED <<jobs, async, lock, wake, main>>
  BY <1>2, <1>3, <1>4 DEF RunJob, Goto, Job
<1>6. Counted(p, TRUE, "unref" \in {"run", "unref"})  BY <1>3 DEF Counted
<1> QED  BY <1>1, <1>2, <1>3, <1>5, <1>6, Advanced, Zenon DEF Working

LEMMA UnrefStep ==
    ASSUME Inv, NEW t \in Threads, UnrefJob(t)
    PROVE  Inv'
<1>1. thread[t].pc = "unref" /\ thread[t].pc \in Working  BY DEF UnrefJob, At, Working
<1>2. PICK o \in Work : o = work[thread[t].job] /\ o.listed /\ Counted(o, TRUE, TRUE)
  BY <1>1, Busy DEF Counted
<1>3. PICK p \in Work : /\ p = mloop__unref_any(o) /\ Same(o, p) /\ p.ref # 0
                        /\ Counted(p, TRUE, FALSE)
  BY <1>2, Unreferenced, Zenon
<1>4. PICK pc \in {"forward", "remove"} : pc = IF p.done_fn THEN "forward" ELSE "remove"
  OBVIOUS
<1>5. /\ thread' = [thread EXCEPT ![t].pc = pc]
      /\ work' = [work EXCEPT ![thread[t].job] = p]
      /\ UNCHANGED <<jobs, async, lock, wake, main>>
  BY <1>2, <1>3, <1>4 DEF UnrefJob, Goto, Job
<1>6. Counted(p, TRUE, pc \in {"run", "unref"})  BY <1>3, <1>4 DEF Counted
<1>7. pc \in Working /\ (pc = "forward" => p.done_fn) /\ (pc = "remove" => ~p.done_fn)
  BY <1>3, <1>4 DEF Working
<1> QED  BY <1>1, <1>2, <1>3, <1>5, <1>6, <1>7, Advanced, Zenon DEF Same

-----------------------------------------------------------------------------
(* Steps of a thread that take, send or end a job. *)

LEMMA PopStep ==
    ASSUME Inv, NEW t \in Threads, PopJob(t)
    PROVE  Inv'
<1>1. /\ thread[t].pc = "pop" /\ jobs # <<>> /\ jobs' = Tail(jobs)
      /\ UNCHANGED <<work, async, lock, wake, main>>
  BY DEF PopJob, At
<1>2. PICK w \in Works : /\ w = Head(jobs) /\ w \in Elems(jobs) /\ jobs' \in Seq(Works)
                         /\ Elems(jobs') = Elems(jobs) \ {w} /\ Distinct(jobs')
  BY <1>1, ElemsTaken DEF Inv, TypeOK, PlaceInv
<1>3. /\ work \in [Works -> Work] /\ thread \in [Threads -> ThreadType]
      /\ Elems(jobs) \subseteq Works /\ Elems(async) \subseteq Works
      /\ \A u \in Threads : thread[u].pc # "pop" => thread[u].job \in Works
  BY Types, Zenon
<1>4. ~work[w].is_cancelled /\ work[w].state = "STARTING"
  BY <1>2 DEF Inv, PathInv, StateInv
<1>5. thread' = [thread EXCEPT ![t] = [pc |-> "ref", job |-> w]]
  BY <1>2, <1>4 DEF PopJob
<1>6. /\ \A u \in Threads : u # t => thread'[u] = thread[u]
      /\ thread'[t].pc = "ref" /\ thread'[t].job = w
      /\ thread' \in [Threads -> ThreadType]
  BY <1>3, <1>5 DEF ThreadType
<1>7. w # Nobody /\ w \notin Elems(async)
  BY <1>2, MloopWorkAssumption DEF Inv, PlaceInv
<1>8. \A u \in Threads : thread[u].job # w
  <2> SUFFICES ASSUME NEW u \in Threads, thread[u].job = w PROVE FALSE
    OBVIOUS
  <2>1. thread[u].pc # "pop"  BY <1>7 DEF Inv, PlaceInv
  <2>2. thread[u].pc \in Working \union {"stop", "started"}
    BY <2>1, <1>3 DEF ThreadType, Working
  <2> QED  BY <2>2, <1>2, <1>7 DEF Inv, PlaceInv
<1>9. TypeOK'  BY <1>1, <1>2, <1>6 DEF Inv, TypeOK, ThreadType
<1>10. PlaceInv'
  <2>1. thread[t].pc # "started" /\ thread[t].pc \notin Working \union {"stop"}
    BY <1>1 DEF Working
  <2> QED  BY <1>1, <1>2, <1>6, <1>7, <1>8, <2>1 DEF Inv, PlaceInv
<1>11. PathInv'  BY <1>1, <1>2, <1>3, <1>6, SMTT(30) DEF Inv, PathInv
<1>12. StateInv'
  <2>0. /\ \A v \in Elems(jobs) : work[v].state = "STARTING"
        /\ \A u \in Threads :
               thread[u].pc # "pop" => work[thread[u].job].state = "STARTING"
        /\ \A v \in Elems(async) :
               work[v].state = IF \E u \in Threads : With(u, v, {"started"})
                               THEN "STARTING" ELSE "STARTED"
    BY DEF Inv, StateInv
  <2>1. \A v \in Elems(jobs') : work[v].state = "STARTING"
    BY <2>0, <1>2
  <2>2. \A u \in Threads :
            thread'[u].pc # "pop" => work[thread'[u].job].state = "STARTING"
    BY <2>0, <1>4, <1>6
  <2>3. \A u \in Threads : \A v \in Elems(async) :
            With(u, v, {"started"})' <=> With(u, v, {"started"})
    BY <1>1, <1>6, <1>7 DEF With
  <2>4. \A v \in Elems(async) :
            work[v].state = IF \E u \in Threads : With(u, v, {"started"})'
                            THEN "STARTING" ELSE "STARTED"
    BY <2>0, <2>3, Zenon
  <2> QED  BY <1>1, <2>1, <2>2, <2>4 DEF StateInv
<1>13. CountInv'
  <2>1. \A v \in Works : (UnderWay(v)' <=> UnderWay(v)) /\ (Running(v)' <=> Running(v))
    BY <1>1, <1>2, <1>6, <1>8 DEF UnderWay, Running, With, Working
  <2> QED  BY <1>1, <2>1 DEF Inv, CountInv, Counted
<1> QED  BY <1>9, <1>10, <1>11, <1>12, <1>13 DEF Inv

\* A work under way that no thread runs is taken off the list.
LEMMA RemoveStep ==
    ASSUME Inv, NEW t \in Threads, RemoveJob(t)
    PROVE  Inv'
<1>1. /\ thread[t].pc = "remove" /\ thread[t].pc \in Working
      /\ UNCHANGED <<jobs, async, lock, wake, main>>
  BY DEF RemoveJob, At, Working
<1>2. PICK w \in Works : w = thread[t].job  BY <1>1, Busy, ZenonT(30)
<1>3. /\ work \in [Works -> Work] /\ thread \in [Threads -> ThreadType]
      /\ Elems(jobs) \subseteq Works /\ Elems(async) \subseteq Works
      /\ \A u \in Threads : thread[u].pc # "pop" => thread[u].job \in Works
  BY Types, Zenon
<1>4. Counted(work[w], TRUE, FALSE) /\ ~work[w].done_fn /\ work[w].state = "STARTING"
  BY <1>1, <1>2, Busy DEF Counted, Inv, PathInv, StateInv
<1>5. PICK p \in Work : /\ p = mloop__object_list_remove(work[w])
                        /\ ~p.listed /\ p.mem # "none" /\ ~p.done_fn
                        /\ p.state = "STARTING" /\ Counted(p, FALSE, FALSE)
  BY <1>3, <1>4, Removed, ZenonT(30)
<1>6. /\ work' \in [Works -> Work] /\ work'[w] = p
      /\ \A v \in Works : v # w => work'[v] = work[v]
  BY <1>2, <1>3, <1>5, WorkChanged DEF RemoveJob, Job
<1>7. /\ \A u \in Threads : u # t => thread'[u] = thread[u]
      /\ thread' \in [Threads -> ThreadType]
      /\ \/ thread'[t].pc = "pop" /\ thread'[t].job = Nobody
         \/ thread'[t].pc = "stop" /\ thread'[t].job = w
  BY <1>2, <1>3 DEF RemoveJob, Idle, Goto, ThreadType
<1>8. w # Nobody /\ w \notin Elems(jobs) /\ w \notin Elems(async)
  BY <1>1, <1>2, MloopWorkAssumption DEF Inv, PlaceInv
<1>9. \A u \in Threads : u # t => thread[u].job # w
  BY <1>1, <1>2 DEF Inv, PlaceInv
<1>10. TypeOK'  BY <1>1, <1>6, <1>7 DEF Inv, TypeOK, ThreadType
<1>11. PlaceInv'  BY <1>1, <1>2, <1>7, <1>8, <1>9 DEF Inv, PlaceInv, Working
<1>12. PathInv'  BY <1>1, <1>2, <1>3, <1>5, <1>6, <1>7, <1>8, <1>9 DEF Inv, PathInv
<1>13. StateInv'
  BY <1>1, <1>2, <1>3, <1>5, <1>6, <1>7, <1>8, <1>9 DEF Inv, StateInv, With
<1>14. CountInv'
  <2>1. \A v \in Works : v # w => (UnderWay(v)' <=> UnderWay(v)) /\ (Running(v)' <=> Running(v))
    BY <1>1, <1>2, <1>7, <1>9, MloopWorkAssumption DEF UnderWay, Running, With
  <2>2. ~UnderWay(w)' /\ ~Running(w)'
    BY <1>1, <1>7, <1>8, <1>9 DEF UnderWay, Running, With, Working
  <2>3. Counted(work'[w], UnderWay(w)', Running(w)')
    BY <1>5, <1>6, <2>2 DEF Counted
  <2>4. \A v \in Works : v # w => Counted(work'[v], UnderWay(v)', Running(v)')
    BY <1>6, <2>1 DEF Inv, CountInv, Counted
  <2> QED  BY <2>3, <2>4 DEF CountInv
<1> QED  BY <1>10, <1>11, <1>12, <1>13, <1>14 DEF Inv

\* The thread has no part in the references any more: it only sets the state.
LEMMA StopStep ==
    ASSUME Inv, NEW t \in Threads, StopJob(t)
    PROVE  Inv'
<1>1. thread[t].pc = "stop" /\ UNCHANGED <<jobs, async, lock, wake, main>>
  BY DEF StopJob, At
<1>2. /\ work \in [Works -> Work] /\ thread \in [Threads -> ThreadType]
      /\ Elems(jobs) \subseteq Works /\ Elems(async) \subseteq Works
      /\ \A u \in Threads : thread[u].pc # "pop" => thread[u].job \in Works
  BY Types, Zenon
<1>3. PICK w \in Works : w = thread[t].job  BY <1>1, <1>2
<1>4. Counted(work[w], UnderWay(w), Running(w))  BY DEF Inv, CountInv
<1>5. PICK p \in Work : /\ p = [work[w] EXCEPT !.state = "STOPPED"]
                        /\ Counted(p, UnderWay(w), Running(w))
  BY <1>2, <1>4, StateChanged, Zenon
<1>6. /\ work' \in [Works -> Work] /\ work'[w] = p
      /\ \A v \in Works : v # w => work'[v] = work[v]
  BY <1>2, <1>3, <1>5, WorkChanged DEF StopJob, Job
<1>7. /\ \A u \in Threads : u # t => thread'[u] = thread[u]
      /\ thread' \in [Threads -> ThreadType]
      /\ thread'[t].pc = "pop" /\ thread'[t].job = Nobody
  BY <1>2 DEF StopJob, Idle, ThreadType
<1>8. w # Nobody /\ w \notin Elems(jobs) /\ w \notin Elems(async)
  BY <1>1, <1>3, MloopWorkAssumption DEF Inv, PlaceInv
<1>9. \A u \in Threads : u # t => thread[u].job # w
  BY <1>1, <1>3 DEF Inv, PlaceInv
<1>10. TypeOK'  BY <1>1, <1>6, <1>7 DEF Inv, TypeOK, ThreadType
<1>11. PlaceInv'  BY <1>1, <1>3, <1>7, <1>8, <1>9 DEF Inv, PlaceInv, Working
<1>12. PathInv'  BY <1>1, <1>2, <1>3, <1>6, <1>7, <1>8, <1>9 DEF Inv, PathInv
<1>13. StateInv'
  BY <1>1, <1>2, <1>3, <1>6, <1>7, <1>8, <1>9 DEF Inv, StateInv, With
<1>14. CountInv'
  <2>1. \A v \in Works : (UnderWay(v)' <=> UnderWay(v)) /\ (Running(v)' <=> Running(v))
    BY <1>1, <1>7, MloopWorkAssumption DEF UnderWay, Running, With, Working
  <2>2. Counted(work'[w], UnderWay(w)', Running(w)')
    BY <1>5, <1>6, <2>1 DEF Counted
  <2>3. \A v \in Works : v # w => Counted(work'[v], UnderWay(v)', Running(v)')
    BY <1>6, <2>1 DEF Inv, CountInv, Counted
  <2> QED  BY <2>2, <2>3 DEF CountInv
<1> QED  BY <1>10, <1>11, <1>12, <1>13, <1>14 DEF Inv

LEMMA ForwardStep ==
    ASSUME Inv, NEW t \in Threads, ForwardWork(t)
    PROVE  Inv'
<1>1. /\ thread[t].pc = "forward" /\ thread[t].pc \in Working /\ lock = Nobody
      /\ UNCHANGED <<jobs, main>>
  BY DEF ForwardWork, At, Working
<1>2. PICK w \in Works : w = thread[t].job  BY <1>1, Busy, Zenon
<1>3. /\ work \in [Works -> Work] /\ thread \in [Threads -> ThreadType]
      /\ Elems(jobs) \subseteq Works /\ Elems(async) \subseteq Works
      /\ \A u \in Threads : thread[u].pc # "pop" => thread[u].job \in Works
  BY Types, Zenon
<1>4. /\ Counted(work[w], TRUE, FALSE) /\ work[w].done_fn
      /\ work[w].state = "STARTING" /\ UnderWay(w) /\ ~Running(w)
  BY <1>1, <1>2, Busy, Zenon DEF Counted, Inv, PathInv, StateInv
<1>5. w # Nobody /\ t # Nobody /\ w \notin Elems(jobs) /\ w \notin Elems(async)
  BY <1>1, <1>2, MloopWorkAssumption DEF Inv, PlaceInv
<1>6. \A u \in Threads : /\ u # t => thread[u].job # w
                         /\ thread[u].pc # "started"
  BY <1>1, <1>2, MloopWorkAssumption DEF Inv, PlaceInv
<1>7. CASE /\ lock' = t /\ async' = Append(async, Job(t)) /\ wake' = TRUE
           /\ Goto(t, "started") /\ UNCHANGED work
  <2>1. /\ async' \in Seq(Works) /\ Elems(async') = Elems(async) \union {w}
        /\ Distinct(async')
    BY <1>2, <1>5, <1>7, ElemsAppended DEF Inv, TypeOK, PlaceInv, Job
  <2>2. /\ \A u \in Threads : u # t => thread'[u] = thread[u]
        /\ thread' \in [Threads -> ThreadType]
        /\ thread'[t].pc = "started" /\ thread'[t].job = w
    BY <1>2, <1>3, <1>7 DEF Goto, ThreadType
  <2>3. TypeOK'  BY <1>1, <1>7, <2>1, <2>2, SMTT(30) DEF Inv, TypeOK, ThreadType
  <2>4. PlaceInv'
    BY <1>1, <1>2, <1>5, <1>6, <1>7, <2>1, <2>2, SMTT(30) DEF Inv, PlaceInv, Working
  <2>5. PathInv'  BY <1>1, <1>4, <1>7, <2>1, <2>2, SMTT(30) DEF Inv, PathInv
  <2>6. StateInv'
    <3>1. \A v \in Elems(async) :
             (\E u \in Threads : With(u, v, {"started"}))' <=> FALSE
      BY <1>5, <1>6, <2>2 DEF With
    <3>2. \A v \in Elems(async) : work[v].state = "STARTED"
      BY <1>6 DEF Inv, StateInv, With
    <3>3. (\E u \in Threads : With(u, w, {"started"}))'
      BY <2>2 DEF With
    <3> QED  BY <1>1, <1>4, <1>7, <2>1, <2>2, <3>1, <3>2, <3>3 DEF Inv, StateInv
  <2>7. CountInv'
    <3>1. \A v \in Works : (UnderWay(v)' <=> UnderWay(v)) /\ (Running(v)' <=> Running(v))
      BY <1>1, <1>2, <1>6, <2>1, <2>2, SMTT(30) DEF UnderWay, Running, With, Working
    <3> QED  BY <1>7, <3>1 DEF Inv, CountInv, Counted
  <2> QED  BY <2>3, <2>4, <2>5, <2>6, <2>7 DEF Inv
<1>8. CASE /\ work' = [work EXCEPT ![Job(t)].state = "STOPPED", ![Job(t)].lost = @ + 1]
           /\ Idle(t) /\ UNCHANGED <<async, lock, wake>>
  <2>1. PICK p \in Work : /\ p = [work[w] EXCEPT !.state = "STOPPED", !.lost = @ + 1]
                          /\ p.done_fn = work[w].done_fn /\ Counted(p, FALSE, FALSE)
    BY <1>3, <1>4, LostJob, Zenon
  <2>2. work' = [work EXCEPT ![w] = p]
    BY <1>2, <1>3, <1>8, <2>1, Zenon DEF Job
  <2>3. /\ work' \in [Works -> Work] /\ work'[w] = p
        /\ \A v \in Works : v # w => work'[v] = work[v]
    BY <1>3, <2>1, <2>2, WorkChanged
  <2>4. /\ \A u \in Threads : u # t => thread'[u] = thread[u]
        /\ thread' \in [Threads -> ThreadType]
        /\ thread'[t].pc = "pop" /\ thread'[t].job = Nobody
    BY <1>3, <1>8 DEF Idle, ThreadType
  <2>5. TypeOK'  BY <1>1, <1>8, <2>3, <2>4 DEF Inv, TypeOK, ThreadType
  <2>6. PlaceInv'
    BY <1>1, <1>2, <1>5, <1>6, <1>8, <2>4 DEF Inv, PlaceInv, Working
  <2>7. PathInv'  BY <1>1, <1>3, <1>5, <1>6, <1>8, <2>3, <2>4 DEF Inv, PathInv
  <2>8. StateInv'
    <3>1. \A v \in Works : (\E u \in Threads : With(u, v, {"started"}))' <=> FALSE
      BY <1>6, <2>4 DEF With
    <3>2. \A v \in Elems(async) : work[v].state = "STARTED"
      BY <1>6 DEF Inv, StateInv, With
    <3>3. \A v \in Elems(jobs) : v # w /\ work[v].state = "STARTING"
      BY <1>5 DEF Inv, StateInv
    <3>4. \A u \in Threads : u # t /\ thread[u].pc # "pop" =>
             work[thread[u].job].state = "STARTING"
      BY DEF Inv, StateInv
    <3>5. \A v \in Elems(async) : v # w  BY <1>5
    <3>6. (\A v \in Elems(jobs) : work[v].state = "STARTING")'
      BY <1>1, <1>3, <2>3, <3>3
    <3>7. (\A u \in Threads : thread[u].pc # "pop" => work[thread[u].job].state = "STARTING")'
      BY <1>3, <1>6, <2>3, <2>4, <3>4
    <3>8. (\A v \in Elems(async) : work[v].state = "STARTED")'
      BY <1>3, <1>8, <2>3, <3>2, <3>5, Zenon
    <3> QED
      BY <1>3, <1>8, <3>1, <3>6, <3>7, <3>8, ZenonT(30) DEF StateInv
  <2>9. CountInv'
    <3>1. \A v \in Works : v # w => (UnderWay(v)' <=> UnderWay(v)) /\ (Running(v)' <=> Running(v))
      BY <1>1, <1>2, <1>6, <1>8, <2>4, MloopWorkAssumption DEF UnderWay, Running, With
    <3>2. ~UnderWay(w)' /\ ~Running(w)'
      BY <1>1, <1>5, <1>6, <1>8, <2>4 DEF UnderWay, Running, With, Working
    <3>3. Counted(work'[w], UnderWay(w)', Running(w)')
      BY <2>1, <2>3, <3>2 DEF Counted
    <3>4. \A v \in Works : v # w => Counted(work'[v], UnderWay(v)', Running(v)')
      BY <2>3, <3>1 DEF Inv, CountInv, Counted
    <3> QED  BY <3>3, <3>4 DEF CountInv
  <2> QED  BY <2>5, <2>6, <2>7, <2>8, <2>9 DEF Inv
<1> QED  BY <1>7, <1>8, Zenon DEF ForwardWork

LEMMA StartedStep ==
    ASSUME Inv, NEW t \in Threads, ForwardStarted(t)
    PROVE  Inv'
<1>1. /\ thread[t].pc = "started" /\ lock' = Nobody
      /\ UNCHANGED <<jobs, async, wake, main>>
  BY DEF ForwardStarted, At
<1>2. /\ work \in [Works -> Work] /\ thread \in [Threads -> ThreadType]
      /\ Elems(jobs) \subseteq Works /\ Elems(async) \subseteq Works
      /\ \A u \in Threads : thread[u].pc # "pop" => thread[u].job \in Works
  BY Types, Zenon
<1>3. PICK w \in Works : w = thread[t].job  BY <1>1, <1>2
<1>4. Counted(work[w], UnderWay(w), Running(w))  BY DEF Inv, CountInv
<1>5. PICK p \in Work : /\ p = [work[w] EXCEPT !.state = "STARTED"]
                        /\ p.state = "STARTED" /\ p.done_fn = work[w].done_fn
                        /\ Counted(p, UnderWay(w), Running(w))
  BY <1>2, <1>4, StateChanged, Zenon
<1>6. /\ work' \in [Works -> Work] /\ work'[w] = p
      /\ \A v \in Works : v # w => work'[v] = work[v]
  BY <1>2, <1>3, <1>5, WorkChanged DEF ForwardStarted, Job
<1>7. /\ \A u \in Threads : u # t => thread'[u] = thread[u]
      /\ thread' \in [Threads -> ThreadType]
      /\ thread'[t].pc = "pop" /\ thread'[t].job = Nobody
  BY <1>2 DEF ForwardStarted, Idle, ThreadType
<1>8. /\ w # Nobody /\ w \notin Elems(jobs) /\ w \in Elems(async) /\ lock = t
      /\ \A u \in Threads : u # Nobody
  BY <1>1, <1>3, MloopWorkAssumption DEF Inv, PlaceInv
<1>9. \A u \in Threads : u # t => thread[u].job # w /\ thread[u].pc # "started"
  BY <1>1, <1>3, <1>8 DEF Inv, PlaceInv
<1>10. TypeOK'  BY <1>1, <1>6, <1>7 DEF Inv, TypeOK, ThreadType
<1>11. PlaceInv'  BY <1>1, <1>3, <1>7, <1>8, <1>9 DEF Inv, PlaceInv, Working
<1>12. PathInv'
  <2>1. p.done_fn  BY <1>5, <1>8 DEF Inv, PathInv
  <2>2. \A v \in Elems(async') : work'[v].done_fn
    BY <1>1, <1>2, <1>6, <2>1 DEF Inv, PathInv
  <2>3. \A v \in Elems(jobs') : ~work'[v].is_cancelled
    BY <1>1, <1>2, <1>6, <1>8 DEF Inv, PathInv
  <2>4. ASSUME NEW u \in Threads, thread'[u].pc # "pop"
        PROVE  u # t /\ thread'[u] = thread[u] /\ work'[thread[u].job] = work[thread[u].job]
    BY <1>2, <1>6, <1>7, <1>9, <2>4
  <2> QED  BY <2>2, <2>3, <2>4 DEF Inv, PathInv
<1>13. StateInv'
  <2>1. \A v \in Works : (\E u \in Threads : With(u, v, {"started"}))' <=> FALSE
    BY <1>7, <1>9 DEF With
  <2>2. \A v \in Elems(async) : v # w => work[v].state = "STARTED"
    BY <1>3, <1>9 DEF Inv, StateInv, With
  <2>3. (\A v \in Elems(async) : work[v].state = "STARTED")'
    BY <1>1, <1>2, <1>5, <1>6, <2>2, Zenon
  <2>4. (\A v \in Elems(jobs) : work[v].state = "STARTING")'
    BY <1>1, <1>2, <1>6, <1>8 DEF Inv, StateInv
  <2>5. (\A u \in Threads : thread[u].pc # "pop" => work[thread[u].job].state = "STARTING")'
    BY <1>2, <1>6, <1>7, <1>9 DEF Inv, StateInv
  <2> QED  BY <1>1, <1>2, <2>1, <2>3, <2>4, <2>5 DEF StateInv
<1>14. CountInv'
  <2>1. \A v \in Works : (UnderWay(v)' <=> UnderWay(v)) /\ (Running(v)' <=> Running(v))
    BY <1>1, <1>7, MloopWorkAssumption DEF UnderWay, Running, With, Working
  <2>2. Counted(work'[w], UnderWay(w)', Running(w)')
    BY <1>5, <1>6, <2>1 DEF Counted
  <2>3. \A v \in Works : v # w => Counted(work'[v], UnderWay(v)', Running(v)')
    BY <1>6, <2>1 DEF Inv, CountInv, Counted
  <2> QED  BY <2>2, <2>3 DEF CountInv
<1> QED  BY <1>10, <1>11, <1>12, <1>13, <1>14 DEF Inv

-----------------------------------------------------------------------------
(* The main loop. *)

LEMMA AsyncStep ==
    ASSUME Inv, mloop__process_async_jobs, async # <<>>
    PROVE  /\ Inv'
           /\ \A w \in Works : work[w].is_cancelled => work'[w].calls = work[w].calls
<1>1. /\ lock = Nobody /\ async' = Tail(async) /\ main' = "collect"
      /\ UNCHANGED <<jobs, lock, wake, thread>>
  BY DEF mloop__process_async_jobs
<1>2. PICK w \in Works : /\ w = Head(async) /\ w \in Elems(async) /\ async' \in Seq(Works)
                         /\ Elems(async') = Elems(async) \ {w} /\ Distinct(async')
  BY <1>1, ElemsTaken DEF Inv, TypeOK, PlaceInv
<1>3. /\ work \in [Works -> Work] /\ thread \in [Threads -> ThreadType]
      /\ Elems(jobs) \subseteq Works /\ Elems(async) \subseteq Works
      /\ \A u \in Threads : thread[u].pc # "pop" => thread[u].job \in Works
  BY Types, Zenon
<1>4. w # Nobody /\ w \notin Elems(jobs)
  BY <1>2, MloopWorkAssumption DEF Inv, PlaceInv
<1>5. \A u \in Threads : thread[u].pc # "started" /\ thread[u].job # w
  <2> SUFFICES ASSUME NEW u \in Threads
               PROVE  thread[u].pc # "started" /\ thread[u].job # w
    OBVIOUS
  <2>1. thread[u].pc # "started"  BY <1>1, MloopWorkAssumption DEF Inv, PlaceInv
  <2>2. thread[u].pc \in {"pop"} \union Working \union {"stop"}
    BY <1>3, <2>1 DEF ThreadType, Working
  <2>3. thread[u].job # w  BY <1>2, <1>4, <2>2 DEF Inv, PlaceInv
  <2> QED  BY <2>1, <2>3
<1>6. UnderWay(w) /\ ~Running(w)  BY <1>2, <1>5 DEF UnderWay, Running, With
<1>7. Counted(work[w], TRUE, FALSE)  BY <1>6 DEF Inv, CountInv, Counted
<1>8. PICK p \in Work : /\ p = Stopped(mloop__object_list_remove(Called(work[w])))
                        /\ Counted(p, FALSE, FALSE)
                        /\ work[w].is_cancelled => p.calls = work[w].calls
  BY <1>3, <1>7, Answered, Zenon
<1>9. /\ work' \in [Works -> Work] /\ work'[w] = p
      /\ \A v \in Works : v # w => work'[v] = work[v]
  BY <1>2, <1>3, <1>8, WorkChanged DEF mloop__process_async_jobs
<1>10. TypeOK'  BY <1>1, <1>2, <1>9 DEF Inv, TypeOK
<1>11. PlaceInv'  BY <1>1, <1>2, <1>5 DEF Inv, PlaceInv
<1>12. PathInv'  BY <1>1, <1>2, <1>3, <1>4, <1>5, <1>9 DEF Inv, PathInv
<1>13. StateInv'  BY <1>1, <1>2, <1>3, <1>4, <1>5, <1>9 DEF Inv, StateInv, With
<1>14. CountInv'
  <2>1. \A v \in Works : v # w => (UnderWay(v)' <=> UnderWay(v)) /\ (Running(v)' <=> Running(v))
    BY <1>1, <1>2 DEF UnderWay, Running, With
  <2>2. ~UnderWay(w)' /\ ~Running(w)'
    BY <1>1, <1>2, <1>4, <1>5, SMTT(30) DEF UnderWay, Running, With
  <2>3. Counted(work'[w], UnderWay(w)', Running(w)')
    BY <1>8, <1>9, <2>2, SMTT(30) DEF Counted
  <2>4. \A v \in Works : v # w => Counted(work'[v], UnderWay(v)', Running(v)')
    BY <1>9, <2>1 DEF Inv, CountInv, Counted
  <2> QED  BY <2>3, <2>4 DEF CountInv
<1>15. \A v \in Works : work[v].is_cancelled => work'[v].calls = work[v].calls
  BY <1>8, <1>9
<1> QED  BY <1>10, <1>11, <1>12, <1>13, <1>14, <1>15 DEF Inv

\* A step that leaves works, queues, lock and threads alone.
LEMMA LoopStep ==
    ASSUME Inv, UNCHANGED <<work, jobs, async, lock, thread>>, wake' \in BOOLEAN,
           main' \in {"check", "wait", "events", "async", "collect"}
    PROVE  Inv'
<1>1. TypeOK'  BY DEF Inv, TypeOK
<1>2. PlaceInv'  BY DEF Inv, PlaceInv
<1>3. PathInv'  BY DEF Inv, PathInv
<1>4. StateInv'  BY DEF Inv, StateInv, With
<1>5. CountInv'  BY Zenon DEF Inv, CountInv, UnderWay, Running, With
<1> QED  BY <1>1, <1>2, <1>3, <1>4, <1>5 DEF Inv

\* A step of the main loop that only changes works, and neither the state of one
\* that is under way nor its kind.
LEMMA WorksStep ==
    ASSUME Inv, UNCHANGED <<jobs, async, lock, wake, thread>>,
           main' \in {"check", "wait", "events", "async", "collect"},
           work' \in [Works -> Work],
           \A w \in Works :
               /\ Counted(work'[w], UnderWay(w), Running(w))
               /\ \/ UnderWay(w)
                  \/ \E t \in Threads : thread[t].job = w
                  => /\ work'[w].done_fn = work[w].done_fn
                     /\ work'[w].state = work[w].state
                     /\ work[w].is_cancelled = FALSE => work'[w].is_cancelled = FALSE
                     /\ ~work[w].listed => ~work'[w].listed
                     /\ work[w].mem # "none" => work'[w].mem # "none"
    PROVE  Inv'
<1>1. /\ work \in [Works -> Work] /\ thread \in [Threads -> ThreadType]
      /\ Elems(jobs) \subseteq Works /\ Elems(async) \subseteq Works
      /\ \A u \in Threads : thread[u].pc # "pop" => thread[u].job \in Works
  BY Types, Zenon
<1>2. TypeOK'  BY DEF Inv, TypeOK
<1>3. PlaceInv'  BY DEF Inv, PlaceInv
<1>4. \A w \in Elems(jobs) \union Elems(async) : UnderWay(w)  BY DEF UnderWay
<1>5. \A w \in Works : work[w].is_cancelled \in BOOLEAN  BY <1>1, SMTT(30) DEF Work
<1>6. PathInv'
  <2>1. \A w \in Elems(async)' : work'[w].done_fn  BY <1>1, <1>4 DEF Inv, PathInv
  <2>2. \A w \in Elems(jobs)' : ~work'[w].is_cancelled
    BY <1>1, <1>4, <1>5 DEF Inv, PathInv
  <2>3. ASSUME NEW t \in Threads
        PROVE  /\ thread[t].pc = "forward" => work'[thread[t].job].done_fn
               /\ thread[t].pc \in {"remove", "stop"} => ~work'[thread[t].job].done_fn
               /\ thread[t].pc = "stop" => /\ ~work'[thread[t].job].listed
                                           /\ work'[thread[t].job].mem # "none"
    BY <1>1 DEF Inv, PathInv
  <2> QED  BY <2>1, <2>2, <2>3 DEF PathInv
<1>7. StateInv'
  BY <1>1, <1>4, SMTT(30) DEF Inv, StateInv, With
<1>8. CountInv'
  <2>1. \A w \in Works : (UnderWay(w)' <=> UnderWay(w)) /\ (Running(w)' <=> Running(w))
    BY DEF UnderWay, Running, With
  <2> QED  BY <2>1, SMTT(30) DEF CountInv, Counted
<1> QED  BY <1>2, <1>3, <1>6, <1>7, <1>8 DEF Inv

LEMMA CollectStep ==
    ASSUME Inv, mloop__collect
    PROVE  /\ Inv'
           /\ \A w \in Works : work'[w].calls = work[w].calls
<1>1. /\ UNCHANGED <<jobs, async, lock, wake, thread>> /\ main' = "check"
      /\ work' = [w \in Works |-> IF work[w].mem = "scheduled"
                                  THEN [work[w] EXCEPT !.mem = "freed"] ELSE work[w]]
  BY DEF mloop__collect
<1>2. work \in [Works -> Work]  BY SMTT(30) DEF Inv, TypeOK
<1>3. ASSUME NEW w \in Works
      PROVE  /\ work'[w] \in Work /\ Counted(work'[w], UnderWay(w), Running(w))
             /\ work'[w].done_fn = work[w].done_fn
             /\ work'[w].state = work[w].state
             /\ work'[w].is_cancelled = work[w].is_cancelled
             /\ work'[w].listed = work[w].listed
             /\ work[w].mem # "none" => work'[w].mem # "none"
             /\ work'[w].calls = work[w].calls
  <2>1. Counted(work[w], UnderWay(w), Running(w)) /\ work[w] \in Work
    BY <1>2 DEF Inv, CountInv
  <2>2. CASE work[w].mem = "scheduled"
    <3>1. work'[w] = [work[w] EXCEPT !.mem = "freed"]  BY <1>1, <2>2
    <3> QED  BY <2>1, <2>2, <3>1, Freed
  <2>3. CASE work[w].mem # "scheduled"
    <3>1. work'[w] = work[w]  BY <1>1, <2>3
    <3> QED  BY <2>1, <3>1
  <2> QED  BY <2>2, <2>3
<1>4. work' \in [Works -> Work]
  <2>1. /\ DOMAIN work' = Works
        /\ work' = [w \in Works |-> work'[w]]
    BY <1>1
  <2> QED  BY <1>3, <2>1
<1>5. Inv'  BY <1>1, <1>3, <1>4, WorksStep, Zenon
<1> QED  BY <1>3, <1>5

-----------------------------------------------------------------------------
(* What the program does with works. *)

\* No thread and no queue has a work with these properties.
LEMMA Nowhere ==
    ASSUME Inv, NEW w \in Works, work[w].state = "STOPPED" \/ work[w].mem = "none"
    PROVE  ~UnderWay(w) /\ ~Running(w) /\ \A t \in Threads : thread[t].job # w
<1>1. /\ work \in [Works -> Work] /\ thread \in [Threads -> ThreadType]
  BY Types, Zenon
<1>2. Counted(work[w], UnderWay(w), Running(w)) /\ work[w] \in Work
  BY <1>1 DEF Inv, CountInv
<1>3. w # Nobody  BY MloopWorkAssumption
<1>4. CASE work[w].state = "STOPPED"
  <2>1. w \notin Elems(jobs) /\ w \notin Elems(async)
    BY <1>4 DEF Inv, StateInv
  <2>2. \A t \in Threads : thread[t].job # w
    BY <1>3, <1>4 DEF Inv, StateInv, PlaceInv
  <2> QED  BY <2>1, <2>2 DEF UnderWay, Running, With
<1>5. CASE work[w].mem = "none"
  <2>1. ~UnderWay(w) /\ ~Running(w)
    <3>1. work[w].ref = 0  BY <1>2, <1>5 DEF Counted, Work
    <3> QED  BY <1>2, <3>1 DEF Counted, Work
  <2>2. ASSUME NEW t \in Threads, thread[t].job = w PROVE FALSE
    <3>1. thread[t].pc # "pop"  BY <1>3, <2>2 DEF Inv, PlaceInv
    <3>2. thread[t].pc \in Working \union {"started", "stop"}
      BY <1>1, <3>1 DEF ThreadType, Working
    <3>3. thread[t].pc # "stop"  BY <1>5, <2>2 DEF Inv, PathInv
    <3>4. thread[t].pc # "started"  BY <2>1, <2>2 DEF Inv, PlaceInv, UnderWay
    <3>5. thread[t].pc \notin Working  BY <2>1, <2>2 DEF UnderWay, With
    <3> QED  BY <3>2, <3>3, <3>4, <3>5
  <2> QED  BY <2>1, <2>2
<1> QED  BY <1>4, <1>5

LEMMA NewStep ==
    ASSUME Inv, NEW w \in Works, NEW done_fn \in BOOLEAN, mloop_work_new(w, done_fn)
    PROVE  /\ Inv'
           /\ \A v \in Works : work'[v].calls = work[v].calls
<1>1. /\ UNCHANGED <<jobs, async, lock, wake, main, thread>> /\ work[w].mem = "none"
  BY DEF mloop_work_new
<1>2. ~UnderWay(w) /\ ~Running(w) /\ \A t \in Threads : thread[t].job # w
  BY <1>1, Nowhere
<1>3. PICK p \in Work : /\ p = [NoWork EXCEPT !.mem = "live", !.ref = 1, !.held = TRUE,
                                              !.done_fn = done_fn]
                        /\ p.calls = 0 /\ Counted(p, FALSE, FALSE)
  BY Created, Zenon
<1>4. work \in [Works -> Work]  BY DEF Inv, TypeOK
<1>5. /\ work' \in [Works -> Work] /\ work'[w] = p
      /\ \A v \in Works : v # w => work'[v] = work[v]
  BY <1>3, <1>4, WorkChanged DEF mloop_work_new
<1>6. \A v \in Works : Counted(work[v], UnderWay(v), Running(v))  BY DEF Inv, CountInv
<1>7. work[w].calls = 0  BY <1>1, <1>6 DEF Counted
<1>8. Counted(p, UnderWay(w), Running(w))  BY <1>2, <1>3, SMTT(30) DEF Counted
<1>9. Inv'
  <2>1. main' \in {"check", "wait", "events", "async", "collect"}
    BY <1>1 DEF Inv, TypeOK
  <2>2. \A v \in Works : Counted(work'[v], UnderWay(v), Running(v))
    BY <1>5, <1>6, <1>8
  <2> QED  BY <1>1, <1>2, <1>5, <2>1, <2>2, WorksStep, Zenon
<1> QED  BY <1>3, <1>5, <1>7, <1>9, Zenon

LEMMA UserUnrefStep ==
    ASSUME Inv, NEW w \in Works, mloop_work_unref(w)
    PROVE  /\ Inv'
           /\ \A v \in Works : work'[v].calls = work[v].calls
<1>1. /\ UNCHANGED <<jobs, async, lock, wake, main, thread>> /\ work[w].held
  BY DEF mloop_work_unref
<1>2. work \in [Works -> Work]  BY DEF Inv, TypeOK
<1>3. \A v \in Works : Counted(work[v], UnderWay(v), Running(v))  BY DEF Inv, CountInv
<1>4. PICK p \in Work : /\ p = mloop__unref_any([work[w] EXCEPT !.held = FALSE])
                        /\ p.mem # "none" /\ p.done_fn = work[w].done_fn
                        /\ p.state = work[w].state /\ p.listed = work[w].listed
                        /\ p.is_cancelled = work[w].is_cancelled
                        /\ p.calls = work[w].calls /\ Counted(p, UnderWay(w), Running(w))
  BY <1>1, <1>2, <1>3, Released, Zenon DEF UnderWay, Running
<1>5. /\ work' \in [Works -> Work] /\ work'[w] = p
      /\ \A v \in Works : v # w => work'[v] = work[v]
  BY <1>2, <1>4, WorkChanged DEF mloop_work_unref
<1>6. Inv'
  <2>1. main' \in {"check", "wait", "events", "async", "collect"}
    BY <1>1 DEF Inv, TypeOK
  <2>2. \A v \in Works : Counted(work'[v], UnderWay(v), Running(v))
    BY <1>3, <1>4, <1>5
  <2> QED  BY <1>1, <1>4, <1>5, <2>1, <2>2, WorksStep, ZenonT(30)
<1> QED  BY <1>4, <1>5, <1>6

LEMMA StartStep ==
    ASSUME Inv, NEW w \in Works, mloop_work_start(w)
    PROVE  /\ Inv'
           /\ \A v \in Works : work'[v].calls = work[v].calls
<1>1. /\ UNCHANGED <<async, lock, wake, main, thread>>
      /\ work[w].held /\ work[w].lost = 0 /\ work[w].state = "STOPPED"
  BY DEF mloop_work_start, CanStart
<1>2. ~UnderWay(w) /\ ~Running(w) /\ \A t \in Threads : thread[t].job # w
  BY <1>1, Nowhere
<1>3. /\ work \in [Works -> Work] /\ thread \in [Threads -> ThreadType]
      /\ Elems(jobs) \subseteq Works /\ Elems(async) \subseteq Works
      /\ \A u \in Threads : thread[u].pc # "pop" => thread[u].job \in Works
  BY Types, Zenon
<1>4. \A v \in Works : Counted(work[v], UnderWay(v), Running(v))  BY DEF Inv, CountInv
<1>5. Counted(work[w], FALSE, FALSE)  BY <1>2, <1>4 DEF Counted
<1>6. CASE /\ work' = [work EXCEPT ![w].is_cancelled = FALSE]
           /\ UNCHANGED jobs
  <2>1. PICK p \in Work : /\ p = [work[w] EXCEPT !.is_cancelled = FALSE]
                          /\ p.calls = work[w].calls /\ Counted(p, FALSE, FALSE)
    BY <1>3, <1>5, Uncancelled, Zenon
  <2>2. /\ work' \in [Works -> Work] /\ work'[w] = p
        /\ \A v \in Works : v # w => work'[v] = work[v]
    BY <1>3, <1>6, <2>1, WorkChanged
  <2>3. main' \in {"check", "wait", "events", "async", "collect"}
    BY <1>1 DEF Inv, TypeOK
  <2>4. Counted(p, UnderWay(w), Running(w))  BY <1>2, <2>1 DEF Counted
  <2>5. \A v \in Works : Counted(work'[v], UnderWay(v), Running(v))
    BY <1>4, <2>2, <2>4
  <2>6. Inv'  BY <1>1, <1>2, <1>6, <2>2, <2>3, <2>5, WorksStep, Zenon
  <2> QED  BY <2>1, <2>2, <2>6, Zenon
<1>7. CASE jobs' = Append(jobs, w) /\ work' = [work EXCEPT ![w] = Starting(work[w])]
  <2>1. PICK p \in Work : /\ p = Starting(work[w]) /\ p.state = "STARTING" /\ ~p.is_cancelled
                          /\ p.calls = work[w].calls /\ Counted(p, TRUE, FALSE)
    BY <1>1, <1>3, <1>5, Started, Zenon
  <2>2. /\ work' \in [Works -> Work] /\ work'[w] = p
        /\ \A v \in Works : v # w => work'[v] = work[v]
    BY <1>3, <1>7, <2>1, WorkChanged
  <2>3. w \notin Elems(jobs) /\ w \notin Elems(async)  BY <1>2 DEF UnderWay
  <2>4. /\ jobs' \in Seq(Works) /\ Elems(jobs') = Elems(jobs) \union {w} /\ Distinct(jobs')
    BY <1>7, <2>3, ElemsAppended DEF Inv, TypeOK, PlaceInv
  <2>5. TypeOK'  BY <1>1, <2>2, <2>4, SMTT(30) DEF Inv, TypeOK
  <2>6. PlaceInv'  BY <1>1, <1>2, <2>3, <2>4, SMTT(30) DEF Inv, PlaceInv
  <2>7. PathInv'  BY <1>1, <1>2, <1>3, <2>1, <2>2, <2>3, <2>4, SMTT(30) DEF Inv, PathInv
  <2>8. StateInv'
    BY <1>1, <1>2, <1>3, <2>1, <2>2, <2>3, <2>4 DEF Inv, StateInv, With
  <2>9. CountInv'
    <3>1. \A v \in Works : v # w => (UnderWay(v)' <=> UnderWay(v)) /\ (Running(v)' <=> Running(v))
      BY <1>1, <2>4 DEF UnderWay, Running, With
    <3>2. UnderWay(w)' /\ ~Running(w)'
      BY <1>1, <1>2, <2>4, SMTT(30) DEF UnderWay, Running, With
    <3>3. Counted(work'[w], UnderWay(w)', Running(w)')
      BY <2>1, <2>2, <3>2, SMTT(30) DEF Counted
    <3>4. \A v \in Works : v # w => Counted(work'[v], UnderWay(v)', Running(v)')
      BY <1>4, <2>2, <3>1 DEF Counted
    <3> QED  BY <3>3, <3>4, SMTT(30) DEF CountInv
  <2>10. Inv'  BY <2>5, <2>6, <2>7, <2>8, <2>9 DEF Inv
  <2> QED  BY <2>1, <2>2, <2>10
<1> QED  BY <1>6, <1>7 DEF mloop_work_start

-----------------------------------------------------------------------------
(* The theorems. *)

LEMMA InitialInv == Init => Inv
<1> SUFFICES ASSUME Init PROVE Inv
  OBVIOUS
<1>1. Elems(jobs) = {} /\ Elems(async) = {} /\ Distinct(jobs) /\ Distinct(async)
  BY DEF Init, Elems, Distinct
<1>2. NoWork \in Work  BY DEF NoWork, Work
<1>3. \A t \in Threads : thread[t].pc = "pop" /\ thread[t].job = Nobody  BY DEF Init
<1>4. TypeOK
  <2>1. work \in [Works -> Work]  BY <1>2 DEF Init
  <2>2. jobs \in Seq(Works) /\ async \in Seq(Works)  BY DEF Init
  <2>3. thread \in [Threads -> ThreadType]  BY DEF Init, ThreadType
  <2> QED  BY <2>1, <2>2, <2>3, Zenon DEF Init, TypeOK, ThreadType
<1>5. PlaceInv
  BY <1>1, <1>3, MloopWorkAssumption DEF Init, PlaceInv, Working
<1>6. PathInv /\ StateInv  BY <1>1, <1>3 DEF PathInv, StateInv
<1>7. \A w \in Works : ~UnderWay(w) /\ ~Running(w) /\ work[w] = NoWork
  BY <1>1, <1>3, Zenon DEF Init, UnderWay, Running, With, Working
<1>8. CountInv
  <2>1. Counted(NoWork, FALSE, FALSE)  BY DEF Counted, NoWork
  <2> QED  BY <1>7, <2>1, Zenon DEF CountInv, Counted
<1> QED  BY <1>4, <1>5, <1>6, <1>8 DEF Inv

LEMMA NextInv == Inv /\ [Next]_vars => Inv'
<1> SUFFICES ASSUME Inv, [Next]_vars PROVE Inv'
  OBVIOUS
<1>1. wake \in BOOLEAN /\ main \in {"check", "wait", "events", "async", "collect"}
  BY DEF Inv, TypeOK
<1>2. ASSUME NEW w \in Works, NEW done_fn \in BOOLEAN, mloop_work_new(w, done_fn) PROVE Inv'
  BY <1>2, NewStep
<1>3. ASSUME NEW w \in Works, mloop_work_start(w) PROVE Inv'
  BY <1>3, StartStep
<1>4. ASSUME NEW w \in Works, mloop_work_unref(w) PROVE Inv'
  BY <1>4, UserUnrefStep
<1>5. ASSUME NEW t \in Threads, Thread(t) PROVE Inv'
  BY <1>5, PopStep, RefStep, RunStep, UnrefStep, ForwardStep, StartedStep, RemoveStep, StopStep
     DEF Thread
<1>6. CASE MainCheck  BY <1>1, <1>6, LoopStep DEF MainCheck
<1>7. CASE MainWait  BY <1>1, <1>7, LoopStep, Zenon DEF MainWait
<1>8. CASE EventsDone  BY <1>1, <1>8, LoopStep DEF EventsDone
<1>9. CASE mloop__process_async_jobs
  <2>1. CASE async = <<>>
    BY <1>1, <1>9, <2>1, LoopStep DEF mloop__process_async_jobs
  <2> QED  BY <1>9, <2>1, AsyncStep
<1>10. CASE mloop__collect  BY <1>10, CollectStep
<1>11. CASE UNCHANGED vars  BY <1>1, <1>11, LoopStep DEF vars
<1> QED
  BY <1>2, <1>3, <1>4, <1>5, <1>6, <1>7, <1>8, <1>9, <1>10, <1>11 DEF Next, User, Main

\* The inductive invariant: where each job is, on which path and in which state,
\* and who refers to it.
THEOREM Invariance == Spec => []Inv
<1>1. Init => Inv  BY InitialInv
<1>2. Inv /\ [Next]_vars => Inv'  BY NextInv
<1> QED  BY <1>1, <1>2, PTL DEF Spec

LEMMA InvWorksAccounted == Inv => WorksAccounted
<1> SUFFICES ASSUME Inv PROVE WorksAccounted
  OBVIOUS
<1>1. /\ work \in [Works -> Work] /\ thread \in [Threads -> ThreadType]
      /\ Elems(jobs) \subseteq Works /\ Elems(async) \subseteq Works
      /\ \A u \in Threads : thread[u].pc # "pop" => thread[u].job \in Works
  BY Types, Zenon
<1>2. \A w \in Works : Counted(work[w], UnderWay(w), Running(w)) /\ work[w] \in Work
  BY <1>1, Zenon DEF Inv, CountInv
<1>3. InOnePlace
  <2>1. \A t \in Threads : thread[t].pc \notin {"started", "stop"} =>
            thread[t].job \notin Elems(jobs) \union Elems(async)
    <3> SUFFICES ASSUME NEW t \in Threads, thread[t].pc \notin {"started", "stop"}
                 PROVE  thread[t].job \notin Elems(jobs) \union Elems(async)
      OBVIOUS
    <3>1. thread[t].pc \in Working \/ thread[t].pc = "pop"
      BY <1>1 DEF ThreadType, Working
    <3> QED  BY <1>1, <3>1, MloopWorkAssumption DEF Inv, PlaceInv
  <2> QED  BY <2>1 DEF Inv, PlaceInv, InOnePlace, Distinct, Job
<1>4. \A w \in Works : UnderWay(w) => work[w].listed /\ work[w].mem = "live"
  BY <1>2 DEF Counted, Work
<1>5. QueuedIsListed
  <2>1. \A w \in Elems(jobs) \union Elems(async) : w \in Works /\ UnderWay(w)
    BY <1>1 DEF UnderWay
  <2>2. \A t \in Threads : thread[t].pc \in Working =>
            thread[t].job \in Works /\ UnderWay(thread[t].job)
    BY Busy, Zenon
  <2> QED  BY <1>4, <2>1, <2>2 DEF QueuedIsListed, Job, Working
<1>6. AsyncIsStarted
  <2> SUFFICES ASSUME lock = Nobody, async # <<>>
               PROVE  work[Head(async)].state = "STARTED"
    BY DEF AsyncIsStarted
  <2>1. Head(async) \in Elems(async)
    BY ElemsTaken DEF Inv, TypeOK, PlaceInv
  <2>2. \A t \in Threads : thread[t].pc # "started"
    BY MloopWorkAssumption DEF Inv, PlaceInv
  <2> QED  BY <2>1, <2>2 DEF Inv, StateInv, With
<1>7. RefCounted
  <2> SUFFICES ASSUME NEW w \in Works
               PROVE  /\ work[w].ref = Holders(w)
                      /\ work[w].mem = "live" <=> work[w].ref > 0
    BY Zenon DEF RefCounted
  <2>1. Running(w) <=> \E t \in Threads : Job(t) = w /\ thread[t].pc \in {"run", "unref"}
    BY DEF Running, With, Job
  <2> QED  BY <1>2, <2>1 DEF Counted, Holders
<1>8. EachStartAnswered
  <2> SUFFICES ASSUME NEW w \in Works, work[w].done_fn
               PROVE  /\ work[w].calls + work[w].cancels + work[w].lost <= work[w].starts
                      /\ work[w].state = "STOPPED" =>
                             work[w].calls + work[w].cancels + work[w].lost = work[w].starts
    BY Zenon DEF EachStartAnswered
  <2>1. work[w].state = "STOPPED" => ~UnderWay(w)  BY Nowhere
  <2>2. /\ work[w].starts = work[w].calls + work[w].cancels + work[w].lost
                            + (IF UnderWay(w) THEN 1 ELSE 0)
        /\ work[w].calls \in Nat /\ work[w].cancels \in Nat /\ work[w].lost \in Nat
    BY <1>2 DEF Counted, Work
  <2> QED  BY <2>1, <2>2
<1> QED  BY <1>3, <1>5, <1>6, <1>7, <1>8 DEF Inv, WorksAccounted

\* For any number of works and worker threads, in every interleaving of theirs
\* with the main loop: each job is in one place, alive and on the list of active
\* objects; one that came back is marked as started; each reference has a holder;
\* and each start is answered once.
THEOREM WorksStayAccounted == Spec => []WorksAccounted
<1>1. Spec => []Inv  BY Invariance
<1>2. Inv => WorksAccounted  BY InvWorksAccounted
<1> QED  BY <1>1, <1>2, PTL

\* Only the main loop, when it takes a job back, counts a call.
LEMMA ThreadKeepsCalls ==
    ASSUME Inv, NEW t \in Threads, Thread(t)
    PROVE  \A w \in Works : work'[w].calls = work[w].calls
<1>1. work \in [Works -> Work]  BY DEF Inv, TypeOK
<1>2. ASSUME NEW o \in Work
      PROVE  /\ mloop__unref_any(o).calls = o.calls
             /\ mloop__object_list_remove(o).calls = o.calls
  BY DEF Work, mloop__unref_any, mloop__object_list_remove
<1>3. CASE PopJob(t)  BY <1>3 DEF PopJob
<1>4. CASE RefJob(t)  BY <1>1, <1>4 DEF RefJob, Work
<1>5. ASSUME NEW c \in BOOLEAN, RunJob(t, c)
      PROVE  \A w \in Works : work'[w].calls = work[w].calls
  BY <1>1, <1>5 DEF RunJob, Work
<1>6. CASE UnrefJob(t)  BY <1>1, <1>2, <1>6 DEF UnrefJob
<1>7. CASE ForwardWork(t)
  <2>1. CASE UNCHANGED work  BY <2>1
  <2>2. CASE work' = [work EXCEPT ![Job(t)].state = "STOPPED", ![Job(t)].lost = @ + 1]
    <3> SUFFICES ASSUME NEW w \in Works PROVE work'[w].calls = work[w].calls
      OBVIOUS
    <3>1. \/ work'[w] = work[w]
          \/ work'[w] = [work[w] EXCEPT !.state = "STOPPED", !.lost = @ + 1]
      BY <1>1, <2>2, Zenon
    <3> QED  BY <1>1, <3>1, Zenon DEF Work
  <2> QED  BY <1>7, <2>1, <2>2 DEF ForwardWork
<1>8. CASE ForwardStarted(t)  BY <1>1, <1>8 DEF ForwardStarted, Work
<1>9. CASE RemoveJob(t)  BY <1>1, <1>2, <1>9 DEF RemoveJob
<1>10. CASE StopJob(t)  BY <1>1, <1>10 DEF StopJob, Work
<1> QED  BY <1>3, <1>4, <1>5, <1>6, <1>7, <1>8, <1>9, <1>10 DEF Thread

\* The done function of a work that cancelled itself is never called, whichever
\* thread or handler takes the next step.
THEOREM CancellingIsFinal == Spec => CancelIsFinal
<1> DEFINE Kept == \A w \in Works : work[w].is_cancelled => work'[w].calls = work[w].calls
<1>1. Inv /\ [Next]_vars => Kept
  <2> SUFFICES ASSUME Inv, [Next]_vars PROVE Kept
    OBVIOUS
  <2>1. ASSUME UNCHANGED work PROVE Kept  BY <2>1
  <2>2. ASSUME NEW w \in Works, NEW done_fn \in BOOLEAN, mloop_work_new(w, done_fn) PROVE Kept
    BY <2>2, NewStep
  <2>3. ASSUME NEW w \in Works, mloop_work_start(w) PROVE Kept
    BY <2>3, StartStep
  <2>4. ASSUME NEW w \in Works, mloop_work_unref(w) PROVE Kept
    BY <2>4, UserUnrefStep
  <2>5. ASSUME NEW t \in Threads, Thread(t) PROVE Kept
    BY <2>5, ThreadKeepsCalls
  <2>6. CASE MainCheck \/ MainWait \/ EventsDone
    BY <2>1, <2>6 DEF MainCheck, MainWait, EventsDone
  <2>7. CASE mloop__process_async_jobs
    <3>1. CASE async = <<>>  BY <2>1, <2>7, <3>1 DEF mloop__process_async_jobs
    <3> QED  BY <2>7, <3>1, AsyncStep
  <2>8. CASE mloop__collect  BY <2>8, CollectStep
  <2>9. CASE UNCHANGED vars  BY <2>1, <2>9 DEF vars
  <2> QED
    BY <2>2, <2>3, <2>4, <2>5, <2>6, <2>7, <2>8, <2>9 DEF Next, User, Main
<1>2. Inv /\ [Next]_vars => [Kept]_vars  BY <1>1
<1>3. Spec => []Inv  BY Invariance
<1> QED  BY <1>2, <1>3, PTL DEF Spec, CancelIsFinal
=============================================================================
