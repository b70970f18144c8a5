------------------------------- MODULE Prioq --------------------------------
(***************************************************************************)
(* The binary heap of src/prioq.c: the queue of the worker threads' jobs   *)
(* and that of the main loop's own.  Every operation runs with the queue   *)
(* locked; one step here is one call of prioq__bubble_up or                *)
(* prioq__sink_down, and the next operation starts when they are done.     *)
(***************************************************************************)
EXTENDS Integers

CONSTANTS Priorities,   \* the priorities in use
          Modulus,      \* ULONG_MAX + 1: the sequence numbers wrap around
          InitialSize,  \* elements allocated by prioq_init
          MaxInserts,   \* bound: insertions
          MaxSpread     \* bound: insertions that an element may wait for

ASSUME PrioqAssumption ==
    /\ Priorities \subseteq Nat
    /\ Modulus \in Nat /\ Modulus % 4 = 0 /\ Modulus >= 8
    /\ InitialSize \in Nat \ {0}
    /\ MaxInserts \in Nat
    /\ MaxSpread \in Nat /\ 4 * MaxSpread <= Modulus

VARIABLES head,    \* the elements; memory past index is never read
          index,   \* their number
          size,    \* room for elements
          ticket,  \* the insertions so far; sequence is this, wrapped around
          mode,    \* "up" and "down" while prioq__bubble_up or _sink_down runs
          pos,     \* the position that they work on
          popped   \* what prioq_pop returned last

prioqvars == <<head, index, size, ticket, mode, pos, popped>>

Elem == [priority: Priorities, ticket: Nat]
Nothing == [priority |-> -1, ticket |-> -1]

sequence_(e) == e.ticket % Modulus

parent(i) == (i - 1) \div 2
lchild(i) == 2 * i + 1
rchild(i) == 2 * i + 2

ULONG_MAX == Modulus - 1

is_on_1st_quarter(i) == i <= ULONG_MAX \div 4
is_on_4th_quarter(i) == (ULONG_MAX \div 4) * 3 < i

\* Mutant: sequence numbers do not wrap around.
NeverWraps(a, b) == a < b

prioq__is_seq_lt(a, b) ==
    IF is_on_4th_quarter(a) /\ is_on_1st_quarter(b) THEN TRUE
    ELSE IF is_on_1st_quarter(a) /\ is_on_4th_quarter(b) THEN FALSE
    ELSE a < b

is_lt(a, b) ==
    IF a.priority < b.priority THEN TRUE
    ELSE IF a.priority > b.priority THEN FALSE
    ELSE prioq__is_seq_lt(sequence_(a), sequence_(b))

prioq_init ==
    /\ head = [i \in {} |-> Nothing]
    /\ index = 0
    /\ size = InitialSize
    /\ ticket = 0
    /\ mode = "idle"
    /\ pos = 0
    /\ popped = Nothing

\* prioq_grow doubles the room when it is used up; when that fails the
\* insertion is refused and nothing changes.
GrownSize == IF index >= size THEN 2 * size ELSE size

prioq_insert(p) ==
    /\ mode = "idle"
    /\ ticket < MaxInserts
    /\ \A i \in 0..(index - 1) : ticket - head[i].ticket <= MaxSpread
    /\ head' = [i \in 0..index |->
                   IF i = index THEN [priority |-> p, ticket |-> ticket]
                   ELSE head[i]]
    /\ size' = GrownSize
    /\ index' = index + 1
    /\ ticket' = ticket + 1
    /\ mode' = "up"
    /\ pos' = index
    /\ UNCHANGED popped

Swapped(i, j) == [head EXCEPT ![i] = head[j], ![j] = head[i]]

prioq__bubble_up ==
    /\ mode = "up"
    /\ IF pos # 0 /\ is_lt(head[pos], head[parent(pos)])
       THEN /\ head' = Swapped(pos, parent(pos))
            /\ pos' = parent(pos)
            /\ UNCHANGED mode
       ELSE /\ mode' = "idle"
            /\ UNCHANGED <<head, pos>>
    /\ UNCHANGED <<index, size, ticket, popped>>

\* The last element takes the place of the first and sinks.
prioq_pop ==
    /\ mode = "idle"
    /\ index > 0
    /\ popped' = head[0]
    /\ head' = [i \in 0..(index - 2) |->
                   IF i = 0 THEN head[index - 1] ELSE head[i]]
    /\ index' = index - 1
    /\ mode' = "down"
    /\ pos' = 0
    /\ UNCHANGED <<size, ticket>>

\* Mutant: the right child is taken when it is smaller than the element.
RightFirst(i) ==
    IF rchild(i) < index /\ is_lt(head[rchild(i)], head[i]) THEN rchild(i)
    ELSE IF lchild(i) < index /\ is_lt(head[lchild(i)], head[i])
         THEN lchild(i)
    ELSE 0

\* 0 when neither child is smaller.
prioq__get_smaller_child(i) ==
    IF rchild(i) < index /\ is_lt(head[rchild(i)], head[i])
    THEN IF is_lt(head[rchild(i)], head[lchild(i)]) THEN rchild(i)
         ELSE lchild(i)
    ELSE IF lchild(i) < index /\ is_lt(head[lchild(i)], head[i])
         THEN lchild(i)
    ELSE 0

prioq__sink_down ==
    /\ mode = "down"
    /\ LET child == prioq__get_smaller_child(pos) IN
       IF child = 0
       THEN /\ mode' = "idle"
            /\ UNCHANGED <<head, pos>>
       ELSE /\ head' = Swapped(pos, child)
            /\ pos' = child
            /\ UNCHANGED mode
    /\ UNCHANGED <<index, size, ticket, popped>>

PrioqNext ==
    \/ \E p \in Priorities : prioq_insert(p)
    \/ prioq__bubble_up
    \/ prioq_pop
    \/ prioq__sink_down

PrioqSpec == prioq_init /\ [][PrioqNext]_prioqvars

\* Positions are inside the memory that prioq_grow made room for.
PrioqTypeOK ==
    /\ index \in Nat
    /\ head \in [0..(index - 1) -> Elem]
    /\ size \in Nat /\ index <= size
    /\ ticket \in Nat
    /\ mode \in {"idle", "up", "down"}
    /\ pos \in Nat /\ (mode = "up" => pos < index)
    /\ popped \in Elem \union {Nothing}

\* Between two operations no element is smaller than its parent, so that
\* prioq_pop finds the smallest first.
HeapOrdered ==
    mode = "idle" =>
        \A i \in 1..(index - 1) : ~is_lt(head[i], head[parent(i)])

Items == {head[i] : i \in 0..(index - 1)}

Abstract == INSTANCE StableQueue WITH items <- Items

\* The job queue "is a stable priority queue" (README): it implements
\* StableQueue, through any number of wrap-arounds of the sequence numbers.
StablePriorityQueue == Abstract!AbstractSpec
=============================================================================
