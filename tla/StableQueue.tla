----------------------------- MODULE StableQueue ----------------------------
(***************************************************************************)
(* What the job queues of the main loop promise: a stable priority queue.  *)
(* The item with the smallest priority leaves first and, of those with the *)
(* same priority, the one that was put in first.                           *)
(***************************************************************************)
EXTENDS Integers

CONSTANT Priorities

VARIABLES items,   \* the items in the queue, [priority, ticket]
          ticket,  \* how many items were ever put in
          popped   \* the item that left last

abstractVars == <<items, ticket, popped>>

Nothing == [priority |-> -1, ticket |-> -1]

Before(e, f) ==
    \/ e.priority < f.priority
    \/ e.priority = f.priority /\ e.ticket < f.ticket

AbstractInit == items = {} /\ ticket = 0 /\ popped = Nothing

Put(p) ==
    /\ items' = items \union {[priority |-> p, ticket |-> ticket]}
    /\ ticket' = ticket + 1
    /\ UNCHANGED popped

Take(e) ==
    /\ \A f \in items : f = e \/ Before(e, f)
    /\ items' = items \ {e}
    /\ popped' = e
    /\ UNCHANGED ticket

AbstractNext ==
    \/ \E p \in Priorities : Put(p)
    \/ \E e \in items : Take(e)

AbstractSpec == AbstractInit /\ [][AbstractNext]_abstractVars
=============================================================================
