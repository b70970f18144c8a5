----------------------------- MODULE SdoService -----------------------------
(***************************************************************************)
(* What the user of one SDO client is promised, without frames: one        *)
(* request at a time on the objects of a node.  A download that ends well  *)
(* has stored its data, and an upload that ends well returns the stored    *)
(* value.  A download that fails may have stored its data or not, and its  *)
(* abort may still make the node store the part that had arrived.          *)
(***************************************************************************)
EXTENDS Naturals, Sequences

CONSTANTS Requests, Objects, Stored(_, _)

VARIABLES store,  \* the value of every object of the node
          op,     \* the request being served, or Idle
          late,   \* the last download that failed, or Idle
          result  \* the value returned by the upload that has just ended

vars == <<store, op, late, result>>

Idle == [type |-> "IDLE", mux |-> 0, data |-> <<>>]

Init ==
    /\ store = Objects
    /\ op = Idle
    /\ late = Idle
    /\ result = <<>>

Begin ==
    /\ op = Idle
    /\ op' \in Requests
    /\ result' = <<>>
    /\ UNCHANGED <<store, late>>

\* The first n bytes of a download's data are what its object now holds.
Write(dl, n) ==
    /\ dl.type = "DOWNLOAD"
    /\ dl.mux \in DOMAIN store
    /\ store' = [store EXCEPT
                    ![dl.mux] = Stored(dl.mux, SubSeq(dl.data, 1, n))]
    /\ UNCHANGED <<op, late, result>>

\* An empty value cannot be told from four zero bytes on the wire.
Returned(value) == IF value = <<>> THEN <<0, 0, 0, 0>> ELSE value

Perform == Write(op, Len(op.data))

PerformLate == \E n \in 0..Len(late.data) : Write(late, n)

Succeed ==
    /\ op.type # "IDLE"
    /\ op.mux \in DOMAIN store
    /\ IF op.type = "UPLOAD"
       THEN result' = Returned(store[op.mux])
       ELSE store[op.mux] = Stored(op.mux, op.data) /\ result' = <<>>
    /\ op' = Idle
    /\ UNCHANGED <<store, late>>

Fail ==
    /\ op.type # "IDLE"
    /\ op' = Idle
    /\ late' = IF op.type = "DOWNLOAD" THEN op ELSE late
    /\ UNCHANGED <<store, result>>

Next == Begin \/ Perform \/ PerformLate \/ Succeed \/ Fail

Spec == Init /\ [][Next]_vars
=============================================================================
