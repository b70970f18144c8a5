------------------------------- MODULE SdoLink ------------------------------
(***************************************************************************)
(* One SDO client and the SDO server of its node on a CAN bus.  The bus    *)
(* keeps the frames of one sender in order; it may lose a frame, and may   *)
(* hold one back for longer than the client's time-out.                    *)
(***************************************************************************)
EXTENDS SdoAsync, SdoSrv

CONSTANTS MaxStarts,  \* bound: transfers started
          MaxStops,   \* bound: transfers stopped by a flush
          MaxLosses,  \* bound: frames lost
          Prompt,     \* whether every frame that arrives does so within the
                      \* client's time-out of 1000 ms
          Spaced      \* whether a transfer starts only once the frames of
                      \* the one before, aborts included, are delivered

ASSUME SdoLinkAssumption ==
    /\ {MaxStarts, MaxStops, MaxLosses} \subseteq Nat
    /\ Prompt \in BOOLEAN
    /\ Spaced \in BOOLEAN

VARIABLES stops,   \* transfers stopped so far
          losses,  \* frames lost so far
          late,    \* history: the last download that failed
          clean    \* history: the bus was idle when this transfer started,
                   \* and no frame was lost since

vars == <<clientVars, serverVars, stops, losses, late, clean>>

NoTransfer == [type |-> "IDLE", mux |-> 0, data |-> <<>>]

Transfer == [type |-> cl.type, mux |-> cl.mux,
             data |-> IF cl.type = "UPLOAD" THEN <<>> ELSE cl.buf]

Init ==
    /\ sdo_async_init
    /\ sdo_srv_init
    /\ stops = 0
    /\ losses = 0
    /\ late = NoTransfer
    /\ clean = TRUE

Quiet == toSrv = <<>> /\ toCl = <<>>

LateAfter(failed) ==
    late' = IF failed /\ cl.type = "DOWNLOAD" THEN Transfer ELSE late

Start(info) ==
    /\ calls.started < MaxStarts
    /\ Spaced => Quiet
    /\ sdo_async_start(info)
    /\ clean' = Quiet
    /\ UNCHANGED <<serverVars, stops, losses, late>>

Stop ==
    /\ stops < MaxStops
    /\ sdo_async_stop
    /\ stops' = stops + 1
    /\ LateAfter(TRUE)
    /\ UNCHANGED <<serverVars, losses, clean>>

\* On a prompt bus the timer expires only when no answer is on its way.
Timeout ==
    /\ Prompt => Quiet
    /\ sdo_async__on_timeout
    /\ LateAfter(TRUE)
    /\ UNCHANGED <<serverVars, stops, losses, clean>>

FeedServer ==
    /\ toSrv # <<>>
    /\ sdo_srv_feed(Head(toSrv))
    /\ toSrv' = Tail(toSrv)
    /\ UNCHANGED <<cl, calls, stops, losses, late, clean>>

FeedClient ==
    /\ toCl # <<>>
    /\ sdo_async_feed(Head(toCl))
    /\ toCl' = Tail(toCl)
    /\ LateAfter(cl.running /\ ~cl'.running /\ cl'.status # "OK")
    /\ UNCHANGED <<srv, od, stops, losses, clean>>

Lose ==
    /\ losses < MaxLosses
    /\ losses' = losses + 1
    /\ \/ toSrv # <<>> /\ toSrv' = Tail(toSrv) /\ UNCHANGED toCl
       \/ toCl # <<>> /\ toCl' = Tail(toCl) /\ UNCHANGED toSrv
    /\ clean' = FALSE
    /\ UNCHANGED <<cl, calls, srv, od, stops, late>>

Next ==
    \/ \E info \in Requests : Start(info)
    \/ Stop
    \/ Timeout
    \/ FeedServer
    \/ FeedClient
    \/ Lose

Spec == Init /\ [][Next]_vars

(***************************************************************************)
(* Properties.                                                             *)
(***************************************************************************)
\* The frames implement the service: on a prompt bus, whatever it loses, a
\* transfer that starts on an idle bus and ends with SDO_REQ_OK has stored
\* exactly the client's buffer, or returns exactly the value the object holds,
\* even if the client ignores multiplexers.
Service == INSTANCE SdoService WITH
    store <- od,
    op <- IF cl.running THEN Transfer ELSE NoTransfer,
    result <- IF ~cl.running /\ cl.status = "OK" /\ cl.type = "UPLOAD"
              THEN cl.buf ELSE <<>>

ServiceSpec == Service!Spec

\* A step in which the running transfer ends, other than by a flush.
Ends == cl.running /\ ~cl'.running /\ stops' = stops

\* What the application answers is the only way a transfer ends badly, if it
\* starts on an idle bus and loses no frame: whatever state an earlier
\* time-out or lost abort left the server in does not matter.
CleanTransferSucceeds ==
    [][ clean /\ Ends =>
            \/ cl'.status = "OK"
            \/ /\ cl'.status = "REMOTE_ABORT"
               /\ cl'.code \in {"RO", "NEXIST", "TOO_LONG"} ]_vars

\* What an object may hold: its first value or the beginning of a download.
Values(m) ==
    LET sent == {r.data : r \in {q \in Requests : /\ q.type = "DOWNLOAD"
                                                  /\ q.mux = m}}
    IN  {Objects[m]} \union
        UNION {{Stored(m, SubSeq(d, 1, n)) : n \in 0..Len(d)} : d \in sent}

\* An upload returns a value its own object has held: even when answers arrive
\* after the time-out, or after a flush, it never takes the one meant for
\* another object.  (The header of sdo_async.c: the client "Validates data
\* according to state and aborts when receiving unexpected data".)
OwnObject ==
    [][ Ends /\ cl'.status = "OK" /\ cl.type = "UPLOAD" =>
            /\ cl.mux \in DOMAIN od
            /\ cl'.buf \in {Service!Returned(v) : v \in Values(cl.mux)} ]_vars

\* An object never holds a mixture of two downloads: it keeps its first value
\* or some beginning of one client buffer, however late the segments are.
NoMixture == \A m \in DOMAIN od : od[m] \in Values(m)

\* Every transfer ends: whatever is lost or late, and whatever state the server
\* is in, the client's callback is called (or the transfer is flushed).
EveryTransferEnds == cl.running ~> ~cl.running
=============================================================================
