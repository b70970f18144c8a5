---------------------------- MODULE SdoAsyncAlone ---------------------------
(***************************************************************************)
(* The SDO client against a peer that may answer with any frame at any     *)
(* time: what holds here holds whatever the node at the other end does.    *)
(***************************************************************************)
EXTENDS SdoAsync

CONSTANTS Incoming,   \* the frames the peer may send
          MaxStarts,  \* bound: transfers started
          MaxSegments \* bound: segments the peer lets a transfer have

ASSUME SdoAsyncAloneAssumption ==
    /\ Incoming \subseteq Frame
    /\ MaxStarts \in Nat
    /\ MaxSegments \in Nat

\* History: what a receiver reads in the frames of the transfer in progress.
VARIABLE wire

vars == <<clientVars, wire>>

Wire == [data: Seq(Byte),  \* the bytes downloaded so far
         segs: Nat]        \* the segment requests seen so far

EmptyWire == [data |-> <<>>, segs |-> 0]

\* What the standard says a request frame carries.
Payload(cf) ==
    IF cf.cs = SDO_CCS_DL_INIT_REQ /\ sdo_is_expediated(cf)
    THEN SubSeq(cf.data, 1, Minimum(sdo_get_expediated_size(cf),
                                    cf.dlc - SDO_EXPEDIATED_DATA_IDX))
    ELSE IF cf.cs = SDO_CCS_DL_SEG_REQ
         THEN SubSeq(cf.data, 1, sdo_get_segment_size(cf))
    ELSE <<>>

IsSegment(cf) == cf.cs \in {SDO_CCS_DL_SEG_REQ, SDO_CCS_UL_SEG_REQ}

\* w, after the frames that this step put on the bus.
Seen(w) ==
    IF Len(toSrv') = Len(toSrv) THEN w
    ELSE LET cf == toSrv'[Len(toSrv')] IN
         [data |-> w.data \o Payload(cf),
          segs |-> w.segs + (IF IsSegment(cf) THEN 1 ELSE 0)]

Init == sdo_async_init /\ wire = EmptyWire

\* The client cannot tell when the bus takes its frames: a new one is awaited
\* only to keep the queue short.
Start(info) ==
    /\ calls.started < MaxStarts
    /\ toSrv = <<>>
    /\ sdo_async_start(info)
    /\ wire' = Seen(EmptyWire)

Stop == sdo_async_stop /\ UNCHANGED wire

Timeout == sdo_async__on_timeout /\ wire' = Seen(wire)

Feed(cf) ==
    /\ toSrv = <<>>
    /\ wire.segs <= MaxSegments
    /\ sdo_async_feed(cf)
    /\ wire' = Seen(wire)

Transmit ==
    /\ toSrv # <<>>
    /\ toSrv' = Tail(toSrv)
    /\ UNCHANGED <<cl, calls, wire>>

Next ==
    \/ \E info \in Requests : Start(info)
    \/ Stop
    \/ Timeout
    \/ \E cf \in Incoming : Feed(cf)
    \/ Transmit

Spec == Init /\ [][Next]_vars

TypeOK == ClientTypeOK /\ wire \in Wire

\* Between two callbacks the timer is started exactly while a transfer runs,
\* so sdo_async__on_timeout always finds one to abort (the assertion in
\* sdo_async__on_done) and no transfer is left waiting without a time-out.
TimerIffRunning == cl.timer = cl.running

\* Every transfer that was started is either running or has had its free_fn
\* called, once: sdo_async__on_done and sdo_async_stop between them neither
\* leak a context nor release one twice.
FreedOnce == calls.started = calls.freed + (IF cl.running THEN 1 ELSE 0)

\* A transfer that runs has its timer and its context, and one that has ended,
\* by whatever answer, time-out or stop, has neither.
EndedCleanly == TimerIffRunning /\ FreedOnce

\* The checks the code makes of itself hold: a running transfer waits for an
\* answer (the abort() that ends sdo_async_feed), and every segment of a
\* download is full but for the last, which is not empty and does not run past
\* the buffer (the assertion size > 0 in sdo_async__request_dl_segment).
AssertionsHold ==
    cl.running =>
        /\ cl.comm # "START"
        /\ cl.type = "DOWNLOAD" /\ cl.comm = "SEG_RESPONSE" =>
               /\ wire.segs > 0
               /\ SDO_SEGMENT_MAX_SIZE * (wire.segs - 1) < Len(cl.buf)
               /\ cl.pos = Minimum(SDO_SEGMENT_MAX_SIZE * wire.segs,
                                   Len(cl.buf))

\* What the client has put on the bus is the part of its buffer that pos says
\* it has, in order and without gaps, whatever answers it was given.
WireIsPrefix ==
    cl.running /\ cl.type = "DOWNLOAD" /\ cl.comm = "SEG_RESPONSE" =>
        wire.data = SubSeq(cl.buf, 1, cl.pos)

\* The segments of a download are cut from the buffer one after the other, and
\* the assertions about them hold, whatever answers the client was given.
SegmentsOfBuffer == AssertionsHold /\ WireIsPrefix

\* What a receiver reads when d is downloaded: an empty d that is sent as a
\* full frame cannot be told from four zero bytes.
Readable(d) == IF d = <<>> /\ NeedsFullFrame THEN Zeros(4) ELSE d

\* A download the client reports as SDO_REQ_OK has put its whole buffer, and
\* nothing else, on the bus: sdo_async__feed_dl_seg_response never takes an
\* early or repeated answer for the last one.
DownloadOnWire ==
    [][ cl.running /\ ~cl'.running /\ cl.type = "DOWNLOAD"
        /\ cl'.status = "OK" /\ calls'.done = calls.done + 1 =>
            wire.data = Readable(cl.buf) ]_vars

\* The toggle bit that the next answer must carry is that of the last segment
\* request, and the requests of one transfer carry 0, 1, 0, ... in turn.
TogglesAlternate ==
    cl.running /\ cl.comm = "SEG_RESPONSE" => cl.tog = (wire.segs + 1) % 2
=============================================================================
