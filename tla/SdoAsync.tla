------------------------------ MODULE SdoAsync ------------------------------
(***************************************************************************)
(* The SDO client of one node, src/sdo_async.c: it turns one upload or     *)
(* download at a time into a sequence of frames, one answer per request.   *)
(* cl is struct sdo_async, toSrv the frames it has sent and the bus has    *)
(* not yet delivered, calls the transfers started and the callbacks made.  *)
(***************************************************************************)
EXTENDS SdoFrame

CONSTANTS Requests,       \* the transfers the client may be asked for
          IgnoreMux,      \* SDO_ASYNC_QUIRK_IGNORE_MULTIPLEXER
          NeedsFullFrame  \* SDO_ASYNC_QUIRK_NEEDS_FULL_FRAME

ASSUME SdoAsyncAssumption ==
    /\ Requests \subseteq [type: {"UPLOAD", "DOWNLOAD"}, mux: Mux,
                           data: Seq(Byte)]
    /\ IgnoreMux \in BOOLEAN
    /\ NeedsFullFrame \in BOOLEAN

VARIABLES cl, toSrv, calls

clientVars == <<cl, toSrv, calls>>

SdoClient ==
    [running: BOOLEAN,      \* is_running
     timer: BOOLEAN,        \* the mloop timer is started
     comm: {"START", "INIT_RESPONSE", "SEG_RESPONSE"},
     type: {"NONE", "UPLOAD", "DOWNLOAD"},
     mux: Mux \union {NoMux},
     buf: Seq(Byte),        \* buffer
     pos: Nat,
     tog: Bit,              \* is_toggled
     ind: Bit,              \* is_size_indicated
     status: {"PENDING", "OK", "LOCAL_ABORT", "REMOTE_ABORT"},
     code: AbortCodes]      \* abort_code

\* Transfers started, on_done callbacks and free_fn calls made.
Calls == [started: Nat, done: Nat, freed: Nat]

sdo_async_init ==
    /\ cl = [running |-> FALSE, timer |-> FALSE, comm |-> "START",
             type |-> "NONE", mux |-> NoMux, buf |-> <<>>, pos |-> 0,
             tog |-> 0, ind |-> 0, status |-> "PENDING", code |-> NoCode]
    /\ toSrv = <<>>
    /\ calls = [started |-> 0, done |-> 0, freed |-> 0]

(***************************************************************************)
(* The helpers.  Each takes the client as its caller has changed it so far *)
(* and decides the step's effect on cl, toSrv and calls.                   *)
(***************************************************************************)
OnBus(cf) == IF NeedsFullFrame THEN [cf EXCEPT !.dlc = CAN_MAX_DLC] ELSE cf

sdo_async__send(cf) == toSrv' = Append(toSrv, OnBus(cf))

\* Stops the timer, clears is_running, calls on_done, then free_fn.
sdo_async__on_done(c) ==
    /\ cl' = [c EXCEPT !.timer = FALSE, !.running = FALSE]
    /\ calls' = [started |-> calls.started, done |-> calls.done + 1,
                 freed |-> calls.freed + 1]

sdo_async__abort(c, code) ==
    /\ sdo_async__send(sdo_abort(code, c.mux))
    /\ sdo_async__on_done([c EXCEPT !.status = "LOCAL_ABORT", !.code = code])

Succeed(c) ==
    /\ sdo_async__on_done([c EXCEPT !.status = "OK"])
    /\ UNCHANGED toSrv

\* Mutant: the limit is off by a segment.
NearEnd(c) == c.pos + SDO_SEGMENT_MAX_SIZE >= Len(c.buf)

sdo_async__is_expediated(c) == Len(c.buf) <= SDO_EXPEDIATED_DATA_SIZE

sdo_async__is_at_end(c) == c.pos >= Len(c.buf)

\* Mutant: the timer is not started again.
RequestUntimed(c, cf) ==
    /\ cl' = c
    /\ sdo_async__send(cf)
    /\ UNCHANGED calls

\* Starts the timer and sends; both requests of a segment use it.
Request(c, cf) ==
    /\ cl' = [c EXCEPT !.timer = TRUE]
    /\ sdo_async__send(cf)
    /\ UNCHANGED calls

\* Mutant: every segment is cut from the start of the buffer.
RepeatedSegment(c) ==
    LET size == Minimum(SDO_SEGMENT_MAX_SIZE, Len(c.buf) - c.pos)
        sent == [c EXCEPT !.pos = @ + size]
    IN  Request(sent, Segment(SDO_CCS_DL_SEG_REQ, c.tog,
                              SubSeq(c.buf, 1, size),
                              sdo_async__is_at_end(sent)))

sdo_async__request_dl_segment(c) ==
    LET size == Minimum(SDO_SEGMENT_MAX_SIZE, Len(c.buf) - c.pos)
        sent == [c EXCEPT !.pos = @ + size]
    IN  Request(sent, Segment(SDO_CCS_DL_SEG_REQ, c.tog,
                              SubSeq(c.buf, c.pos + 1, c.pos + size),
                              sdo_async__is_at_end(sent)))

sdo_async__request_ul_segment(c) ==
    Request(c, BareSegment(SDO_CCS_UL_SEG_REQ, c.tog))

(***************************************************************************)
(* sdo_async_start, sdo_async_stop and the time-out.                       *)
(***************************************************************************)
\* A failed vector_assign leaves the buffer empty; its result is ignored.
AssignedBuffer(info) ==
    IF info.type = "UPLOAD" THEN {<<>>}
    ELSE {info.data} \union (IF AllocFails(Len(info.data)) THEN {<<>>} ELSE {})

sdo_async__send_init(c) ==
    sdo_async__send(
        IF c.type = "UPLOAD" THEN Plain(SDO_CCS_UL_INIT_REQ, c.mux)
        ELSE IF sdo_async__is_expediated(c)
             THEN Expedited(SDO_CCS_DL_INIT_REQ, c.mux, c.buf)
             ELSE Indicated(SDO_CCS_DL_INIT_REQ, c.mux))

\* The status of the transfer before is kept until this one ends.
Started(info, b) ==
    [cl EXCEPT !.running = TRUE, !.comm = "INIT_RESPONSE",
               !.type = info.type, !.mux = info.mux, !.buf = b, !.pos = 0,
               !.tog = 0, !.ind = 0, !.timer = TRUE]

sdo_async_start(info) ==
    /\ ~cl.running
    /\ \E b \in AssignedBuffer(info) :
           /\ cl' = Started(info, b)
           /\ sdo_async__send_init(Started(info, b))
    /\ calls' = [calls EXCEPT !.started = @ + 1]

\* Mutant: the context of a stopped transfer is not released.
StopLeaks ==
    /\ cl.running
    /\ cl' = [cl EXCEPT !.timer = FALSE, !.running = FALSE]
    /\ UNCHANGED <<toSrv, calls>>

\* No abort is sent and on_done is not called; free_fn is.
sdo_async_stop ==
    /\ cl.running
    /\ cl' = [cl EXCEPT !.timer = FALSE, !.running = FALSE]
    /\ calls' = [calls EXCEPT !.freed = @ + 1]
    /\ UNCHANGED toSrv

sdo_async__on_timeout ==
    /\ cl.timer
    /\ sdo_async__abort(cl, "TIMEOUT")

(***************************************************************************)
(* sdo_async_feed: one response frame.  The timer is stopped first; each   *)
(* branch starts it again when it sends another request.                   *)
(***************************************************************************)
\* Mutant: the multiplexer is not compared.
AnyMux(c, cf, scs) ==
    IF cf.dlc < 4 THEN "GENERAL"
    ELSE IF cf.cs # scs THEN "INVALID_CS"
    ELSE NoCode

\* The early returns of both init responses, in their order.
InitFault(c, cf, scs) ==
    IF cf.dlc < 4 THEN "GENERAL"
    ELSE IF cf.cs # scs THEN "INVALID_CS"
    ELSE IF ~IgnoreMux /\ cf.mux # c.mux THEN "GENERAL"
    ELSE NoCode

sdo_async__feed_init_dl_response(c, cf) ==
    LET fault == InitFault(c, cf, SDO_SCS_DL_INIT_RES) IN
    \/ fault # NoCode /\ sdo_async__abort(c, fault)
    \/ fault = NoCode /\ sdo_async__is_expediated(c) /\ Succeed(c)
    \/ /\ fault = NoCode
       /\ ~sdo_async__is_expediated(c)
       /\ sdo_async__request_dl_segment([c EXCEPT !.comm = "SEG_RESPONSE"])

\* The size comes from the frame's size field only, never from its length.
sdo_async__handle_expediated_ul(c, cf) ==
    LET size == IF sdo_is_size_indicated(cf) THEN sdo_get_expediated_size(cf)
                ELSE SDO_EXPEDIATED_DATA_SIZE
    IN  Succeed([c EXCEPT !.ind = cf.e, !.buf = SubSeq(cf.data, 1, size)])

sdo_async__handle_init_segmented_ul(c, cf) ==
    LET d == [c EXCEPT !.ind = cf.e] IN
    \/ /\ OutOfMemory
       /\ sdo_is_size_indicated(cf)
       /\ cf.dlc = CAN_MAX_DLC
       /\ sdo_async__abort(d, "NOMEM")
    \/ sdo_async__request_ul_segment([d EXCEPT !.comm = "SEG_RESPONSE"])

sdo_async__feed_init_ul_response(c, cf) ==
    LET fault == InitFault(c, cf, SDO_SCS_UL_INIT_RES) IN
    \/ fault # NoCode /\ sdo_async__abort(c, fault)
    \/ /\ fault = NoCode
       /\ sdo_is_expediated(cf)
       /\ sdo_async__handle_expediated_ul(c, cf)
    \/ /\ fault = NoCode
       /\ ~sdo_is_expediated(cf)
       /\ sdo_async__handle_init_segmented_ul(c, cf)

\* The early returns of both segment responses.  The answer to the last
\* segment is taken whatever its toggle bit.
SegFault(c, cf, scs, last) ==
    IF cf.dlc < 1 THEN "GENERAL"
    ELSE IF cf.cs # scs THEN "INVALID_CS"
    ELSE IF ~last /\ cf.t # c.tog THEN "TOGGLE"
    ELSE NoCode

sdo_async__feed_dl_seg_response(c, cf) ==
    LET last == sdo_async__is_at_end(c)
        fault == SegFault(c, cf, SDO_SCS_DL_SEG_RES, last)
        next == [c EXCEPT !.tog = 1 - @]
    IN  \/ fault # NoCode /\ sdo_async__abort(c, fault)
        \/ fault = NoCode /\ last /\ Succeed(next)
        \/ fault = NoCode /\ ~last /\ sdo_async__request_dl_segment(next)

sdo_async__feed_ul_seg_response(c, cf) ==
    LET last == sdo_is_end_segment(cf)
        fault == SegFault(c, cf, SDO_SCS_UL_SEG_RES, last)
        data == SubSeq(cf.data, 1, sdo_get_segment_size(cf))
        next == [c EXCEPT !.tog = 1 - @, !.buf = @ \o data]
    IN  \/ fault # NoCode /\ sdo_async__abort(c, fault)
        \/ /\ fault = NoCode
           /\ AllocFails(Len(next.buf))
           /\ sdo_async__abort([c EXCEPT !.tog = 1 - @], "NOMEM")
        \/ fault = NoCode /\ last /\ Succeed(next)
        \/ fault = NoCode /\ ~last /\ sdo_async__request_ul_segment(next)

sdo_async_feed(cf) ==
    LET c == [cl EXCEPT !.timer = FALSE] IN
    \/ ~cl.running /\ UNCHANGED clientVars
    \/ /\ cl.running
       /\ cf.cs = SDO_ABORT_CS
       /\ sdo_async__on_done([c EXCEPT !.status = "REMOTE_ABORT",
                                       !.code = cf.code])
       /\ UNCHANGED toSrv
    \/ /\ cl.running
       /\ cf.cs # SDO_ABORT_CS
       /\ cl.comm = "INIT_RESPONSE"
       /\ \/ /\ cl.type = "DOWNLOAD"
             /\ sdo_async__feed_init_dl_response(c, cf)
          \/ /\ cl.type = "UPLOAD"
             /\ sdo_async__feed_init_ul_response(c, cf)
    \/ /\ cl.running
       /\ cf.cs # SDO_ABORT_CS
       /\ cl.comm = "SEG_RESPONSE"
       /\ \/ /\ cl.type = "DOWNLOAD"
             /\ sdo_async__feed_dl_seg_response(c, cf)
          \/ /\ cl.type = "UPLOAD"
             /\ sdo_async__feed_ul_seg_response(c, cf)

\* Every field of the client has its C type.
ClientTypeOK ==
    /\ cl \in SdoClient
    /\ toSrv \in Seq(Frame)
    /\ calls \in Calls
=============================================================================
