------------------------------- MODULE SdoSrv -------------------------------
(***************************************************************************)
(* The SDO server of one node, src/sdo_srv.c, with the on_init and on_done *)
(* callbacks of a virtual node (src/vnode.c).  srv is struct sdo_srv, od   *)
(* the values the node answers uploads with, toCl the frames it has sent   *)
(* and the bus has not yet delivered.                                      *)
(***************************************************************************)
EXTENDS SdoFrame

CONSTANTS Objects,  \* the objects that exist and the value each starts with
          Period,   \* 0x1017, the one object a virtual node lets be written
          Store     \* objects of an application that stores what it is sent,
                    \* like the one in test/unit_sdo_async.c

ASSUME SdoSrvAssumption ==
    /\ DOMAIN Objects \subseteq Mux
    /\ Objects \in [DOMAIN Objects -> Seq(Byte)]
    /\ Period \in Mux
    /\ Period \in DOMAIN Objects => Len(Objects[Period]) = 2
    /\ Store \subseteq DOMAIN Objects \ {Period}

VARIABLES srv, od, toCl

serverVars == <<srv, od, toCl>>

SdoServer ==
    [comm: {"INIT_REQ", "DL_SEG_REQ", "UL_SEG_REQ"},
     type: {"NONE", "UPLOAD", "DOWNLOAD"},
     mux: Mux \union {NoMux},
     buf: Seq(Byte),
     pos: Nat,
     tog: Bit,
     status: {"PENDING", "OK", "LOCAL_ABORT", "REMOTE_ABORT"},
     code: AbortCodes]

sdo_srv_init ==
    /\ srv = [comm |-> "INIT_REQ", type |-> "NONE", mux |-> NoMux,
              buf |-> <<>>, pos |-> 0, tog |-> 0, status |-> "PENDING",
              code |-> NoCode]
    /\ od = Objects
    /\ toCl = <<>>

(***************************************************************************)
(* The callbacks of the application: the abort code they answer with, or   *)
(* NoCode, and what a download leaves in the object.                       *)
(***************************************************************************)
vnode__on_sdo_init(type, mux) ==
    IF mux \in Store \/ (type = "DOWNLOAD" /\ mux = Period) THEN NoCode
    ELSE IF type = "DOWNLOAD" THEN "RO"
    ELSE IF mux \in DOMAIN od THEN NoCode ELSE "NEXIST"

vnode__on_sdo_done(s) ==
    IF s.type = "UPLOAD" \/ s.mux \in Store THEN NoCode
    ELSE IF s.mux # Period \/ Period \notin DOMAIN od THEN "NEXIST"
    ELSE IF Len(s.buf) > 2 THEN "TOO_LONG" ELSE NoCode

\* The heartbeat period is a 16 bit number: byteorder2 widens what it is given.
Stored(mux, d) ==
    IF mux = Period THEN [i \in 1..2 |-> IF i <= Len(d) THEN d[i] ELSE 0]
    ELSE d

vnode__sdo_set(s) ==
    od' = IF s.type = "UPLOAD" THEN od
          ELSE [od EXCEPT ![s.mux] = Stored(s.mux, s.buf)]

(***************************************************************************)
(* Sending, aborting and finishing.                                        *)
(***************************************************************************)
sdo_srv__send(cf) == toCl' = Append(toCl, cf)

sdo_srv_abort(s, code) ==
    /\ srv' = [s EXCEPT !.status = "LOCAL_ABORT", !.code = code,
                        !.comm = "INIT_REQ"]
    /\ sdo_srv__send(sdo_abort(code, s.mux))
    /\ UNCHANGED od

\* Mutant: the answer goes out after an abort as well.
DoneAnswersTwice(s, t, answer) ==
    LET fault == vnode__on_sdo_done(s) IN
    \/ /\ fault # NoCode
       /\ srv' = [s EXCEPT !.status = "LOCAL_ABORT", !.code = fault,
                           !.comm = "INIT_REQ"]
       /\ toCl' = Append(toCl, sdo_abort(fault, s.mux)) \o answer
       /\ UNCHANGED od
    \/ /\ fault = NoCode
       /\ vnode__sdo_set(s)
       /\ srv' = [t EXCEPT !.comm = "INIT_REQ"]
       /\ toCl' = toCl \o answer

\* on_done; if it did not abort, the answer goes out and t is the new state.
sdo_srv__on_done(s, t, answer) ==
    LET fault == vnode__on_sdo_done(s) IN
    \/ fault # NoCode /\ sdo_srv_abort(s, fault)
    \/ /\ fault = NoCode
       /\ vnode__sdo_set(s)
       /\ srv' = [t EXCEPT !.comm = "INIT_REQ"]
       /\ toCl' = toCl \o answer

\* The application's on_done runs for an aborted transfer as well.
sdo_srv__remote_abort(cf) ==
    LET s == [srv EXCEPT !.status = "REMOTE_ABORT", !.comm = "INIT_REQ",
                         !.code = cf.code]
    IN  sdo_srv__on_done(s, s, <<>>)

(***************************************************************************)
(* Initiate requests.                                                      *)
(***************************************************************************)
get_expedited_size(cf) ==
    LET max_size == cf.dlc - SDO_EXPEDIATED_DATA_IDX IN
    IF sdo_is_size_indicated(cf)
    THEN Minimum(sdo_get_expediated_size(cf), max_size) ELSE max_size

sdo_srv__dl_expediated(s, cf) ==
    LET t == [s EXCEPT !.buf = SubSeq(cf.data, 1, get_expedited_size(cf)),
                       !.status = "OK"]
    IN  sdo_srv__on_done(t, t, <<Plain(SDO_SCS_DL_INIT_RES, s.mux)>>)

\* Mutants: what the transfer before left behind is not reset.
InitKeepsBuffer(cf, type) ==
    LET s == [srv EXCEPT !.tog = 0] IN
    IF cf.dlc < 4 THEN s ELSE [s EXCEPT !.mux = cf.mux, !.type = type]
InitKeepsToggle(cf, type) ==
    LET s == [srv EXCEPT !.buf = <<>>] IN
    IF cf.dlc < 4 THEN s ELSE [s EXCEPT !.mux = cf.mux, !.type = type]

\* A short frame is refused before its multiplexer is read.
sdo_srv__init_req(cf, type) ==
    LET s == [srv EXCEPT !.tog = 0, !.buf = <<>>] IN
    IF cf.dlc < 4 THEN s ELSE [s EXCEPT !.mux = cf.mux, !.type = type]

InitReqFault(cf, s) ==
    IF cf.dlc < 4 THEN "GENERAL" ELSE vnode__on_sdo_init(s.type, s.mux)

sdo_srv__dl_init_req(cf) ==
    LET s == sdo_srv__init_req(cf, "DOWNLOAD")
        fault == InitReqFault(cf, s)
    IN  \/ fault # NoCode /\ sdo_srv_abort(s, fault)
        \/ /\ fault = NoCode
           /\ sdo_is_expediated(cf)
           /\ sdo_srv__dl_expediated(s, cf)
        \/ /\ fault = NoCode
           /\ ~sdo_is_expediated(cf)
           /\ srv' = [s EXCEPT !.status = "PENDING", !.comm = "DL_SEG_REQ"]
           /\ sdo_srv__send(Plain(SDO_SCS_DL_INIT_RES, s.mux))
           /\ UNCHANGED od

\* Mutant: the position of the upload before is kept.
ResumeUpload(s) == [s EXCEPT !.status = "PENDING", !.comm = "UL_SEG_REQ"]

BeginUpload(s) ==
    [s EXCEPT !.status = "PENDING", !.comm = "UL_SEG_REQ", !.pos = 0]

\* ul_expediated leaves status as the transfer before left it.
sdo_srv__ul_init_req(cf) ==
    LET s == sdo_srv__init_req(cf, "UPLOAD")
        fault == InitReqFault(cf, s)
        value == od[s.mux]
        t == [s EXCEPT !.buf = value]
    IN  \/ fault # NoCode /\ sdo_srv_abort(s, fault)
        \/ /\ fault = NoCode
           /\ AllocFails(Len(value))
           /\ sdo_srv_abort(s, "NOMEM")
        \/ /\ fault = NoCode
           /\ Len(value) <= SDO_EXPEDIATED_DATA_SIZE
           /\ sdo_srv__on_done(t, t,
                  <<Expedited(SDO_SCS_UL_INIT_RES, s.mux, value)>>)
        \/ /\ fault = NoCode
           /\ Len(value) > SDO_EXPEDIATED_DATA_SIZE
           /\ srv' = BeginUpload(t)
           /\ sdo_srv__send(Indicated(SDO_SCS_UL_INIT_RES, s.mux))
           /\ UNCHANGED od

(***************************************************************************)
(* Segment requests.                                                       *)
(***************************************************************************)
\* Bit 0, which in a segment marks the last one, is read as "size indicated".
get_segment_size(cf) ==
    LET max_size == cf.dlc - SDO_SEGMENT_IDX IN
    IF sdo_is_size_indicated(cf)
    THEN Minimum(sdo_get_segment_size(cf), max_size) ELSE max_size

SegReqFault(cf, comm) ==
    IF srv.comm # comm \/ cf.dlc < 1 THEN "GENERAL"
    ELSE IF srv.tog # cf.t THEN "TOGGLE"
    ELSE NoCode

sdo_srv__dl_seg_req(cf) ==
    LET fault == SegReqFault(cf, "DL_SEG_REQ")
        data == SubSeq(cf.data, 1, get_segment_size(cf))
        s == [srv EXCEPT !.buf = @ \o data]
        toggled(t) == [t EXCEPT !.tog = 1 - @]
        answer == BareSegment(SDO_SCS_DL_SEG_RES, srv.tog)
    IN  \/ fault # NoCode /\ sdo_srv_abort(srv, fault)
        \/ /\ fault = NoCode
           /\ AllocFails(Len(s.buf))
           /\ sdo_srv_abort(srv, "NOMEM")
        \/ /\ fault = NoCode
           /\ sdo_is_end_segment(cf)
           /\ LET t == [s EXCEPT !.status = "OK"]
              IN  sdo_srv__on_done(t, toggled(t), <<answer>>)
        \/ /\ fault = NoCode
           /\ ~sdo_is_end_segment(cf)
           /\ srv' = toggled(s)
           /\ sdo_srv__send(answer)
           /\ UNCHANGED od

UploadSize(s) == Minimum(SDO_SEGMENT_MAX_SIZE, Len(s.buf) - s.pos)

sdo_srv__ul_seg_req(cf) ==
    LET fault == SegReqFault(cf, "UL_SEG_REQ")
        size == UploadSize(srv)
        s == [srv EXCEPT !.pos = @ + size, !.tog = 1 - @]
        last == s.pos >= Len(s.buf)
        answer == Segment(SDO_SCS_UL_SEG_RES, srv.tog,
                          SubSeq(srv.buf, srv.pos + 1, srv.pos + size), last)
    IN  \/ fault # NoCode /\ sdo_srv_abort(srv, fault)
        \/ /\ fault = NoCode
           /\ last
           /\ LET t == [s EXCEPT !.status = "OK"]
              IN  sdo_srv__on_done(t, t, <<answer>>)
        \/ /\ fault = NoCode
           /\ ~last
           /\ srv' = s
           /\ sdo_srv__send(answer)
           /\ UNCHANGED od

sdo_srv_feed(cf) ==
    \/ cf.cs = SDO_ABORT_CS /\ sdo_srv__remote_abort(cf)
    \/ cf.cs = SDO_CCS_DL_INIT_REQ /\ sdo_srv__dl_init_req(cf)
    \/ cf.cs = SDO_CCS_DL_SEG_REQ /\ sdo_srv__dl_seg_req(cf)
    \/ cf.cs = SDO_CCS_UL_INIT_REQ /\ sdo_srv__ul_init_req(cf)
    \/ cf.cs = SDO_CCS_UL_SEG_REQ /\ sdo_srv__ul_seg_req(cf)
    \/ cf.cs > SDO_ABORT_CS /\ sdo_srv_abort(srv, "INVALID_CS")
=============================================================================
