---------------------------- MODULE VnodeProofs ----------------------------
(***************************************************************************)
(* Proofs about the virtual nodes of vnode.c and the SDO server of         *)
(* sdo_srv.c, for any number of nodes, any dictionary and whatever frames  *)
(* a client sends: the heartbeat timers (HeartbeatTimer), the transfers    *)
(* (TransfersAccepted) and the answers (OneAnswer).                        *)
(***************************************************************************)
EXTENDS Vnode, TLAPS

-----------------------------------------------------------------------------
(* Frames. *)

\* An array of bytes is a sequence of them.
LEMMA TupleOfBytes ==
    ASSUME NEW n \in Nat, NEW d \in [1..n -> Byte]
    PROVE  d \in Seq(Byte) /\ Len(d) = n
  OBVIOUS

\* A sequence of at most seven bytes as the data of a frame.
LEMMA PadData ==
    ASSUME NEW d \in Seq(Byte)
    PROVE  Pad(d) \in [1..7 -> Byte]
  BY SdoFrameAssumption DEF Pad

\* An initiate frame without data is a frame, and so are an abort and a segment
\* without data.
LEMMA InitiateFrames ==
    ASSUME NEW cs \in 0..7, NEW mux \in Mux \union {NoMux}
    PROVE  /\ Indicated(cs, mux) \in Frame
           /\ Plain(cs, mux) \in Frame
<1>1. Pad(<<>>) \in [1..7 -> Byte]
  BY SdoFrameAssumption DEF Pad
<1> QED
  BY <1>1 DEF Indicated, Plain, MakeFrame, Frame, Bit, AbortCodes, NoCode, CAN_MAX_DLC

LEMMA AbortFrame ==
    ASSUME NEW mux \in Mux \union {NoMux}, NEW code \in AbortCodes
    PROVE  sdo_abort(code, mux) \in Frame
<1>1. Zeros(7) \in [1..7 -> Byte]
  BY SdoFrameAssumption DEF Zeros
<1> QED
  BY <1>1 DEF sdo_abort, Frame, Bit, CAN_MAX_DLC, SDO_ABORT_CS

LEMMA BareFrame ==
    ASSUME NEW cs \in 0..7, NEW tog \in Bit
    PROVE  BareSegment(cs, tog) \in Frame
<1>1. Pad(<<>>) \in [1..7 -> Byte]
  BY SdoFrameAssumption DEF Pad
<1> QED
  BY <1>1 DEF BareSegment, MakeFrame, Frame, Bit, NoMux, AbortCodes, NoCode

\* The toggle bit of a server, turned.
LEMMA Toggled ==
    ASSUME NEW s \in SdoServer
    PROVE  s.tog \in Bit /\ 1 - s.tog \in Bit
<1>1. s.tog \in Bit
  BY DEF SdoServer
<1> QED
  BY <1>1 DEF Bit

\* A segment of at most seven bytes is a frame.
LEMMA SegmentFrame ==
    ASSUME NEW cs \in 0..7, NEW tog \in Bit, NEW d \in Seq(Byte), NEW last,
           Len(d) <= 7
    PROVE  Segment(cs, tog, d, last) \in Frame
<1>1. PICK n \in Nat : n = Len(d) /\ n <= 7
  OBVIOUS
<1>2. 7 - n \in 0..7
  BY <1>1, SMTT(30)
<1>3. 1 + n \in 0..8
  BY <1>1
<1>4. Pad(d) \in [1..7 -> Byte]
  BY PadData
<1> QED
  BY <1>1, <1>2, <1>3, <1>4 DEF Segment, MakeFrame, Frame, Bit, NoMux, AbortCodes, NoCode,
     SDO_SEGMENT_IDX

\* The answer to an upload of at most four bytes is a frame.
LEMMA ExpeditedFrame ==
    ASSUME NEW mux \in Mux \union {NoMux}, NEW d \in Seq(Byte), Len(d) <= 4
    PROVE  Expedited(SDO_SCS_UL_INIT_RES, mux, d) \in Frame
<1>1. PICK n \in Nat : n = Len(d) /\ n <= 4
  OBVIOUS
<1>2. n = 0 \/ n = 1 \/ n = 2 \/ n = 3 \/ n = 4
  BY <1>1
<1>3. /\ (4 - n) \div 4 \in 0..1 /\ 2 * ((4 - n) % 4) + 1 \in 0..7 /\ 4 + n \in 0..8
  BY <1>2
<1>4. Pad(d) \in [1..7 -> Byte]
  BY PadData
<1>5. Expedited(SDO_SCS_UL_INIT_RES, mux, d) =
        [cs |-> 2, t |-> (4 - n) \div 4, n |-> 2 * ((4 - n) % 4) + 1, e |-> 1,
         mux |-> mux, data |-> Pad(d), dlc |-> 4 + n, code |-> NoCode]
  BY <1>1 DEF Expedited, MakeFrame, SDO_SCS_UL_INIT_RES, SDO_EXPEDIATED_DATA_IDX
<1> QED
  BY <1>3, <1>4, <1>5 DEF Frame, Bit, AbortCodes, NoCode

\* What can be read from the data of a frame is a sequence of bytes.
LEMMA FrameData ==
    ASSUME NEW cf \in Frame, NEW k \in 0..7
    PROVE  SubSeq(cf.data, 1, k) \in Seq(Byte)
<1>1. cf.data \in [1..7 -> Byte]
  BY DEF Frame
<1>2. cf.data \in Seq(Byte) /\ Len(cf.data) = 7
  BY <1>1, TupleOfBytes, Zenon
<1> QED
  BY <1>2

-----------------------------------------------------------------------------
(* The server. *)

\* What makes the properties of the server inductive: the period has two bytes,
\* and before the first request there is no object that an abort could store in.
ServerInv ==
    /\ srv \in SdoServer
    /\ od \in [DOMAIN Objects -> Seq(Byte)]
    /\ toCl \in Seq(Frame)
    /\ Period \in DOMAIN Objects => Len(od[Period]) = 2
    /\ srv.type = "NONE" => srv.mux = NoMux
    /\ UploadFromObject
    /\ DownloadWasAccepted
    /\ ReadOnlyKept

PeriodKept == Period \in DOMAIN Objects => od'[Period] = od[Period]

Answered ==
    \/ Len(toCl') = 1
    \/ toCl' = <<>> /\ srv'.status = "REMOTE_ABORT"

\* What a frame that is fed leads to.
Fed == ServerInv' /\ (PeriodWritten \/ PeriodKept) /\ Answered

\* A server in the state of a transfer: there is a type if there is a multiplexer.
Transfer(s) == s \in SdoServer /\ (s.type = "NONE" => s.mux = NoMux)

LEMMA OneFrame ==
    ASSUME toCl = <<>>, NEW cf \in Frame, toCl' = Append(toCl, cf)
    PROVE  toCl' \in Seq(Frame) /\ Len(toCl') = 1
  OBVIOUS

LEMMA AbortFed ==
    ASSUME ServerInv, toCl = <<>>, NEW s, Transfer(s), NEW code \in AbortCodes,
           sdo_srv_abort(s, code)
    PROVE  Fed
<1>0. s \in SdoServer /\ (s.type = "NONE" => s.mux = NoMux)
  BY DEF Transfer
<1>1. srv' = [s EXCEPT !.status = "LOCAL_ABORT", !.code = code, !.comm = "INIT_REQ"]
  BY DEF sdo_srv_abort
<1>2. srv' \in SdoServer
  BY <1>0, <1>1, Zenon DEF SdoServer
<1>3. srv'.comm = "INIT_REQ" /\ srv'.type = s.type /\ srv'.mux = s.mux
  BY <1>0, <1>1 DEF SdoServer
<1>4. sdo_abort(code, s.mux) \in Frame
  <2>1. s.mux \in Mux \union {NoMux}
    BY <1>0 DEF SdoServer
  <2> QED
    BY <2>1, AbortFrame
<1>5. toCl' \in Seq(Frame) /\ Len(toCl') = 1
  BY <1>4, OneFrame DEF sdo_srv_abort, sdo_srv__send
<1>6. od' = od
  BY DEF sdo_srv_abort
<1>7. ServerInv'
  BY <1>0, <1>2, <1>3, <1>5, <1>6
  DEF ServerInv, UploadFromObject, DownloadWasAccepted, ReadOnlyKept
<1> QED
  BY <1>5, <1>6, <1>7 DEF Fed, PeriodKept, Answered

\* The end of a transfer, in the state s that on_done sees; the answer then goes
\* out with state t.
LEMMA DoneFed ==
    ASSUME ServerInv, toCl = <<>>, NEW s, NEW t, NEW answer \in Seq(Frame),
           Transfer(s), t \in SdoServer, t.type = s.type, t.mux = s.mux,
           s.type = "UPLOAD" \/ t.status \in {"OK", "REMOTE_ABORT"},
           Len(answer) = 1 \/ (answer = <<>> /\ t.status = "REMOTE_ABORT"),
           sdo_srv__on_done(s, t, answer)
    PROVE  Fed
<1>0. s \in SdoServer /\ (s.type = "NONE" => s.mux = NoMux)
  BY DEF Transfer
<1>1. CASE vnode__on_sdo_done(s) # NoCode
  <2>1. vnode__on_sdo_done(s) \in AbortCodes
    BY DEF vnode__on_sdo_done, AbortCodes, NoCode
  <2>2. sdo_srv_abort(s, vnode__on_sdo_done(s))
    BY <1>1 DEF sdo_srv__on_done
  <2> QED
    BY <2>1, <2>2, AbortFed
<1>2. CASE vnode__on_sdo_done(s) = NoCode
  <2>1. /\ srv' = [t EXCEPT !.comm = "INIT_REQ"] /\ toCl' = toCl \o answer
        /\ vnode__sdo_set(s)
    BY <1>2 DEF sdo_srv__on_done
  <2>2. srv' \in SdoServer
    BY <2>1 DEF SdoServer
  <2>3. /\ srv'.comm = "INIT_REQ" /\ srv'.type = s.type /\ srv'.mux = s.mux
        /\ srv'.status = t.status
    BY <2>1 DEF SdoServer
  <2>4. toCl' = answer
    BY <2>1
  <2>5. Answered
    BY <2>3, <2>4 DEF Answered
  <2>6. \/ s.type = "UPLOAD" /\ od' = od
        \/ s.type # "UPLOAD" /\ s.mux \in Store
           /\ od' = [od EXCEPT ![s.mux] = Stored(s.mux, s.buf)]
        \/ s.type # "UPLOAD" /\ s.mux = Period /\ Period \in DOMAIN od
           /\ od' = [od EXCEPT ![s.mux] = Stored(s.mux, s.buf)]
    BY <1>2, <2>1 DEF vnode__on_sdo_done, vnode__sdo_set, NoCode
  <2>7. /\ od \in [DOMAIN Objects -> Seq(Byte)] /\ ReadOnlyKept
        /\ Period \in DOMAIN Objects => Len(od[Period]) = 2
    BY DEF ServerInv
  <2>8. s.buf \in Seq(Byte)
    BY <1>0 DEF SdoServer
  <2>9. /\ od' \in [DOMAIN Objects -> Seq(Byte)] /\ ReadOnlyKept'
        /\ Period \in DOMAIN Objects => Len(od'[Period]) = 2
        /\ PeriodWritten \/ PeriodKept
    <3>1. CASE s.type = "UPLOAD" /\ od' = od
      BY <2>7, <3>1 DEF ReadOnlyKept, PeriodKept
    <3>2. CASE s.type # "UPLOAD" /\ s.mux \in Store
               /\ od' = [od EXCEPT ![s.mux] = Stored(s.mux, s.buf)]
      <4>1. s.mux # Period /\ s.mux \in DOMAIN Objects
        BY <3>2, SdoSrvAssumption
      <4>2. Stored(s.mux, s.buf) = s.buf
        BY <4>1 DEF Stored
      <4> QED
        BY <2>7, <2>8, <3>2, <4>1, <4>2 DEF ReadOnlyKept, PeriodKept
    <3>3. CASE s.type # "UPLOAD" /\ s.mux = Period /\ Period \in DOMAIN od
               /\ od' = [od EXCEPT ![s.mux] = Stored(s.mux, s.buf)]
      <4> PICK d : d = Stored(s.mux, s.buf)
        OBVIOUS
      <4>1. d = [i \in 1..2 |-> IF i <= Len(s.buf) THEN s.buf[i] ELSE 0]
        BY <3>3 DEF Stored
      <4>2. d \in [1..2 -> Byte]
        BY <2>8, <4>1, SdoFrameAssumption
      <4>3. d \in Seq(Byte) /\ Len(d) = 2
        BY <4>2
      <4>4. s.type = "DOWNLOAD"
        BY <1>0, <3>3, SdoSrvAssumption, SdoFrameAssumption DEF SdoServer
      <4>5. PeriodWritten
        BY <2>3, <3>3, <4>4 DEF PeriodWritten
      <4> QED
        BY <2>7, <3>3, <4>3, <4>5 DEF ReadOnlyKept
    <3> QED
      BY <2>6, <3>1, <3>2, <3>3
  <2>10. ServerInv'
    BY <1>0, <2>2, <2>3, <2>4, <2>9 DEF ServerInv, UploadFromObject, DownloadWasAccepted
  <2> QED
    BY <2>5, <2>9, <2>10 DEF Fed
<1> QED
  BY <1>1, <1>2

\* A transfer begins or goes on: s is its new state.
LEMMA PendingFed ==
    ASSUME ServerInv, toCl = <<>>, NEW cf \in Frame,
           sdo_srv__send(cf), od' = od,
           Transfer(srv'),
           UploadFromObject', DownloadWasAccepted'
    PROVE  Fed
<1>1. toCl' \in Seq(Frame) /\ Len(toCl') = 1
  BY OneFrame DEF sdo_srv__send
<1>2. ServerInv'
  BY <1>1 DEF ServerInv, Transfer, ReadOnlyKept
<1> QED
  BY <1>1, <1>2 DEF Fed, PeriodKept, Answered

\* The state that a request to begin a transfer leads to.
LEMMA InitReq ==
    ASSUME ServerInv, NEW cf \in Frame, NEW type \in {"UPLOAD", "DOWNLOAD"},
           NEW s, s = sdo_srv__init_req(cf, type)
    PROVE  /\ Transfer(s)
           /\ InitReqFault(cf, s) \in AbortCodes
           /\ InitReqFault(cf, s) = NoCode =>
                 /\ s.type = type
                 /\ cf.dlc \in 4..8
                 /\ type = "UPLOAD" => s.mux \in DOMAIN od
                 /\ type = "DOWNLOAD" => s.mux \in Store \union {Period}
<1>0. srv \in SdoServer /\ (srv.type = "NONE" => srv.mux = NoMux)
  BY DEF ServerInv
<1>f. cf.dlc \in 0..8 /\ cf.mux \in Mux \union {NoMux}
  BY DEF Frame
<1>e. 0 \in Bit /\ <<>> \in Seq(Byte)
  BY DEF Bit
<1>d. DOMAIN od = DOMAIN Objects /\ Store \subseteq DOMAIN od
  BY SdoSrvAssumption DEF ServerInv
<1>1. CASE cf.dlc < 4
  <2>1. s = [srv EXCEPT !.tog = 0, !.buf = <<>>]
    BY <1>1 DEF sdo_srv__init_req
  <2>2. s \in SdoServer /\ s.type = srv.type /\ s.mux = srv.mux
    BY <1>0, <1>e, <2>1, Zenon DEF SdoServer
  <2>3. InitReqFault(cf, s) = "GENERAL"
    BY <1>1 DEF InitReqFault
  <2> QED
    BY <1>0, <2>2, <2>3 DEF Transfer, AbortCodes, NoCode
<1>2. CASE ~(cf.dlc < 4)
  <2>r. PICK r : r = [srv EXCEPT !.tog = 0, !.buf = <<>>]
    OBVIOUS
  <2>0. r \in SdoServer
    BY <1>0, <1>e, <2>r, Zenon DEF SdoServer
  <2>1. s = [r EXCEPT !.mux = cf.mux, !.type = type]
    BY <1>2, <2>r DEF sdo_srv__init_req
  <2>2. s \in SdoServer /\ s.type = type
    BY <1>f, <2>0, <2>1, Zenon DEF SdoServer
  <2>3. InitReqFault(cf, s) = vnode__on_sdo_init(type, s.mux)
    BY <1>2, <2>2 DEF InitReqFault
  <2>4. cf.dlc \in 4..8
    BY <1>f, <1>2
  <2> QED
    BY <1>d, <2>2, <2>3, <2>4 DEF Transfer, AbortCodes, NoCode, vnode__on_sdo_init
<1> QED
  BY <1>1, <1>2

LEMMA DownloadFed ==
    ASSUME ServerInv, toCl = <<>>, NEW cf \in Frame, sdo_srv__dl_init_req(cf)
    PROVE  Fed
<1> PICK s : s = sdo_srv__init_req(cf, "DOWNLOAD")
  OBVIOUS
<1> PICK fault : fault = InitReqFault(cf, s)
  OBVIOUS
<1>1. /\ Transfer(s) /\ fault \in AbortCodes
      /\ fault = NoCode => /\ s.type = "DOWNLOAD" /\ cf.dlc \in 4..8
                           /\ s.mux \in Store \union {Period}
  BY InitReq
<1>2. s \in SdoServer
  BY <1>1 DEF Transfer
<1>p. Plain(SDO_SCS_DL_INIT_RES, s.mux) \in Frame
  <2>1. s.mux \in Mux \union {NoMux}
    BY <1>2 DEF SdoServer
  <2> QED
    BY <2>1, InitiateFrames DEF SDO_SCS_DL_INIT_RES
<1>3. CASE fault # NoCode /\ sdo_srv_abort(s, fault)
  BY <1>1, <1>3, AbortFed
<1>4. CASE fault = NoCode /\ sdo_srv__dl_expediated(s, cf)
  <2> PICK t : t = [s EXCEPT !.buf = SubSeq(cf.data, 1, get_expedited_size(cf)),
                             !.status = "OK"]
    OBVIOUS
  <2>1. get_expedited_size(cf) \in 0..7
    <3>1. cf.n \in 0..7 /\ cf.dlc \in 4..8
      BY <1>1, <1>4 DEF Frame
    <3>2. cf.dlc - 4 \in 0..4 /\ sdo_get_expediated_size(cf) \in 0..4
      BY <3>1 DEF sdo_get_expediated_size, SDO_EXPEDIATED_DATA_SIZE
    <3> QED
      BY <3>2 DEF get_expedited_size, Minimum, SDO_EXPEDIATED_DATA_IDX
  <2>2. SubSeq(cf.data, 1, get_expedited_size(cf)) \in Seq(Byte)
    BY <2>1, FrameData
  <2>3. t \in SdoServer /\ t.type = "DOWNLOAD" /\ t.mux = s.mux /\ t.status = "OK"
    BY <1>1, <1>2, <1>4, <2>2, Zenon DEF SdoServer
  <2>4. sdo_srv__on_done(t, t, <<Plain(SDO_SCS_DL_INIT_RES, s.mux)>>)
    BY <1>4 DEF sdo_srv__dl_expediated
  <2>5. Transfer(t)
    BY <2>3 DEF Transfer
  <2>6. /\ <<Plain(SDO_SCS_DL_INIT_RES, s.mux)>> \in Seq(Frame)
        /\ Len(<<Plain(SDO_SCS_DL_INIT_RES, s.mux)>>) = 1
    BY <1>p
  <2> QED
    BY <2>3, <2>4, <2>5, <2>6, DoneFed, Zenon
<1>5. CASE /\ fault = NoCode
           /\ srv' = [s EXCEPT !.status = "PENDING", !.comm = "DL_SEG_REQ"]
           /\ sdo_srv__send(Plain(SDO_SCS_DL_INIT_RES, s.mux))
           /\ UNCHANGED od
  <2>1. /\ srv' \in SdoServer /\ srv'.type = "DOWNLOAD" /\ srv'.mux = s.mux
        /\ srv'.comm = "DL_SEG_REQ"
    BY <1>1, <1>2, <1>5, Zenon DEF SdoServer
  <2>2. Transfer(srv') /\ UploadFromObject' /\ DownloadWasAccepted'
    BY <1>1, <1>5, <2>1 DEF Transfer, UploadFromObject, DownloadWasAccepted
  <2> QED
    BY <1>p, <1>5, <2>2, PendingFed
<1> QED
  BY <1>3, <1>4, <1>5 DEF sdo_srv__dl_init_req

LEMMA UploadFed ==
    ASSUME ServerInv, toCl = <<>>, NEW cf \in Frame, sdo_srv__ul_init_req(cf)
    PROVE  Fed
<1> PICK s : s = sdo_srv__init_req(cf, "UPLOAD")
  OBVIOUS
<1> PICK fault : fault = InitReqFault(cf, s)
  OBVIOUS
<1> PICK value : value = od[s.mux]
  OBVIOUS
<1> PICK t : t = [s EXCEPT !.buf = value]
  BY Zenon
<1>1. /\ Transfer(s) /\ fault \in AbortCodes
      /\ fault = NoCode => s.type = "UPLOAD" /\ s.mux \in DOMAIN od
  BY InitReq
<1>2. s \in SdoServer
  BY <1>1 DEF Transfer
<1>m. s.mux \in Mux \union {NoMux}
  BY <1>2 DEF SdoServer
<1>3. fault = NoCode =>
        /\ value \in Seq(Byte) /\ s.mux \in DOMAIN od
        /\ t \in SdoServer /\ t.type = "UPLOAD" /\ t.mux = s.mux /\ t.buf = value
        /\ Transfer(t)
  <2> SUFFICES ASSUME fault = NoCode
               PROVE  /\ value \in Seq(Byte) /\ s.mux \in DOMAIN od
                      /\ t \in SdoServer /\ t.type = "UPLOAD" /\ t.mux = s.mux
                      /\ t.buf = value /\ Transfer(t)
    OBVIOUS
  <2>1. value \in Seq(Byte)
    BY <1>1 DEF ServerInv
  <2>2. t \in SdoServer /\ t.type = "UPLOAD" /\ t.mux = s.mux /\ t.buf = value
    BY <1>1, <1>2, <2>1 DEF SdoServer
  <2> QED
    BY <1>1, <2>1, <2>2 DEF Transfer
<1>4. CASE fault # NoCode /\ sdo_srv_abort(s, fault)
  BY <1>1, <1>4, AbortFed
<1>5. CASE sdo_srv_abort(s, "NOMEM")
  BY <1>1, <1>5, AbortFed DEF AbortCodes
<1>6. CASE /\ fault = NoCode
           /\ Len(value) <= SDO_EXPEDIATED_DATA_SIZE
           /\ sdo_srv__on_done(t, t, <<Expedited(SDO_SCS_UL_INIT_RES, s.mux, value)>>)
  <2>1. Expedited(SDO_SCS_UL_INIT_RES, s.mux, value) \in Frame
    BY <1>m, <1>3, <1>6, ExpeditedFrame DEF SDO_EXPEDIATED_DATA_SIZE
  <2>2. /\ <<Expedited(SDO_SCS_UL_INIT_RES, s.mux, value)>> \in Seq(Frame)
        /\ Len(<<Expedited(SDO_SCS_UL_INIT_RES, s.mux, value)>>) = 1
    BY <2>1
  <2> QED
    BY <1>3, <1>6, <2>2, DoneFed, Zenon
<1>7. CASE /\ fault = NoCode
           /\ Len(value) > SDO_EXPEDIATED_DATA_SIZE
           /\ srv' = BeginUpload(t)
           /\ sdo_srv__send(Indicated(SDO_SCS_UL_INIT_RES, s.mux))
           /\ UNCHANGED od
  <2>1. Indicated(SDO_SCS_UL_INIT_RES, s.mux) \in Frame
    BY <1>m, InitiateFrames DEF SDO_SCS_UL_INIT_RES
  <2>2. /\ srv' \in SdoServer /\ srv'.type = "UPLOAD" /\ srv'.mux = s.mux
        /\ srv'.comm = "UL_SEG_REQ" /\ srv'.pos = 0 /\ srv'.buf = value
    BY <1>3, <1>7, ZenonT(30) DEF SdoServer, BeginUpload
  <2>3. 0 < Len(value)
    BY <1>3, <1>7 DEF SDO_EXPEDIATED_DATA_SIZE
  <2>4. Transfer(srv') /\ UploadFromObject' /\ DownloadWasAccepted'
    BY <1>3, <1>7, <2>2, <2>3 DEF Transfer, UploadFromObject, DownloadWasAccepted
  <2> QED
    BY <1>7, <2>1, <2>4, PendingFed
<1> QED
  BY <1>4, <1>5, <1>6, <1>7 DEF sdo_srv__ul_init_req

LEMMA SegReq ==
    ASSUME ServerInv, NEW cf \in Frame, NEW comm
    PROVE  /\ SegReqFault(cf, comm) \in AbortCodes
           /\ SegReqFault(cf, comm) = NoCode => srv.comm = comm /\ cf.dlc \in 1..8
<1>1. cf.dlc \in 0..8
  BY DEF Frame
<1> QED
  BY <1>1 DEF SegReqFault, AbortCodes, NoCode

LEMMA DownloadSegmentFed ==
    ASSUME ServerInv, toCl = <<>>, NEW cf \in Frame, sdo_srv__dl_seg_req(cf)
    PROVE  Fed
<1> PICK fault : fault = SegReqFault(cf, "DL_SEG_REQ")
  OBVIOUS
<1> PICK data : data = SubSeq(cf.data, 1, get_segment_size(cf))
  BY Zenon
<1> PICK buf : buf = srv.buf \o data
  BY Zenon
<1> PICK s : s = [srv EXCEPT !.buf = buf]
  BY Zenon
<1> PICK answer : answer = BareSegment(SDO_SCS_DL_SEG_RES, srv.tog)
  OBVIOUS
<1>0. srv \in SdoServer /\ Transfer(srv) /\ DownloadWasAccepted
  BY DEF ServerInv, Transfer
<1>1. fault \in AbortCodes /\ (fault = NoCode => srv.comm = "DL_SEG_REQ" /\ cf.dlc \in 1..8)
  BY SegReq
<1>2. answer \in Frame
  <2>1. srv.tog \in Bit
    BY <1>0 DEF SdoServer
  <2> QED
    BY <2>1, BareFrame DEF SDO_SCS_DL_SEG_RES
<1>3. <<answer>> \in Seq(Frame) /\ Len(<<answer>>) = 1
  BY <1>2
<1>4. fault = NoCode =>
        /\ s \in SdoServer /\ s.type = "DOWNLOAD" /\ s.mux = srv.mux
        /\ s.mux \in Store \union {Period} /\ s.comm = "DL_SEG_REQ"
  <2> SUFFICES ASSUME fault = NoCode
               PROVE  /\ s \in SdoServer /\ s.type = "DOWNLOAD" /\ s.mux = srv.mux
                      /\ s.mux \in Store \union {Period} /\ s.comm = "DL_SEG_REQ"
    OBVIOUS
  <2>1. get_segment_size(cf) \in 0..7
    <3>1. cf.n \in 0..7 /\ cf.dlc \in 1..8
      BY <1>1 DEF Frame
    <3>2. cf.dlc - 1 \in 0..7 /\ sdo_get_segment_size(cf) \in 0..7
      BY <3>1 DEF sdo_get_segment_size, SDO_SEGMENT_MAX_SIZE
    <3> QED
      BY <3>2 DEF get_segment_size, Minimum, SDO_SEGMENT_IDX
  <2>2. data \in Seq(Byte)
    BY <2>1, FrameData
  <2>3. buf \in Seq(Byte)
    <3>1. srv.buf \in Seq(Byte)
      BY <1>0 DEF SdoServer
    <3> QED
      BY <2>2, <3>1
  <2>4. /\ s \in SdoServer /\ s.type = srv.type /\ s.mux = srv.mux
        /\ s.comm = srv.comm
    BY <1>0, <2>3, Zenon DEF SdoServer
  <2> QED
    BY <1>0, <1>1, <2>4 DEF DownloadWasAccepted
<1>5. CASE fault # NoCode /\ sdo_srv_abort(srv, fault)
  BY <1>0, <1>1, <1>5, AbortFed
<1>6. CASE sdo_srv_abort(srv, "NOMEM")
  BY <1>0, <1>6, AbortFed DEF AbortCodes
<1>7. CASE /\ fault = NoCode
           /\ sdo_srv__on_done([s EXCEPT !.status = "OK"],
                 [[s EXCEPT !.status = "OK"] EXCEPT !.tog = 1 - @], <<answer>>)
  <2>t. PICK t : t = [s EXCEPT !.status = "OK"]
    OBVIOUS
  <2>v. PICK v : v = 1 - t.tog
    OBVIOUS
  <2>u. PICK u : u = [t EXCEPT !.tog = v]
    BY Zenon
  <2>1. /\ t \in SdoServer /\ t.type = "DOWNLOAD" /\ t.mux = s.mux /\ t.status = "OK"
    BY <1>4, <1>7, <2>t, Zenon DEF SdoServer
  <2>2. v \in Bit
    BY <2>1, <2>v, Toggled
  <2>3. u \in SdoServer /\ u.type = t.type /\ u.mux = t.mux /\ u.status = "OK"
    BY <2>1, <2>2, <2>u, Zenon DEF SdoServer
  <2>4. Transfer(t)
    BY <2>1 DEF Transfer
  <2>5. sdo_srv__on_done(t, u, <<answer>>)
    BY <1>7, <2>t, <2>v, <2>u
  <2> QED
    BY <1>3, <2>1, <2>3, <2>4, <2>5, DoneFed, Zenon
<1>8. CASE /\ fault = NoCode
           /\ srv' = [s EXCEPT !.tog = 1 - @]
           /\ sdo_srv__send(answer)
           /\ UNCHANGED od
  <2>1. 1 - s.tog \in Bit
    BY <1>4, <1>8, Toggled, Zenon
  <2>2. /\ srv' \in SdoServer /\ srv'.type = "DOWNLOAD" /\ srv'.mux = s.mux
        /\ srv'.comm = "DL_SEG_REQ"
    BY <1>4, <1>8, <2>1, Zenon DEF SdoServer
  <2>3. Transfer(srv') /\ UploadFromObject' /\ DownloadWasAccepted'
    BY <1>4, <1>8, <2>2 DEF Transfer, UploadFromObject, DownloadWasAccepted
  <2> QED
    BY <1>2, <1>8, <2>3, PendingFed
<1> QED
  BY <1>5, <1>6, <1>7, <1>8 DEF sdo_srv__dl_seg_req

LEMMA UploadSegmentFed ==
    ASSUME ServerInv, toCl = <<>>, NEW cf \in Frame, sdo_srv__ul_seg_req(cf)
    PROVE  Fed
<1> PICK fault : fault = SegReqFault(cf, "UL_SEG_REQ")
  OBVIOUS
<1>z. PICK size : size = UploadSize(srv)
  OBVIOUS
<1>s. PICK s : s = [srv EXCEPT !.pos = @ + size, !.tog = 1 - @]
  OBVIOUS
<1>d. PICK data : data = SubSeq(srv.buf, srv.pos + 1, srv.pos + size)
  BY Zenon
<1>a. PICK answer : answer = Segment(SDO_SCS_UL_SEG_RES, srv.tog, data, s.pos >= Len(s.buf))
  OBVIOUS
<1>0. srv \in SdoServer /\ Transfer(srv) /\ UploadFromObject
  BY DEF ServerInv, Transfer
<1>1. fault \in AbortCodes /\ (fault = NoCode => srv.comm = "UL_SEG_REQ")
  BY SegReq
<1>2. fault = NoCode =>
        /\ s \in SdoServer /\ s.type = "UPLOAD" /\ s.mux = srv.mux /\ s.buf = srv.buf
        /\ s.comm = "UL_SEG_REQ" /\ s.mux \in DOMAIN od /\ s.buf = od[s.mux]
        /\ answer \in Frame
  <2> SUFFICES ASSUME fault = NoCode
               PROVE  /\ s \in SdoServer /\ s.type = "UPLOAD" /\ s.mux = srv.mux
                      /\ s.buf = srv.buf
                      /\ s.comm = "UL_SEG_REQ" /\ s.mux \in DOMAIN od
                      /\ s.buf = od[s.mux]
                      /\ answer \in Frame
    OBVIOUS
  <2>1. srv.pos \in Nat /\ srv.tog \in Bit /\ srv.buf \in Seq(Byte)
    BY <1>0 DEF SdoServer
  <2>2. /\ srv.type = "UPLOAD" /\ srv.pos < Len(srv.buf) /\ srv.mux \in DOMAIN od
        /\ srv.buf = od[srv.mux] /\ srv.comm = "UL_SEG_REQ"
    BY <1>0, <1>1 DEF UploadFromObject
  <2>n. PICK n, p : n \in Nat /\ p \in Nat /\ n = Len(srv.buf) /\ p = srv.pos /\ p < n
    BY <2>1, <2>2
  <2>k. PICK k : k \in Nat /\ k = n - p /\ k >= 1 /\ p + k = n
    BY <2>n
  <2>m. size = IF 7 < k THEN 7 ELSE k
    BY <1>z, <2>n, <2>k DEF Minimum, UploadSize, SDO_SEGMENT_MAX_SIZE
  <2>3. size \in 1..7 /\ p + size <= n
    <3>1. size \in 1..7 /\ size <= k
      BY <2>k, <2>m
    <3> QED
      BY <2>n, <2>k, <3>1
  <2>4. data \in Seq(Byte) /\ Len(data) = size
    <3>1. \A b \in Seq(Byte), i \in Nat, l \in Nat :
             i + l <= Len(b) => /\ SubSeq(b, i + 1, i + l) \in Seq(Byte)
                                /\ Len(SubSeq(b, i + 1, i + l)) = l
      OBVIOUS
    <3> QED
      <4>1. size \in Nat /\ srv.pos \in Nat /\ srv.pos + size <= Len(srv.buf)
        BY <2>n, <2>3
      <4> QED
        BY <1>d, <2>1, <4>1, <3>1, Zenon
  <2>5. srv.pos + size \in Nat /\ 1 - srv.tog \in Bit
    BY <1>0, <2>n, <2>3, Toggled
  <2>6. /\ s \in SdoServer /\ s.type = srv.type /\ s.mux = srv.mux
        /\ s.buf = srv.buf /\ s.comm = srv.comm
    BY <1>0, <1>s, <2>5, Zenon DEF SdoServer
  <2>7. answer \in Frame
    <3>1. Len(data) <= 7
      BY <2>3, <2>4
    <3> QED
      BY <1>a, <2>1, <2>4, <3>1, SegmentFrame DEF SDO_SCS_UL_SEG_RES
  <2> QED
    BY <2>2, <2>6, <2>7
<1>3. fault = NoCode => <<answer>> \in Seq(Frame) /\ Len(<<answer>>) = 1
  BY <1>2
<1>4. CASE fault # NoCode /\ sdo_srv_abort(srv, fault)
  BY <1>0, <1>1, <1>4, AbortFed
<1>5. CASE /\ fault = NoCode
           /\ sdo_srv__on_done([s EXCEPT !.status = "OK"], [s EXCEPT !.status = "OK"],
                               <<answer>>)
  <2> PICK t : t = [s EXCEPT !.status = "OK"]
    BY Zenon
  <2>1. t \in SdoServer /\ t.type = "UPLOAD"
    BY <1>2, <1>5 DEF SdoServer
  <2>2. Transfer(t)
    BY <2>1 DEF Transfer
  <2>3. sdo_srv__on_done(t, t, <<answer>>)
    BY <1>5
  <2> QED
    BY <1>3, <1>5, <2>1, <2>2, <2>3, DoneFed, Zenon
<1>6. CASE /\ fault = NoCode
           /\ ~(s.pos >= Len(s.buf))
           /\ srv' = s
           /\ sdo_srv__send(answer)
           /\ UNCHANGED od
  <2>1. s.pos \in Nat /\ s.buf \in Seq(Byte)
    BY <1>2, <1>6 DEF SdoServer
  <2>2. s.pos < Len(s.buf)
    BY <1>6, <2>1
  <2>3. Transfer(srv') /\ UploadFromObject' /\ DownloadWasAccepted'
    BY <1>2, <1>6, <2>2 DEF Transfer, UploadFromObject, DownloadWasAccepted
  <2> QED
    BY <1>2, <1>6, <2>3, PendingFed
<1> QED
  BY <1>a, <1>d, <1>s, <1>z, <1>4, <1>5, <1>6 DEF sdo_srv__ul_seg_req

\* Whatever frame is fed, the server's invariant is kept, one frame answers it,
\* and the period changes only by a download of it that vnode__rsdo sees.
LEMMA FeedStep ==
    ASSUME ServerInv, toCl = <<>>, NEW cf \in Frame, sdo_srv_feed(cf)
    PROVE  Fed
<1>0. srv \in SdoServer /\ Transfer(srv)
  BY DEF ServerInv, Transfer
<1>1. CASE sdo_srv__remote_abort(cf)
  <2> PICK s : s = [srv EXCEPT !.status = "REMOTE_ABORT", !.comm = "INIT_REQ",
                               !.code = cf.code]
    OBVIOUS
  <2>1. cf.code \in AbortCodes
    BY DEF Frame
  <2>2. s \in SdoServer /\ s.type = srv.type /\ s.mux = srv.mux /\ s.status = "REMOTE_ABORT"
    BY <1>0, <2>1, Zenon DEF SdoServer
  <2>3. Transfer(s)
    BY <1>0, <2>2 DEF Transfer
  <2>4. sdo_srv__on_done(s, s, <<>>)
    BY <1>1 DEF sdo_srv__remote_abort
  <2>5. <<>> \in Seq(Frame)
    OBVIOUS
  <2> QED
    BY <2>2, <2>3, <2>4, <2>5, DoneFed, Zenon
<1>2. CASE sdo_srv_abort(srv, "INVALID_CS")
  BY <1>0, <1>2, AbortFed DEF AbortCodes
<1> QED
  BY <1>1, <1>2, DownloadFed, UploadFed, DownloadSegmentFed, UploadSegmentFed
  DEF sdo_srv_feed

-----------------------------------------------------------------------------
(* The nodes. *)

Node == [is_running : BOOLEAN, nodeid : 0..NNodes,
         state : {"BOOTUP", "STOPPED", "OPERATIONAL", "PREOPERATIONAL"},
         beat : Word]

\* Entry i of the table, x, when its period is p and c is the configuration.
Sound(x, i, p, c) ==
    /\ x \in Node
    /\ x.is_running => x.nodeid = i
    /\ x.beat # 0 => x.nodeid = i /\ x.beat = p /\ x.state # "STOPPED"
    /\ (/\ x.is_running
        /\ "STANDARD" \in c.bootup_method
        /\ x.state = "OPERATIONAL"
        /\ p # 0) => x.beat # 0

NodesInv ==
    /\ config \in Config
    /\ created \in 0..Len(Ids)
    /\ node \in [1..NNodes -> Node]
    /\ \A i \in 1..NNodes : Sound(node[i], i, heartbeat_period(i, od), config)
    /\ \A k \in 1..created : node[Ids[k]].nodeid = Ids[k]
    /\ \A k \in 1..Len(sent) : sent[k].id \in 1..NNodes

Inv == ServerInv /\ NodesInv

LEMMA WordZero == 0 \in Word
  BY DEF Word

\* The period of a node is a 16 bit number, and 0 if it has no heartbeat.
LEMMA PeriodRange ==
    ASSUME DOMAIN od = DOMAIN Objects, NEW i,
           NEW objects \in [DOMAIN Objects -> Seq(Byte)],
           Period \in DOMAIN Objects => Len(objects[Period]) = 2
    PROVE  /\ heartbeat_period(i, objects) \in Word
           /\ heartbeat_period(i, objects) # 0 => have_heartbeat
<1>1. CASE i = Served /\ have_heartbeat
  <2>1. objects[Period] \in Seq(Byte) /\ Len(objects[Period]) = 2
    BY <1>1 DEF have_heartbeat
  <2>2. PICK a, b : a = objects[Period][1] /\ b = objects[Period][2] /\ a \in Byte /\ b \in Byte
    <3>1. \A s \in Seq(Byte) : \A k \in 1..Len(s) : s[k] \in Byte
      OBVIOUS
    <3>2. 1 \in 1..2 /\ 2 \in 1..2
      OBVIOUS
    <3> QED
      BY <2>1, <3>1, <3>2, Zenon
  <2>3. a \in 0..255 /\ b \in 0..255
    BY <2>2, VnodeAssumption, Zenon
  <2>4. a + 256 * b \in Word
    BY <2>3 DEF Word
  <2> QED
    BY <1>1, <2>2, <2>4 DEF heartbeat_period
<1>2. CASE ~(i = Served /\ have_heartbeat)
  BY <1>2, WordZero DEF heartbeat_period
<1> QED
  BY <1>1, <1>2

\* Starting the timer: x before, y after.
LEMMA StartTimer ==
    ASSUME NEW x \in Node, NEW p \in Word, NEW y,
           y = vnode__start_heartbeat_timer(x, p), p # 0 => have_heartbeat
    PROVE  /\ y \in Node /\ y.is_running = x.is_running /\ y.nodeid = x.nodeid
           /\ y.state = x.state
           /\ y.beat = x.beat \/ (x.beat = 0 /\ y.beat = p /\ y.state = "OPERATIONAL")
           /\ y.state = "OPERATIONAL" /\ p # 0 => y.beat # 0
<1>1. CASE have_heartbeat /\ x.state = "OPERATIONAL" /\ p # 0 /\ x.beat = 0
  <2>1. y = [x EXCEPT !.beat = p]
    BY <1>1 DEF vnode__start_heartbeat_timer
  <2> QED
    BY <1>1, <2>1 DEF Node
<1>2. CASE ~(have_heartbeat /\ x.state = "OPERATIONAL" /\ p # 0 /\ x.beat = 0)
  <2>1. y = x
    BY <1>2 DEF vnode__start_heartbeat_timer
  <2> QED
    BY <1>2, <2>1
<1> QED
  BY <1>1, <1>2

LEMMA NmtSound ==
    ASSUME ServerInv, NEW i \in 1..NNodes, NEW x, NEW cs \in Commands, NEW p,
           p = heartbeat_period(i, od), Sound(x, i, p, config), x.nodeid = i,
           NEW y, y = vnode__nmt(x, cs)
    PROVE  Sound(y, i, p, config) /\ y \in Node /\ y.nodeid = i
<1>0. x \in Node /\ (x.beat # 0 => x.beat = p /\ x.state # "STOPPED")
  BY DEF Sound
<1>p. p \in Word /\ (p # 0 => have_heartbeat)
  BY PeriodRange DEF ServerInv
<1>1. CASE cs = "START"
  <2>1. PICK z : z = [x EXCEPT !.state = "OPERATIONAL"]
    BY Zenon
  <2>2. /\ z \in Node /\ z.is_running = x.is_running /\ z.nodeid = x.nodeid
        /\ z.beat = x.beat /\ z.state = "OPERATIONAL"
    BY <1>0, <2>1, WordZero DEF Node
  <2>3. y = vnode__start_heartbeat_timer(z, p)
    BY <1>1, <2>1 DEF vnode__nmt
  <2>4. /\ y \in Node /\ y.is_running = z.is_running /\ y.nodeid = z.nodeid
        /\ y.state = z.state
        /\ y.beat = z.beat \/ (z.beat = 0 /\ y.beat = p /\ y.state = "OPERATIONAL")
        /\ y.state = "OPERATIONAL" /\ p # 0 => y.beat # 0
    BY <1>p, <2>2, <2>3, StartTimer
  <2> QED
    BY <1>0, <2>2, <2>4 DEF Sound
<1>2. CASE cs = "STOP"
  <2>1. y = [x EXCEPT !.state = "STOPPED", !.beat = 0]
    BY <1>2 DEF vnode__nmt
  <2>2. /\ y \in Node /\ y.is_running = x.is_running /\ y.nodeid = x.nodeid
        /\ y.beat = 0 /\ y.state = "STOPPED"
    BY <1>0, <2>1, WordZero, Zenon DEF Node
  <2> QED
    BY <2>2 DEF Sound
<1>3. CASE cs = "ENTER_PREOPERATIONAL"
  <2>1. y = [x EXCEPT !.state = "PREOPERATIONAL"]
    BY <1>3 DEF vnode__nmt
  <2>2. /\ y \in Node /\ y.is_running = x.is_running /\ y.nodeid = x.nodeid
        /\ y.beat = x.beat /\ y.state = "PREOPERATIONAL"
    BY <1>0, <2>1, WordZero DEF Node
  <2> QED
    BY <1>0, <2>2 DEF Sound
<1>4. CASE cs \notin {"START", "STOP", "ENTER_PREOPERATIONAL"}
  <2>1. PICK z : z = [x EXCEPT !.beat = 0]
    BY Zenon
  <2>2. /\ z \in Node /\ z.is_running = x.is_running /\ z.nodeid = x.nodeid
        /\ z.beat = 0 /\ z.state = x.state
    BY <1>0, <2>1, WordZero DEF Node
  <2>3. y = vnode__reset_communication(z)
    BY <1>4, <2>1 DEF vnode__nmt
  <2>4. CASE Standard
    <3>1. y = [z EXCEPT !.state = "PREOPERATIONAL"]
      BY <2>3, <2>4 DEF vnode__reset_communication
    <3>2. /\ y \in Node /\ y.is_running = x.is_running /\ y.nodeid = x.nodeid
          /\ y.beat = 0 /\ y.state = "PREOPERATIONAL"
      BY <2>2, <3>1 DEF Node
    <3> QED
      BY <3>2 DEF Sound
  <2>5. CASE ~Standard
    <3>1. y = z
      BY <2>3, <2>5 DEF vnode__reset_communication
    <3> QED
      BY <2>2, <2>5, <3>1 DEF Sound, Standard
  <2> QED
    BY <2>4, <2>5
<1> QED
  BY <1>1, <1>2, <1>3, <1>4

\* A frame with the state of a node has the id of the node.
LEMMA StateFrames ==
    ASSUME NEW x \in Node, x.nodeid \in 1..NNodes, NEW cs
    PROVE  /\ \A k \in 1..Len(<<vnode__send_state(x)>>) :
                 <<vnode__send_state(x)>>[k].id \in 1..NNodes
           /\ \A k \in 1..Len(BootupFrames(x)) : BootupFrames(x)[k].id \in 1..NNodes
           /\ \A k \in 1..Len(NmtFrames(x, cs)) : NmtFrames(x, cs)[k].id \in 1..NNodes
<1>1. \A f : f.id \in 1..NNodes => \A k \in 1..Len(<<f>>) : <<f>>[k].id \in 1..NNodes
  OBVIOUS
<1>2. vnode__send_state(x).id = x.nodeid
  BY DEF vnode__send_state
<1>3. PICK z : z = [x EXCEPT !.state = "BOOTUP"]
  BY Zenon
<1>4. vnode__send_state(z).id = x.nodeid
  BY <1>3 DEF vnode__send_state, Node
<1>5. BootupFrames(x) = <<vnode__send_state(z)>> \/ BootupFrames(x) = <<>>
  BY <1>3 DEF BootupFrames
<1>6. \A k \in 1..Len(BootupFrames(x)) : BootupFrames(x)[k].id \in 1..NNodes
  BY <1>1, <1>4, <1>5
<1>7. NmtFrames(x, cs) = BootupFrames(x) \/ NmtFrames(x, cs) = <<>>
  BY DEF NmtFrames
<1> QED
  BY <1>1, <1>2, <1>6, <1>7

-----------------------------------------------------------------------------
(* The steps. *)

LEMMA InitInv == Init => Inv
<1> SUFFICES ASSUME Init PROVE Inv
  OBVIOUS
<1>1. od = Objects /\ toCl = <<>> /\ sent = <<>> /\ created = 0 /\ config \in Config
  BY VnodeAssumption DEF Init, sdo_srv_init
<1>2. /\ srv.comm = "INIT_REQ" /\ srv.type = "NONE" /\ srv.mux = NoMux
      /\ srv \in SdoServer
  <2>1. <<>> \in Seq(Byte)
    OBVIOUS
  <2> QED
    BY <2>1 DEF Init, sdo_srv_init, SdoServer, Bit, AbortCodes, NoCode
<1>3. ServerInv
  <2>1. Objects \in [DOMAIN Objects -> Seq(Byte)]
    BY SdoSrvAssumption
  <2>2. toCl \in Seq(Frame)
    BY <1>1
  <2> QED
    BY <1>1, <1>2, <2>1, <2>2, SdoSrvAssumption
    DEF ServerInv, UploadFromObject, DownloadWasAccepted, ReadOnlyKept
<1>4. Empty \in Node /\ Empty.is_running = FALSE /\ Empty.beat = 0
  BY VnodeAssumption, WordZero DEF Empty, Node
<1>5. \A i, p, c : Sound(Empty, i, p, c)
  BY <1>4 DEF Sound
<1>6. node \in [1..NNodes -> Node] /\ \A i \in 1..NNodes : node[i] = Empty
  BY <1>4 DEF Init
<1>7. created \in 0..Len(Ids)
  BY <1>1, VnodeAssumption
<1> QED
  BY <1>1, <1>3, <1>5, <1>6, <1>7 DEF Inv, NodesInv

\* A step that changes entry i alone, to y, and not the server.
LEMMA EntryStep ==
    ASSUME Inv, NEW i \in 1..NNodes, NEW y \in Node,
           Sound(y, i, heartbeat_period(i, od), config),
           node[i].nodeid = i, y.nodeid = i,
           node' = [node EXCEPT ![i] = y],
           UNCHANGED <<processVars, serverVars>>,
           \A k \in 1..Len(sent') : sent'[k].id \in 1..NNodes
    PROVE  Inv'
<1>1. UNCHANGED <<config, created, srv, od, toCl>>
  BY DEF processVars, serverVars
<1>2. ServerInv'
  BY <1>1 DEF Inv, ServerInv, UploadFromObject, DownloadWasAccepted, ReadOnlyKept
<1>3. \A j : heartbeat_period(j, od)' = heartbeat_period(j, od)
  BY <1>1 DEF heartbeat_period, have_heartbeat
<1>4. /\ node \in [1..NNodes -> Node] /\ config \in Config /\ created \in 0..Len(Ids)
      /\ \A j \in 1..NNodes : Sound(node[j], j, heartbeat_period(j, od), config)
      /\ \A k \in 1..created : node[Ids[k]].nodeid = Ids[k]
  BY DEF Inv, NodesInv
<1>5. node' \in [1..NNodes -> Node] /\ \A j \in 1..NNodes : node'[j] = IF j = i THEN y ELSE node[j]
  BY <1>4
<1>6. \A k \in 1..created : Ids[k] \in 1..NNodes
  BY <1>4, VnodeAssumption
<1>7. \A k \in 1..created : node'[Ids[k]].nodeid = Ids[k]
  BY <1>4, <1>5, <1>6
<1>8. \A j \in 1..NNodes : Sound(node'[j], j, heartbeat_period(j, od), config)
  BY <1>4, <1>5
<1>9. NodesInv'
  BY <1>1, <1>3, <1>4, <1>5, <1>7, <1>8 DEF NodesInv
<1> QED
  BY <1>2, <1>9 DEF Inv

\* A step that changes no entry and not the server.
LEMMA QuietStep ==
    ASSUME Inv, UNCHANGED <<processVars, node, serverVars>>,
           \A k \in 1..Len(sent') : sent'[k].id \in 1..NNodes
    PROVE  Inv'
<1>1. UNCHANGED <<config, created, node, srv, od, toCl>>
  BY SMTT(30) DEF processVars, serverVars
<1>2. ServerInv'
  BY <1>1 DEF Inv, ServerInv, UploadFromObject, DownloadWasAccepted, ReadOnlyKept
<1>3. \A j : heartbeat_period(j, od)' = heartbeat_period(j, od)
  BY <1>1 DEF heartbeat_period, have_heartbeat
<1>4. NodesInv'
  BY <1>1, <1>3 DEF Inv, NodesInv
<1> QED
  BY <1>2, <1>4 DEF Inv

LEMMA NewStep ==
    ASSUME Inv, co_vnode_new
    PROVE  Inv'
<1>1. PICK i : i = Ids[created + 1]
  OBVIOUS
<1>2. /\ created \in Nat /\ created < Len(Ids) /\ created' = created + 1
      /\ UNCHANGED <<config, srv, od, toCl>>
  BY VnodeAssumption DEF co_vnode_new, Inv, NodesInv, serverVars
<1>3. i \in 1..NNodes
  BY <1>1, <1>2, VnodeAssumption
<1>4. PICK x : x = [Empty EXCEPT !.nodeid = i]
  BY Zenon
<1>5. /\ x \in Node /\ x.nodeid = i /\ x.beat = 0 /\ x.state = "BOOTUP"
      /\ x.is_running = FALSE
  <2>1. x = [is_running |-> FALSE, nodeid |-> i, state |-> "BOOTUP", beat |-> 0]
    BY <1>4, Zenon DEF Empty
  <2>2. i \in 0..NNodes
    BY <1>3, VnodeAssumption
  <2> QED
    BY <2>1, <2>2, WordZero DEF Node
<1>6. PICK z : z = vnode__reset_communication(x)
  OBVIOUS
<1>7. /\ z \in Node /\ z.nodeid = i /\ z.beat = 0
      /\ z.state \in {"BOOTUP", "PREOPERATIONAL"}
  BY <1>5, <1>6 DEF vnode__reset_communication, Node
<1>8. PICK y : y = [z EXCEPT !.is_running = TRUE]
  BY Zenon
<1>9. /\ y \in Node /\ y.nodeid = i /\ y.beat = 0
      /\ y.state \in {"BOOTUP", "PREOPERATIONAL"}
  BY <1>7, <1>8, Zenon DEF Node
<1>10. node' = [node EXCEPT ![i] = y]
  BY <1>1, <1>4, <1>6, <1>8 DEF co_vnode_new, NextId
<1>11. \A p : Sound(y, i, p, config)
  BY <1>9 DEF Sound
<1>12. \A k \in 1..Len(sent') : sent'[k].id \in 1..NNodes
  <2>1. PICK legacy, boot : /\ sent' = legacy \o boot /\ boot = BootupFrames(x)
                            /\ legacy = <<vnode__send_legacy_bootup(x)>> \/ legacy = <<>>
    BY <1>1, <1>4, Zenon DEF co_vnode_new, NextId
  <2>2. vnode__send_legacy_bootup(x).id \in 1..NNodes
    BY <1>3, <1>5 DEF vnode__send_legacy_bootup
  <2>3. boot = <<>> \/ \E f : boot = <<f>>
    BY <2>1 DEF BootupFrames
  <2>4. \A k \in 1..Len(boot) : boot[k].id \in 1..NNodes
    BY <1>3, <1>5, <2>1, StateFrames, Zenon
  <2>5. CASE legacy = <<>>
    <3>1. sent' = boot
      BY <2>1, <2>3, <2>5
    <3> QED
      BY <2>4, <3>1
  <2>6. CASE legacy = <<vnode__send_legacy_bootup(x)>>
    <3> PICK g : g = vnode__send_legacy_bootup(x)
      OBVIOUS
    <3>1. CASE boot = <<>>
      <4>1. sent' = <<g>>
        BY <2>1, <2>6, <3>1
      <4> QED
        BY <2>2, <4>1
    <3>2. CASE \E f : boot = <<f>>
      <4>1. PICK f : boot = <<f>>
        BY <3>2
      <4>2. f.id \in 1..NNodes
        BY <2>4, <4>1
      <4>3. <<g>> \o <<f>> \in Seq({f, g})
        OBVIOUS
      <4>4. \A k \in 1..Len(sent') : sent'[k] \in {f, g}
        BY <2>1, <2>6, <4>1, <4>3
      <4> QED
        BY <2>2, <4>2, <4>4
    <3> QED
      BY <2>3, <3>1, <3>2
  <2> QED
    BY <2>1, <2>5, <2>6
<1>13. /\ node \in [1..NNodes -> Node] /\ config \in Config
       /\ \A j \in 1..NNodes : Sound(node[j], j, heartbeat_period(j, od), config)
       /\ \A k \in 1..created : node[Ids[k]].nodeid = Ids[k]
  BY DEF Inv, NodesInv
<1>14. /\ node' \in [1..NNodes -> Node]
       /\ \A j \in 1..NNodes : node'[j] = IF j = i THEN y ELSE node[j]
  BY <1>9, <1>10, <1>13, Zenon
<1>15. \A j \in 1..NNodes : Sound(node'[j], j, heartbeat_period(j, od), config)
  BY <1>11, <1>13, <1>14
<1>16. \A k \in 1..created' : node'[Ids[k]].nodeid = Ids[k]
  <2> SUFFICES ASSUME NEW k \in 1..created' PROVE node'[Ids[k]].nodeid = Ids[k]
    OBVIOUS
  <2>1. Ids[k] \in 1..NNodes
    BY <1>2, VnodeAssumption
  <2>2. k \in 1..created \/ Ids[k] = i
    BY <1>1, <1>2
  <2> QED
    BY <1>9, <1>13, <1>14, <2>1, <2>2
<1>17. created' \in 0..Len(Ids)
  BY <1>2, VnodeAssumption
<1>18. \A j : heartbeat_period(j, od)' = heartbeat_period(j, od)
  BY <1>2 DEF heartbeat_period, have_heartbeat
<1>19. NodesInv'
  BY <1>2, <1>12, <1>13, <1>14, <1>15, <1>16, <1>17, <1>18 DEF NodesInv
<1>20. ServerInv'
  BY <1>2 DEF Inv, ServerInv, UploadFromObject, DownloadWasAccepted, ReadOnlyKept
<1> QED
  BY <1>19, <1>20 DEF Inv

LEMMA FailureStep ==
    ASSUME Inv, init_nodes_failure
    PROVE  Inv'
<1>1. /\ sent' = <<>> /\ UNCHANGED <<config, created, srv, od, toCl>>
      /\ node' = [i \in 1..NNodes |-> [node[i] EXCEPT !.is_running = FALSE]]
  BY SMTT(30) DEF init_nodes_failure, serverVars
<1>2. /\ node \in [1..NNodes -> Node] /\ config \in Config /\ created \in 0..Len(Ids)
      /\ \A j \in 1..NNodes : Sound(node[j], j, heartbeat_period(j, od), config)
      /\ \A k \in 1..created : node[Ids[k]].nodeid = Ids[k]
  BY DEF Inv, NodesInv
<1>3. \A x \in Node : /\ [x EXCEPT !.is_running = FALSE] \in Node
                      /\ [x EXCEPT !.is_running = FALSE].is_running = FALSE
                      /\ [x EXCEPT !.is_running = FALSE].nodeid = x.nodeid
                      /\ [x EXCEPT !.is_running = FALSE].state = x.state
                      /\ [x EXCEPT !.is_running = FALSE].beat = x.beat
  BY Zenon DEF Node
<1>4. \A j \in 1..NNodes : /\ node'[j] \in Node /\ node'[j].is_running = FALSE
                           /\ node'[j].nodeid = node[j].nodeid
                           /\ node'[j].state = node[j].state
                           /\ node'[j].beat = node[j].beat
  BY <1>1, <1>2, <1>3, Zenon
<1>5. node' \in [1..NNodes -> Node]
  BY <1>1, <1>2, <1>3
<1>6. \A j \in 1..NNodes : Sound(node'[j], j, heartbeat_period(j, od), config)
  BY <1>2, <1>4 DEF Sound
<1>7. \A k \in 1..created : Ids[k] \in 1..NNodes
  BY <1>2, VnodeAssumption
<1>8. \A k \in 1..created : node'[Ids[k]].nodeid = Ids[k]
  BY <1>2, <1>4, <1>7
<1>9. \A j : heartbeat_period(j, od)' = heartbeat_period(j, od)
  BY <1>1 DEF heartbeat_period, have_heartbeat
<1>10. \A k \in 1..Len(sent') : sent'[k].id \in 1..NNodes
  BY <1>1
<1>11. NodesInv'
  BY <1>1, <1>2, <1>5, <1>6, <1>8, <1>9, <1>10 DEF NodesInv
<1>12. ServerInv'
  BY <1>1 DEF Inv, ServerInv, UploadFromObject, DownloadWasAccepted, ReadOnlyKept
<1> QED
  BY <1>11, <1>12 DEF Inv

\* An NMT command that node i takes.
LEMMA NmtStep ==
    ASSUME Inv, NEW i \in 1..NNodes, NEW cs \in Commands, node[i].nodeid = i,
           node' = [node EXCEPT ![i] = vnode__nmt(node[i], cs)],
           sent' = NmtFrames(node[i], cs),
           UNCHANGED <<processVars, serverVars>>
    PROVE  Inv'
<1>1. PICK x, y, p : x = node[i] /\ y = vnode__nmt(x, cs) /\ p = heartbeat_period(i, od)
  OBVIOUS
<1>2. Sound(x, i, p, config) /\ ServerInv /\ x \in Node
  BY <1>1 DEF Inv, NodesInv
<1>3. Sound(y, i, p, config) /\ y \in Node /\ y.nodeid = i
  BY <1>1, <1>2, NmtSound
<1>4. \A k \in 1..Len(sent') : sent'[k].id \in 1..NNodes
  BY <1>1, <1>2, StateFrames, Zenon
<1>5. node' = [node EXCEPT ![i] = y]
  BY <1>1
<1> QED
  BY <1>1, <1>3, <1>4, <1>5, EntryStep, Zenon

LEMMA FrameStep ==
    ASSUME Inv, NEW cf \in Incoming, vnode__rsdo(cf)
    PROVE  Inv' /\ Answered
<1>1. Fed /\ Answered /\ ServerInv'
  BY FeedStep, VnodeAssumption DEF vnode__rsdo, Inv, Fed
<1>2. /\ created = Len(Ids) /\ sent' = <<>> /\ UNCHANGED <<config, created>>
  BY DEF vnode__rsdo, Running, processVars
<1>3. /\ node \in [1..NNodes -> Node] /\ config \in Config /\ created \in 0..Len(Ids)
      /\ \A j \in 1..NNodes : Sound(node[j], j, heartbeat_period(j, od), config)
      /\ \A k \in 1..created : node[Ids[k]].nodeid = Ids[k]
  BY DEF Inv, NodesInv
<1>4. Served \in 1..NNodes /\ node[Served].nodeid = Served
  BY <1>2, <1>3, VnodeAssumption
<1>5. /\ od \in [DOMAIN Objects -> Seq(Byte)] /\ od' \in [DOMAIN Objects -> Seq(Byte)]
      /\ Period \in DOMAIN Objects => Len(od'[Period]) = 2
  BY <1>1 DEF Inv, ServerInv
<1>6. \A j : heartbeat_period(j, od)' = heartbeat_period(j, od')
  BY <1>5 DEF heartbeat_period, have_heartbeat
<1>7. \A j : j # Served => heartbeat_period(j, od') = heartbeat_period(j, od)
  BY DEF heartbeat_period
<1>8. \A k \in 1..Len(sent') : sent'[k].id \in 1..NNodes
  BY <1>2
<1>9. \A k \in 1..created : Ids[k] \in 1..NNodes
  BY <1>3, VnodeAssumption, SMTT(30)
<1>10. /\ node' \in [1..NNodes -> Node]
       /\ \A j \in 1..NNodes : Sound(node'[j], j, heartbeat_period(j, od'), config)
       /\ \A k \in 1..created : node'[Ids[k]].nodeid = Ids[k]
  <2>1. CASE PeriodWritten
    <3>1. PICK x, p : x = node[Served] /\ p = heartbeat_period(Served, od')
      OBVIOUS
    <3>z. PICK z : z = [x EXCEPT !.beat = 0]
      BY Zenon
    <3>y. PICK y : y = vnode__start_heartbeat_timer(z, p)
      OBVIOUS
    <3>2. node' = [node EXCEPT ![Served] = y]
      BY <2>1, <3>1, <3>z, <3>y DEF vnode__rsdo, vnode__restart_heartbeat_timer
    <3>3. x \in Node /\ x.nodeid = Served
      BY <1>3, <1>4, <3>1
    <3>4. z \in Node /\ z.nodeid = Served /\ z.beat = 0
      BY <3>z, <3>3, WordZero DEF Node
    <3>5. p \in Word /\ (p # 0 => have_heartbeat)
      BY <1>5, <3>1, PeriodRange
    <3>6. /\ y \in Node /\ y.nodeid = z.nodeid
          /\ y.beat = z.beat \/ (z.beat = 0 /\ y.beat = p /\ y.state = "OPERATIONAL")
          /\ y.state = "OPERATIONAL" /\ p # 0 => y.beat # 0
      BY <3>y, <3>4, <3>5, StartTimer
    <3>7. Sound(y, Served, p, config)
      BY <3>4, <3>6 DEF Sound
    <3>8. /\ node' \in [1..NNodes -> Node]
          /\ \A j \in 1..NNodes : node'[j] = IF j = Served THEN y ELSE node[j]
      BY <1>3, <1>4, <3>2, <3>6
    <3>9. \A j \in 1..NNodes : Sound(node'[j], j, heartbeat_period(j, od'), config)
      <4> SUFFICES ASSUME NEW j \in 1..NNodes
                   PROVE  Sound(node'[j], j, heartbeat_period(j, od'), config)
        OBVIOUS
      <4>1. CASE j = Served
        <5>1. node'[j] = y /\ heartbeat_period(j, od') = p
          BY <3>1, <3>8, <4>1
        <5> QED
          BY <3>7, <4>1, <5>1
      <4>2. CASE j # Served
        <5>1. node'[j] = node[j] /\ heartbeat_period(j, od') = heartbeat_period(j, od)
          BY <1>7, <3>8, <4>2
        <5> QED
          BY <1>3, <5>1
      <4> QED
        BY <4>1, <4>2
    <3>10. \A k \in 1..created : node'[Ids[k]].nodeid = Ids[k]
      BY <1>3, <1>9, <3>4, <3>6, <3>8
    <3> QED
      BY <3>8, <3>9, <3>10
  <2>2. CASE ~PeriodWritten
    <3>1. node' = node
      BY <2>2 DEF vnode__rsdo
    <3>2. PeriodKept
      BY <1>1, <2>2 DEF Fed
    <3>3. \A j : heartbeat_period(j, od') = heartbeat_period(j, od)
      BY <1>5, <3>2 DEF heartbeat_period, have_heartbeat, PeriodKept
    <3>4. \A j \in 1..NNodes : Sound(node'[j], j, heartbeat_period(j, od'), config)
      BY <1>3, <3>1, <3>3
    <3> QED
      BY <1>3, <3>1, <3>4
  <2> QED
    BY <2>1, <2>2
<1>11. NodesInv'
  BY <1>2, <1>3, <1>6, <1>8, <1>10 DEF NodesInv
<1> QED
  BY <1>1, <1>11 DEF Inv

LEMMA TransmitStep ==
    ASSUME Inv, Transmit
    PROVE  Inv'
<1>1. UNCHANGED <<config, created, node, sent, srv, od>> /\ toCl' = Tail(toCl) /\ toCl # <<>>
  BY DEF Transmit, processVars
<1>2. toCl' \in Seq(Frame)
  BY <1>1 DEF Inv, ServerInv
<1>3. ServerInv'
  BY <1>1, <1>2 DEF Inv, ServerInv, UploadFromObject, DownloadWasAccepted, ReadOnlyKept
<1>4. \A j : heartbeat_period(j, od)' = heartbeat_period(j, od)
  BY <1>1, SMTT(30) DEF heartbeat_period, have_heartbeat
<1>5. NodesInv'
  BY <1>1, <1>4 DEF Inv, NodesInv
<1> QED
  BY <1>3, <1>5 DEF Inv

LEMMA NextInv ==
    ASSUME Inv, [Next]_vars
    PROVE  Inv'
<1>0. \A i \in 1..NNodes : node[i] \in Node /\ Sound(node[i], i, heartbeat_period(i, od), config)
  BY DEF Inv, NodesInv
<1>q. sent' = <<>> => \A k \in 1..Len(sent') : sent'[k].id \in 1..NNodes
  OBVIOUS
<1>1. CASE co_vnode_new
  BY <1>1, NewStep
<1>2. CASE init_nodes_failure
  BY <1>2, FailureStep
<1>3. ASSUME NEW cs \in Commands, NmtToAll(cs)
      PROVE  Inv'
  <2>1. CASE node[1].is_running
    <3>1. 1 \in 1..NNodes
      <4>1. Served \in 1..NNodes /\ NNodes \in Nat
        BY VnodeAssumption
      <4> QED
        BY <4>1
    <3>2. node[1].nodeid = 1
      BY <1>0, <2>1, <3>1 DEF Sound
    <3> QED
      BY <1>3, <2>1, <3>1, <3>2, NmtStep DEF NmtToAll
  <2>2. CASE ~node[1].is_running
    BY <1>3, <1>q, <2>2, QuietStep DEF NmtToAll
  <2> QED
    BY <2>1, <2>2
<1>4. ASSUME NEW i \in 1..NNodes, NEW cs \in Commands, NmtToNode(cs, i)
      PROVE  Inv'
  <2>1. CASE node[i].nodeid = i
    BY <1>4, <2>1, NmtStep DEF NmtToNode
  <2>2. CASE node[i].nodeid # i
    BY <1>4, <1>q, <2>2, QuietStep DEF NmtToNode
  <2> QED
    BY <2>1, <2>2
<1>5. ASSUME NEW i \in 1..NNodes, vnode__heartbeat(i)
      PROVE  Inv'
  <2>1. node[i].nodeid = i /\ UNCHANGED <<processVars, node, serverVars>>
    BY <1>5 DEF vnode__heartbeat
  <2>2. sent' = <<vnode__send_state(node[i])>> \/ sent' = <<>>
    BY <1>5 DEF vnode__heartbeat
  <2>3. \A k \in 1..Len(sent') : sent'[k].id \in 1..NNodes
    BY <1>0, <1>q, <2>1, <2>2, StateFrames
  <2> QED
    BY <2>1, <2>3, QuietStep
<1>6. ASSUME NEW i \in 1..NNodes, vnode__on_heartbeat(i)
      PROVE  Inv'
  <2>1. /\ node[i].beat # 0 /\ UNCHANGED <<processVars, node, serverVars>>
        /\ sent' = <<vnode__send_state(node[i])>>
    BY <1>6 DEF vnode__on_heartbeat
  <2>2. node[i].nodeid = i
    BY <1>0, <2>1 DEF Sound
  <2>3. \A k \in 1..Len(sent') : sent'[k].id \in 1..NNodes
    BY <1>0, <2>1, <2>2, StateFrames
  <2> QED
    BY <2>1, <2>3, QuietStep
<1>7. ASSUME NEW cf \in Incoming, vnode__rsdo(cf)
      PROVE  Inv'
  BY <1>7, FrameStep
<1>8. CASE Transmit
  BY <1>8, TransmitStep
<1>9. CASE UNCHANGED vars
  <2>1. UNCHANGED <<processVars, node, serverVars>> /\ sent' = sent
    BY <1>9 DEF vars
  <2>2. \A k \in 1..Len(sent') : sent'[k].id \in 1..NNodes
    BY <2>1 DEF Inv, NodesInv
  <2> QED
    BY <2>1, <2>2, QuietStep
<1> QED
  BY <1>1, <1>2, <1>3, <1>4, <1>5, <1>6, <1>7, <1>8, <1>9 DEF Next

-----------------------------------------------------------------------------
(* The theorems. *)

\* The invariant holds in every state, whatever the constants are.
THEOREM Invariance == Spec => []Inv
<1>1. Init => Inv
  BY InitInv
<1>2. Inv /\ [Next]_vars => Inv'
  BY NextInv
<1> QED
  BY <1>1, <1>2, PTL DEF Spec

\* A node that boots up the standard way sends heartbeats whenever it is
\* operational and has a period, and a timer that runs has the period of object
\* 0x1017: for any number of nodes, NMT commands and SDO frames in any order.
THEOREM HeartbeatsKeepThePeriod == Spec => []HeartbeatTimer
<1>1. Inv => HeartbeatTimer
  BY DEF Inv, NodesInv, Sound, HeartbeatTimer, OperationalBeats, BeatsAtPeriod, Standard
<1> QED
  BY <1>1, Invariance, PTL

\* A transfer in progress is one that on_init accepted and works on the value of
\* its object, and an object that is only read keeps its value: for any
\* dictionary and any frames of the client.
THEOREM TransfersStayAccepted == Spec => []TransfersAccepted
<1>1. Inv => TransfersAccepted
  <2> SUFFICES ASSUME Inv PROVE TransfersAccepted
    OBVIOUS
  <2>1. TypeOK
    BY DEF Inv, NodesInv, ServerInv, TypeOK, Node
  <2> QED
    BY <2>1 DEF Inv, ServerInv, TransfersAccepted
<1> QED
  BY <1>1, Invariance, PTL

\* Each frame that the server is fed is answered by one frame, and only the
\* client's own abort may go unanswered, whatever state the server is in.
THEOREM EachFrameAnsweredOnce == Spec => OneAnswer
<1>1. Inv /\ [Next]_vars =>
        [ toCl = <<>> /\ srv' # srv =>
              \/ Len(toCl') = 1
              \/ toCl' = <<>> /\ srv'.status = "REMOTE_ABORT" ]_vars
  <2> SUFFICES ASSUME Inv, [Next]_vars, srv' # srv
               PROVE  Answered
    BY DEF Answered
  <2>1. \E cf \in Incoming : vnode__rsdo(cf)
    BY DEF Next, vars, serverVars, co_vnode_new, init_nodes_failure, NmtToAll, NmtToNode,
       vnode__heartbeat, vnode__on_heartbeat, Transmit
  <2> QED
    BY <2>1, FrameStep
<1> QED
  BY <1>1, Invariance, PTL DEF Spec, OneAnswer
=============================================================================
