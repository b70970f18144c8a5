--------------------------- MODULE SdoAsyncProofs ---------------------------
(***************************************************************************)
(* The properties of the SDO client, proved for every set of requests and  *)
(* of incoming frames.                                                     *)
(***************************************************************************)
EXTENDS SdoAsyncAlone, TLAPS

-----------------------------------------------------------------------------
(* Sequences. *)

LEMMA LenOf ==
    ASSUME NEW S, NEW s \in Seq(S)
    PROVE  Len(s) \in Nat /\ s \in [1..Len(s) -> S]
  OBVIOUS

LEMMA ElementOf ==
    ASSUME NEW S, NEW s \in Seq(S), NEW n \in 1..Len(s)
    PROVE  s[n] \in S
  OBVIOUS

LEMMA NoElements ==
    ASSUME NEW S
    PROVE  <<>> \in Seq(S) /\ \A s \in Seq(S) : Len(s) = 0 <=> s = <<>>
  OBVIOUS

LEMMA SameElements ==
    ASSUME NEW S, NEW s \in Seq(S), NEW t \in Seq(S), Len(s) = Len(t),
           \A i \in 1..Len(s) : s[i] = t[i]
    PROVE  s = t
  OBVIOUS

LEMMA AppendTo ==
    ASSUME NEW S, NEW s \in Seq(S), NEW e \in S
    PROVE  Append(s, e) \in Seq(S) /\ Len(Append(s, e)) = Len(s) + 1
  OBVIOUS

LEMMA ConcatNothing ==
    ASSUME NEW S, NEW s \in Seq(S)
    PROVE  s \o <<>> = s /\ <<>> \o s = s
  OBVIOUS

LEMMA ConcatOf ==
    ASSUME NEW S, NEW s \in Seq(S), NEW t \in Seq(S)
    PROVE  s \o t \in Seq(S) /\ Len(s \o t) = Len(s) + Len(t)
  OBVIOUS

LEMMA TailOf ==
    ASSUME NEW S, NEW s \in Seq(S), s # <<>>
    PROVE  Tail(s) \in Seq(S)
  OBVIOUS

LEMMA SubSeqOf ==
    ASSUME NEW S, NEW s, NEW m \in Nat, NEW n \in Nat, \A i \in m..n : s[i] \in S
    PROVE  /\ SubSeq(s, m, n) \in Seq(S)
           /\ m <= n + 1 => Len(SubSeq(s, m, n)) = n + 1 - m
           /\ \A i \in 1..(n + 1 - m) : SubSeq(s, m, n)[i] = s[m + i - 1]
  OBVIOUS

LEMMA SubSeqOfNone ==
    ASSUME NEW S, NEW s \in Seq(S)
    PROVE  SubSeq(s, 1, 0) = <<>>
  OBVIOUS

LEMMA SubSeqOfAll ==
    ASSUME NEW S, NEW s \in Seq(S)
    PROVE  SubSeq(s, 1, Len(s)) = s
  OBVIOUS

LEMMA Adjacent ==
    ASSUME NEW S, NEW s \in Seq(S), NEW p \in 0..Len(s), NEW n \in p..Len(s)
    PROVE  SubSeq(s, 1, p) \o SubSeq(s, p + 1, n) = SubSeq(s, 1, n)
  OBVIOUS

-----------------------------------------------------------------------------
(* Frames. *)

\* The fields of a segment of n bytes have their widths.
LEMMA SegmentSizes ==
    \A n \in Nat : n <= 7 => /\ n \in 0..7
                             /\ 7 - n \in 0..7
                             /\ 1 + n \in 0..8
                             /\ 7 - (7 - n) = n
  OBVIOUS

\* A segment of at most seven bytes is a frame, and carries those bytes.
LEMMA SegmentFrame ==
    ASSUME NEW cs \in 0..7, NEW tog \in Bit, NEW d \in Seq(Byte),
           Len(d) <= 7, NEW last \in BOOLEAN
    PROVE  /\ Segment(cs, tog, d, last) \in Frame
           /\ SubSeq(Segment(cs, tog, d, last).data, 1,
                     sdo_get_segment_size(Segment(cs, tog, d, last))) = d
<1> DEFINE cf == Segment(cs, tog, d, last)
<1>1. Pad(d) \in [1..7 -> Byte]
  BY SdoFrameAssumption DEF Pad
<1>2. PICK n \in Nat : n = Len(d) /\ n <= 7
  BY LenOf
<1>3. cf.data = Pad(d) /\ cf.n = 7 - Len(d)
  BY DEF Segment, MakeFrame
<1>4. cf \in Frame
  BY <1>1, <1>2, SegmentSizes, Zenon
  DEF Segment, MakeFrame, Frame, Bit, NoMux, AbortCodes, NoCode,
      SDO_SEGMENT_IDX
<1>5. sdo_get_segment_size(cf) = Len(d)
  BY <1>2, <1>3, SegmentSizes DEF sdo_get_segment_size
<1>6. SubSeq(Pad(d), 1, Len(d)) = d
  <2>1. \A i \in 1..Len(d) : Pad(d)[i] = d[i] /\ d[i] \in Byte
    BY <1>2 DEF Pad
  <2>2. /\ SubSeq(Pad(d), 1, Len(d)) \in Seq(Byte)
        /\ Len(SubSeq(Pad(d), 1, Len(d))) = Len(d)
        /\ \A i \in 1..Len(d) : SubSeq(Pad(d), 1, Len(d))[i] = d[i]
    BY <1>2, <2>1, SubSeqOf
  <2> QED
    BY <2>2, SameElements
<1> QED
  BY <1>3, <1>4, <1>5, <1>6

\* The frames without data are frames.
LEMMA OtherFrames ==
    ASSUME NEW cs \in 0..7, NEW tog \in Bit, NEW mux \in Mux \union {NoMux},
           NEW code \in AbortCodes
    PROVE  /\ Indicated(cs, mux) \in Frame
           /\ Plain(cs, mux) \in Frame
           /\ BareSegment(cs, tog) \in Frame
           /\ sdo_abort(code, mux) \in Frame
<1>1. Pad(<<>>) \in [1..7 -> Byte] /\ Zeros(7) \in [1..7 -> Byte]
  BY SdoFrameAssumption DEF Pad, Zeros
<1> QED
  BY <1>1 DEF Indicated, Plain, BareSegment, sdo_abort, MakeFrame, Frame, Bit,
     NoMux, AbortCodes, NoCode, CAN_MAX_DLC, SDO_ABORT_CS

\* Filling a frame up keeps it a frame.
LEMMA OnBusFrame == \A cf \in Frame : OnBus(cf) \in Frame
  BY DEF OnBus, Frame, CAN_MAX_DLC

\* The fields of an expedited frame of n bytes have their widths; the size reads
\* back as n, but for the empty one.
LEMMA ExpeditedSizes ==
    ASSUME NEW n \in Nat, n <= 4
    PROVE  /\ (4 - n) \div 4 \in 0..1
           /\ 2 * ((4 - n) % 4) + 1 \in 0..7
           /\ 4 + n \in 0..8
           /\ (2 * ((4 - n) % 4) + 1) % 2 = 1
           /\ 4 - ((2 * ((4 - n) % 4) + 1) \div 2) = IF n = 0 THEN 4 ELSE n
<1>1. n = 0 \/ n = 1 \/ n = 2 \/ n = 3 \/ n = 4
  OBVIOUS
<1> QED
  BY <1>1

\* An expedited download frame carries its data, and reads back as Readable
\* says when it was filled up.
LEMMA ExpeditedFrame ==
    ASSUME NEW mux \in Mux, NEW d \in Seq(Byte), Len(d) <= 4
    PROVE  /\ Expedited(SDO_CCS_DL_INIT_REQ, mux, d) \in Frame
           /\ Payload(OnBus(Expedited(SDO_CCS_DL_INIT_REQ, mux, d)))
                  = Readable(d)
<1> DEFINE cf == Expedited(SDO_CCS_DL_INIT_REQ, mux, d)
           on == OnBus(cf)
<1>1. Pad(d) \in [1..7 -> Byte]
  BY SdoFrameAssumption DEF Pad
<1>2. PICK n \in Nat : n = Len(d) /\ n <= 4
  BY LenOf
<1>3. cf = [cs |-> 1, t |-> (4 - n) \div 4, n |-> 2 * ((4 - n) % 4) + 1,
            e |-> 1, mux |-> mux, data |-> Pad(d), dlc |-> 4 + n,
            code |-> NoCode]
  BY <1>2 DEF Expedited, MakeFrame, SDO_CCS_DL_INIT_REQ,
     SDO_EXPEDIATED_DATA_IDX
<1>4. cf \in Frame
  BY <1>1, <1>3, ExpeditedSizes, <1>2 DEF Frame, Bit, AbortCodes, NoCode
<1>5. /\ on.cs = 1 /\ on.n = 2 * ((4 - n) % 4) + 1 /\ on.data = Pad(d)
      /\ on.dlc = IF NeedsFullFrame THEN 8 ELSE 4 + n
  BY <1>3 DEF OnBus, CAN_MAX_DLC
<1>6. Payload(on) = SubSeq(Pad(d), 1, Minimum(IF n = 0 THEN 4 ELSE n,
                           (IF NeedsFullFrame THEN 8 ELSE 4 + n) - 4))
  BY <1>5, <1>2, ExpeditedSizes, Zenon
  DEF Payload, sdo_is_expediated, sdo_get_expediated_size,
      SDO_CCS_DL_INIT_REQ, SDO_EXPEDIATED_DATA_IDX
<1>7. CASE n # 0 \/ ~NeedsFullFrame
  <2>1. Payload(on) = SubSeq(Pad(d), 1, n)
    BY <1>2, <1>6, <1>7, SdoAsyncAssumption DEF Minimum
  <2>2. SubSeq(Pad(d), 1, n) = d
    <3>1. \A i \in 1..n : Pad(d)[i] = d[i] /\ d[i] \in Byte
      BY <1>2 DEF Pad
    <3>2. /\ SubSeq(Pad(d), 1, n) \in Seq(Byte)
          /\ Len(SubSeq(Pad(d), 1, n)) = n
          /\ \A i \in 1..n : SubSeq(Pad(d), 1, n)[i] = d[i]
      BY <1>2, <3>1, SubSeqOf
    <3> QED
      BY <3>2, <1>2, SameElements
  <2>3. Readable(d) = d
    BY <1>7, <1>2, NoElements DEF Readable
  <2> QED
    BY <1>4, <2>1, <2>2, <2>3
<1>8. CASE n = 0 /\ NeedsFullFrame
  <2>1. Payload(on) = SubSeq(Pad(d), 1, 4)
    BY <1>6, <1>8 DEF Minimum
  <2>2. \A i \in 1..4 : Pad(d)[i] = 0
    BY <1>2, <1>8 DEF Pad
  <2>3. /\ SubSeq(Pad(d), 1, 4) \in Seq(Byte)
        /\ Len(SubSeq(Pad(d), 1, 4)) = 4
        /\ \A i \in 1..4 : SubSeq(Pad(d), 1, 4)[i] = 0
    BY <2>2, SubSeqOf, SdoFrameAssumption
  <2>4. Zeros(4) \in Seq(Byte) /\ Len(Zeros(4)) = 4
        /\ \A i \in 1..4 : Zeros(4)[i] = 0
    BY SdoFrameAssumption DEF Zeros
  <2>5. SubSeq(Pad(d), 1, 4) = Zeros(4)
    BY <2>3, <2>4, SameElements
  <2>6. d = <<>>
    BY <1>2, <1>8, NoElements, Zenon
  <2> QED
    BY <1>4, <1>8, <2>1, <2>5, <2>6 DEF Readable
<1> QED
  BY <1>7, <1>8

(***************************************************************************)
(* The inductive invariant.  A running transfer is in one of two stages:   *)
(* its initiate request is on the wire, or so many segments are.           *)
(***************************************************************************)
InitStage(c, w) ==
    /\ c.comm = "INIT_RESPONSE"
    /\ w.segs = 0
    /\ c.tog = 0
    /\ c.pos = 0
    /\ c.type = "DOWNLOAD" =>
           w.data = IF Len(c.buf) <= 4 THEN Readable(c.buf) ELSE <<>>

SegStage(c, w) ==
    /\ c.comm = "SEG_RESPONSE"
    /\ w.segs > 0
    /\ c.tog = (w.segs + 1) % 2
    /\ c.type = "DOWNLOAD" =>
           /\ Len(c.buf) > 4
           /\ 7 * (w.segs - 1) < Len(c.buf)
           /\ c.pos = Minimum(7 * w.segs, Len(c.buf))
           /\ w.data = SubSeq(c.buf, 1, c.pos)

Stage(c, w) ==
    /\ c.type \in {"UPLOAD", "DOWNLOAD"}
    /\ InitStage(c, w) \/ SegStage(c, w)

ClientInv ==
    /\ TypeOK
    /\ TimerIffRunning
    /\ FreedOnce
    /\ cl.running => Stage(cl, wire)

\* What the properties say follows from the stage a transfer is in.
LEMMA ClientInvImplies ==
    ClientInv => /\ AssertionsHold
                 /\ WireIsPrefix
                 /\ TogglesAlternate
  BY DEF ClientInv, Stage, InitStage, SegStage, AssertionsHold, WireIsPrefix,
     TogglesAlternate, SDO_SEGMENT_MAX_SIZE

\* What a frame that the client sends adds to the wire.
LEMMA SeenOne ==
    ASSUME TypeOK, NEW cf \in Frame, NEW w, sdo_async__send(cf)
    PROVE  /\ toSrv' \in Seq(Frame)
           /\ Seen(w) = [data |-> w.data \o Payload(OnBus(cf)),
                         segs |-> w.segs + (IF IsSegment(OnBus(cf))
                                            THEN 1 ELSE 0)]
<1>1. toSrv \in Seq(Frame) /\ OnBus(cf) \in Frame
  BY OnBusFrame DEF TypeOK, ClientTypeOK
<1>2. /\ toSrv' \in Seq(Frame)
      /\ Len(toSrv') = Len(toSrv) + 1
      /\ toSrv'[Len(toSrv) + 1] = OnBus(cf)
  BY <1>1, AppendTo DEF sdo_async__send
<1>3. Len(toSrv) \in Nat
  BY <1>1, LenOf
<1>4. Len(toSrv') # Len(toSrv) /\ toSrv'[Len(toSrv')] = OnBus(cf)
  BY <1>2, <1>3
<1> QED
  BY <1>2, <1>4 DEF Seen

\* A transfer that ends, by an abort or otherwise, leaves the invariant true.
LEMMA OnDoneStep ==
    ASSUME ClientInv, cl.running, NEW c \in SdoClient,
           sdo_async__on_done(c), toSrv' \in Seq(Frame), wire' \in Wire
    PROVE  ClientInv'
<1>1. cl' \in SdoClient /\ cl'.running = FALSE /\ cl'.timer = FALSE
  BY Zenon DEF sdo_async__on_done, SdoClient
<1>2. calls' \in Calls /\ calls'.freed = calls.freed + 1
      /\ calls'.started = calls.started
  BY DEF ClientInv, TypeOK, ClientTypeOK, Calls, sdo_async__on_done
<1>3. calls.freed \in Nat /\ calls.started \in Nat
      /\ calls.started = calls.freed + 1
  BY DEF ClientInv, TypeOK, ClientTypeOK, Calls, FreedOnce
<1>4. TypeOK' /\ TimerIffRunning'
  BY <1>1, <1>2, Zenon DEF TypeOK, ClientTypeOK, TimerIffRunning
<1>5. FreedOnce'
  BY <1>1, <1>2, <1>3 DEF FreedOnce
<1> QED
  BY <1>1, <1>4, <1>5 DEF ClientInv

\* What DownloadOnWire says of a step.
WholeDownload ==
    cl.running /\ ~cl'.running /\ cl.type = "DOWNLOAD"
    /\ cl'.status = "OK" /\ calls'.done = calls.done + 1 =>
        wire.data = Readable(cl.buf)

\* An abort adds nothing to the wire, and ends the transfer.
LEMMA AbortStep ==
    ASSUME ClientInv, cl.running, NEW c \in SdoClient,
           NEW code \in AbortCodes, sdo_async__abort(c, code),
           wire' = Seen(wire)
    PROVE  ClientInv' /\ WholeDownload
<1> DEFINE cf == sdo_abort(code, c.mux)
           d == [c EXCEPT !.status = "LOCAL_ABORT", !.code = code]
<1>1. c.mux \in Mux \union {NoMux} /\ d \in SdoClient
  BY Zenon DEF SdoClient
<1>2. cf \in Frame
  BY <1>1, OtherFrames DEF Bit
<1>3. sdo_async__send(cf) /\ sdo_async__on_done(d)
  BY DEF sdo_async__abort
<1>4. TypeOK /\ wire \in Wire
  BY DEF ClientInv, TypeOK
<1>5. /\ toSrv' \in Seq(Frame)
      /\ wire' = [data |-> wire.data \o Payload(OnBus(cf)),
                  segs |-> wire.segs + (IF IsSegment(OnBus(cf))
                                        THEN 1 ELSE 0)]
  BY <1>2, <1>3, <1>4, SeenOne, Zenon
<1>6. Payload(OnBus(cf)) = <<>> /\ ~IsSegment(OnBus(cf))
  <2>1. OnBus(cf).cs = 4
    BY DEF OnBus, sdo_abort, SDO_ABORT_CS
  <2> QED
    BY <2>1 DEF Payload, IsSegment, SDO_CCS_DL_INIT_REQ, SDO_CCS_DL_SEG_REQ,
       SDO_CCS_UL_SEG_REQ
<1>7. wire' \in Wire
  BY <1>4, <1>5, <1>6, ConcatNothing DEF Wire
<1>8. cl'.status = "LOCAL_ABORT"
  BY DEF sdo_async__abort, sdo_async__on_done, SdoClient
<1> QED
  BY <1>1, <1>3, <1>5, <1>7, <1>8, OnDoneStep, Zenon DEF WholeDownload

\* A transfer that ends well sends nothing more.
LEMMA SucceedStep ==
    ASSUME ClientInv, cl.running, NEW c \in SdoClient, Succeed(c),
           wire' = Seen(wire)
    PROVE  ClientInv' /\ UNCHANGED wire
<1>1. toSrv' = toSrv /\ sdo_async__on_done([c EXCEPT !.status = "OK"])
  BY DEF Succeed
<1>2. wire' = wire
  BY <1>1 DEF Seen
<1>3. toSrv' \in Seq(Frame) /\ wire' \in Wire
  BY <1>1, <1>2 DEF ClientInv, TypeOK, ClientTypeOK
<1>4. [c EXCEPT !.status = "OK"] \in SdoClient
  BY DEF SdoClient
<1> QED
  BY <1>1, <1>2, <1>3, <1>4, OnDoneStep

\* A request keeps the transfer running, its timer started.
LEMMA RequestStep ==
    ASSUME ClientInv, cl.running, NEW c \in SdoClient, c.running,
           NEW cf \in Frame, Request(c, cf), wire' \in Wire,
           Stage([c EXCEPT !.timer = TRUE], wire')
    PROVE  ClientInv' /\ WholeDownload
<1>1. TypeOK
  BY DEF ClientInv
<1>2. toSrv' \in Seq(Frame)
  BY <1>1, SeenOne DEF Request
<1>3. cl' \in SdoClient /\ cl' = [c EXCEPT !.timer = TRUE]
      /\ cl'.timer = TRUE /\ cl'.running = TRUE
  BY Zenon DEF Request, SdoClient
<1>4. calls' = calls /\ calls \in Calls /\ FreedOnce
  BY DEF Request, ClientInv, TypeOK, ClientTypeOK
<1>5. TypeOK' /\ TimerIffRunning'
  BY <1>2, <1>3, <1>4, Zenon DEF TypeOK, ClientTypeOK, TimerIffRunning
<1>6. FreedOnce'
  BY <1>3, <1>4 DEF FreedOnce
<1> QED
  BY <1>3, <1>5, <1>6 DEF ClientInv, WholeDownload

\* The request for the next segment of an upload.
LEMMA UlSegmentStep ==
    ASSUME ClientInv, cl.running, NEW c \in SdoClient, c.running,
           c.type = "UPLOAD", c.comm = "SEG_RESPONSE",
           c.tog = wire.segs % 2,
           sdo_async__request_ul_segment(c), wire' = Seen(wire)
    PROVE  ClientInv' /\ WholeDownload
<1> DEFINE cf == BareSegment(SDO_CCS_UL_SEG_REQ, c.tog)
<1>1. c.tog \in Bit /\ SDO_CCS_UL_SEG_REQ \in 0..7 /\ NoMux \in Mux \union {NoMux}
      /\ NoCode \in AbortCodes
  BY DEF SdoClient, SDO_CCS_UL_SEG_REQ, AbortCodes
<1>2. cf \in Frame
  BY <1>1, OtherFrames
<1>3. Request(c, cf) /\ sdo_async__send(cf)
  BY DEF sdo_async__request_ul_segment, Request
<1>4. OnBus(cf).cs = 3
  BY DEF OnBus, BareSegment, MakeFrame, SDO_CCS_UL_SEG_REQ
<1>5. Payload(OnBus(cf)) = <<>> /\ IsSegment(OnBus(cf))
  BY <1>4 DEF Payload, IsSegment, SDO_CCS_DL_INIT_REQ, SDO_CCS_DL_SEG_REQ,
     SDO_CCS_UL_SEG_REQ
<1>6. TypeOK /\ wire.segs \in Nat /\ wire.data \in Seq(Byte)
  BY DEF ClientInv, TypeOK, Wire
<1>7. wire' = [data |-> wire.data \o <<>>, segs |-> wire.segs + 1]
  BY <1>2, <1>3, <1>5, <1>6, SeenOne, Zenon
<1>8. wire' \in Wire /\ wire'.segs = wire.segs + 1
  BY <1>6, <1>7, ConcatNothing DEF Wire
<1>9. (wire'.segs + 1) % 2 = wire.segs % 2
  BY <1>6, <1>8
<1>10. Stage([c EXCEPT !.timer = TRUE], wire')
  BY <1>6, <1>8, <1>9 DEF Stage, SegStage, SdoClient
<1> QED
  BY <1>2, <1>3, <1>8, <1>10, RequestStep

\* Where a download stands after one more segment.
LEMMA SegmentArithmetic ==
    ASSUME NEW k \in Nat, NEW len \in Nat, NEW pos \in Nat,
           pos = Minimum(7 * k, len), pos < len
    PROVE  /\ Minimum(7, len - pos) \in Nat
           /\ Minimum(7, len - pos) <= 7
           /\ pos + Minimum(7, len - pos) <= len
           /\ pos + Minimum(7, len - pos) = Minimum(7 * (k + 1), len)
           /\ 7 * ((k + 1) - 1) < len
  BY DEF Minimum

\* Cutting k bytes off a buffer after its first p.
LEMMA CutSegment ==
    ASSUME NEW s \in Seq(Byte), NEW p \in Nat, NEW k \in Nat,
           p + k <= Len(s)
    PROVE  /\ SubSeq(s, p + 1, p + k) \in Seq(Byte)
           /\ Len(SubSeq(s, p + 1, p + k)) = k
           /\ SubSeq(s, 1, p) \o SubSeq(s, p + 1, p + k) = SubSeq(s, 1, p + k)
           /\ SubSeq(s, 1, p + k) \in Seq(Byte)
<1>1. PICK m \in Nat : m = p + 1
  OBVIOUS
<1>2. PICK n \in Nat : n = p + k
  OBVIOUS
<1>3. Len(s) \in Nat /\ n <= Len(s)
  BY <1>2, LenOf
<1>4. \A i \in 1..n : s[i] \in Byte
  BY <1>3, ElementOf
<1>5. \A i \in m..n : s[i] \in Byte
  BY <1>1, <1>4
<1>6. SubSeq(s, m, n) \in Seq(Byte) /\ Len(SubSeq(s, m, n)) = k
  <2>1. m <= n + 1 /\ n + 1 - m = k
    BY <1>1, <1>2
  <2>2. /\ SubSeq(s, m, n) \in Seq(Byte)
        /\ m <= n + 1 => Len(SubSeq(s, m, n)) = n + 1 - m
    BY <1>5, SubSeqOf
  <2> QED
    BY <2>1, <2>2, ZenonT(30)
<1>7. SubSeq(s, 1, n) \in Seq(Byte)
  BY <1>4, SubSeqOf
<1>8. SubSeq(s, 1, p) \o SubSeq(s, p + 1, n) = SubSeq(s, 1, n)
  <2>1. 1 \in 1..(Len(s) + 1) /\ p \in (1 - 1)..Len(s) /\ n \in p..Len(s)
    BY <1>2, <1>3
  <2> QED
    BY <2>1, Adjacent
<1> QED
  BY <1>1, <1>2, <1>6, <1>7, <1>8

\* The next segment of a download: it goes on where the last one ended.
LEMMA DlSegmentStep ==
    ASSUME ClientInv, cl.running, NEW c \in SdoClient, c.running,
           c.type = "DOWNLOAD", c.comm = "SEG_RESPONSE",
           c.tog = wire.segs % 2, Len(c.buf) > 4, c.pos < Len(c.buf),
           c.pos = Minimum(7 * wire.segs, Len(c.buf)),
           wire.data = SubSeq(c.buf, 1, c.pos),
           sdo_async__request_dl_segment(c), wire' = Seen(wire)
    PROVE  ClientInv' /\ WholeDownload
<1> DEFINE len == Len(c.buf)
           size == Minimum(7, len - c.pos)
           sent == [c EXCEPT !.pos = c.pos + size]
           d == SubSeq(c.buf, c.pos + 1, c.pos + size)
           cf == Segment(SDO_CCS_DL_SEG_REQ, c.tog, d,
                         sdo_async__is_at_end(sent))
           on == OnBus(cf)
<1>1. /\ c.buf \in Seq(Byte) /\ len \in Nat /\ c.pos \in Nat /\ c.tog \in Bit
      /\ wire.segs \in Nat /\ wire.data \in Seq(Byte) /\ TypeOK
  BY LenOf DEF SdoClient, ClientInv, TypeOK, Wire
<1>2. /\ size \in Nat /\ size <= 7 /\ c.pos + size <= len
      /\ c.pos + size = Minimum(7 * (wire.segs + 1), len)
      /\ 7 * ((wire.segs + 1) - 1) < len
  BY <1>1, SegmentArithmetic
<1>3. Request(sent, cf)
  BY DEF sdo_async__request_dl_segment, SDO_SEGMENT_MAX_SIZE
<1> HIDE DEF len, size
<1>4. /\ d \in Seq(Byte) /\ Len(d) = size
      /\ wire.data \o d = SubSeq(c.buf, 1, c.pos + size)
      /\ SubSeq(c.buf, 1, c.pos + size) \in Seq(Byte)
  <2>1. c.buf \in Seq(Byte) /\ c.pos \in Nat /\ size \in Nat
        /\ c.pos + size <= Len(c.buf)
    BY <1>1, <1>2 DEF len
  <2>2. /\ SubSeq(c.buf, c.pos + 1, c.pos + size) \in Seq(Byte)
        /\ Len(SubSeq(c.buf, c.pos + 1, c.pos + size)) = size
        /\ SubSeq(c.buf, 1, c.pos) \o SubSeq(c.buf, c.pos + 1, c.pos + size)
               = SubSeq(c.buf, 1, c.pos + size)
        /\ SubSeq(c.buf, 1, c.pos + size) \in Seq(Byte)
    BY <2>1, CutSegment, Zenon
  <2> QED
    BY <2>2, Zenon
<1>5. sent \in SdoClient
  <2>1. c.pos + size \in Nat
    BY <1>1, <1>2
  <2> QED
    BY <2>1, Zenon DEF SdoClient
<1>6. /\ sent.running /\ sent.type = "DOWNLOAD"
      /\ sent.comm = "SEG_RESPONSE" /\ sent.tog = c.tog
      /\ sent.buf = c.buf /\ sent.pos = c.pos + size
  BY DEF SdoClient
<1> HIDE DEF d, sent
<1>7. /\ cf \in Frame
      /\ SubSeq(cf.data, 1, sdo_get_segment_size(cf)) = d
  <2>1. SDO_CCS_DL_SEG_REQ \in 0..7
        /\ sdo_async__is_at_end(sent) \in BOOLEAN
    BY DEF SDO_CCS_DL_SEG_REQ, sdo_async__is_at_end
  <2> QED
    BY <1>1, <1>2, <1>4, <2>1, SegmentFrame, ZenonT(30)
<1>8. on.cs = 0 /\ on.data = cf.data /\ on.n = cf.n
  BY DEF OnBus, Segment, MakeFrame, SDO_CCS_DL_SEG_REQ
<1> HIDE DEF cf, on
<1>9. Payload(on) = d /\ IsSegment(on)
  BY <1>7, <1>8 DEF Payload, IsSegment, sdo_get_segment_size,
     SDO_CCS_DL_SEG_REQ, SDO_CCS_DL_INIT_REQ
<1>10. wire' = [data |-> wire.data \o d, segs |-> wire.segs + 1]
  <2>1. sdo_async__send(cf)
    BY <1>3 DEF Request
  <2> QED
    BY <1>1, <1>7, <1>9, <2>1, SeenOne, Zenon DEF on
<1>11. wire' \in Wire /\ wire'.segs = wire.segs + 1
       /\ wire'.data = SubSeq(c.buf, 1, c.pos + size)
  <2>1. wire.segs + 1 \in Nat
    BY <1>1
  <2>2. wire.data \o d \in Seq(Byte)
    BY <1>4, ZenonT(30)
  <2> QED
    BY <1>4, <1>10, <2>1, <2>2 DEF Wire
<1>12. (wire'.segs + 1) % 2 = wire.segs % 2 /\ wire'.segs > 0
  BY <1>1, <1>11, SMTT(30)
<1>13. Stage([sent EXCEPT !.timer = TRUE], wire')
  <2> DEFINE e == [sent EXCEPT !.timer = TRUE]
  <2>1. e.type = "DOWNLOAD" /\ e.comm = "SEG_RESPONSE" /\ e.tog = c.tog
        /\ e.buf = c.buf /\ e.pos = c.pos + size
    BY <1>5, <1>6 DEF SdoClient
  <2> HIDE DEF e
  <2>2. Stage(e, wire')
    BY <1>2, <1>11, <1>12, <2>1 DEF Stage, SegStage, len
  <2> QED
    BY <2>2 DEF e
<1> QED
  BY <1>3, <1>5, <1>6, <1>7, <1>11, <1>13, RequestStep

(***************************************************************************)
(* sdo_async_feed, by the stage of the transfer and its type.              *)
(***************************************************************************)
\* What can be read from the data of a frame is a sequence of bytes.
LEMMA FrameData ==
    ASSUME NEW cf \in Frame, NEW k \in 0..7
    PROVE  SubSeq(cf.data, 1, k) \in Seq(Byte)
<1>1. \A i \in 1..k : cf.data[i] \in Byte
  BY DEF Frame
<1> QED
  BY <1>1, SubSeqOf

\* The client that sdo_async_feed works on: its timer has been stopped.
LEMMA StoppedTimer ==
    ASSUME ClientInv, cl.running, NEW c, c = [cl EXCEPT !.timer = FALSE]
    PROVE  /\ c \in SdoClient
           /\ c.running = TRUE
           /\ Stage(c, wire)
           /\ c.type = cl.type /\ c.comm = cl.comm /\ c.buf = cl.buf
           /\ c.tog \in Bit /\ c.pos \in Nat /\ c.buf \in Seq(Byte)
           /\ c.mux \in Mux \union {NoMux}
<1>1. cl \in SdoClient /\ Stage(cl, wire)
  BY DEF ClientInv, TypeOK, ClientTypeOK
<1>2. /\ c.type = cl.type /\ c.comm = cl.comm /\ c.buf = cl.buf
      /\ c.tog = cl.tog /\ c.pos = cl.pos /\ c.running = cl.running
      /\ c.mux = cl.mux
  BY <1>1, Zenon DEF SdoClient
<1>3. c \in SdoClient
  BY <1>1, Zenon DEF SdoClient
<1>4. Stage(c, wire)
  BY <1>1, <1>2 DEF Stage, InitStage, SegStage
<1> QED
  BY <1>1, <1>2, <1>3, <1>4 DEF SdoClient

LEMMA FeedInitDl ==
    ASSUME ClientInv, cl.running, cl.comm = "INIT_RESPONSE",
           cl.type = "DOWNLOAD", NEW cf \in Frame, wire' = Seen(wire),
           sdo_async__feed_init_dl_response([cl EXCEPT !.timer = FALSE], cf)
    PROVE  ClientInv' /\ WholeDownload
<1> PICK c : c = [cl EXCEPT !.timer = FALSE]
  OBVIOUS
<1> DEFINE fault == InitFault(c, cf, SDO_SCS_DL_INIT_RES)
<1>1. /\ c \in SdoClient /\ c.running = TRUE /\ Stage(c, wire)
      /\ c.type = "DOWNLOAD" /\ c.comm = "INIT_RESPONSE" /\ c.buf = cl.buf
      /\ c.buf \in Seq(Byte)
  BY StoppedTimer, Zenon
<1>2. InitStage(c, wire)
  BY <1>1 DEF Stage, SegStage
<1>3. CASE fault # NoCode /\ sdo_async__abort(c, fault)
  <2>1. fault \in AbortCodes
    BY DEF InitFault, AbortCodes
  <2> QED
    BY <1>1, <1>3, <2>1, AbortStep
<1>4. CASE sdo_async__is_expediated(c) /\ Succeed(c)
  <2>1. ClientInv'
    BY <1>1, <1>4, SucceedStep
  <2>2. wire.data = Readable(c.buf)
    BY <1>1, <1>2, <1>4 DEF InitStage, sdo_async__is_expediated,
       SDO_EXPEDIATED_DATA_SIZE
  <2> QED
    BY <1>1, <2>1, <2>2 DEF WholeDownload
<1>5. CASE /\ ~sdo_async__is_expediated(c)
           /\ sdo_async__request_dl_segment([c EXCEPT !.comm = "SEG_RESPONSE"])
  <2> PICK e : e = [c EXCEPT !.comm = "SEG_RESPONSE"]
    OBVIOUS
  <2>1. e \in SdoClient /\ e.running = TRUE /\ e.type = "DOWNLOAD"
        /\ e.comm = "SEG_RESPONSE" /\ e.buf = c.buf /\ e.tog = c.tog
        /\ e.pos = c.pos
    BY <1>1, Zenon DEF SdoClient
  <2>2. Len(c.buf) \in Nat /\ Len(c.buf) > 4
    BY <1>1, <1>5, LenOf DEF sdo_async__is_expediated,
       SDO_EXPEDIATED_DATA_SIZE
  <2>3. /\ wire.segs = 0 /\ c.pos = 0 /\ c.tog = 0 /\ wire.data = <<>>
    BY <1>1, <1>2, <2>2 DEF InitStage
  <2>4. wire.data = SubSeq(e.buf, 1, e.pos)
    BY <2>1, <2>3, SubSeqOfNone
  <2>5. e.pos = Minimum(7 * wire.segs, Len(e.buf)) /\ e.pos < Len(e.buf)
    BY <2>1, <2>2, <2>3 DEF Minimum
  <2>6. e.tog = wire.segs % 2
    BY <2>1, <2>3
  <2> QED
    BY <1>5, <2>1, <2>2, <2>4, <2>5, <2>6, DlSegmentStep, Zenon
<1> QED
  BY <1>3, <1>4, <1>5 DEF sdo_async__feed_init_dl_response

\* Flipping the toggle bit of the last request gives that of the next one.
LEMMA FlipToggle ==
    ASSUME NEW n \in Nat, NEW t \in Bit, t = (n + 1) % 2
    PROVE  1 - t = n % 2
<1>1. n % 2 \in {0, 1}
  OBVIOUS
<1>2. (n + 1) % 2 = IF n % 2 = 0 THEN 1 ELSE 0
  OBVIOUS
<1> QED
  BY <1>1, <1>2

\* The client with its toggle bit flipped.
LEMMA Flipped ==
    ASSUME NEW c \in SdoClient, c.running = TRUE
    PROVE  LET next == [c EXCEPT !.tog = 1 - c.tog] IN
           /\ next \in SdoClient /\ next.running = TRUE
           /\ next.type = c.type /\ next.comm = c.comm
           /\ next.buf = c.buf /\ next.pos = c.pos
           /\ next.tog = 1 - c.tog
<1>1. 1 - c.tog \in Bit
  BY DEF SdoClient, Bit
<1>2. PICK t \in Bit : t = 1 - c.tog
  BY <1>1
<1> QED
  BY <1>2 DEF SdoClient

LEMMA FeedSegDl ==
    ASSUME ClientInv, cl.running, cl.comm = "SEG_RESPONSE",
           cl.type = "DOWNLOAD", NEW cf \in Frame, wire' = Seen(wire),
           sdo_async__feed_dl_seg_response([cl EXCEPT !.timer = FALSE], cf)
    PROVE  ClientInv' /\ WholeDownload
<1> PICK c : c = [cl EXCEPT !.timer = FALSE]
  OBVIOUS
<1> DEFINE last == sdo_async__is_at_end(c)
           fault == SegFault(c, cf, SDO_SCS_DL_SEG_RES, last)
           next == [c EXCEPT !.tog = 1 - c.tog]
<1>1. /\ c \in SdoClient /\ c.running = TRUE /\ Stage(c, wire)
      /\ c.type = "DOWNLOAD" /\ c.comm = "SEG_RESPONSE" /\ c.buf = cl.buf
      /\ c.buf \in Seq(Byte) /\ c.tog \in Bit /\ c.pos \in Nat
  BY StoppedTimer, Zenon
<1>2. SegStage(c, wire)
  BY <1>1 DEF Stage, InitStage
<1>3. /\ next \in SdoClient /\ next.running = TRUE /\ next.type = "DOWNLOAD"
      /\ next.comm = "SEG_RESPONSE" /\ next.buf = c.buf /\ next.pos = c.pos
      /\ next.tog = 1 - c.tog
  BY <1>1, Flipped, Zenon
<1>4. Len(c.buf) \in Nat /\ wire.segs \in Nat
  BY <1>1, LenOf DEF ClientInv, TypeOK, Wire
<1>5. CASE fault # NoCode /\ sdo_async__abort(c, fault)
  <2>1. fault \in AbortCodes
    BY DEF SegFault, AbortCodes
  <2> QED
    BY <1>1, <1>5, <2>1, AbortStep
<1>6. CASE last /\ Succeed(next)
  <2>1. ClientInv'
    BY <1>3, <1>6, SucceedStep
  <2>2. c.pos = Len(c.buf) /\ Len(c.buf) > 4
    BY <1>1, <1>2, <1>4, <1>6 DEF SegStage, sdo_async__is_at_end, Minimum
  <2>3. wire.data = SubSeq(c.buf, 1, Len(c.buf))
    BY <1>1, <1>2, <2>2 DEF SegStage
  <2>4. wire.data = c.buf /\ c.buf # <<>>
    BY <1>1, <2>2, <2>3, SubSeqOfAll
  <2> QED
    BY <1>1, <2>1, <2>4 DEF WholeDownload, Readable
<1>7. CASE ~last /\ sdo_async__request_dl_segment(next)
  <2>1. c.pos < Len(c.buf)
    BY <1>1, <1>4, <1>7 DEF sdo_async__is_at_end
  <2>2. next.tog = wire.segs % 2
    BY <1>1, <1>2, <1>3, <1>4, FlipToggle DEF SegStage
  <2>3. /\ Len(next.buf) > 4
        /\ next.pos = Minimum(7 * wire.segs, Len(next.buf))
        /\ wire.data = SubSeq(next.buf, 1, next.pos)
    BY <1>1, <1>2, <1>3 DEF SegStage
  <2> QED
    BY <1>3, <1>7, <2>1, <2>2, <2>3, DlSegmentStep, Zenon
<1> QED
  BY <1>5, <1>6, <1>7 DEF sdo_async__feed_dl_seg_response

LEMMA FeedInitUl ==
    ASSUME ClientInv, cl.running, cl.comm = "INIT_RESPONSE",
           cl.type = "UPLOAD", NEW cf \in Frame, wire' = Seen(wire),
           sdo_async__feed_init_ul_response([cl EXCEPT !.timer = FALSE], cf)
    PROVE  ClientInv' /\ WholeDownload
<1> PICK c : c = [cl EXCEPT !.timer = FALSE]
  OBVIOUS
<1> DEFINE fault == InitFault(c, cf, SDO_SCS_UL_INIT_RES)
           d == [c EXCEPT !.ind = cf.e]
<1>1. /\ c \in SdoClient /\ c.running = TRUE /\ Stage(c, wire)
      /\ c.type = "UPLOAD" /\ c.comm = "INIT_RESPONSE"
  BY StoppedTimer, Zenon
<1>2. InitStage(c, wire)
  BY <1>1 DEF Stage, SegStage
<1>3. d \in SdoClient
  BY <1>1, Zenon DEF SdoClient, Frame
<1>4. CASE fault # NoCode /\ sdo_async__abort(c, fault)
  <2>1. fault \in AbortCodes
    BY DEF InitFault, AbortCodes
  <2> QED
    BY <1>1, <1>4, <2>1, AbortStep
<1>5. CASE sdo_async__handle_expediated_ul(c, cf)
  <2> PICK size : size = IF sdo_is_size_indicated(cf)
                         THEN sdo_get_expediated_size(cf)
                         ELSE SDO_EXPEDIATED_DATA_SIZE
    OBVIOUS
  <2> PICK b : b = SubSeq(cf.data, 1, size)
    BY Zenon
  <2>1. size \in 0..7
    BY DEF sdo_get_expediated_size, SDO_EXPEDIATED_DATA_SIZE, Frame
  <2>2. b \in Seq(Byte)
    BY <2>1, FrameData
  <2>3. [c EXCEPT !.ind = cf.e, !.buf = b] \in SdoClient
    BY <1>1, <2>2, ZenonT(30) DEF SdoClient, Frame
  <2>4. Succeed([c EXCEPT !.ind = cf.e, !.buf = b])
    BY <1>5 DEF sdo_async__handle_expediated_ul
  <2> QED
    BY <2>3, <2>4, SucceedStep DEF WholeDownload
<1>6. CASE sdo_async__handle_init_segmented_ul(c, cf)
  <2>1. CASE sdo_async__abort(d, "NOMEM")
    BY <1>3, <2>1, AbortStep DEF AbortCodes
  <2>2. CASE sdo_async__request_ul_segment([d EXCEPT !.comm = "SEG_RESPONSE"])
    <3> PICK e : e = [d EXCEPT !.comm = "SEG_RESPONSE"]
      OBVIOUS
    <3>1. e \in SdoClient /\ e.running = TRUE /\ e.type = "UPLOAD"
          /\ e.comm = "SEG_RESPONSE" /\ e.tog = c.tog
      BY <1>1, <1>3, Zenon DEF SdoClient
    <3>2. wire.segs = 0 /\ c.tog = 0
      BY <1>2 DEF InitStage
    <3>3. e.tog = wire.segs % 2
      BY <3>1, <3>2
    <3> QED
      BY <2>2, <3>1, <3>3, UlSegmentStep, Zenon
  <2> QED
    BY <1>6, <2>1, <2>2 DEF sdo_async__handle_init_segmented_ul
<1> QED
  BY <1>4, <1>5, <1>6 DEF sdo_async__feed_init_ul_response

LEMMA FeedSegUl ==
    ASSUME ClientInv, cl.running, cl.comm = "SEG_RESPONSE",
           cl.type = "UPLOAD", NEW cf \in Frame, wire' = Seen(wire),
           sdo_async__feed_ul_seg_response([cl EXCEPT !.timer = FALSE], cf)
    PROVE  ClientInv' /\ WholeDownload
<1> PICK c : c = [cl EXCEPT !.timer = FALSE]
  OBVIOUS
<1> PICK b : b = c.buf \o SubSeq(cf.data, 1, sdo_get_segment_size(cf))
  BY Zenon
<1> DEFINE last == sdo_is_end_segment(cf)
           fault == SegFault(c, cf, SDO_SCS_UL_SEG_RES, last)
           flip == [c EXCEPT !.tog = 1 - c.tog]
           next == [c EXCEPT !.tog = 1 - c.tog, !.buf = b]
<1>1. /\ c \in SdoClient /\ c.running = TRUE /\ Stage(c, wire)
      /\ c.type = "UPLOAD" /\ c.comm = "SEG_RESPONSE"
      /\ c.tog \in Bit /\ c.buf \in Seq(Byte)
  BY StoppedTimer, Zenon
<1>2. SegStage(c, wire)
  BY <1>1 DEF Stage, InitStage
<1>3. flip \in SdoClient
  BY <1>1, Flipped, Zenon
<1>4. sdo_get_segment_size(cf) \in 0..7
  BY DEF sdo_get_segment_size, Frame
<1>5. b \in Seq(Byte)
  BY <1>1, <1>4, FrameData, ConcatOf
<1>6. /\ next \in SdoClient /\ next.running = TRUE /\ next.type = "UPLOAD"
      /\ next.comm = "SEG_RESPONSE" /\ next.tog = 1 - c.tog
  <2>1. PICK t \in Bit : t = 1 - c.tog
    BY <1>1 DEF Bit
  <2> QED
    BY <1>1, <1>5, <2>1, Zenon DEF SdoClient
<1>7. wire.segs \in Nat
  BY DEF ClientInv, TypeOK, Wire
<1>8. CASE fault # NoCode /\ sdo_async__abort(c, fault)
  <2>1. fault \in AbortCodes
    BY DEF SegFault, AbortCodes
  <2> QED
    BY <1>1, <1>8, <2>1, AbortStep
<1>9. CASE sdo_async__abort(flip, "NOMEM")
  BY <1>3, <1>9, AbortStep DEF AbortCodes
<1>10. CASE Succeed(next)
  BY <1>6, <1>10, SucceedStep DEF WholeDownload
<1>11. CASE sdo_async__request_ul_segment(next)
  <2>1. next.tog = wire.segs % 2
    BY <1>1, <1>2, <1>6, <1>7, FlipToggle DEF SegStage
  <2> QED
    BY <1>6, <1>11, <2>1, UlSegmentStep, Zenon
<1> QED
  BY <1>8, <1>9, <1>10, <1>11 DEF sdo_async__feed_ul_seg_response

LEMMA FeedStep ==
    ASSUME ClientInv, NEW cf \in Incoming, Feed(cf)
    PROVE  ClientInv' /\ WholeDownload
<1>1. cf \in Frame /\ wire' = Seen(wire) /\ sdo_async_feed(cf)
  BY SdoAsyncAloneAssumption DEF Feed
<1>2. CASE ~cl.running /\ UNCHANGED clientVars
  <2>1. wire' = wire
    BY <1>1, <1>2 DEF Seen, clientVars
  <2> QED
    BY <1>2, <2>1 DEF ClientInv, TypeOK, ClientTypeOK, TimerIffRunning,
       FreedOnce, Stage, InitStage, SegStage, clientVars, WholeDownload
<1>3. CASE /\ cl.running
           /\ sdo_async__on_done([cl EXCEPT !.timer = FALSE,
                                            !.status = "REMOTE_ABORT",
                                            !.code = cf.code])
           /\ UNCHANGED toSrv
  <2> PICK c : c = [cl EXCEPT !.timer = FALSE, !.status = "REMOTE_ABORT",
                              !.code = cf.code]
    OBVIOUS
  <2>1. cl \in SdoClient /\ toSrv \in Seq(Frame) /\ wire \in Wire
    BY DEF ClientInv, TypeOK, ClientTypeOK
  <2>2. c \in SdoClient
    BY <1>1, <2>1, Zenon DEF SdoClient, Frame
  <2>3. wire' = wire /\ toSrv' = toSrv
    BY <1>1, <1>3 DEF Seen
  <2>4. ClientInv'
    BY <1>3, <2>1, <2>2, <2>3, OnDoneStep
  <2>5. cl'.status = "REMOTE_ABORT"
    BY <1>3, <2>1 DEF sdo_async__on_done, SdoClient
  <2> QED
    BY <2>4, <2>5 DEF WholeDownload
<1>4. CASE /\ cl.running
           /\ cl.comm = "INIT_RESPONSE"
           /\ cl.type = "DOWNLOAD"
           /\ sdo_async__feed_init_dl_response([cl EXCEPT !.timer = FALSE], cf)
  BY <1>1, <1>4, FeedInitDl, Zenon
<1>5. CASE /\ cl.running
           /\ cl.comm = "INIT_RESPONSE"
           /\ cl.type = "UPLOAD"
           /\ sdo_async__feed_init_ul_response([cl EXCEPT !.timer = FALSE], cf)
  BY <1>1, <1>5, FeedInitUl, Zenon
<1>6. CASE /\ cl.running
           /\ cl.comm = "SEG_RESPONSE"
           /\ cl.type = "DOWNLOAD"
           /\ sdo_async__feed_dl_seg_response([cl EXCEPT !.timer = FALSE], cf)
  BY <1>1, <1>6, FeedSegDl, Zenon
<1>7. CASE /\ cl.running
           /\ cl.comm = "SEG_RESPONSE"
           /\ cl.type = "UPLOAD"
           /\ sdo_async__feed_ul_seg_response([cl EXCEPT !.timer = FALSE], cf)
  BY <1>1, <1>7, FeedSegUl, Zenon
<1> QED
  BY <1>1, <1>2, <1>3, <1>4, <1>5, <1>6, <1>7 DEF sdo_async_feed

(***************************************************************************)
(* The other steps.                                                        *)
(***************************************************************************)
LEMMA TimeoutStep ==
    ASSUME ClientInv, Timeout
    PROVE  ClientInv' /\ WholeDownload
<1>1. cl \in SdoClient /\ cl.running
  BY DEF ClientInv, TypeOK, ClientTypeOK, TimerIffRunning, Timeout,
     sdo_async__on_timeout
<1> QED
  BY <1>1, AbortStep DEF Timeout, sdo_async__on_timeout, AbortCodes

LEMMA StopStep ==
    ASSUME ClientInv, Stop
    PROVE  ClientInv' /\ WholeDownload
<1>1. /\ cl.running /\ cl \in SdoClient /\ calls \in Calls
      /\ cl' = [cl EXCEPT !.timer = FALSE, !.running = FALSE]
      /\ calls' = [calls EXCEPT !.freed = @ + 1]
      /\ toSrv' = toSrv /\ wire' = wire
      /\ toSrv \in Seq(Frame) /\ wire \in Wire
  BY DEF ClientInv, TypeOK, ClientTypeOK, Stop, sdo_async_stop
<1>2. cl' \in SdoClient /\ cl'.running = FALSE /\ cl'.timer = FALSE
  BY <1>1, Zenon DEF SdoClient
<1>3. /\ calls.freed \in Nat /\ calls.started \in Nat /\ calls.done \in Nat
      /\ calls.started = calls.freed + 1
  BY <1>1 DEF Calls, ClientInv, FreedOnce
<1>4. /\ calls' \in Calls /\ calls'.started = calls.started
      /\ calls'.done = calls.done /\ calls'.freed = calls.freed + 1
  BY <1>1, <1>3 DEF Calls
<1>5. TypeOK' /\ TimerIffRunning'
  BY <1>1, <1>2, <1>4 DEF TypeOK, ClientTypeOK, TimerIffRunning
<1>6. FreedOnce'
  BY <1>2, <1>3, <1>4 DEF FreedOnce
<1>7. WholeDownload
  BY <1>3, <1>4 DEF WholeDownload
<1> QED
  BY <1>2, <1>5, <1>6, <1>7 DEF ClientInv

LEMMA TransmitStep ==
    ASSUME ClientInv, Transmit
    PROVE  ClientInv' /\ WholeDownload
<1>1. toSrv' \in Seq(Frame)
  BY TailOf DEF ClientInv, TypeOK, ClientTypeOK, Transmit
<1>2. cl' = cl /\ calls' = calls /\ wire' = wire
  BY DEF Transmit
<1> QED
  BY <1>1, <1>2 DEF ClientInv, TypeOK, ClientTypeOK, TimerIffRunning,
     FreedOnce, Stage, InitStage, SegStage, WholeDownload

\* The initiate request of a transfer with buffer b.
LEMMA InitRequest ==
    ASSUME TypeOK, NEW c \in SdoClient, c.mux \in Mux,
           c.type \in {"UPLOAD", "DOWNLOAD"},
           sdo_async__send_init(c), wire' = Seen(EmptyWire)
    PROVE  /\ toSrv' \in Seq(Frame)
           /\ wire' \in Wire
           /\ wire'.segs = 0
           /\ c.type = "DOWNLOAD" =>
                  wire'.data = IF Len(c.buf) <= 4 THEN Readable(c.buf)
                               ELSE <<>>
<1>1. c.buf \in Seq(Byte) /\ Len(c.buf) \in Nat
  BY LenOf DEF SdoClient
<1>2. /\ SDO_CCS_UL_INIT_REQ \in 0..7 /\ SDO_CCS_DL_INIT_REQ \in 0..7
      /\ 0 \in Bit /\ NoCode \in AbortCodes
  BY DEF SDO_CCS_UL_INIT_REQ, SDO_CCS_DL_INIT_REQ, Bit, AbortCodes
<1>3. PICK cf : /\ cf = (IF c.type = "UPLOAD"
                         THEN Plain(SDO_CCS_UL_INIT_REQ, c.mux)
                         ELSE IF sdo_async__is_expediated(c)
                              THEN Expedited(SDO_CCS_DL_INIT_REQ, c.mux, c.buf)
                              ELSE Indicated(SDO_CCS_DL_INIT_REQ, c.mux))
                /\ sdo_async__send(cf)
  BY DEF sdo_async__send_init
<1> DEFINE p == Payload(OnBus(cf))
<1>4. /\ cf \in Frame /\ ~IsSegment(OnBus(cf)) /\ p \in Seq(Byte)
      /\ c.type = "DOWNLOAD" =>
             p = IF Len(c.buf) <= 4 THEN Readable(c.buf) ELSE <<>>
  <2>1. CASE c.type = "UPLOAD"
    <3>1. cf = Plain(SDO_CCS_UL_INIT_REQ, c.mux) /\ cf \in Frame
      BY <1>2, <1>3, <2>1, OtherFrames
    <3>2. OnBus(cf).cs = 2
      BY <3>1 DEF OnBus, Plain, MakeFrame, SDO_CCS_UL_INIT_REQ
    <3>3. p = <<>> /\ ~IsSegment(OnBus(cf))
      BY <3>2 DEF Payload, IsSegment, SDO_CCS_DL_INIT_REQ, SDO_CCS_DL_SEG_REQ,
         SDO_CCS_UL_SEG_REQ
    <3> QED
      BY <2>1, <3>1, <3>3
  <2>2. CASE c.type = "DOWNLOAD" /\ Len(c.buf) <= 4
    <3>1. cf = Expedited(SDO_CCS_DL_INIT_REQ, c.mux, c.buf)
      BY <1>3, <2>2 DEF sdo_async__is_expediated, SDO_EXPEDIATED_DATA_SIZE
    <3>2. cf \in Frame /\ p = Readable(c.buf)
      BY <1>1, <2>2, <3>1, ExpeditedFrame
    <3>3. OnBus(cf).cs = 1
      BY <3>1 DEF OnBus, Expedited, MakeFrame, SDO_CCS_DL_INIT_REQ
    <3>4. ~IsSegment(OnBus(cf))
      BY <3>3 DEF IsSegment, SDO_CCS_DL_SEG_REQ, SDO_CCS_UL_SEG_REQ
    <3>5. Zeros(4) \in Seq(Byte)
      BY SdoFrameAssumption DEF Zeros
    <3> QED
      BY <1>1, <2>2, <3>2, <3>4, <3>5 DEF Readable
  <2>3. CASE c.type = "DOWNLOAD" /\ ~(Len(c.buf) <= 4)
    <3>1. cf = Indicated(SDO_CCS_DL_INIT_REQ, c.mux) /\ cf \in Frame
      BY <1>2, <1>3, <2>3, OtherFrames
         DEF sdo_async__is_expediated, SDO_EXPEDIATED_DATA_SIZE
    <3>2. OnBus(cf).cs = 1 /\ OnBus(cf).n = 0
      BY <3>1 DEF OnBus, Indicated, MakeFrame, SDO_CCS_DL_INIT_REQ
    <3>3. ~sdo_is_expediated(OnBus(cf))
      BY <3>2 DEF sdo_is_expediated
    <3>4. p = <<>> /\ ~IsSegment(OnBus(cf))
      BY <3>2, <3>3 DEF Payload, IsSegment, SDO_CCS_DL_SEG_REQ,
         SDO_CCS_UL_SEG_REQ
    <3> QED
      BY <2>3, <3>1, <3>4
  <2> QED
    BY <2>1, <2>2, <2>3
<1>5. /\ toSrv' \in Seq(Frame)
      /\ wire' = [data |-> EmptyWire.data \o p, segs |-> EmptyWire.segs + 0]
  BY <1>3, <1>4, SeenOne, Zenon
<1> HIDE DEF p
<1>6. wire'.data = p /\ wire'.segs = 0 /\ wire' \in Wire
  <2>1. EmptyWire.data = <<>> /\ EmptyWire.segs = 0
    BY DEF EmptyWire
  <2> QED
    BY <1>4, <1>5, <2>1, ConcatNothing DEF Wire
<1> QED
  BY <1>4, <1>5, <1>6

LEMMA StartStep ==
    ASSUME ClientInv, NEW info \in Requests, Start(info)
    PROVE  ClientInv' /\ WholeDownload
<1>1. /\ TypeOK /\ cl \in SdoClient /\ calls \in Calls /\ FreedOnce
      /\ ~cl.running /\ wire' = Seen(EmptyWire)
      /\ calls' = [calls EXCEPT !.started = @ + 1]
  BY DEF ClientInv, TypeOK, ClientTypeOK, Start, sdo_async_start
<1>2. /\ info.type \in {"UPLOAD", "DOWNLOAD"} /\ info.mux \in Mux
      /\ info.data \in Seq(Byte)
  BY SdoAsyncAssumption
<1>3. PICK b \in AssignedBuffer(info) :
          cl' = Started(info, b) /\ sdo_async__send_init(Started(info, b))
  BY DEF Start, sdo_async_start
<1>4. b \in Seq(Byte)
  <2>1. b = <<>> \/ b = info.data
    BY <1>3 DEF AssignedBuffer
  <2> QED
    BY <1>2, <2>1, NoElements, Zenon
<1>5. /\ cl' \in SdoClient /\ cl'.running = TRUE /\ cl'.timer = TRUE
      /\ cl'.comm = "INIT_RESPONSE" /\ cl'.type = info.type
      /\ cl'.mux = info.mux /\ cl'.pos = 0 /\ cl'.tog = 0
  BY <1>1, <1>2, <1>3, <1>4, Zenon DEF Started, SdoClient, Bit
<1>6. /\ toSrv' \in Seq(Frame) /\ wire' \in Wire /\ wire'.segs = 0
      /\ cl'.type = "DOWNLOAD" =>
             wire'.data = IF Len(cl'.buf) <= 4 THEN Readable(cl'.buf)
                          ELSE <<>>
  <2> PICK c : c = Started(info, b)
    OBVIOUS
  <2>1. cl' = c /\ c \in SdoClient /\ c.mux \in Mux
        /\ c.type \in {"UPLOAD", "DOWNLOAD"} /\ sdo_async__send_init(c)
    BY <1>2, <1>3, <1>5
  <2>2. /\ toSrv' \in Seq(Frame) /\ wire' \in Wire /\ wire'.segs = 0
        /\ c.type = "DOWNLOAD" =>
               wire'.data = IF Len(c.buf) <= 4 THEN Readable(c.buf) ELSE <<>>
    BY <1>1, <2>1, InitRequest
  <2> QED
    BY <2>1, <2>2
<1>7. /\ calls.freed \in Nat /\ calls.started \in Nat
      /\ calls.started = calls.freed
  BY <1>1 DEF Calls, FreedOnce
<1>8. /\ calls' \in Calls /\ calls'.started = calls.started + 1
      /\ calls'.freed = calls.freed
  BY <1>1, <1>7 DEF Calls
<1>9. TypeOK' /\ TimerIffRunning'
  BY <1>5, <1>6, <1>8, Zenon DEF TypeOK, ClientTypeOK, TimerIffRunning
<1>10. FreedOnce'
  BY <1>5, <1>7, <1>8 DEF FreedOnce
<1>11. Stage(cl, wire)'
  BY <1>2, <1>5, <1>6 DEF Stage, InitStage
<1> QED
  BY <1>1, <1>9, <1>10, <1>11 DEF ClientInv, WholeDownload

(***************************************************************************)
(* The theorems.                                                           *)
(***************************************************************************)
LEMMA InitClientInv == Init => ClientInv
<1> SUFFICES ASSUME Init PROVE ClientInv
  OBVIOUS
<1>1. cl \in SdoClient /\ cl.running = FALSE /\ cl.timer = FALSE
  BY NoElements DEF Init, sdo_async_init, SdoClient, Bit, AbortCodes
<1>2. toSrv \in Seq(Frame) /\ wire \in Wire /\ calls \in Calls
  BY NoElements DEF Init, sdo_async_init, EmptyWire, Wire, Calls
<1>3. FreedOnce
  BY <1>1 DEF Init, sdo_async_init, FreedOnce
<1> QED
  BY <1>1, <1>2, <1>3, Zenon DEF ClientInv, TypeOK, ClientTypeOK, TimerIffRunning

\* Every step of the client and of its peer, one lemma per action.
LEMMA NextStep ==
    ASSUME ClientInv, Next
    PROVE  ClientInv' /\ WholeDownload
  BY StartStep, StopStep, TimeoutStep, FeedStep, TransmitStep DEF Next

LEMMA StutterStep ==
    ASSUME ClientInv, UNCHANGED vars
    PROVE  ClientInv'
  BY DEF ClientInv, TypeOK, ClientTypeOK, TimerIffRunning, FreedOnce, Stage,
     InitStage, SegStage, vars, clientVars

\* The stage that a transfer is in says what the client has sent: it holds
\* after every callback of sdo_async.c, whatever frames the peer answers with.
THEOREM ClientInvariant == Spec => []ClientInv
<1>1. ClientInv /\ [Next]_vars => ClientInv'
  BY NextStep, StutterStep
<1> QED
  BY InitClientInv, <1>1, PTL DEF Spec

\* Every field of struct sdo_async keeps its type.
THEOREM TypeCorrect == Spec => []TypeOK
<1>1. ClientInv => TypeOK
  BY DEF ClientInv
<1> QED
  BY ClientInvariant, <1>1, PTL

\* A transfer runs exactly while its timer does, so that none waits for ever,
\* and free_fn is called once for each transfer that sdo_async_start began.
THEOREM EndedCleanlyHolds == Spec => []EndedCleanly
<1>1. ClientInv => EndedCleanly
  BY DEF ClientInv, EndedCleanly
<1> QED
  BY ClientInvariant, <1>1, PTL

\* No assertion of sdo_async.c about a segmented download can fail, and what
\* has been sent of a download is a prefix of its buffer.
THEOREM SegmentsOfBufferHolds == Spec => []SegmentsOfBuffer
<1>1. ClientInv => SegmentsOfBuffer
  BY ClientInvImplies DEF SegmentsOfBuffer
<1> QED
  BY ClientInvariant, <1>1, PTL

\* The toggle bits of the segment requests alternate from 0.
THEOREM TogglesAlternateHolds == Spec => []TogglesAlternate
  BY ClientInvariant, ClientInvImplies, PTL

\* A download reported as SDO_REQ_OK has sent its whole buffer, for buffers of
\* any length, with or without the full frame quirk.
THEOREM DownloadOnWireHolds == Spec => DownloadOnWire
<1>1. ClientInv /\ [Next]_vars => [WholeDownload]_vars
  BY NextStep
<1> QED
  BY ClientInvariant, <1>1, PTL DEF Spec, DownloadOnWire, WholeDownload
=============================================================================
