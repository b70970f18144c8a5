------------------------------ MODULE SdoFrame ------------------------------
(***************************************************************************)
(* SDO frames as inc/canopen/sdo.h lays them out.  Byte 0 of a frame is    *)
(* kept as the bit fields the accessors read:                              *)
(*   cs  bits 7..5, the command specifier                                  *)
(*   t   bit 4, the toggle bit                                             *)
(*   n   bits 3..1: 7 - size in a segment; in an initiate frame bit 1 is   *)
(*       the expedited flag and bits 3..2 hold 4 - size                    *)
(*   e   bit 0: the end of a segmented transfer, or "size indicated"       *)
(* mux stands for index and subindex, code for the abort code.  data is    *)
(* what follows the header, up to seven bytes; its unused tail is zero     *)
(* because every frame starts from sdo_clear_frame.                        *)
(***************************************************************************)
EXTENDS Naturals, Sequences

CONSTANTS Mux,         \* the multiplexers a request may name
          Byte,        \* the values of a payload byte, with 0
          OutOfMemory  \* whether realloc may fail

\* The multiplexer field of a frame, or of a state, that memset cleared.
NoMux == 0

ASSUME SdoFrameAssumption ==
    /\ Mux \subseteq Nat \ {NoMux}
    /\ Byte \subseteq Nat
    /\ 0 \in Byte
    /\ OutOfMemory \in BOOLEAN

SDO_EXPEDIATED_DATA_SIZE == 4
SDO_SEGMENT_MAX_SIZE == 7
SDO_EXPEDIATED_DATA_IDX == 4
SDO_SEGMENT_IDX == 1
CAN_MAX_DLC == 8

SDO_CCS_DL_SEG_REQ == 0
SDO_CCS_DL_INIT_REQ == 1
SDO_CCS_UL_INIT_REQ == 2
SDO_CCS_UL_SEG_REQ == 3
SDO_SCS_UL_SEG_RES == 0
SDO_SCS_DL_SEG_RES == 1
SDO_SCS_UL_INIT_RES == 2
SDO_SCS_DL_INIT_RES == 3
SDO_ABORT_CS == 4

\* The abort codes this code sends; a remote node may send any other.
NoCode == "none"
AbortCodes == {NoCode, "TOGGLE", "TIMEOUT", "INVALID_CS", "NOMEM", "RO",
               "NEXIST", "TOO_LONG", "GENERAL", "REMOTE"}

Bit == {0, 1}
\* vector_reserve fails only when the vector, 8 bytes at first, must grow.
AllocFails(size) == OutOfMemory /\ size > 8

Minimum(a, b) == IF a < b THEN a ELSE b
Zeros(n) == [i \in 1..n |-> 0]
Pad(d) == [i \in 1..7 |-> IF i <= Len(d) THEN d[i] ELSE 0]

Frame ==
    [cs: 0..7, t: Bit, n: 0..7, e: Bit, mux: Mux \union {NoMux},
     data: [1..7 -> Byte], dlc: 0..8, code: AbortCodes]

\* A frame that was cleared before the fields were set; only sdo_abort sets an
\* abort code.
MakeFrame(cs, t, n, e, mux, d, dlc) ==
    [cs |-> cs, t |-> t, n |-> n, e |-> e, mux |-> mux, data |-> Pad(d),
     dlc |-> dlc, code |-> NoCode]

sdo_is_expediated(cf) == cf.n % 2 = 1
sdo_is_size_indicated(cf) == cf.e = 1
sdo_is_end_segment(cf) == cf.e = 1
sdo_get_segment_size(cf) == 7 - cf.n
sdo_get_expediated_size(cf) == 4 - (cf.n \div 2)

\* An initiate frame that carries d itself.  sdo_set_expediated_size writes
\* 4 - size at bit 2: the value 4 of an empty d overflows the two bits and
\* lands on bit 4, so the size reads back as 4.
Expedited(cs, mux, d) ==
    LET n == 4 - Len(d) IN
    MakeFrame(cs, n \div 4, 2 * (n % 4) + 1, 1, mux, d,
              SDO_EXPEDIATED_DATA_IDX + Len(d))

\* An initiate frame that announces a segmented transfer.
Indicated(cs, mux) == MakeFrame(cs, 0, 0, 1, mux, <<>>, CAN_MAX_DLC)

\* An initiate frame with a multiplexer and nothing else.
Plain(cs, mux) == MakeFrame(cs, 0, 0, 0, mux, <<>>, 4)

\* A segment of data, and a segment frame without any.
Segment(cs, tog, d, last) ==
    MakeFrame(cs, tog, 7 - Len(d), IF last THEN 1 ELSE 0, NoMux, d,
              SDO_SEGMENT_IDX + Len(d))
BareSegment(cs, tog) == MakeFrame(cs, tog, 0, 0, NoMux, <<>>, 1)

sdo_abort(code, mux) ==
    [cs |-> SDO_ABORT_CS, t |-> 0, n |-> 0, e |-> 0, mux |-> mux,
     data |-> Zeros(7), dlc |-> CAN_MAX_DLC, code |-> code]
=============================================================================
