---------------------------- MODULE Conversions ----------------------------
(***************************************************************************)
(* The values of objects as text and as the bytes that an SDO transfers    *)
(* (conversions.c), by the types of CANopen (types.h, types.c).            *)
(*                                                                         *)
(* A text is a sequence of words and blanks as in Http; a word that spells *)
(* a number has that number as n.  Data are a sequence of bytes, the least *)
(* significant first, whatever the order of the host is (byteorder.c).     *)
(* Numbers are those that fit in 24 bits; reals are left out.              *)
(***************************************************************************)
EXTENDS Integers, Sequences

CANOPEN_TYPES ==
    [UNKNOWN |-> 0, BOOLEAN |-> 1, INTEGER8 |-> 1, INTEGER16 |-> 2, INTEGER24 |-> 3,
     UNSIGNED8 |-> 1, UNSIGNED16 |-> 2, UNSIGNED24 |-> 3, VISIBLE_STRING |-> 0,
     OCTET_STRING |-> 0, UNICODE_STRING |-> 0, TIME_OF_DAY |-> 6,
     TIME_DIFFERENCE |-> 6, DOMAIN_ |-> 0, PDO_COMMUNICATION_PARAMETER |-> 0,
     PDO_MAPPING |-> 0, SDO_PARAMETER |-> 0, IDENTITY |-> 0]

canopen_type_size(type) == CANOPEN_TYPES[type]
canopen_type_is_signed_integer(type) == type \in {"INTEGER8", "INTEGER16", "INTEGER24"}
canopen_type_is_unsigned_integer(type) ==
    type \in {"UNSIGNED8", "UNSIGNED16", "UNSIGNED24"}
canopen_type_is_string(type) ==
    type \in {"VISIBLE_STRING", "OCTET_STRING", "UNICODE_STRING"}

canopen_type_from_string(str) ==
    IF str \in DOMAIN CANOPEN_TYPES THEN str ELSE "UNKNOWN"

\* The size lowest bytes of a number, of which negative ones are complements.
byteorder(n, size) == [i \in 1..size |-> (n \div 256^(i - 1)) % 256]

\* The number that bytes are without a sign.
byteorder2(bytes) ==
    LET upto[i \in 0..Len(bytes)] ==
          IF i = 0 THEN 0 ELSE upto[i - 1] + bytes[i] * 256^(i - 1)
    IN  upto[Len(bytes)]

-----------------------------------------------------------------------------
(* From data to text: NoText stands for NULL. *)

NoText == [text |-> "NULL"]
NumberText(n) == [text |-> "number", n |-> n]

\* data has bytes, and unknown if the node did not indicate their number.
TooLong(type, data) == ~data.unknown /\ Len(data.bytes) > canopen_type_size(type)

canopen_uint_tostring(type, data) ==
    IF TooLong(type, data) THEN NoText ELSE NumberText(byteorder2(data.bytes))

\* The sign is that of the last byte that the type has.
canopen_int_tostring(type, data) ==
    LET size == canopen_type_size(type)
        value == byteorder2(data.bytes)
        last == IF size <= Len(data.bytes) THEN data.bytes[size] ELSE 0
    IN  IF TooLong(type, data) THEN NoText
        ELSE NumberText(IF last >= 128 THEN value - 256^size ELSE value)

canopen_bool_tostring(data) ==
    IF ~data.unknown /\ Len(data.bytes) # 1 THEN NoText
    ELSE [text |-> IF data.bytes[1] = 0 THEN "false" ELSE "true"]

canopen_string_tostring(data) == [text |-> "data", bytes |-> data.bytes]

canopen_data_tostring(type, data) ==
    CASE type = "BOOLEAN" -> canopen_bool_tostring(data)
      [] canopen_type_is_unsigned_integer(type) -> canopen_uint_tostring(type, data)
      [] canopen_type_is_signed_integer(type) -> canopen_int_tostring(type, data)
      [] canopen_type_is_string(type) -> canopen_string_tostring(data)
      [] OTHER -> NoText

-----------------------------------------------------------------------------
(* From text to data: NoData stands for a failure. *)

NoData == [failed |-> TRUE]
Data(bytes) == [bytes |-> bytes]

\* string_trim: without the blanks at both ends.
string_trim(str) ==
    LET S == {i \in 1..Len(str) : str[i].k \notin {"ws", "cr", "lf"}}
    IN  IF S = {} THEN <<>>
        ELSE SubSeq(str, CHOOSE i \in S : \A j \in S : i <= j,
                         CHOOSE i \in S : \A j \in S : j <= i)

IsNumber(str) == Len(str) = 1 /\ "n" \in DOMAIN str[1]

canopen_bool_fromstring(str) ==
    CASE Len(str) = 1 /\ str[1].k = "lit" /\ str[1].v = "true" -> Data(<<1>>)
      [] Len(str) = 1 /\ str[1].k = "lit" /\ str[1].v = "false" -> Data(<<0>>)
      [] OTHER -> NoData

\* Mutant: a sign is not rejected.
UintFromstringSigned(type, str) ==
    IF IsNumber(str) THEN Data(byteorder(str[1].n, canopen_type_size(type))) ELSE NoData

\* A number that is too large for its type loses its upper bytes.
canopen_uint_fromstring(type, str) ==
    IF IsNumber(str) /\ str[1].n >= 0
    THEN Data(byteorder(str[1].n, canopen_type_size(type))) ELSE NoData

canopen_int_fromstring(type, str) ==
    IF IsNumber(str) THEN Data(byteorder(str[1].n, canopen_type_size(type))) ELSE NoData

canopen_string_fromstring(str) == [string |-> str]

canopen_data_fromstring(type, str) ==
    CASE type = "BOOLEAN" -> canopen_bool_fromstring(str)
      [] canopen_type_is_unsigned_integer(type) -> canopen_uint_fromstring(type, str)
      [] canopen_type_is_signed_integer(type) -> canopen_int_fromstring(type, str)
      [] canopen_type_is_string(type) -> canopen_string_fromstring(str)
      [] OTHER -> NoData

-----------------------------------------------------------------------------
(* What a type means. *)

Integer(type) ==
    canopen_type_is_signed_integer(type) \/ canopen_type_is_unsigned_integer(type)

\* The numbers of a type.
RangeOf(type) ==
    LET bits == 8 * canopen_type_size(type) IN
    IF canopen_type_is_signed_integer(type)
    THEN -(2^(bits - 1))..(2^(bits - 1) - 1)
    ELSE 0..(2^bits - 1)
=============================================================================
