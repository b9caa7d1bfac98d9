------------------------------- MODULE Codec -------------------------------
(***************************************************************************)
(* The Variable Byte Integer codec of mqtt_client.c and the fixed-header   *)
(* check of mqtt_process_packet() that uses it.  A packet's Remaining     *)
(* Length is written by write_fixed_header() with pack_variable_size(),   *)
(* counted by get_variable_size_byte_count() when the make_*() functions  *)
(* size a packet, and read back by unpack_variable_size().                *)
(*                                                                         *)
(* unpack_variable_size() declares a second uint8_t encoded_byte inside   *)
(* its do-while body; the loop condition is outside that block and reads  *)
(* the outer variable, which stays 0.  OuterEncodedByte is that variable.  *)
(***************************************************************************)
EXTENDS Integers, Sequences, Bitwise

CONSTANTS
    Lengths   \* Remaining Length values checked

\* MQTT 5 1.5.5: the largest value a Variable Byte Integer holds.
MaxVarInt == 268435455
ASSUME Lengths \subseteq 0..MaxVarInt

\* Variant whose loop stops while one more digit is left (while (size > 1)).
RECURSIVE PackStopsEarly(_)
PackStopsEarly(size) ==
    LET encoded == size & 127
        rest    == shiftR(size, 7)
    IN  IF rest > 1 THEN <<encoded + 128>> \o PackStopsEarly(rest)
                    ELSE <<IF rest > 0 THEN encoded + 128 ELSE encoded>>

\* pack_variable_size(): seven bits per byte, least significant first, bit
\* 7 set on every byte but the last (do-while: at least one byte).
RECURSIVE pack_variable_size(_)
pack_variable_size(size) ==
    LET encoded == size & 127
        rest    == shiftR(size, 7)
    IN  IF rest > 0 THEN <<encoded + 128>> \o pack_variable_size(rest)
                    ELSE <<encoded>>

\* write_fixed_header(): the type in the high nibble, the flags in the low
\* one, then the Remaining Length.
write_fixed_header(type, flags, len) ==
    <<(type & 15) * 16 + (flags & 15)>> \o pack_variable_size(len)

\* The encoded_byte declared before the loop, never assigned after.
OuterEncodedByte == 0

\* unpack_variable_size() reading bs from position pos: the body reads a
\* byte into the inner encoded_byte; the condition tests the outer one.
\* multiplier is a uint32_t.
RECURSIVE Unpack(_, _, _, _, _)
Unpack(bs, pos, value, multiplier, shift) ==
    LET inner == bs[pos]
        v     == value + (inner & 127) * multiplier
        m     == (multiplier * 128) % 2^32
    IN  IF (OuterEncodedByte & 128) # 0 /\ shift + 1 < 4
        THEN Unpack(bs, pos + 1, v, m, shift + 1)
        ELSE [value |-> v, next |-> pos + 1]

\* The decoder applied to the bytes after the fixed header's first byte.
unpack_variable_size(bs) == Unpack(bs, 1, 0, 1, 0)

\* Variant with the off-by-one comparison len < 127 in the first branch.
ByteCountOffByOne(len) ==
    CASE len < 127 -> 1 [] len <= 16383 -> 2 [] len <= 2097151 -> 3 [] OTHER -> 4

\* get_variable_size_byte_count().
get_variable_size_byte_count(len) ==
    CASE len <= 127 -> 1 [] len <= 16383 -> 2 [] len <= 2097151 -> 3 [] OTHER -> 4

\* The size check of mqtt_process_packet() on a received buffer of inp_len
\* bytes that starts with inp: the decoded Remaining Length must equal what
\* follows the fixed header.
SizeCheckPasses(inp, inp_len) ==
    LET rl == unpack_variable_size(SubSeq(inp, 2, Len(inp))).value
    IN  rl = inp_len - get_variable_size_byte_count(rl) - 1

-----------------------------------------------------------------------------
(***************************************************************************)
(* Reference: MQTT 5 1.5.5.  A Variable Byte Integer of one to four bytes  *)
(* whose continuation bit is set on all bytes but the last, in the         *)
(* shortest form, with value the sum of the digits times powers of 128.   *)
(***************************************************************************)
RECURSIVE DigitsValue(_)
DigitsValue(bs) ==
    IF bs = <<>> THEN 0 ELSE (Head(bs) % 128) + 128 * DigitsValue(Tail(bs))

IsVarInt(bs) ==
    /\ Len(bs) \in 1..4
    /\ \A k \in 1..Len(bs) : (bs[k] >= 128) <=> (k < Len(bs))
    /\ Len(bs) = 1 \/ bs[Len(bs)] # 0

-----------------------------------------------------------------------------
VARIABLE len

\* Every length up to 300 and both sides of each boundary of 1..4 bytes.
CodecLengths == (0..300) \cup {16383, 16384, 2097151, 2097152, MaxVarInt}

Init == len \in Lengths
Next == UNCHANGED len
Spec == Init /\ [][Next]_len

\* The fixed header of a PUBLISH with this Remaining Length, as make_*()
\* and write_fixed_header() produce it; len bytes follow it on the wire.
Header == write_fixed_header(3, 0, len)

\* pack_variable_size() writes the MQTT 5 encoding of every length.
EncodingIsMQTT ==
    LET bs == pack_variable_size(len) IN IsVarInt(bs) /\ DigitsValue(bs) = len

\* The size the make_*() functions reserve for the Remaining Length
\* (get_variable_size_byte_count) is what write_fixed_header() writes: the
\* two passes of every builder agree on the header.
ByteCountMatches == get_variable_size_byte_count(len) = Len(pack_variable_size(len))

\* A well-formed packet whose Remaining Length is len passes the fixed
\* header check of mqtt_process_packet().
WellFormedPacketAccepted == SizeCheckPasses(Header, Len(Header) + len)

=============================================================================
