-------------------------------- MODULE Utf8 --------------------------------
(***************************************************************************)
(* is_valid_utf8() of src/src/utf8.c, the check every validate_*_utf8_    *)
(* strings() helper of mqtt_client.c applies to topics, client id, user    *)
(* name, password, reason strings and user properties before they are     *)
(* packed.  A string is a sequence of byte values 0..255; the index i of  *)
(* the C loop is a 0-based offset, so str[i] is s[i + 1].                 *)
(*                                                                         *)
(* Whether plain char is signed is chosen by the build (signed on x86 and  *)
(* most hosts of the socket driver, unsigned on the ARM of the Pico W):    *)
(* CharSigned is that choice.  Only the first test reads str[i] as a       *)
(* char; every other read masks it, and a mask of at most 0xFF yields the *)
(* same value from a sign-extended char as from the unsigned byte.        *)
(***************************************************************************)
EXTENDS Integers, Sequences, Bitwise

CONSTANTS
    CharSigned,  \* plain char is signed in this build
    Bytes,       \* byte values the strings are made of
    MaxLen       \* longest string checked

ASSUME CharSigned \in BOOLEAN
ASSUME Bytes \subseteq 1..255   \* strlen() gives the length: no NUL inside
ASSUME MaxLen \in Nat

\* The value of str[i] as a char of this build.
CharValue(b) == IF CharSigned /\ b > 127 THEN b - 256 ELSE b

\* Number of bytes announced by the first byte, 0 for an invalid one.
LeadCount(b) ==
    CASE (b & 224) = 192 -> 2     \* 110xxxxx
      [] (b & 240) = 224 -> 3     \* 1110xxxx
      [] (b & 248) = 240 -> 4     \* 11110xxx
      [] OTHER           -> 0

\* The bytes after the first are all 10xxxxxx.
ContinuationsOK(s, i, n) == \A j \in 1..(n - 1) : (s[i + j + 1] & 192) = 128

\* Overlong encodings the switch (byte_count) rejects.
Overlong(s, i, n) ==
    LET b == s[i + 1] IN
    CASE n = 2 -> (b & 30) = 0
      [] n = 3 -> b = 224 /\ (s[i + 2] & 32) = 0
      [] n = 4 -> b = 240 /\ (s[i + 2] & 48) = 0
      [] OTHER -> FALSE

\* The code point of a 3- or 4-byte sequence (the fields are disjoint, so
\* the | of the source is a sum).
CodePoint(s, i, n) ==
    IF n = 3
    THEN (s[i + 1] & 15) * 4096 + (s[i + 2] & 63) * 64 + (s[i + 3] & 63)
    ELSE (s[i + 1] & 7) * 262144 + (s[i + 2] & 63) * 4096
         + (s[i + 3] & 63) * 64 + (s[i + 4] & 63)

\* Variant without the check for UTF-16 surrogates.
SurrogateUnchecked(s, i, n) == FALSE

\* A 3-byte sequence encoding U+D800..U+DFFF.
Surrogate(s, i, n) == n = 3 /\ CodePoint(s, i, n) \in 55296..57343

\* A 4-byte sequence beyond U+10FFFF.
TooLarge(s, i, n) == n = 4 /\ CodePoint(s, i, n) > 1114111

\* The while loop from offset i.
RECURSIVE Scan(_, _)
Scan(s, i) ==
    IF i >= Len(s) THEN TRUE
    ELSE IF CharValue(s[i + 1]) <= 127 THEN Scan(s, i + 1)
    ELSE LET n == LeadCount(s[i + 1]) IN
         IF n = 0 \/ i + n > Len(s) THEN FALSE
         ELSE IF \/ ~ContinuationsOK(s, i, n)
                 \/ Overlong(s, i, n)
                 \/ Surrogate(s, i, n)
                 \/ TooLarge(s, i, n)
              THEN FALSE
              ELSE Scan(s, i + n)

is_valid_utf8(s) == Scan(s, 0)

-----------------------------------------------------------------------------
(***************************************************************************)
(* Reference: the well-formed UTF-8 byte sequences of RFC 3629 section 4  *)
(* (Unicode Table 3-7), as ranges per byte position.                      *)
(***************************************************************************)
Tail8 == 128..191
WellFormedForms ==
    { <<0..127>>,
      <<194..223, Tail8>>,
      <<{224}, 160..191, Tail8>>,
      <<225..236, Tail8, Tail8>>,
      <<{237}, 128..159, Tail8>>,
      <<238..239, Tail8, Tail8>>,
      <<{240}, 144..191, Tail8, Tail8>>,
      <<241..243, Tail8, Tail8, Tail8>>,
      <<{244}, 128..143, Tail8, Tail8>> }

RECURSIVE WellFormed(_)
WellFormed(s) ==
    \/ s = <<>>
    \/ \E f \in WellFormedForms :
          /\ Len(f) <= Len(s)
          /\ \A k \in 1..Len(f) : s[k] \in f[k]
          /\ WellFormed(SubSeq(s, Len(f) + 1, Len(s)))

-----------------------------------------------------------------------------
VARIABLE str

Strings == UNION {[1..k -> Bytes] : k \in 0..MaxLen}

Init == str \in Strings
Next == UNCHANGED str
Spec == Init /\ [][Next]_str

\* is_valid_utf8() accepts exactly the well-formed UTF-8 strings: what the
\* validate_*_utf8_strings() helpers let through is what MQTT 5 1.5.4
\* requires of a UTF-8 Encoded String.
Utf8Agrees == is_valid_utf8(str) = WellFormed(str)

=============================================================================
