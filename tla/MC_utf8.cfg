\* is_valid_utf8() built with an unsigned plain char (the Pico W build), on
\* every string of up to four bytes drawn from the bytes at the edges of the
\* ranges of RFC 3629.
CONSTANTS
    CharSigned = FALSE
    Bytes = {65, 127, 128, 143, 144, 159, 160, 191, 192, 193, 194, 223,
             224, 225, 237, 239, 240, 244, 245, 248, 255}
    MaxLen = 4

SPECIFICATION Spec
INVARIANT Utf8Agrees
