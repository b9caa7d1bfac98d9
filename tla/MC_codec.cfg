\* The Variable Byte Integer encoder and the byte count of the builders on
\* every length up to 300 and at each boundary of one to four bytes.
CONSTANTS
    Lengths <- CodecLengths

SPECIFICATION Spec
INVARIANTS
    EncodingIsMQTT
    ByteCountMatches
