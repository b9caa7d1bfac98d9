\* Packets of every Remaining Length up to 300 and at the boundaries: a
\* length of 128 or more needs a second length byte.
CONSTANTS
    Lengths <- CodecLengths

SPECIFICATION Spec
INVARIANT WellFormedPacketAccepted
