\* The builders of every packet the client sends once connected, over
\* strings of length 0 and 130 (property blocks and Remaining Lengths on
\* both sides of the one/two-byte boundary) and subscription identifiers
\* up to the largest Variable Byte Integer.
CONSTANTS
    Kinds = {"PUBLISH", "SUBSCRIBE", "UNSUBSCRIBE", "PUBACK", "PUBREC",
             "PUBREL", "PUBCOMP", "PINGREQ"}
    Strings = {0, 130}
    Numbers = {0, 1}
    BlobLens = {0, 2}
    AuthDataLens = {0}
    SubIds = {0, 1, 200, 268435455}
    MaxUserProps = 1
    BasicAuth = {FALSE}
SPECIFICATION Spec
INVARIANTS TwoPassesAgree PropLengthExact
