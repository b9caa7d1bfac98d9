\* process_connack_poperties() on every CONNACK block of up to two
\* properties: integers, flags, strings of length 0 and 2, and the
\* Session Expiry Interval and Authentication Method a broker may send.
CONSTANTS
    Lengths <- CodecLengths
    StrLens = {0, 2}
    UserLens = {1}
    SubIds = {1}
    MaxProps = 2
    Payload <- ParserPayload

SPECIFICATION ConnackSpec
INVARIANT
    ConnackPropertiesRoundTrip
