\* The Variable Byte Integer codec on every length up to 300 and each
\* byte-count boundary, and process_publish_properties() on every block of
\* up to three PUBLISH properties with strings of length 0 and 2, User
\* Property strings of length 1 and 2, and Subscription Identifiers 1 and
\* 127, the largest one-byte value.
CONSTANTS
    Lengths <- CodecLengths
    StrLens = {0, 2}
    UserLens = {1}
    SubIds = {128}
    MaxProps = 2
    Payload <- ParserPayload

SPECIFICATION CodecParserSpec
INVARIANT
    PublishPropertiesRoundTrip
