\* CONNECT whose properties exceed 255 bytes (an authentication method
\* of 300 bytes): plen is a uint8_t.
CONSTANTS
    Kinds = {"CONNECT"}
    Strings = {1, 300}
    Numbers = {0}
    BlobLens = {0}
    AuthDataLens = {0}
    SubIds = {0}
    MaxUserProps = 0
    BasicAuth = {FALSE}
SPECIFICATION Spec
INVARIANT NoBufferOverrun
