\* SUBSCRIBE with a subscription identifier of 2^28, which no check
\* refuses: get_variable_size_byte_count() says 4, pack_variable_size()
\* writes 5.
CONSTANTS
    Kinds = {"SUBSCRIBE"}
    Strings = {1}
    Numbers = {0}
    BlobLens = {0}
    AuthDataLens = {0}
    SubIds = {0, 268435456}
    MaxUserProps = 0
    BasicAuth = {FALSE}
SPECIFICATION Spec
INVARIANT NoBufferOverrun
