\* CONNECT with authentication data: estimate_conn_prop_size() counts
\* 1 + len, pack_binary() writes 2 + len after the identifier.
CONSTANTS
    Kinds = {"CONNECT"}
    Strings = {1}
    Numbers = {0}
    BlobLens = {0}
    AuthDataLens = {0, 2}
    SubIds = {0}
    MaxUserProps = 0
    BasicAuth = {FALSE}
SPECIFICATION Spec
INVARIANT NoBufferOverrun
