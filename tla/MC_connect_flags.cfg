\* The connect flags byte for every will QoS, will retain and will flag.
CONSTANTS
    Kinds = {"CONNECT"}
    Strings = {1}
    Numbers = {0}
    BlobLens = {0}
    AuthDataLens = {0}
    SubIds = {0}
    MaxUserProps = 0
    BasicAuth = {FALSE}
SPECIFICATION Spec
INVARIANT ConnectFlagsEncodeSettings
