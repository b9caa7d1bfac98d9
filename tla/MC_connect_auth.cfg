\* mqtt_set_basic_auth() on a CONNECT without a will: user name and
\* password are counted in rsize and never written.
CONSTANTS
    Kinds = {"CONNECT"}
    Strings = {1}
    Numbers = {0}
    BlobLens = {0}
    AuthDataLens = {0}
    SubIds = {0}
    MaxUserProps = 0
    BasicAuth = {FALSE, TRUE}
SPECIFICATION Spec
INVARIANT TwoPassesAgree
