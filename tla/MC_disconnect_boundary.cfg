\* DISCONNECT whose properties take 127 bytes (a reason string of 124):
\* rsize counts the Variable Byte Integer of 128, not of 127.
CONSTANTS
    Kinds = {"DISCONNECT"}
    Strings = {124}
    Numbers = {0}
    BlobLens = {0}
    AuthDataLens = {0}
    SubIds = {0}
    MaxUserProps = 0
    BasicAuth = {FALSE}
SPECIFICATION Spec
INVARIANT TwoPassesAgree
