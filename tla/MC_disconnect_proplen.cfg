\* DISCONNECT with properties and no will properties: the property
\* length written is estimate_will_prop_size().
CONSTANTS
    Kinds = {"DISCONNECT"}
    Strings = {1}
    Numbers = {0, 1}
    BlobLens = {0}
    AuthDataLens = {0}
    SubIds = {0}
    MaxUserProps = 0
    BasicAuth = {FALSE}
SPECIFICATION Spec
INVARIANT PropLengthExact
