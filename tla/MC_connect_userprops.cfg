\* CONNECT user properties: counted in the property length that
\* pack_conn_props() writes, never packed.
CONSTANTS
    Kinds = {"CONNECT"}
    Strings = {1}
    Numbers = {0}
    BlobLens = {0}
    AuthDataLens = {0}
    SubIds = {0}
    MaxUserProps = 1
    BasicAuth = {FALSE}
SPECIFICATION Spec
INVARIANT PropLengthExact
