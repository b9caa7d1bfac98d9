\* The client's QoS 2 publish on a session where malloc() may fail.  When
\* the allocation inside mqtt_pubrel() fails, process_pubrec() has already
\* moved the slot to PUBCOMP and returns the error: no PUBREL is sent and
\* nothing sends it later, so the slot waits on a live connection forever.
CONSTANTS
    RECEIVE_MAXIMUM = 3
    PacketIdBits = 2
    MaxChan = 2
    MaxMsgs = 2
    MaxMintedId = 2
    ClientQoS = {2}
    AppRequests = {}
    AllocCanFail = TRUE
    InvalidRequests = FALSE
    FramingFaults = FALSE
    AppDisconnects = FALSE
    BrokerIds = {3}
    BrokerQoS = {0}
    AckCodes = {0}
    ServerMaxQoS = 2
    CanDecline = FALSE
    BrokerDisconnects = FALSE
    MaxConnLoss = 0

SPECIFICATION Spec
PROPERTIES
    ClientFlowsComplete
