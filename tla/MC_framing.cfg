\* Two packets may arrive in one recv() chunk: does every inbound QoS 1
\* flow still complete while its connection lives?
CONSTANTS
    RECEIVE_MAXIMUM = 2
    PacketIdBits = 2
    MaxChan = 2
    MaxMsgs = 2
    MaxMintedId = 2
    ClientQoS = {0}
    AppRequests = {}
    AllocCanFail = FALSE
    InvalidRequests = FALSE
    FramingFaults = TRUE
    AppDisconnects = TRUE
    BrokerIds = {1}
    BrokerQoS = {1}
    AckCodes = {0, 128}
    ServerMaxQoS = 2
    CanDecline = FALSE
    BrokerDisconnects = FALSE
    MaxConnLoss = 0

SPECIFICATION Spec
PROPERTY
    BrokerFlowsComplete
