\* The fault-free session: the broker publishes with QoS 1, the client
\* with QoS 0..2, ids never wrap, sends succeed while the socket is up.
CONSTANTS
    RECEIVE_MAXIMUM = 2
    PacketIdBits = 2
    MaxChan = 2
    MaxMsgs = 2
    MaxMintedId = 2
    ClientQoS = {0, 1, 2}
    AppRequests = {"SUBSCRIBE", "UNSUBSCRIBE"}
    AllocCanFail = FALSE
    InvalidRequests = FALSE
    FramingFaults = FALSE
    AppDisconnects = TRUE
    BrokerIds = {1}
    BrokerQoS = {1}
    AckCodes = {0, 128}
    ServerMaxQoS = 2
    CanDecline = FALSE
    BrokerDisconnects = TRUE
    MaxConnLoss = 0

SPECIFICATION Spec
INVARIANTS
    TypeOK
    NoDuplicatePacketIds
    AwaitedAnswerAccepted
PROPERTIES
    BrokerFlowsComplete
