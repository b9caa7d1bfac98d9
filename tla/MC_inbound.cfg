\* Inbound QoS 0/1/2 flows on a session that never ends: no disconnect by
\* either side, no connection loss; the client publishes with QoS 0 only,
\* so every id in the table is one the broker chose.
CONSTANTS
    RECEIVE_MAXIMUM = 2
    PacketIdBits = 2
    MaxChan = 3
    MaxMsgs = 3
    MaxMintedId = 2
    ClientQoS = {0}
    AppRequests = {}
    AllocCanFail = FALSE
    InvalidRequests = FALSE
    FramingFaults = FALSE
    AppDisconnects = FALSE
    BrokerIds = {1, 2}
    BrokerQoS = {0, 1, 2}
    AckCodes = {0, 128}
    ServerMaxQoS = 2
    CanDecline = FALSE
    BrokerDisconnects = FALSE
    MaxConnLoss = 0

SPECIFICATION Spec
INVARIANTS
    TypeOK
    NoDuplicatePacketIds
    AwaitedAnswerAccepted
PROPERTIES
    BrokerFlowsComplete


