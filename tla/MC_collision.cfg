\* The client publishes with QoS 1 while the broker publishes with QoS 2
\* and picks id 1, which the client also mints: two slots share an id.
CONSTANTS
    RECEIVE_MAXIMUM = 2
    PacketIdBits = 2
    MaxChan = 2
    MaxMsgs = 2
    MaxMintedId = 2
    ClientQoS = {1}
    AppRequests = {}
    AllocCanFail = FALSE
    InvalidRequests = FALSE
    FramingFaults = FALSE
    AppDisconnects = FALSE
    BrokerIds = {1}
    BrokerQoS = {2}
    AckCodes = {0, 128}
    ServerMaxQoS = 2
    CanDecline = FALSE
    BrokerDisconnects = FALSE
    MaxConnLoss = 0

SPECIFICATION Spec
INVARIANT
    NoDuplicatePacketIds
