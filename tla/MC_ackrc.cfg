\* The fault-free session with a broker that may answer 0x80: the PUBACK
\* the client sends next carries the code it received.
CONSTANTS
    RECEIVE_MAXIMUM = 2
    PacketIdBits = 2
    MaxChan = 2
    MaxMsgs = 2
    MaxMintedId = 2
    ClientQoS = {1}
    AppRequests = {}
    AllocCanFail = FALSE
    InvalidRequests = FALSE
    FramingFaults = FALSE
    AppDisconnects = FALSE
    BrokerIds = {1}
    BrokerQoS = {1}
    AckCodes = {0, 128}
    ServerMaxQoS = 2
    CanDecline = FALSE
    BrokerDisconnects = FALSE
    MaxConnLoss = 0

SPECIFICATION Spec
INVARIANT
    AcksCarrySuccess
