\* The fault-free session: does ending a session with a request in flight
\* zero the pending table, as spec 4.6 says?
CONSTANTS
    RECEIVE_MAXIMUM = 2
    PacketIdBits = 2
    MaxChan = 2
    MaxMsgs = 2
    MaxMintedId = 2
    ClientQoS = {1}
    AppRequests = {}
    AllocCanFail = FALSE
    InvalidRequests = FALSE
    FramingFaults = FALSE
    AppDisconnects = TRUE
    BrokerIds = {1}
    BrokerQoS = {0}
    AckCodes = {0, 128}
    ServerMaxQoS = 2
    CanDecline = FALSE
    BrokerDisconnects = TRUE
    MaxConnLoss = 0

SPECIFICATION Spec
PROPERTY
    DisconnectClearsTable
