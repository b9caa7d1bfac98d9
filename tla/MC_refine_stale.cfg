\* The configuration of MC_refine with disconnects by both sides: a slot
\* left in the table by a disconnect meets the same id in the next session.
CONSTANTS
    RECEIVE_MAXIMUM = 2
    PacketIdBits = 2
    MaxChan = 2
    MaxMsgs = 2
    MaxMintedId = 2
    ClientQoS = {0, 1, 2}
    AppRequests = {"SUBSCRIBE", "UNSUBSCRIBE"}
    AllocCanFail = FALSE
    InvalidRequests = FALSE
    FramingFaults = FALSE
    AppDisconnects = TRUE
    BrokerIds = {3}
    BrokerQoS = {0, 1, 2}
    AckCodes = {0}
    ServerMaxQoS = 2
    CanDecline = FALSE
    BrokerDisconnects = TRUE
    MaxConnLoss = 0

SPECIFICATION Spec
PROPERTIES
    PendingRefinesFlows
