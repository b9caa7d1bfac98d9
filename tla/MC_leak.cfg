\* Subscribe and unsubscribe requests may fail validation after the slot
\* was reserved: is a slot ever taken without a packet being sent?
CONSTANTS
    RECEIVE_MAXIMUM = 2
    PacketIdBits = 2
    MaxChan = 2
    MaxMsgs = 2
    MaxMintedId = 2
    ClientQoS = {0}
    AppRequests = {"SUBSCRIBE", "UNSUBSCRIBE"}
    AllocCanFail = FALSE
    InvalidRequests = TRUE
    FramingFaults = FALSE
    AppDisconnects = FALSE
    BrokerIds = {1}
    BrokerQoS = {0}
    AckCodes = {0, 128}
    ServerMaxQoS = 2
    CanDecline = FALSE
    BrokerDisconnects = FALSE
    MaxConnLoss = 0

SPECIFICATION Spec
PROPERTY
    ReservationSent
