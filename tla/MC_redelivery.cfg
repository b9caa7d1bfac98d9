\* Inbound QoS 2 with one connection loss: the broker resends a PUBLISH it
\* has no PUBREC for, and the client delivers the message again.
CONSTANTS
    RECEIVE_MAXIMUM = 2
    PacketIdBits = 2
    MaxChan = 2
    MaxMsgs = 2
    MaxMintedId = 2
    ClientQoS = {0}
    AppRequests = {}
    AllocCanFail = FALSE
    InvalidRequests = FALSE
    FramingFaults = FALSE
    AppDisconnects = FALSE
    BrokerIds = {1}
    BrokerQoS = {2}
    AckCodes = {0, 128}
    ServerMaxQoS = 2
    CanDecline = FALSE
    BrokerDisconnects = FALSE
    MaxConnLoss = 1

SPECIFICATION Spec
INVARIANT
    QoS2DeliveredOnce
