\* Inbound QoS 2 and disconnects: the client ends the session after its
\* PUBREC and resumes it; the broker resends PUBREL, which the mask rejects.
CONSTANTS
    RECEIVE_MAXIMUM = 2
    PacketIdBits = 2
    MaxChan = 2
    MaxMsgs = 2
    MaxMintedId = 2
    ClientQoS = {0}
    AppRequests = {}
    AllocCanFail = FALSE
    InvalidRequests = FALSE
    FramingFaults = FALSE
    AppDisconnects = TRUE
    BrokerIds = {1}
    BrokerQoS = {2}
    AckCodes = {0, 128}
    ServerMaxQoS = 2
    CanDecline = FALSE
    BrokerDisconnects = FALSE
    MaxConnLoss = 0

SPECIFICATION Spec
INVARIANT
    AwaitedAnswerAccepted
