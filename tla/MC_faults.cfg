\* Every fault the code meets: failed allocations, requests that fail
\* validation, two packets in one recv() chunk, a refused CONNECT, a broken
\* connection.  The broker publishes with QoS 0 and 1 and ids never wrap.
CONSTANTS
    RECEIVE_MAXIMUM = 2
    PacketIdBits = 2
    MaxChan = 2
    MaxMsgs = 1
    MaxMintedId = 2
    ClientQoS = {1, 2}
    AppRequests = {"SUBSCRIBE", "UNSUBSCRIBE"}
    AllocCanFail = TRUE
    InvalidRequests = TRUE
    FramingFaults = TRUE
    AppDisconnects = TRUE
    BrokerIds = {1}
    BrokerQoS = {0, 1}
    AckCodes = {0, 128}
    ServerMaxQoS = 2
    CanDecline = TRUE
    BrokerDisconnects = TRUE
    MaxConnLoss = 1

SPECIFICATION Spec
INVARIANTS
    TypeOK
    AwaitedAnswerAccepted
