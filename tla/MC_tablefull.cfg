\* A full table meets an inbound QoS 2 PUBLISH: the client's subscribe and
\* unsubscribe hold both slots, so mqtt_pubrec() cannot reserve (id,
\* PUBREL) and returns before sending PUBREC; process_publish() ignores the
\* error and delivers the message.  The broker waits for PUBREC on a
\* connection that stays up.
CONSTANTS
    RECEIVE_MAXIMUM = 2
    PacketIdBits = 2
    MaxChan = 2
    MaxMsgs = 2
    MaxMintedId = 2
    ClientQoS = {0, 1, 2}
    AppRequests = {"SUBSCRIBE", "UNSUBSCRIBE"}
    AllocCanFail = FALSE
    InvalidRequests = FALSE
    FramingFaults = FALSE
    AppDisconnects = FALSE
    BrokerIds = {3}
    BrokerQoS = {0, 1, 2}
    AckCodes = {0}
    ServerMaxQoS = 2
    CanDecline = FALSE
    BrokerDisconnects = FALSE
    MaxConnLoss = 0

SPECIFICATION Spec
PROPERTIES
    BrokerFlowsComplete
