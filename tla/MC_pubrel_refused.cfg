\* MQTT 5 4.3.3 against process_pubrec(): under the refine bounds with a
\* broker that refuses QoS 2 messages (PUBREC 0x80), the client answers
\* the refusal with PUBREL.
CONSTANTS
    RECEIVE_MAXIMUM = 3
    PacketIdBits = 2
    MaxChan = 2
    MaxMsgs = 2
    MaxMintedId = 2
    ClientQoS = {0, 1, 2}
    AppRequests = {"SUBSCRIBE", "UNSUBSCRIBE"}
    AllocCanFail = FALSE
    InvalidRequests = FALSE
    FramingFaults = FALSE
    AppDisconnects = FALSE
    BrokerIds = {3}
    BrokerQoS = {0, 1, 2}
    AckCodes = {0, 128}
    ServerMaxQoS = 2
    CanDecline = FALSE
    BrokerDisconnects = FALSE
    MaxConnLoss = 0

SPECIFICATION Spec
PROPERTY NoPubrelAfterRefusal
