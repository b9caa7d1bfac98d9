\* A 2-bit packet_id_count, QoS 1 publishes only, no inbound flows: after
\* the counter wraps, id 1 is minted while the first id 1 is still in flight.
CONSTANTS
    RECEIVE_MAXIMUM = 2
    PacketIdBits = 2
    MaxChan = 3
    MaxMsgs = 0
    MaxMintedId = 4
    ClientQoS = {1}
    AppRequests = {}
    AllocCanFail = FALSE
    InvalidRequests = FALSE
    FramingFaults = FALSE
    AppDisconnects = FALSE
    BrokerIds = {1}
    BrokerQoS = {0}
    AckCodes = {0, 128}
    ServerMaxQoS = 2
    CanDecline = FALSE
    BrokerDisconnects = FALSE
    MaxConnLoss = 0

SPECIFICATION Spec
INVARIANT
    NoDuplicatePacketIds
