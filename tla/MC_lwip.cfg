\* The lwIP driver in the poll build: callbacks run between API calls.
\* One mqtt_connect(), two QoS 1 publishes (two slots), two QoS 1 publishes
\* from the broker, connection aborts, broker closes, and local failures
\* of tcp_new/tcp_connect; two mqtt_connect() calls, so that a failed one
\* is retried on the kept pcb.
CONSTANTS
    RECEIVE_MAXIMUM = 2
    PacketIdBits = 2
    Background = FALSE
    PeerResets = TRUE
    PeerCloses = TRUE
    LocalErrors = TRUE
    MaxConnects = 2
    MaxPublishes = 2
    MaxInbound = 2
    BrokerIds = {3}

SPECIFICATION Spec
CHECK_DEADLOCK FALSE
INVARIANTS
PROPERTIES
    ConnectCompletes
    OutboundFlowsComplete
