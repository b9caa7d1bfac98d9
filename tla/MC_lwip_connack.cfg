\* The lwIP driver in the threadsafe_background build, CONNECT sent at
\* once: mqtt_connect() adds CONNACK to expected_ptypes after net.send()
\* returned, and a CONNACK that tcp_client_recv() hands to the engine
\* before that is dropped as an unexpected packet type.
CONSTANTS
    RECEIVE_MAXIMUM = 2
    PacketIdBits = 2
    Background = TRUE
    PeerResets = FALSE
    PeerCloses = FALSE
    LocalErrors = FALSE
    MaxConnects = 1
    MaxPublishes = 1
    MaxInbound = 1
    BrokerIds = {3}

SPECIFICATION Spec
CHECK_DEADLOCK FALSE
PROPERTIES
    ConnectCompletes
