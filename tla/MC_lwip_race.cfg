\* The lwIP driver in the threadsafe_background build: callbacks may run
\* between the steps of an API call.  tcp_client_recv() answers the
\* broker's PUBLISH with mqtt_puback(), which takes the same static buffer
\* and stat->outp that a running mqtt_publish() or mqtt_connect() holds.
CONSTANTS
    RECEIVE_MAXIMUM = 2
    PacketIdBits = 2
    Background = TRUE
    PeerResets = FALSE
    PeerCloses = FALSE
    LocalErrors = FALSE
    MaxConnects = 1
    MaxPublishes = 1
    MaxInbound = 1
    BrokerIds = {3}

SPECIFICATION Spec
CHECK_DEADLOCK FALSE
INVARIANTS
    OutboundBufferOwned
