\* The lwIP driver in the poll build with a broker that closes its side
\* of the connection: tcp_client_recv() gets the NULL pbuf of the FIN and
\* returns without closing, so net.connected stays set for good.
CONSTANTS
    RECEIVE_MAXIMUM = 2
    PacketIdBits = 2
    Background = FALSE
    PeerResets = FALSE
    PeerCloses = TRUE
    LocalErrors = FALSE
    MaxConnects = 1
    MaxPublishes = 1
    MaxInbound = 1
    BrokerIds = {3}

SPECIFICATION Spec
CHECK_DEADLOCK FALSE
PROPERTY
    PeerCloseNoticed
