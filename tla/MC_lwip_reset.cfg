\* The lwIP driver in the poll build with connection aborts.  lwIP frees
\* the pcb before it calls tcp_client_err(), which leaves net.connected
\* and the tcp_pcb pointer as they were; the next mqtt_publish() writes
\* through the freed pcb.
CONSTANTS
    RECEIVE_MAXIMUM = 2
    PacketIdBits = 2
    Background = FALSE
    PeerResets = TRUE
    PeerCloses = FALSE
    LocalErrors = FALSE
    MaxConnects = 1
    MaxPublishes = 2
    MaxInbound = 1
    BrokerIds = {3}

SPECIFICATION Spec
CHECK_DEADLOCK FALSE
INVARIANTS
    NoUseAfterFree
