\* The socket driver under an application that calls mqtt_connect() only on
\* a closed session and ignores SIGPIPE: sends may fail, the broker may
\* close the connection three times.  A client whose socket was reset stays
\* connected and every call fails: the run stops there, so deadlock is not
\* checked.
CONSTANTS
    MaxFds = 3
    MaxBufs = 6
    MaxPeerCloses = 3
    SendCanFail = TRUE
    SigpipeIgnored = TRUE
    AppRetries = FALSE

SPECIFICATION Spec
CHECK_DEADLOCK FALSE
INVARIANTS
    NoSocketLeak
    ConnectedHasSocket
