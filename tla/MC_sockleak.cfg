\* The application retries mqtt_connect() while a connection is open, as
\* it does when a CONNACK does not come in time: is every socket the driver
\* opened still reachable through ctx->handle?
CONSTANTS
    MaxFds = 2
    MaxBufs = 1
    MaxPeerCloses = 1
    SendCanFail = FALSE
    SigpipeIgnored = TRUE
    AppRetries = TRUE

SPECIFICATION Spec
CHECK_DEADLOCK FALSE
INVARIANT NoSocketLeak
