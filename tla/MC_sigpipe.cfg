\* The broker closes the connection and the application keeps the default
\* SIGPIPE disposition: does the process survive the sends of a client that
\* still believes it is connected?
CONSTANTS
    MaxFds = 2
    MaxBufs = 1
    MaxPeerCloses = 1
    SendCanFail = FALSE
    SigpipeIgnored = FALSE
    AppRetries = FALSE

SPECIFICATION Spec
CHECK_DEADLOCK FALSE
INVARIANT NoSigpipe
