\* Two packets polled one after the other: is the first receive buffer
\* freed when the second is allocated?
CONSTANTS
    MaxFds = 1
    MaxBufs = 2
    MaxPeerCloses = 0
    SendCanFail = FALSE
    SigpipeIgnored = TRUE
    AppRetries = FALSE

SPECIFICATION Spec
CHECK_DEADLOCK FALSE
INVARIANT RecvBuffersFreed
