\* The pending table against the abstract flow table: outbound QoS 1/2
\* publishes, subscribes and unsubscribes under minted ids 1 and 2, and
\* inbound QoS 0/1/2 under the broker's id 3, on one session.  Ids of the
\* two sides are disjoint and the counter does not wrap; MC_collision,
\* MC_wrap and MC_refine_stale show what happens otherwise.  The broker
\* acknowledges with Success only: the client echoes a 0x80 code in its
\* own PUBREC (MC_ackrc), which ends the broker's flow and strands the slot.
\* Three slots: the client's two ids never fill the table against the
\* broker's flow (MC_tablefull shows two slots).  Besides the refinement
\* the run checks the session properties on this fault-free session.
CONSTANTS
    RECEIVE_MAXIMUM = 3
    PacketIdBits = 2
    MaxChan = 2
    MaxMsgs = 2
    MaxMintedId = 2
    ClientQoS = {0, 1, 2}
    AppRequests = {"SUBSCRIBE", "UNSUBSCRIBE"}
    AllocCanFail = FALSE
    InvalidRequests = FALSE
    FramingFaults = FALSE
    AppDisconnects = FALSE
    BrokerIds = {3}
    BrokerQoS = {0, 1, 2}
    AckCodes = {0}
    ServerMaxQoS = 2
    CanDecline = FALSE
    BrokerDisconnects = FALSE
    MaxConnLoss = 0

SPECIFICATION Spec
INVARIANTS
    NoDuplicatePacketIds
    AwaitedAnswerAccepted
PROPERTIES
    BrokerFlowsComplete
    ClientFlowsComplete
    InboundFlowsComplete
