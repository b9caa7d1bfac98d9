------------------------------- MODULE Broker -------------------------------
(***************************************************************************)
(* The environment of the client: an MQTT 5 server as the protocol        *)
(* requires it to behave, and the TCP connection between the two.  This   *)
(* is not code of the repository; it is the least a conforming broker     *)
(* does, with every choice the protocol leaves it (reason codes, when to  *)
(* publish, when to end the session) as nondeterminism.                   *)
(*                                                                         *)
(* The broker keeps, per packet identifier it may use towards the client, *)
(* the state of its outbound QoS 1/2 flow, and resends those flows when   *)
(* the client resumes the session (clean_start = 0), as MQTT 5 4.4 asks.  *)
(***************************************************************************)
EXTENDS Integers, SequencesExt

CONSTANTS
    BrokerIds,     \* packet identifiers the broker uses for its PUBLISHes
    BrokerQoS,     \* QoS levels the broker publishes with
    AckCodes,      \* reason codes the broker may put in PUBACK / PUBREC
    ServerMaxQoS,  \* Maximum QoS the broker announces in CONNACK
    CanDecline,    \* the broker may refuse a CONNECT (reason code 0x80)
    BrokerDisconnects, \* the broker may end the session with DISCONNECT
    MaxConnLoss,   \* bound on connection losses
    MaxChan,
    MaxMsgs

VARIABLES
    bSession,  \* a session is open on the current connection
    bState,    \* id -> "none" | "ack" (awaits PUBACK) | "rec" | "comp"
    bMsg,      \* id -> the application message of that flow
    msgCount,  \* messages published so far
    losses,    \* connection losses so far
    sentQoS,   \* history: message -> QoS it was published with
    netUp, c2b, b2c

brokerVars == <<bSession, bState, bMsg, msgCount, losses, sentQoS>>

FlowStates == {"none", "ack", "rec", "comp"}

Msg(type, id, qos, rc, msg, flag) ==
    [type |-> type, id |-> id, qos |-> qos, rc |-> rc, msg |-> msg, flag |-> flag]

\* Whatever the broker writes after the client closed the socket is lost.
Reply(ps) == b2c' = IF netUp THEN b2c \o ps ELSE b2c

\* The flows to resume, in ascending id order: PUBLISH with dup set for
\* unacknowledged messages, PUBREL for those already received.
Resend ==
    LET Redo(id) == CASE bState[id] \in {"ack", "rec"} ->
                           <<Msg("PUBLISH", id, IF bState[id] = "ack" THEN 1 ELSE 2,
                                 0, bMsg[id], TRUE)>>
                      [] bState[id] = "comp" -> <<Msg("PUBREL", id, 0, 0, 0, FALSE)>>
                      [] OTHER -> <<>>
    IN  FoldLeft(LAMBDA acc, id : acc \o Redo(id), <<>>, SetToSortSeq(BrokerIds, <))

BrokerInit ==
    /\ bSession = FALSE
    /\ bState = [i \in BrokerIds |-> "none"]
    /\ bMsg = [i \in BrokerIds |-> 0]
    /\ msgCount = 0
    /\ losses = 0
    /\ sentQoS = [m \in 1..MaxMsgs |-> 0]

\* Packets the broker reads while no session is open, other than CONNECT,
\* are discarded.
OnConnect(p) ==
    \/ /\ CanDecline
       /\ Reply(<<Msg("CONNACK", 0, 0, 128, 0, FALSE)>>)
       /\ UNCHANGED <<bSession, bState>>
    \/ /\ bSession' = TRUE
       /\ IF p.flag
          THEN /\ bState' = [i \in BrokerIds |-> "none"]
               /\ Reply(<<Msg("CONNACK", 0, ServerMaxQoS, 0, 0, FALSE)>>)
          ELSE /\ Reply(<<Msg("CONNACK", 0, ServerMaxQoS, 0, 0, FALSE)>> \o Resend)
               /\ UNCHANGED bState

\* A request of the client is answered.
OnRequest(p) ==
    CASE p.type = "PUBLISH" /\ p.qos = 1 ->
              \E rc \in AckCodes : Reply(<<Msg("PUBACK", p.id, 0, rc, 0, FALSE)>>)
      [] p.type = "PUBLISH" /\ p.qos = 2 ->
              \E rc \in AckCodes : Reply(<<Msg("PUBREC", p.id, 0, rc, 0, FALSE)>>)
      [] p.type = "PUBREL"      -> Reply(<<Msg("PUBCOMP", p.id, 0, 0, 0, FALSE)>>)
      [] p.type = "SUBSCRIBE"   -> Reply(<<Msg("SUBACK", p.id, 0, 0, 0, FALSE)>>)
      [] p.type = "UNSUBSCRIBE" -> Reply(<<Msg("UNSUBACK", p.id, 0, 0, 0, FALSE)>>)
      [] p.type = "PINGREQ"     -> Reply(<<Msg("PINGRESP", 0, 0, 0, 0, FALSE)>>)
      [] OTHER                  -> UNCHANGED b2c

\* The flow state an acknowledgement of the client answers.
Awaiting == [t \in {"PUBACK", "PUBREC", "PUBCOMP"} |->
                CASE t = "PUBACK" -> "ack" [] t = "PUBREC" -> "rec" [] OTHER -> "comp"]

\* An acknowledgement of the client advances the broker's flow with that
\* id: PUBREC below 0x80 is answered by PUBREL, any other ends the flow.
OnAck(p) ==
    IF p.id \in BrokerIds /\ bState[p.id] = Awaiting[p.type]
    THEN IF p.type = "PUBREC" /\ p.rc < 128
         THEN /\ bState' = [bState EXCEPT ![p.id] = "comp"]
              /\ Reply(<<Msg("PUBREL", p.id, 0, 0, 0, FALSE)>>)
         ELSE /\ bState' = [bState EXCEPT ![p.id] = "none"]
              /\ UNCHANGED b2c
    ELSE UNCHANGED <<bState, b2c>>

BrokerRecv ==
    /\ c2b # <<>>
    /\ c2b' = Tail(c2b)
    /\ LET p == Head(c2b) IN
       CASE p.type = "CONNECT" -> OnConnect(p)
         [] ~bSession          -> UNCHANGED <<bSession, bState, b2c>>
         [] p.type = "DISCONNECT" -> bSession' = FALSE /\ UNCHANGED <<bState, b2c>>
         [] p.type \in DOMAIN Awaiting -> OnAck(p) /\ UNCHANGED bSession
         [] OTHER -> OnRequest(p) /\ UNCHANGED <<bSession, bState>>
    /\ UNCHANGED <<bMsg, msgCount, losses, sentQoS, netUp>>

\* The broker publishes a new application message to the client.
BrokerPublish(q) ==
    /\ bSession /\ netUp
    /\ msgCount < MaxMsgs
    /\ Len(b2c) < MaxChan
    /\ msgCount' = msgCount + 1
    /\ sentQoS' = [sentQoS EXCEPT ![msgCount + 1] = q]
    /\ IF q = 0
       THEN /\ b2c' = Append(b2c, Msg("PUBLISH", 0, 0, 0, msgCount + 1, FALSE))
            /\ UNCHANGED <<bState, bMsg>>
       ELSE \E id \in BrokerIds :
              /\ bState[id] = "none"
              /\ bState' = [bState EXCEPT ![id] = IF q = 1 THEN "ack" ELSE "rec"]
              /\ bMsg' = [bMsg EXCEPT ![id] = msgCount + 1]
              /\ b2c' = Append(b2c, Msg("PUBLISH", id, q, 0, msgCount + 1, FALSE))
    /\ UNCHANGED <<bSession, losses, netUp, c2b>>

\* The broker ends the session with a DISCONNECT packet.
BrokerDisconnect ==
    /\ BrokerDisconnects
    /\ bSession /\ netUp
    /\ bSession' = FALSE
    /\ b2c' = Append(b2c, Msg("DISCONNECT", 0, 0, 0, 0, FALSE))
    /\ UNCHANGED <<bState, bMsg, msgCount, losses, sentQoS, netUp, c2b>>

\* The TCP connection breaks: both directions lose what is in flight.
ConnectionLost ==
    /\ netUp
    /\ losses < MaxConnLoss
    /\ losses' = losses + 1
    /\ netUp' = FALSE
    /\ bSession' = FALSE
    /\ c2b' = <<>>
    /\ b2c' = <<>>
    /\ UNCHANGED <<bState, bMsg, msgCount, sentQoS>>

=============================================================================
