------------------------------ MODULE MQTTSystem ------------------------------
(***************************************************************************)
(* The client engine of mqtt_client.c composed with an MQTT 5 broker over *)
(* one TCP connection at a time.  The two share the connection: netUp and *)
(* the two FIFO byte streams c2b and b2c.  A step is a step of one side.   *)
(***************************************************************************)
EXTENDS Integers, Sequences, FiniteSets

CONSTANTS
    RECEIVE_MAXIMUM, PacketIdBits,
    MaxChan, MaxMsgs, MaxMintedId, ClientQoS, AppRequests, AllocCanFail, InvalidRequests,
    FramingFaults, AppDisconnects,
    BrokerIds, BrokerQoS, AckCodes, ServerMaxQoS, CanDecline, BrokerDisconnects, MaxConnLoss

VARIABLES
    connected, expected_ptypes, pending, packet_id_count, reason, max_qos,
    delivered,
    netUp, c2b, b2c,
    bSession, bState, bMsg, msgCount, losses, sentQoS

C == INSTANCE MQTTClient
B == INSTANCE Broker

clientVars == <<connected, expected_ptypes, pending, packet_id_count, reason,
                max_qos, delivered>>
brokerVars == <<bSession, bState, bMsg, msgCount, losses, sentQoS>>
vars == <<clientVars, brokerVars, netUp, c2b, b2c>>

Init == C!Init /\ B!BrokerInit

\* The application's calls and mqtt_poll() on one side.
ClientStep ==
    \/ C!mqtt_connect /\ UNCHANGED brokerVars
    \/ C!mqtt_disconnect /\ UNCHANGED brokerVars
    \/ \E q \in ClientQoS : C!mqtt_publish(q) /\ UNCHANGED brokerVars
    \/ C!mqtt_subscribe /\ UNCHANGED brokerVars
    \/ C!mqtt_unsubscribe /\ UNCHANGED brokerVars
    \/ C!mqtt_ping /\ UNCHANGED brokerVars
    \/ C!mqtt_process_packet /\ UNCHANGED brokerVars
    \/ FramingFaults /\ C!CoalescedChunk /\ UNCHANGED brokerVars

\* The broker and the network on the other.
BrokerStep ==
    \/ B!BrokerRecv /\ UNCHANGED clientVars
    \/ \E q \in BrokerQoS : B!BrokerPublish(q) /\ UNCHANGED clientVars
    \/ B!BrokerDisconnect /\ UNCHANGED clientVars
    \/ B!ConnectionLost /\ UNCHANGED clientVars

Next == ClientStep \/ BrokerStep

(***************************************************************************)
(* Fairness.  The application polls: a packet waiting on the socket is    *)
(* eventually processed (weak fairness of mqtt_poll).  A broker reads what *)
(* the client sent.  Nothing obliges the application to call the API, nor *)
(* the broker to publish, disconnect, or the network to fail.              *)
(***************************************************************************)
Fairness ==
    /\ WF_vars(C!mqtt_process_packet /\ UNCHANGED brokerVars)
    /\ WF_vars(B!BrokerRecv /\ UNCHANGED clientVars)

Spec == Init /\ [][Next]_vars /\ Fairness

-----------------------------------------------------------------------------
TypeOK ==
    /\ C!ClientTypeOK
    /\ bSession \in BOOLEAN
    /\ bState \in [BrokerIds -> B!FlowStates]
    /\ bMsg \in [BrokerIds -> 0..MaxMsgs]
    /\ msgCount \in 0..MaxMsgs
    /\ losses \in 0..MaxConnLoss
    /\ sentQoS \in [1..MaxMsgs -> 0..2]

\* Spec 3 / 8.5: the pending table never holds two live entries with the
\* same packet_id.  Broken by reserve_packet_slot_for_request(), which takes
\* the broker's id without a check, and by the wrap of packet_id_count.
NoDuplicatePacketIds ==
    \A i, j \in C!Slots :
        i # j /\ C!IsLive(pending[i]) => pending[i].packet_id # pending[j].packet_id

\* Answer types that free or advance a slot.
AnswerTypes == {"PUBACK", "PUBREC", "PUBREL", "PUBCOMP", "SUBACK", "UNSUBACK"}

\* The answer the client is about to read, if some slot awaits exactly it,
\* passes both checks of the engine: its type is in expected_ptypes
\* (mqtt_process_packet) and the first slot with its id awaits it
\* (get_expected_packet_answer).  It fails when the mask drops a type that a
\* slot still awaits, or when ids are shared between slots.
AwaitedAnswerAccepted ==
    LET p == Head(b2c) IN
    b2c # <<>> /\ p.type \in AnswerTypes
    /\ (\E i \in C!Slots : pending[i] = [packet_id |-> p.id, await_packet_type |-> p.type])
    => /\ p.type \in expected_ptypes
       /\ C!ExpectedAnswer(pending, p.id) = p.type

\* Every QoS 1/2 message the broker sends is eventually acknowledged to the
\* end by process_publish() / process_pubrel() (the broker's flow with that
\* id closes), unless the connection it travels on goes down.
BrokerFlowsComplete ==
    \A id \in BrokerIds : bState[id] # "none" ~> (bState[id] = "none" \/ ~netUp)

\* Answer types the client's own flows wait for.
ClientAnswerTypes == {"PUBACK", "PUBREC", "PUBCOMP", "SUBACK", "UNSUBACK"}

AwaitsClientAnswer(id) ==
    \E i \in C!Slots : pending[i].packet_id = id
                     /\ pending[i].await_packet_type \in ClientAnswerTypes

\* Every flow the client starts (a QoS 1/2 publish, a subscribe, an
\* unsubscribe) is eventually closed by process_puback(), process_pubrec()
\* and process_pubcomp(), process_suback() or process_unsuback(), unless
\* the connection goes down: no slot of the client waits forever on a
\* live connection.
ClientFlowsComplete ==
    \A id \in C!PacketIds :
        AwaitsClientAnswer(id) ~> (~AwaitsClientAnswer(id) \/ ~netUp)

AwaitsPubrel(id) ==
    \E i \in C!Slots : pending[i] = [packet_id |-> id, await_packet_type |-> "PUBREL"]

\* Every inbound QoS 2 message the client holds a slot for (mqtt_pubrec()
\* reserved (id, PUBREL)) is eventually released by process_pubrel(),
\* unless the connection goes down.  It depends on the PUBREC the client
\* sends: the broker answers it with PUBREL only if its reason code, read
\* from stat->pubrec, is below 0x80.
InboundFlowsComplete ==
    \A id \in BrokerIds : AwaitsPubrel(id) ~> (~AwaitsPubrel(id) \/ ~netUp)

\* MQTT 5 4.3.3: the sender of a QoS 2 message sends PUBREL only after a
\* PUBREC with a reason code below 0x80; a refused message ends the flow.
\* process_pubrec() stores the broker's code in stat->pubrec and calls
\* mqtt_pubrel() whatever it is.
NoPubrelAfterRefusal ==
    [][\A k \in Len(c2b) + 1 .. Len(c2b') :
          c2b'[k].type = "PUBREL" => reason'["PUBREC"] < 128]_vars

\* MQTT 5 4.3.3: a QoS 2 message reaches the application once.  The
\* broker resends a PUBLISH it has no PUBREC for when the session resumes;
\* process_publish() delivers it again and takes a second slot.
QoS2DeliveredOnce ==
    \A m \in 1..MaxMsgs : sentQoS[m] = 2 => delivered[m] <= 1

\* Spec 4.5: a PUBLISH of QoS 1 is answered by "PUBACK with Success", one
\* of QoS 2 by "PUBREC with Success".  mqtt_puback() and mqtt_pubrec() send
\* the reason_code of stat->puback / stat->pubrec, which process_puback() and
\* process_pubrec() last filled with the broker's code.
AcksCarrySuccess ==
    \A k \in 1..Len(c2b) : c2b[k].type \in {"PUBACK", "PUBREC"} => c2b[k].rc = 0

\* Spec 4.6: "on disconnect, the table is zeroed".  Checked on the steps
\* that end a session (mqtt_disconnect, process_disconnect).
DisconnectClearsTable ==
    [][connected /\ ~connected' => pending' = C!EmptyTable]_vars

\* Spec 4.7 and 5: pre-flight checks come before the reservation, and a call
\* that fails gives back what it took.  A slot is only ever taken by a step
\* that puts the packet it belongs to on the wire.
ReservationSent ==
    [][\A i \in C!Slots :
         ~C!IsLive(pending[i]) /\ C!IsLive(pending'[i]) => Len(c2b') > Len(c2b)]_vars

-----------------------------------------------------------------------------
(***************************************************************************)
(* Refinement.  The table read as the bag of its live (packet_id,         *)
(* await_packet_type) entries is a behaviour of PendingFlows: every step  *)
(* of the engine opens a flow under a fresh identifier, moves one, closes *)
(* one, or leaves the flows as they were.                                 *)
(***************************************************************************)
LiveEntries == {pending[i] : i \in {j \in C!Slots : C!IsLive(pending[j])}}

PendingBag == [e \in LiveEntries |-> Cardinality({i \in C!Slots : pending[i] = e})]

Flows == INSTANCE PendingFlows
    WITH inflight <- PendingBag, Ids <- C!PacketIds, Types <- C!PacketTypes

\* Spec 3 and 4.6: the pending table implements the abstract flow table:
\* reserve_packet_slot_for_answer() and reserve_packet_slot_for_request()
\* open a flow only under an identifier no live flow uses, the in-place
\* loop of process_pubrec()/mqtt_pubrel() moves one flow, free_packet_slot()
\* closes one, and no step does more than one of these.
PendingRefinesFlows == Flows!Spec

=============================================================================
