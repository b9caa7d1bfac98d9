----------------------------- MODULE MQTTClient -----------------------------
(***************************************************************************)
(* The session engine of mqtt_client.c over the Berkeley-socket transport *)
(* of mqtt_socket.c: the user API calls (mqtt_connect, mqtt_disconnect,  *)
(* mqtt_publish, mqtt_subscribe, mqtt_unsubscribe, mqtt_ping) and the     *)
(* handling of one inbound packet by mqtt_poll / mqtt_process_packet.     *)
(* Each API call and each processed packet is one atomic step: the       *)
(* socket build runs the engine on a single thread.                      *)
(*                                                                         *)
(* Data is abstracted to what the properties tell apart: topics, payloads *)
(* and properties are left out; a packet is a record of its type, packet  *)
(* identifier, QoS, reason code, a tag naming the application message it  *)
(* carries, and one flag (clean_start of CONNECT, dup of PUBLISH).        *)
(***************************************************************************)
EXTENDS PendingTable, FiniteSets

CONSTANTS
    MaxChan,         \* bound on packets on the wire when the application calls
    MaxMsgs,         \* number of application messages the broker publishes
    MaxMintedId,     \* bound: reservations stop once packet_id_count reaches it
    ClientQoS,       \* QoS levels the application publishes with
    AppRequests,     \* which of SUBSCRIBE, UNSUBSCRIBE the application sends
    AppDisconnects,  \* the application may call mqtt_disconnect()
    AllocCanFail,    \* alloc_send_buf() (malloc) may return OUT_OF_MEMORY
    InvalidRequests, \* the application may pass entries that fail validation
    FramingFaults    \* recv() may return two packets in one chunk

ASSUME MaxMintedId \in 1..IdWrap
ASSUME ClientQoS \subseteq 0..2

VARIABLES
    connected,        \* stat->connected
    expected_ptypes,  \* stat->expected_ptypes, as the set of its bits
    pending,          \* stat->pending[]
    packet_id_count,  \* stat->packet_id_count
    reason,           \* reason_code of stat->puback/pubrec/pubrel/pubcomp
    max_qos,          \* stat->connack.max_qos
    netUp,            \* the socket is open and the TCP connection alive
    c2b,              \* bytes queued from client to broker, as packets
    b2c,              \* bytes queued from broker to client, as packets
    delivered         \* history: mqtt_received_publish() calls per message

clientVars == <<connected, expected_ptypes, pending, packet_id_count, reason,
                max_qos, delivered>>

AckTypes == {"PUBACK", "PUBREC", "PUBREL", "PUBCOMP"}
Msgs == 1..MaxMsgs
ReasonCodes == {0, 16, 128}   \* Success, No matching subscribers, error (>= 0x80)

Packet == [type : PacketTypes, id : 0..(IdWrap - 1), qos : 0..2,
           rc : ReasonCodes, msg : 0..MaxMsgs, flag : BOOLEAN]

Pkt(type, id, qos, rc, msg, flag) ==
    [type |-> type, id |-> id, qos |-> qos, rc |-> rc, msg |-> msg, flag |-> flag]

ClientTypeOK ==
    /\ connected \in BOOLEAN
    /\ expected_ptypes \subseteq PacketTypes
    /\ pending \in [Slots -> Slot]
    /\ \A i \in Slots : IsLive(pending[i]) = (pending[i].await_packet_type # Unknown)
    /\ packet_id_count \in Counters
    /\ reason \in [AckTypes -> ReasonCodes]
    /\ max_qos \in 0..2
    /\ netUp \in BOOLEAN
    /\ c2b \in Seq(Packet)
    /\ b2c \in Seq(Packet)
    /\ delivered \in [Msgs -> 0..2]

(***************************************************************************)
(* Handing one packet to the transport: two-pass build, alloc_send_buf(), *)
(* net.send(), free_send_buf().  "nomem": the allocation failed and the   *)
(* call returned before sending; "neterr": send() on a dead socket        *)
(* (ECONNRESET/EPIPE); "ok": the bytes are queued on the connection.      *)
(* The socket is blocking, so a send never returns STATUS_BUSY.           *)
(***************************************************************************)
TransportResults ==
    (IF netUp THEN {"ok"} ELSE {"neterr"}) \cup (IF AllocCanFail THEN {"nomem"} ELSE {})

Transmit(p, res) == c2b' = IF res = "ok" THEN Append(c2b, p) ELSE c2b

\* Variant that drops the type without the await_for_packet() check.
SettleAlways(mask, tbl, type) == mask \ {type}

\* Drops a type from the mask once no slot waits for it any more.
Settle(mask, tbl, type) == IF AwaitsFor(tbl, type) THEN mask ELSE mask \ {type}

\* Bound of the model: the application issues a call only while fewer than
\* MaxChan packets are on the wire in either direction.
InFlight == Len(c2b) + Len(b2c)

CappedInc(n) == IF n < 2 THEN n + 1 ELSE 2

-----------------------------------------------------------------------------
(* Initial state: mqtt_create_client() callocs the client and sets the    *)
(* mask to PINGREQ; the transport is not open.                            *)
Init ==
    /\ connected = FALSE
    /\ expected_ptypes = {"PINGREQ"}
    /\ pending = EmptyTable
    /\ packet_id_count = 0
    /\ reason = [t \in AckTypes |-> 0]
    /\ max_qos = 0
    /\ netUp = FALSE
    /\ c2b = <<>>
    /\ b2c = <<>>
    /\ delivered = [m \in Msgs |-> 0]

-----------------------------------------------------------------------------
(***************************************************************************)
(* User API.  The application calls mqtt_connect() when its socket is     *)
(* closed (initially, after a disconnect, or after poll reported the      *)
(* connection lost) and once the old connection is drained.  Failures of *)
(* alloc, open_conn or the first send return before any state changes.   *)
(***************************************************************************)
mqtt_connect ==
    /\ ~netUp
    /\ c2b = <<>>
    /\ \E clean \in BOOLEAN :
        /\ netUp' = TRUE
        /\ c2b' = <<Pkt("CONNECT", 0, 0, 0, 0, clean)>>
        /\ b2c' = <<>>
        /\ expected_ptypes' = expected_ptypes \cup {"CONNACK"}
    /\ UNCHANGED <<connected, pending, packet_id_count, reason, max_qos, delivered>>

\* mqtt_disconnect(): sends DISCONNECT, then resets connected and the mask
\* and closes the socket.  The pending table is left as it is.  A failed
\* allocation or send returns early with nothing changed.
mqtt_disconnect ==
    /\ AppDisconnects
    /\ netUp
    /\ InFlight < MaxChan
    /\ c2b' = Append(c2b, Pkt("DISCONNECT", 0, 0, 0, 0, FALSE))
    /\ connected' = FALSE
    /\ expected_ptypes' = {"PINGREQ"}
    /\ netUp' = FALSE
    /\ b2c' = <<>>
    /\ UNCHANGED <<pending, packet_id_count, reason, max_qos, delivered>>

\* mqtt_publish(): checks, reserve a slot for QoS > 0, build, send, free,
\* and only on a successful send add PUBACK/PUBREC to the mask.
mqtt_publish(qos) ==
    /\ connected
    /\ qos <= max_qos
    /\ InFlight < MaxChan
    /\ qos > 0 => packet_id_count < MaxMintedId
    /\ LET r == ReserveForAnswer(pending, packet_id_count,
                                 IF qos = 2 THEN "PUBREC" ELSE "PUBACK")
       IN  /\ qos > 0 => r.ok
           /\ pending' = IF qos > 0 THEN r.table ELSE pending
           /\ packet_id_count' = IF qos > 0 THEN r.count ELSE packet_id_count
           /\ \E res \in TransportResults :
                /\ Transmit(Pkt("PUBLISH", IF qos > 0 THEN r.id ELSE 0, qos, 0, 0, FALSE), res)
                /\ expected_ptypes' =
                      CASE res = "ok" /\ qos = 1 -> expected_ptypes \cup {"PUBACK"}
                        [] res = "ok" /\ qos = 2 -> expected_ptypes \cup {"PUBREC"}
                        [] OTHER                 -> expected_ptypes
    /\ UNCHANGED <<connected, reason, max_qos, netUp, b2c, delivered>>

\* mqtt_subscribe() and mqtt_unsubscribe(): the slot is reserved BEFORE the
\* entries are validated; a validation failure returns with the slot taken.
Request(type, answer) ==
    /\ type \in AppRequests
    /\ connected
    /\ InFlight < MaxChan
    /\ packet_id_count < MaxMintedId
    /\ LET r == ReserveForAnswer(pending, packet_id_count, answer)
       IN  /\ r.ok
           /\ pending' = r.table
           /\ packet_id_count' = r.count
           /\ \E valid \in (IF InvalidRequests THEN BOOLEAN ELSE {TRUE}) :
                IF ~valid
                THEN UNCHANGED <<c2b, expected_ptypes>>
                ELSE \E res \in TransportResults :
                       /\ Transmit(Pkt(type, r.id, 0, 0, 0, FALSE), res)
                       /\ expected_ptypes' = IF res = "ok"
                                             THEN expected_ptypes \cup {answer}
                                             ELSE expected_ptypes
    /\ UNCHANGED <<connected, reason, max_qos, netUp, b2c, delivered>>

mqtt_subscribe == Request("SUBSCRIBE", "SUBACK")

mqtt_unsubscribe == Request("UNSUBSCRIBE", "UNSUBACK")

\* mqtt_ping(): send PINGREQ and from then on accept PINGRESP.
mqtt_ping ==
    /\ connected
    /\ InFlight < MaxChan
    /\ \E res \in TransportResults :
        /\ Transmit(Pkt("PINGREQ", 0, 0, 0, 0, FALSE), res)
        /\ expected_ptypes' = IF res = "ok" THEN expected_ptypes \cup {"PINGRESP"}
                                            ELSE expected_ptypes
    /\ UNCHANGED <<connected, pending, packet_id_count, reason, max_qos, netUp, b2c, delivered>>

-----------------------------------------------------------------------------
(***************************************************************************)
(* Outbound acknowledgements sent while processing a packet.  Each takes  *)
(* the mask and table as left by the handler and sets c2b', pending' and *)
(* expected_ptypes'.  The reason code sent is whatever the shared struct  *)
(* holds: the handlers of inbound acks write the same field.              *)
(***************************************************************************)
\* mqtt_puback() and mqtt_pubcomp(): send the ack if still connected.
SendAck(type, id, tbl, mask) ==
    /\ pending' = tbl
    /\ expected_ptypes' = mask
    /\ IF connected
       THEN \E res \in TransportResults :
              Transmit(Pkt(type, id, 0, reason[type], 0, FALSE), res)
       ELSE UNCHANGED c2b

mqtt_puback(id, tbl, mask) == SendAck("PUBACK", id, tbl, mask)

mqtt_pubcomp(id, tbl, mask) == SendAck("PUBCOMP", id, tbl, mask)

\* Variant of mqtt_pubrec() that never adds PUBREL to the mask.
mqtt_pubrec_nomask(id, tbl, mask) ==
    LET r == ReserveForRequest(tbl, id, "PUBREL")
    IN  IF ~connected \/ ~r.ok
        THEN pending' = tbl /\ expected_ptypes' = mask /\ UNCHANGED c2b
        ELSE /\ pending' = r.table
             /\ expected_ptypes' = mask
             /\ \E res \in TransportResults :
                  Transmit(Pkt("PUBREC", id, 0, reason["PUBREC"], 0, FALSE), res)

\* mqtt_pubrec(): reserve (id, PUBREL) for the peer's id, then send.
mqtt_pubrec(id, tbl, mask) ==
    LET r == ReserveForRequest(tbl, id, "PUBREL")
    IN  IF ~connected \/ ~r.ok
        THEN pending' = tbl /\ expected_ptypes' = mask /\ UNCHANGED c2b
        ELSE /\ pending' = r.table
             /\ \E res \in TransportResults :
                  /\ Transmit(Pkt("PUBREC", id, 0, reason["PUBREC"], 0, FALSE), res)
                  /\ expected_ptypes' = IF res = "ok" THEN mask \cup {"PUBREL"} ELSE mask

\* mqtt_pubrel(): rewrite the slot to PUBCOMP (again) and send PUBREL.
mqtt_pubrel(id, tbl, mask) ==
    IF ~connected
    THEN pending' = tbl /\ expected_ptypes' = mask /\ UNCHANGED c2b
    ELSE /\ pending' = Advance(tbl, id, "PUBCOMP")
         /\ \E res \in TransportResults :
              /\ Transmit(Pkt("PUBREL", id, 0, reason["PUBREL"], 0, FALSE), res)
              /\ expected_ptypes' = IF res = "ok" THEN mask \cup {"PUBCOMP"} ELSE mask

-----------------------------------------------------------------------------
(***************************************************************************)
(* Inbound packets.  mqtt_poll() hands one received chunk to              *)
(* mqtt_process_packet(), which drops a packet whose type is not in the   *)
(* mask and otherwise dispatches to process_<type>().  p is the packet;   *)
(* the handlers below set everything but b2c.                             *)
(***************************************************************************)
\* process_connack(): a reason code >= 0x80 returns SERVER_DECLINED with
\* nothing changed; otherwise the defaults (max_qos 2) are overwritten by
\* the server's Maximum QoS property, which the broker model always sends.
process_connack(p) ==
    IF p.rc >= 128
    THEN UNCHANGED <<connected, expected_ptypes, pending, reason, max_qos, c2b>>
    ELSE /\ connected' = TRUE
         /\ max_qos' = p.qos
         /\ expected_ptypes' = expected_ptypes \cup {"DISCONNECT", "PUBLISH"}
         /\ UNCHANGED <<pending, reason, c2b>>

\* Variant of process_publish() whose switch lacks the QoS 1 case.
process_publish_noack(p) ==
    /\ delivered' = [delivered EXCEPT ![p.msg] = CappedInc(@)]
    /\ CASE p.qos = 2 -> mqtt_pubrec(p.id, pending, expected_ptypes)
         [] OTHER     -> UNCHANGED <<pending, expected_ptypes, c2b>>
    /\ UNCHANGED <<connected, reason, max_qos>>

\* process_publish(): acknowledge by QoS, then hand the message to the
\* application whatever the acknowledgement returned.
process_publish(p) ==
    /\ delivered' = [delivered EXCEPT ![p.msg] = CappedInc(@)]
    /\ CASE p.qos = 1 -> mqtt_puback(p.id, pending, expected_ptypes)
         [] p.qos = 2 -> mqtt_pubrec(p.id, pending, expected_ptypes)
         [] OTHER     -> UNCHANGED <<pending, expected_ptypes, c2b>>
    /\ UNCHANGED <<connected, reason, max_qos>>

\* The check shared by every answer: the first slot holding the id must
\* await exactly this packet type, else UNEXPECTED_PACKET_TYPE.
Expected(p) == ExpectedAnswer(pending, p.id) = p.type

\* process_puback/pubrec/pubrel/pubcomp() memset the shared struct, so the
\* reason code is 0 after a rejected answer and the peer's code otherwise.
StoreReason(p) ==
    reason' = [reason EXCEPT ![p.type] = IF Expected(p) THEN p.rc ELSE 0]

\* process_puback(), process_pubcomp(), process_suback(), process_unsuback():
\* free the slot and drop the type from the mask once nothing awaits it.
\* process_unsuback() mallocs the reason-code array first and returns
\* OUT_OF_MEMORY with the slot still taken when that fails.
process_completion(p) ==
    /\ IF p.type \in AckTypes THEN StoreReason(p) ELSE UNCHANGED reason
    /\ \E allocOk \in (IF p.type = "UNSUBACK" /\ AllocCanFail THEN BOOLEAN ELSE {TRUE}) :
         IF Expected(p) /\ allocOk
         THEN /\ pending' = Release(pending, p.id)
              /\ expected_ptypes' = Settle(expected_ptypes, Release(pending, p.id), p.type)
         ELSE UNCHANGED <<pending, expected_ptypes>>
    /\ UNCHANGED <<connected, max_qos, delivered, c2b>>

\* process_pubrec(): the reason code is stored but not looked at; the slot
\* moves to PUBCOMP and PUBREL is sent.
process_pubrec(p) ==
    /\ StoreReason(p)
    /\ IF Expected(p)
       THEN LET tbl == Advance(pending, p.id, "PUBCOMP")
            IN  mqtt_pubrel(p.id, tbl, Settle(expected_ptypes, tbl, "PUBREC") \cup {"PUBCOMP"})
       ELSE UNCHANGED <<pending, expected_ptypes, c2b>>
    /\ UNCHANGED <<connected, max_qos, delivered>>

\* Variant of process_pubrel() that omits free_packet_slot().
process_pubrel_nofree(p) ==
    /\ StoreReason(p)
    /\ IF Expected(p)
       THEN mqtt_pubcomp(p.id, pending, Settle(expected_ptypes, pending, "PUBREL"))
       ELSE UNCHANGED <<pending, expected_ptypes, c2b>>
    /\ UNCHANGED <<connected, max_qos, delivered>>

\* process_pubrel(): free the slot of the inbound QoS 2 flow, send PUBCOMP.
process_pubrel(p) ==
    /\ StoreReason(p)
    /\ IF Expected(p)
       THEN LET tbl == Release(pending, p.id)
            IN  mqtt_pubcomp(p.id, tbl, Settle(expected_ptypes, tbl, "PUBREL"))
       ELSE UNCHANGED <<pending, expected_ptypes, c2b>>
    /\ UNCHANGED <<connected, max_qos, delivered>>

process_puback(p) == process_completion(p)

\* Variant of process_pubcomp() that omits free_packet_slot().
process_pubcomp_nofree(p) ==
    /\ StoreReason(p)
    /\ UNCHANGED <<pending, expected_ptypes, connected, max_qos, delivered, c2b>>

process_pubcomp(p) == process_completion(p)

process_suback(p) == process_completion(p)

process_unsuback(p) == process_completion(p)

\* process_disconnect(): the session ends and close_conn() closes the
\* socket; the pending table and the counter are left as they are.
process_disconnect ==
    /\ connected' = FALSE
    /\ expected_ptypes' = {"PINGREQ"}
    /\ netUp' = FALSE
    /\ b2c' = <<>>
    /\ c2b' = <<>>
    /\ UNCHANGED <<pending, packet_id_count, reason, max_qos, delivered>>

\* process_packet(): dispatch on the type.  A PINGRESP only fires the
\* mqtt_ping_received() callback.  A server never sends PINGREQ, so the
\* dispatch of PINGREQ to mqtt_ping() is not modelled.
process_packet(p) ==
    IF p.type = "DISCONNECT"
    THEN process_disconnect
    ELSE /\ b2c' = Tail(b2c)
         /\ UNCHANGED <<netUp, packet_id_count>>
         /\ CASE p.type = "CONNACK"  -> process_connack(p) /\ UNCHANGED delivered
              [] p.type = "PUBLISH"  -> process_publish(p)
              [] p.type = "PUBACK"   -> process_puback(p)
              [] p.type = "PUBREC"   -> process_pubrec(p)
              [] p.type = "PUBREL"   -> process_pubrel(p)
              [] p.type = "PUBCOMP"  -> process_pubcomp(p)
              [] p.type = "SUBACK"   -> process_suback(p)
              [] p.type = "UNSUBACK" -> process_unsuback(p)
              [] OTHER               -> UNCHANGED <<clientVars, c2b>>

\* mqtt_poll() / mqtt_process_packet() on a chunk holding exactly one
\* packet: a type outside expected_ptypes is dropped (UNEXPECTED_PACKET_TYPE).
mqtt_process_packet ==
    /\ b2c # <<>>
    /\ LET p == Head(b2c) IN
       IF p.type \notin expected_ptypes
       THEN /\ b2c' = Tail(b2c)
            /\ UNCHANGED <<clientVars, netUp, c2b>>
       ELSE process_packet(p)

\* Two packets that reach recv() in one chunk: the size check of
\* mqtt_process_packet() fails (INVALID_PACKET_SIZE) and both are lost.
CoalescedChunk ==
    /\ Len(b2c) >= 2
    /\ b2c' = Tail(Tail(b2c))
    /\ UNCHANGED <<clientVars, netUp, c2b>>

=============================================================================
