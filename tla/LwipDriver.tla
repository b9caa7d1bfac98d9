----------------------------- MODULE LwipDriver -----------------------------
(***************************************************************************)
(* The lwIP / Pico W transport of mqtt_lwip.c under the engine calls that *)
(* use it.  Unlike the socket build, lwIP drives the client through       *)
(* callbacks: tcp_client_connected() completes a deferred CONNECT and     *)
(* tcp_client_recv() runs mqtt_process_packet() on every received pbuf.   *)
(*                                                                         *)
(* Where those callbacks run depends on the pico_cyw43_arch build.  In    *)
(* the poll build they run inside cyw43_arch_poll(), which the            *)
(* application calls between API calls.  In the threadsafe_background    *)
(* build they run from interrupt context whenever the lwIP lock is free;  *)
(* the driver takes that lock (cyw43_arch_lwip_begin/end) only around     *)
(* tcp_connect() and tcp_write(), so a callback may run between any two   *)
(* steps of an API call.  An API call is therefore split at the points    *)
(* where it releases the lock or reads state another callback writes.     *)
(*                                                                         *)
(* Shared state: stat->outp, whose payload alloc_send_buf() points at the *)
(* ONE static buffer of the socket context, and the engine's session      *)
(* state.  A packet is a record of its type and packet identifier.        *)
(***************************************************************************)
EXTENDS PendingTable, FiniteSets

CONSTANTS
    Background,   \* TRUE: threadsafe_background build; FALSE: poll build
    PeerResets,   \* lwIP may abort the connection (RST, timeout): tcp_err
    PeerCloses,   \* the broker may close its side of the connection (FIN)
    LocalErrors,  \* tcp_new_ip_type() / tcp_connect() may fail locally
    MaxConnects,  \* mqtt_connect() calls the application makes
    MaxPublishes, \* QoS 1 mqtt_publish() calls the application makes
    MaxInbound,   \* QoS 1 PUBLISH packets the broker sends
    BrokerIds     \* packet identifiers the broker uses

ASSUME BrokerIds \subseteq PacketIds

VARIABLES
    pc,              \* where the application is inside an API call
    building,        \* the packet the current API call builds
    outp,            \* stat->outp.payload: "NULL" or the static buffer
    buffer,          \* contents of socket_context.buffer[]
    net_connected,   \* stat->net.connected
    connecting,      \* socket_context.connecting
    deferred,        \* stat->connect.deferred
    tcp_pcb,         \* socket_context.tcp_pcb: NULL, live, or freed by lwIP
    lockLeaked,      \* the lwIP lock was taken and never released
    connected,       \* stat->connected
    expected_ptypes, \* stat->expected_ptypes, as the set of its bits
    pending,         \* stat->pending[]
    packet_id_count, \* stat->packet_id_count
    c2b,             \* TCP send queue and wire to the broker
    b2c,             \* wire from the broker
    connects,        \* bound: mqtt_connect() calls so far
    published,       \* bound: mqtt_publish() calls so far
    inbound,         \* bound: PUBLISH packets the broker sent
    accepted,        \* the broker has read CONNECT on this connection
    peerClosed,      \* the broker has closed its side of this connection
    finSeen,         \* history: tcp_client_recv() got the NULL pbuf of a FIN
    freedPcbUsed     \* history: a tcp_* call was made on a pcb lwIP freed

engineVars == <<connected, expected_ptypes, pending, packet_id_count>>
driverVars == <<outp, buffer, net_connected, connecting, deferred, tcp_pcb,
                lockLeaked, freedPcbUsed>>
peerVars == <<accepted, peerClosed, finSeen>>
vars == <<pc, building, engineVars, driverVars, c2b, b2c, connects,
          published, inbound, peerVars>>

Pkt(type, id) == [type |-> type, id |-> id]
NoPacket == Pkt("NONE", 0)
Packet == [type : PacketTypes \cup {"NONE", "FIN"}, id : {0} \cup PacketIds]

PCs == {"idle", "c_open", "c_defer", "c_send", "c_mask", "p_send", "p_mask"}

TypeOK ==
    /\ pc \in PCs
    /\ building \in Packet
    /\ outp \in {"NULL", "Buf"}
    /\ buffer \in Packet
    /\ {net_connected, connecting, deferred, lockLeaked, connected, freedPcbUsed}
          \subseteq BOOLEAN
    /\ tcp_pcb \in {"NULL", "live", "freed"}
    /\ expected_ptypes \subseteq PacketTypes
    /\ pending \in [Slots -> Slot]
    /\ packet_id_count \in Counters
    /\ c2b \in Seq(Packet) /\ b2c \in Seq(Packet)
    /\ connects \in 0..MaxConnects
    /\ published \in 0..MaxPublishes
    /\ inbound \in 0..MaxInbound
    /\ {accepted, peerClosed, finSeen} \subseteq BOOLEAN

-----------------------------------------------------------------------------
(***************************************************************************)
(* Driver operations, as the engine reaches them through stat->net.       *)
(***************************************************************************)
\* A callback can run now: in the background build whenever the lwIP lock
\* is free, in the poll build only while the application sits in its loop.
CallbackMayRun == IF Background THEN ~lockLeaked ELSE pc = "idle"

\* The broker side of the TCP connection is there.
LinkUp == tcp_pcb = "live" /\ net_connected

\* socket_send(): not connected yields STATUS_PENDING while a connect is
\* deferred, else ERROR_NOT_CONNECTED; tcp_write() refuses a NULL payload
\* with ERR_ARG and socket_send() returns ERROR_SW_FAILURE.
SendResult(nc, ob) ==
    CASE ~nc         -> IF deferred THEN "pending" ELSE "notconn"
      [] ob = "NULL" -> "swfail"
      [] OTHER       -> "ok"

\* SUCCESSFUL(): STATUS_PENDING is a success status.
Succeeded(r) == r \in {"ok", "pending"}

\* The effect of socket_send() with net.connected nc and payload ob holding
\* buf: tcp_write() copies the bytes into the send queue (into nothing once
\* lwIP freed the pcb).  Its error path returns before
\* cyw43_arch_lwip_end(), which in the background build keeps the lock.
socket_send(nc, ob, buf) ==
    /\ c2b' = IF SendResult(nc, ob) = "ok" /\ tcp_pcb = "live"
              THEN Append(c2b, buf) ELSE c2b
    /\ lockLeaked' = (lockLeaked \/ (Background /\ SendResult(nc, ob) = "swfail"))
    /\ freedPcbUsed' = (freedPcbUsed \/ (nc /\ tcp_pcb = "freed"))

\* Variant that runs the second make_* pass before alloc_send_buf(): pout
\* is still the payload of the previous, freed buffer.
TwoPassBuildBeforeAlloc(p) ==
    /\ outp' = "Buf"
    /\ buffer' = IF outp = "Buf" THEN p ELSE buffer

\* alloc_send_buf() hands out the static buffer whatever it holds (every
\* packet of the model fits MAX_BUFFER_LEN); the second make_* pass writes
\* the packet through pout = outp.payload.
TwoPassBuild(p) == /\ outp' = "Buf" /\ buffer' = p

\* A failed socket_send() (net.connected nc), free_send_buf() and then
\* close_conn(): only while net.connected, it unhooks the callbacks, calls
\* tcp_close() and forgets the pcb; the connection and its queues go.
close_after_failed_send(nc) ==
    /\ outp' = "NULL"
    /\ net_connected' = FALSE
    /\ tcp_pcb' = IF nc THEN "NULL" ELSE tcp_pcb
    /\ c2b' = IF nc THEN <<>> ELSE c2b
    /\ b2c' = IF nc THEN <<>> ELSE b2c
    /\ accepted' = (accepted /\ ~nc)
    /\ UNCHANGED <<peerClosed, finSeen>>
    /\ lockLeaked' = (lockLeaked \/ (Background /\ SendResult(nc, outp) = "swfail"))
    /\ freedPcbUsed' = (freedPcbUsed \/ (nc /\ tcp_pcb = "freed"))

-----------------------------------------------------------------------------
Init ==
    /\ pc = "idle"
    /\ building = NoPacket
    /\ outp = "NULL"
    /\ buffer = NoPacket
    /\ net_connected = FALSE /\ connecting = FALSE /\ deferred = FALSE
    /\ tcp_pcb = "NULL"
    /\ lockLeaked = FALSE
    /\ connected = FALSE
    /\ expected_ptypes = {"PINGREQ"}
    /\ pending = EmptyTable
    /\ packet_id_count = 0
    /\ c2b = <<>> /\ b2c = <<>>
    /\ connects = 0 /\ published = 0 /\ inbound = 0
    /\ accepted = FALSE /\ peerClosed = FALSE /\ finSeen = FALSE
    /\ freedPcbUsed = FALSE

-----------------------------------------------------------------------------
(***************************************************************************)
(* mqtt_connect(), in the steps between which a callback may run.         *)
(***************************************************************************)
\* Validation, both make_connect() passes and alloc_send_buf().  The
\* application calls it while the session is not up, and calls it again
\* only when no connection is open or opening (a second CONNECT on one
\* connection is a protocol error).
mqtt_connect_build ==
    /\ pc = "idle"
    /\ ~connected /\ ~net_connected /\ ~connecting
    /\ connects < MaxConnects
    /\ TwoPassBuild(Pkt("CONNECT", 0))
    /\ building' = Pkt("CONNECT", 0)
    /\ connects' = connects + 1
    /\ pc' = "c_open"
    /\ UNCHANGED <<engineVars, net_connected, connecting, deferred, tcp_pcb,
                   lockLeaked, freedPcbUsed, c2b, b2c, published, inbound, peerVars>>

\* open_conn(): nothing while connected or connecting; otherwise create
\* the pcb if there is none, hook the callbacks and start tcp_connect()
\* under the lwIP lock.  (A pcb lwIP freed is never met here: tcp_err
\* leaves connecting or net.connected set.)  A local failure, of
\* tcp_new_ip_type() while there is no pcb or of tcp_connect() on the
\* hooked one, returns an error: mqtt_connect() frees the send buffer and
\* returns it, and the pcb is kept for the next call.
open_conn ==
    /\ pc = "c_open"
    /\ IF ~net_connected /\ ~connecting
       THEN \/ /\ tcp_pcb' = "live" /\ connecting' = TRUE
               /\ peerClosed' = FALSE /\ finSeen' = FALSE
               /\ pc' = "c_defer"
               /\ UNCHANGED outp
            \/ /\ LocalErrors
               /\ tcp_pcb' \in IF tcp_pcb = "NULL" THEN {"NULL", "live"} ELSE {tcp_pcb}
               /\ outp' = "NULL"
               /\ pc' = "idle"
               /\ UNCHANGED <<connecting, peerClosed, finSeen>>
       ELSE /\ pc' = "c_defer"
            /\ UNCHANGED <<tcp_pcb, connecting, outp, peerClosed, finSeen>>
    /\ UNCHANGED <<building, engineVars, buffer, net_connected, deferred,
                   lockLeaked, freedPcbUsed, c2b, b2c, connects, published,
                   inbound, accepted>>

\* "if (!stat->net.connected) stat->connect.deferred = true".
mqtt_connect_defer ==
    /\ pc = "c_defer"
    /\ deferred' = (deferred \/ ~net_connected)
    /\ pc' = "c_send"
    /\ UNCHANGED <<building, engineVars, outp, buffer, net_connected, connecting,
                   tcp_pcb, lockLeaked, freedPcbUsed, c2b, b2c, connects,
                   published, inbound, peerVars>>

\* net.send(); a failure frees the buffer and closes the connection; a
\* STATUS_PENDING result keeps the buffer for tcp_client_connected().
mqtt_connect_send ==
    /\ pc = "c_send"
    /\ LET r == SendResult(net_connected, outp) IN
       IF Succeeded(r)
       THEN /\ socket_send(net_connected, outp, buffer)
            /\ outp' = IF r = "pending" THEN outp ELSE "NULL"
            /\ pc' = "c_mask"
            /\ UNCHANGED <<net_connected, tcp_pcb, b2c, peerVars>>
       ELSE /\ close_after_failed_send(net_connected)
            /\ pc' = "idle"
    /\ UNCHANGED <<building, engineVars, buffer, connecting, deferred,
                   connects, published, inbound>>

\* stat->expected_ptypes |= BIT(CONNACK), the last statement of the call.
mqtt_connect_mask ==
    /\ pc = "c_mask"
    /\ expected_ptypes' = expected_ptypes \cup {"CONNACK"}
    /\ pc' = "idle"
    /\ UNCHANGED <<building, connected, pending, packet_id_count, driverVars,
                   c2b, b2c, connects, published, inbound, peerVars>>

-----------------------------------------------------------------------------
(***************************************************************************)
(* mqtt_publish() with QoS 1.                                             *)
(***************************************************************************)
\* The checks (connected, QoS, topic), reserve_packet_slot_for_answer(),
\* both make_publish() passes around alloc_send_buf().  A callback between
\* the alloc and the second pass has the same effect as one right after
\* it: either way the buffer ends up holding the callback's packet.
mqtt_publish_build ==
    /\ pc = "idle"
    /\ connected
    /\ published < MaxPublishes
    /\ LET r == ReserveForAnswer(pending, packet_id_count, "PUBACK") IN
       /\ r.ok
       /\ pending' = r.table
       /\ packet_id_count' = r.count
       /\ TwoPassBuild(Pkt("PUBLISH", r.id))
       /\ building' = Pkt("PUBLISH", r.id)
    /\ published' = published + 1
    /\ pc' = "p_send"
    /\ UNCHANGED <<connected, expected_ptypes, net_connected, connecting, deferred,
                   tcp_pcb, lockLeaked, freedPcbUsed, c2b, b2c, connects,
                   inbound, peerVars>>

\* net.send() and free_send_buf(); a failed send ends the call.
mqtt_publish_send ==
    /\ pc = "p_send"
    /\ socket_send(net_connected, outp, buffer)
    /\ outp' = "NULL"
    /\ pc' = IF Succeeded(SendResult(net_connected, outp)) THEN "p_mask" ELSE "idle"
    /\ UNCHANGED <<building, engineVars, buffer, net_connected, connecting,
                   deferred, tcp_pcb, b2c, connects, published, inbound, peerVars>>

\* Variant without the switch on the QoS: PUBACK is never expected.
mqtt_publish_mask_none ==
    /\ pc = "p_mask"
    /\ pc' = "idle"
    /\ UNCHANGED <<building, engineVars, driverVars, c2b, b2c, connects,
                   published, inbound, peerVars>>

\* "if (SUCCESSFUL(result)) ... case 1: expected_ptypes |= BIT(PUBACK)".
mqtt_publish_mask ==
    /\ pc = "p_mask"
    /\ expected_ptypes' = expected_ptypes \cup {"PUBACK"}
    /\ pc' = "idle"
    /\ UNCHANGED <<building, connected, pending, packet_id_count, driverVars,
                   c2b, b2c, connects, published, inbound, peerVars>>

-----------------------------------------------------------------------------
(***************************************************************************)
(* lwIP callbacks.                                                         *)
(***************************************************************************)
\* Variant that ignores connect.deferred: the kept CONNECT is never sent.
tcp_client_connected_nosend ==
    /\ CallbackMayRun
    /\ connecting /\ tcp_pcb = "live"
    /\ connecting' = FALSE
    /\ net_connected' = TRUE
    /\ UNCHANGED <<pc, building, engineVars, outp, buffer, deferred, tcp_pcb,
                   lockLeaked, freedPcbUsed, c2b, b2c, connects, published,
                   inbound, peerVars>>

\* tcp_client_connected(): the handshake is done.  A deferred CONNECT is
\* sent from stat->outp and the buffer freed; if that send fails the
\* connection is closed again and the deferred marker stays set.
tcp_client_connected ==
    /\ CallbackMayRun
    /\ connecting /\ tcp_pcb = "live"
    /\ connecting' = FALSE
    /\ IF ~deferred
       THEN /\ net_connected' = TRUE
            /\ UNCHANGED <<outp, deferred, tcp_pcb, lockLeaked, freedPcbUsed,
                           c2b, b2c, peerVars>>
       ELSE IF Succeeded(SendResult(TRUE, outp))
       THEN /\ net_connected' = TRUE
            /\ socket_send(TRUE, outp, buffer)
            /\ outp' = "NULL"
            /\ deferred' = FALSE
            /\ UNCHANGED <<tcp_pcb, b2c, peerVars>>
       ELSE /\ close_after_failed_send(TRUE)
            /\ UNCHANGED deferred
    /\ UNCHANGED <<pc, building, engineVars, buffer, connects, published, inbound>>

\* Drops a type from the mask once no slot waits for it any more.
Settle(mask, tbl, type) == IF AwaitsFor(tbl, type) THEN mask ELSE mask \ {type}

\* mqtt_puback() from process_publish(): while connected, alloc_send_buf()
\* takes the static buffer, make_puback() writes into it, net.send() and
\* free_send_buf() follow.
mqtt_puback(id) ==
    IF connected
    THEN /\ buffer' = Pkt("PUBACK", id)
         /\ socket_send(net_connected, "Buf", Pkt("PUBACK", id))
         /\ outp' = "NULL"
    ELSE UNCHANGED <<buffer, outp, c2b, lockLeaked, freedPcbUsed>>

\* mqtt_process_packet() on one packet: a type outside the mask is
\* dropped; CONNACK starts the session, PUBACK frees the slot awaiting it,
\* a QoS 1 PUBLISH is acknowledged.
mqtt_process_packet(p) ==
    CASE p.type \notin expected_ptypes ->
           UNCHANGED <<engineVars, outp, buffer, c2b, lockLeaked, freedPcbUsed>>
      [] p.type = "CONNACK" ->
           /\ connected' = TRUE
           /\ expected_ptypes' = expected_ptypes \cup {"DISCONNECT", "PUBLISH"}
           /\ UNCHANGED <<pending, packet_id_count, outp, buffer, c2b, lockLeaked,
                          freedPcbUsed>>
      [] p.type = "PUBACK" ->
           /\ IF ExpectedAnswer(pending, p.id) = "PUBACK"
              THEN /\ pending' = Release(pending, p.id)
                   /\ expected_ptypes' = Settle(expected_ptypes, Release(pending, p.id), "PUBACK")
              ELSE UNCHANGED <<pending, expected_ptypes>>
           /\ UNCHANGED <<connected, packet_id_count, outp, buffer, c2b, lockLeaked,
                          freedPcbUsed>>
      [] p.type = "PUBLISH" ->
           /\ mqtt_puback(p.id)
           /\ UNCHANGED engineVars

\* tcp_client_recv(): a pbuf of one packet goes to mqtt_process_packet().
\* The broker's FIN arrives as a NULL pbuf: the callback returns -1
\* without closing, lwIP ignores any result but ERR_ABRT, and the pcb
\* stays in CLOSE_WAIT with net.connected and stat->connected set.
tcp_client_recv ==
    /\ CallbackMayRun
    /\ tcp_pcb = "live" /\ b2c # <<>>
    /\ b2c' = Tail(b2c)
    /\ IF Head(b2c).type = "FIN"
       THEN /\ finSeen' = TRUE
            /\ UNCHANGED <<engineVars, outp, buffer, c2b, lockLeaked, freedPcbUsed>>
       ELSE /\ mqtt_process_packet(Head(b2c))
            /\ UNCHANGED finSeen
    /\ UNCHANGED <<pc, building, net_connected, connecting, deferred, tcp_pcb,
                   connects, published, inbound, accepted, peerClosed>>

\* lwIP aborts the connection (RST, retransmission timeout), frees the pcb
\* and calls tcp_client_err(), which only logs: connecting, net.connected
\* and the tcp_pcb pointer keep their values.
tcp_client_err ==
    /\ PeerResets
    /\ CallbackMayRun
    /\ tcp_pcb = "live" /\ (connecting \/ net_connected)
    /\ tcp_pcb' = "freed"
    /\ c2b' = <<>> /\ b2c' = <<>>
    /\ accepted' = FALSE
    /\ UNCHANGED <<peerClosed, finSeen>>
    /\ UNCHANGED <<pc, building, engineVars, outp, buffer, net_connected,
                   connecting, deferred, lockLeaked, freedPcbUsed, connects,
                   published, inbound>>

-----------------------------------------------------------------------------
(***************************************************************************)
(* The broker: answers CONNECT and QoS 1 PUBLISH, and publishes at QoS 1. *)
(***************************************************************************)
BrokerRecv ==
    /\ LinkUp /\ ~peerClosed /\ c2b # <<>>
    /\ c2b' = Tail(c2b)
    /\ LET p == Head(c2b) IN
       CASE p.type = "CONNECT" -> b2c' = Append(b2c, Pkt("CONNACK", 0)) /\ accepted' = TRUE
         [] p.type = "PUBLISH" -> b2c' = Append(b2c, Pkt("PUBACK", p.id)) /\ UNCHANGED accepted
         [] OTHER              -> UNCHANGED <<b2c, accepted>>
    /\ UNCHANGED <<pc, building, engineVars, driverVars, connects, published, inbound,
                   peerClosed, finSeen>>

BrokerPublish ==
    /\ LinkUp /\ accepted /\ ~peerClosed
    /\ inbound < MaxInbound
    /\ \E id \in BrokerIds : b2c' = Append(b2c, Pkt("PUBLISH", id))
    /\ inbound' = inbound + 1
    /\ UNCHANGED <<pc, building, engineVars, driverVars, c2b, connects, published, peerVars>>

\* The broker closes its side (a server may close the network connection
\* without DISCONNECT, MQTT 5 4.13): a FIN follows what it has sent, and
\* it reads nothing more.
BrokerClose ==
    /\ PeerCloses
    /\ LinkUp /\ ~peerClosed
    /\ peerClosed' = TRUE
    /\ b2c' = Append(b2c, Pkt("FIN", 0))
    /\ UNCHANGED <<pc, building, engineVars, driverVars, c2b, connects, published,
                   inbound, accepted, finSeen>>

-----------------------------------------------------------------------------
Next ==
    \/ mqtt_connect_build \/ open_conn \/ mqtt_connect_defer
    \/ mqtt_connect_send \/ mqtt_connect_mask
    \/ mqtt_publish_build \/ mqtt_publish_send \/ mqtt_publish_mask
    \/ tcp_client_connected \/ tcp_client_recv \/ tcp_client_err
    \/ BrokerRecv \/ BrokerPublish \/ BrokerClose

(***************************************************************************)
(* Fairness.  A started API call runs to its end; lwIP delivers what the  *)
(* network brought (in the poll build because the application's loop      *)
(* calls cyw43_arch_poll()); the broker reads what it was sent.  Nothing  *)
(* obliges the application to call the API or the broker to publish.     *)
(***************************************************************************)
Fairness ==
    /\ WF_vars(open_conn) /\ WF_vars(mqtt_connect_defer)
    /\ WF_vars(mqtt_connect_send) /\ WF_vars(mqtt_connect_mask)
    /\ WF_vars(mqtt_publish_send) /\ WF_vars(mqtt_publish_mask)
    /\ WF_vars(tcp_client_connected) /\ WF_vars(tcp_client_recv)
    /\ WF_vars(BrokerRecv)

Spec == Init /\ [][Next]_vars /\ Fairness

-----------------------------------------------------------------------------
(***************************************************************************)
(* Properties.                                                             *)
(***************************************************************************)
\* Between its alloc_send_buf() and its net.send(), an API call owns
\* stat->outp and the static buffer: the payload is still set and holds
\* the packet the call built, so the bytes tcp_write() copies are its own.
OutboundBufferOwned ==
    pc \in {"c_open", "c_defer", "c_send", "p_send"} =>
        outp = "Buf" /\ buffer = building

\* The connection ended from the other side: lwIP aborted it, or the
\* broker closed it.
PeerEnded == tcp_pcb = "freed" \/ peerClosed

\* After mqtt_connect() has returned success, with the CONNECT either sent
\* or deferred to tcp_client_connected(), the session comes up, unless
\* the connection is aborted or closed by the broker first.
ConnectCompletes ==
    (pc = "idle" /\ "CONNACK" \in expected_ptypes)
        ~> (connected \/ PeerEnded)

AwaitsPuback(id) ==
    \E i \in Slots : pending[i] = [packet_id |-> id, await_packet_type |-> "PUBACK"]

\* A slot mqtt_publish() reserved for a PUBACK is eventually freed by
\* process_puback(), unless the connection is aborted or closed first.
OutboundFlowsComplete ==
    \A id \in PacketIds : AwaitsPuback(id) ~> (~AwaitsPuback(id) \/ PeerEnded)

\* No tcp_write() or tcp_close() is made on a pcb that lwIP freed before
\* it called tcp_client_err().
NoUseAfterFree == ~freedPcbUsed

\* A connection the broker closed is eventually closed by the client too:
\* after tcp_client_recv() got the FIN, net.connected is cleared, so that
\* open_conn() will connect again.
PeerCloseNoticed == finSeen ~> ~net_connected

=============================================================================
