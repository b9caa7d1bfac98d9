---------------------------- MODULE PendingTable ----------------------------
(***************************************************************************)
(* The table of in-flight packet identifiers of mqtt_client.c: the array  *)
(* stat->pending[MQTT_RECEIVE_MAXIMUM] of (packet_id, await_packet_type)   *)
(* pairs and the counter stat->packet_id_count that mints new ids.  The   *)
(* table is a value here; the operators below are the "Packet ID          *)
(* management" functions of the source, each returning the new table.     *)
(* Every lookup is a linear scan that stops at the FIRST matching slot,    *)
(* which matters as soon as two slots share an identifier.                *)
(***************************************************************************)
EXTENDS Integers, SequencesExt

CONSTANTS
    RECEIVE_MAXIMUM,  \* MQTT_RECEIVE_MAXIMUM: number of slots
    PacketIdBits      \* width of packet_id_count (uint16_t: 16)

ASSUME RECEIVE_MAXIMUM \in Nat \ {0}
ASSUME PacketIdBits \in 2..16

Slots == 1..RECEIVE_MAXIMUM

\* packet_id_count is an unsigned integer of PacketIdBits bits.
IdWrap == 2^PacketIdBits
Counters == 0..(IdWrap - 1)
PacketIds == 1..(IdWrap - 1)

\* mqtt_packet_type; UNKNOWN (0) is "no expectation".
Unknown == "UNKNOWN"
PacketTypes == {"CONNECT", "CONNACK", "PUBLISH", "PUBACK", "PUBREC", "PUBREL",
                "PUBCOMP", "SUBSCRIBE", "SUBACK", "UNSUBSCRIBE", "UNSUBACK",
                "PINGREQ", "PINGRESP", "DISCONNECT"}

Slot == [packet_id : {0} \cup PacketIds, await_packet_type : PacketTypes \cup {Unknown}]
FreeSlot == [packet_id |-> 0, await_packet_type |-> Unknown]

\* calloc() of the client zeroes the array.
EmptyTable == [i \in Slots |-> FreeSlot]

IsLive(e) == e.packet_id # 0

\* Index of the first slot holding packet_id id (0 if none); id 0 finds the
\* first free slot.
SlotOf(tbl, id) == SelectInSeq(tbl, LAMBDA e : e.packet_id = id)

\* Variant with a post-increment (stat->packet_id_count++): the id stored is
\* the old counter value, fixed up from 0 to 1.
MintedIdPost(count) == IF count = 0 THEN 1 ELSE count

\* The id stored by ++stat->packet_id_count, with the overflow fix-up.
MintedId(count) ==
    LET c == (count + 1) % IdWrap IN IF c = 0 THEN 1 ELSE c

\* reserve_packet_slot_for_answer(): the first free slot gets the
\* incremented counter.  The counter itself keeps the wrapped value 0, so
\* the next reservation mints 1 again.
ReserveForAnswer(tbl, count, await) ==
    LET i == SlotOf(tbl, 0)
    IN  IF i = 0
        THEN [ok |-> FALSE, table |-> tbl, count |-> count, id |-> 0]
        ELSE [ok |-> TRUE,
              table |-> [tbl EXCEPT ![i] = [packet_id |-> MintedId(count),
                                            await_packet_type |-> await]],
              count |-> (count + 1) % IdWrap,
              id |-> MintedId(count)]

\* reserve_packet_slot_for_request(): store an id chosen by the peer.
\* There is no check that the id is already in the table.
ReserveForRequest(tbl, id, request) ==
    LET i == SlotOf(tbl, 0)
    IN  IF id = 0 \/ i = 0
        THEN [ok |-> FALSE, table |-> tbl]
        ELSE [ok |-> TRUE,
              table |-> [tbl EXCEPT ![i] = [packet_id |-> id,
                                            await_packet_type |-> request]]]

\* Variant of free_packet_slot() that clears the id but not the await type.
ReleaseKeepAwait(tbl, id) ==
    LET i == SlotOf(tbl, id)
    IN  IF i = 0 THEN tbl ELSE [tbl EXCEPT ![i].packet_id = 0]

\* free_packet_slot(): clears the first slot holding id.
Release(tbl, id) ==
    LET i == SlotOf(tbl, id)
    IN  IF i = 0 THEN tbl ELSE [tbl EXCEPT ![i] = FreeSlot]

\* get_expected_packet_answer(): the await type of the first slot with id.
ExpectedAnswer(tbl, id) ==
    LET i == SlotOf(tbl, id)
    IN  IF i = 0 THEN Unknown ELSE tbl[i].await_packet_type

\* await_for_packet(): does any slot wait for this packet type?
AwaitsFor(tbl, type) == \E i \in Slots : tbl[i].await_packet_type = type

\* The loop of process_pubrec() / mqtt_pubrel() that rewrites the await
\* type of the first slot holding id.
Advance(tbl, id, await) ==
    LET i == SlotOf(tbl, id)
    IN  IF i = 0 THEN tbl ELSE [tbl EXCEPT ![i].await_packet_type = await]

=============================================================================
