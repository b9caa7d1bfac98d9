---------------------------- MODULE PendingFlows ----------------------------
(***************************************************************************)
(* What the pending table promises (spec 3 and 4.6), without slots, scans *)
(* or a counter: the flows in flight, each a packet identifier and the     *)
(* packet type it waits for.  A flow is opened only under an identifier   *)
(* no other flow in flight uses, moved to a new await type, or closed;    *)
(* a disconnect may drop them all.  inflight is a bag so that a second    *)
(* flow equal to one already in flight counts twice.                      *)
(***************************************************************************)
EXTENDS Naturals, Bags

CONSTANTS
    RECEIVE_MAXIMUM,  \* flows in flight at once
    Ids,              \* non-zero packet identifiers
    Types             \* packet types a flow can wait for

VARIABLE inflight

Flow(id, t) == [packet_id |-> id, await_packet_type |-> t]
One(id, t) == SetToBag({Flow(id, t)})

LiveIds == {f.packet_id : f \in BagToSet(inflight)}

Init == inflight = EmptyBag

\* reserve_for_outbound / reserve_for_inbound: a fresh identifier.
Open(id, t) ==
    /\ id \notin LiveIds
    /\ BagCardinality(inflight) < RECEIVE_MAXIMUM
    /\ inflight' = inflight (+) One(id, t)

\* advance(packet_id, new_await).
Move(id, t, t2) ==
    /\ BagIn(Flow(id, t), inflight)
    /\ inflight' = (inflight (-) One(id, t)) (+) One(id, t2)

\* release(packet_id).
Close(id, t) ==
    /\ BagIn(Flow(id, t), inflight)
    /\ inflight' = inflight (-) One(id, t)

\* "on disconnect, the table is zeroed".
Drop == inflight' = EmptyBag

Next ==
    \/ \E id \in Ids, t \in Types : Open(id, t) \/ Close(id, t)
    \/ \E id \in Ids, t, t2 \in Types : Move(id, t, t2)
    \/ Drop

Spec == Init /\ [][Next]_inflight

=============================================================================
