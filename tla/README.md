# TLA+ models of mqlite

mqlite is a small MQTT 5 client written in C. Its engine, `mqtt_client.c`
(`src/unnamed/part_002`), runs single-threaded. It exposes API calls
(`mqtt_connect`, `mqtt_publish`, `mqtt_subscribe`, …) and one receive path
(`mqtt_poll` → `mqtt_process_packet` → `process_*`). It reaches the network
through a table of function pointers (`stat->net`), which one of two drivers
fills in:

- `src/src/mqtt_socket.c` uses Berkeley sockets: a blocking send, and a
  `recv` after `poll`.
- `src/unnamed/part_001` uses lwIP on a Pico W. There the receive path runs
  inside the lwIP callback.

This directory holds TLA+ modules for the engine's session logic and its
packet-identifier table, composed with an MQTT 5 broker and an unreliable TCP
connection, and the TLC configurations that check them. The table is also
shown to implement an abstract table of flows. Further modules cover the
socket driver, the lwIP driver with its callbacks, the variable-byte integer
codec, the UTF-8 validator and the two-pass packet builders.

## Parts of the system

| Part | Source | State | Model |
|---|---|---|---|
| C1 primitive codec: varint, fixed header | part_002 40-195, 2533-2537 | cursor `pin`/`pout` | `Codec` (varint, fixed header, size check); `Builder` (byte counts of `pack_binary`/`pack_string`); `PropertyParser` (`unpack_word`/`unpack_dword`/`unpack_string`) |
| C2 UTF-8 validator | src/src/utf8.c | none (pure) | `Utf8` |
| C3 property codec | part_002 250-650, `process_*_properties` | the property fields of the client struct | `Builder` (every estimate/pack of the builders); `PropertyParser` (`process_publish_properties`); the other parsers are not modelled |
| C4 packet builder: two-pass `make_*` | part_002 975-1253 | `packet_size`, output buffer | `Builder` |
| C5 parser / dispatch | part_002 1325-2565 | `inp`, `expected_ptypes` | `MQTTClient` |
| C6 pending table | part_002 1259-1319 | `pending[]`, `packet_id_count` | `PendingTable`, abstracted by `PendingFlows` |
| C7 session | part_002 2671-3297 | `connected`, `expected_ptypes`, shared ack structs, `max_qos` | `MQTTClient` |
| C8 socket transport | src/src/mqtt_socket.c | descriptors, `ctx->handle`, receive buffers | `SocketDriver`; `MQTTClient` (send results, coalesced recv) |
| C8 lwIP transport | part_001 | pcb, `connecting`, `connect.deferred`, static send buffer, lwIP lock | `LwipDriver` |
| client identifier | part_000 | none | not modelled (pure formatting) |

How the parts interact:

- An API call builds a packet, sends it, and then records what it waits for:
  - a slot `(packet_id, await_packet_type)` in `pending[]`;
  - a bit in the mask `expected_ptypes`.
- `mqtt_process_packet` drops every packet whose type is not in the mask.
- Each `process_*` handler then checks the slot that its id finds first. It
  frees or advances that slot, and clears the mask bit once no slot waits for
  that type.
- Inbound QoS 1/2 publishes are answered inside the handler:
  - QoS 1 by `mqtt_puback`;
  - QoS 2 by `mqtt_pubrec`, which also reserves a slot for the broker's id.
- The client's own ids and the broker's ids share the one table.

`status.h` is not in the repository. The model assumes what the code's uses
imply: `STATUS_*` and `OK` are ≥ 0, `ERROR_*` are < 0, and
`FAILED(r) == r < 0`.

## Modules

- **`PendingTable.tla`** holds the packet-identifier management functions, as
  operators on a table value.
  - `SlotOf` is the first-match linear scan that every function uses.
  - `ReserveForAnswer` (`reserve_packet_slot_for_answer`) mints `++packet_id_count`:
    - the counter is `PacketIdBits` wide (`% 2^w`);
    - the fix-up from 0 to 1 is applied only to the slot, which is what the
      code does.
  - `ReserveForRequest` stores the peer's id without a duplicate check.
  - The other operators are `Release` (`free_packet_slot`), `ExpectedAnswer`,
    `AwaitsFor`, and `Advance` (the in-place loop of `process_pubrec` and
    `mqtt_pubrel`).
- **`MQTTClient.tla`** models the engine. Its variables are:
  - the fields of `struct mqtt_client` that hold session state: `connected`,
    `expected_ptypes` (a set of types in place of the bit mask), `pending`,
    `packet_id_count`, `max_qos`;
  - `reason`, the reason codes kept in the shared `puback`/`pubrec`/`pubrel`/`pubcomp`
    structs;
  - `delivered`, a history of `mqtt_received_publish` calls per message.

  Each API function is one action. It includes the whole function:
  - the guards and early returns;
  - the reservation;
  - the send, whose result comes from `TransportResults`;
  - the mask update, which depends on the send result.

  Each `process_*` handler is a sub-action of `mqtt_process_packet`, which
  applies the mask check and the dispatch of `process_packet`. The outbound
  acks `mqtt_puback`/`mqtt_pubrec`/`mqtt_pubrel`/`mqtt_pubcomp` are operators
  used inside the handlers that call them. `CoalescedChunk` is a recv that
  returns two packets in one read.
- **`Broker.tla`** is the environment. It is not repository code. It models an
  MQTT 5 server:
  - it keeps per-id outbound flow states;
  - it answers requests with nondeterministic reason codes;
  - it resends unfinished flows when the client connects with
    `clean_start = 0` (MQTT 5 §4.4);
  - it publishes with the configured QoS levels and may end the session.

  It also models the connection, which may break (`ConnectionLost`) and then
  lose everything in flight.
- **`MQTTSystem.tla`** composes the two. It instantiates `C == INSTANCE MQTTClient`
  and `B == INSTANCE Broker` over shared `netUp`, `c2b` and `b2c`, which are
  FIFO sequences of packet records. A step belongs to one side, and the other
  side's variables stay unchanged. The properties are defined here.
- **`PendingFlows.tla`** is the abstract pending table, what spec §3 and §4.6
  promise. It is written from the spec, not from code. It has no slots, scan
  or counter. `inflight` is a bag of flows `(packet_id, await_packet_type)`:
  - `Open` adds a flow under an id no live flow has, while fewer than
    `RECEIVE_MAXIMUM` are in flight;
  - `Move` changes what a flow waits for;
  - `Close` removes it;
  - `Drop` empties the table, as at a disconnect.

  `MQTTSystem` maps the concrete table onto it. `PendingBag` counts, for each
  live slot value, how many slots hold it. It is a bag, so two equal slots
  count twice, which the abstract `Open` never allows.
  `PendingRefinesFlows == Flows!Spec` is the refinement property. No
  passing run checks it. Where ids come only from `++packet_id_count`, with
  no wrap, no collision and no resumed session, it says no more than
  `NoDuplicatePacketIds`. Where those happen, the code breaks it:
  `MC_refine_stale` shows this.
- **`SocketDriver.tla`** models the Berkeley-socket driver as the engine
  drives it. Its variables are:
  - the descriptors the driver opened and has not closed;
  - `ctx->handle`, the one static socket context;
  - the state of the peer behind each socket (up, closed, reset);
  - `stat->connected`, and whether CONNACK is awaited;
  - the receive buffers allocated and not freed;
  - whether the process died of SIGPIPE.

  Its actions are `mqtt_connect`, `mqtt_disconnect`, `mqtt_send` (any API
  call that sends while connected), `mqtt_poll`, and `PeerClose`, the broker
  closing the connection. Each action includes every net-API call the
  function makes:
  - `create_tcp_client` returns the lowest free descriptor;
  - `socket_send` passes flags 0, so a send on a reset socket raises SIGPIPE
    unless the application ignores it;
  - `close_conn`;
  - `alloc_recv_buf`.
- **`Codec.tla`** holds the variable-byte integer codec as RECURSIVE
  operators: `pack_variable_size`, `get_variable_size_byte_count`,
  `unpack_variable_size`, `write_fixed_header`, and the size check of
  `mqtt_process_packet`.
  - `unpack_variable_size` keeps the code's two `encoded_byte` variables. The
    inner one is read from the buffer; the loop condition tests the outer one
    (`OuterEncodedByte`, always 0).
  - The reference is MQTT 5 §1.5.5: `IsVarInt` and `DigitsValue`.
- **`PropertyParser.tla`** extends `Codec` with `process_publish_properties`
  and the part of `process_publish` around it, over bytes.
  - `PublishPropStep` is one pass of the `while` loop. Each case reads its
    value with `unpack_word`, `unpack_dword`, a string's length word, or
    `unpack_variable_size`. It moves the read position by the bytes it read
    and takes off `prop_len` the bytes the code counts. These two numbers
    differ in the User Property case (`user_property_count`) and for a
    misread Subscription Identifier.
  - `prop_len` is a `uint32_t`. TLC's integers are 32-bit signed, so a
    negative value x stands for 2^32 + x, and the loop runs while it is
    not 0.
  - A read past the packet ends the parse as `"OVERREAD"`.
  - `process_publish_body` reads the property length, runs the loop, and
    sets the payload length to what is left.
  - The reference is MQTT 5 §3.3.2.3. `Enc` encodes each property, `Block`
    concatenates a list of them, and `ValueOf` and `UserPairs` give the
    fields that parsing a block must recover.
  - The property identifiers come from MQTT 5 §2.2.2.2; the header that
    defines `MQTT_PUB_*_ID` is not in the repository.
  - `process_connack_poperties` is the same kind of loop over a CONNACK's
    block (`ConnackStep`). Its `len` is an `int`, with one `--len` per
    identifier, and a string is counted as `STRLEN` of what
    `unpack_string` returned. The reference is MQTT 5 §3.2.2.3
    (`ConnackEnc`).
  - The SUBACK, DISCONNECT and acknowledgement parsers repeat the PUBLISH
    loop for a Reason String and User Properties. They reach only
    `mqtt_user_property` and are left out.
- **`Utf8.tla`** models `is_valid_utf8` as a RECURSIVE scan, with the lead
  count, continuation, overlong, surrogate and range tests. The reference is
  `WellFormed`, the byte ranges of RFC 3629 §4. Whether plain `char` is
  signed is the build's choice, `CharSigned`. Only the first test reads the
  byte as a `char`.
- **`Builder.tla`** holds the two-pass builders. Each `make_*` operator
  returns:
  - `rsize`, the remaining length the first pass computes;
  - `written`, the bytes the second pass writes after the fixed header;
  - `props`, each property block's announced length (`len`) and the bytes it
    writes (`content`).

  Every `estimate_*_prop_size` and `pack_*_props` is its own operator.
  `pack_string` and `pack_binary` are the byte counts they write.
  `pack_string` takes `strlen` modulo 2^16, like its `uint16_t`, and
  `make_connect` takes `plen` and `wplen` modulo 2^8.
  - The inputs are the field records of `mqtt_types.h` (`ConnectFields`,
    `PublishFields`, …). They are built from small sets of string lengths,
    numbers and binary lengths. A string of length `Null` is a NULL pointer.
  - `BasicAuthSettings` is what `mqtt_set_basic_auth` can leave: user and
    password both set or both NULL.
  - The abstraction keeps only lengths. A property whose value is set is
    counted and written the same way whatever its bytes are.

- **`LwipDriver.tla`** models `mqtt_lwip.c` together with the engine
  calls that use it. The model covers:
  - `mqtt_connect`, split into build+alloc, `open_conn` (with the local
    failures of `tcp_new_ip_type` and `tcp_connect`, after which the pcb is
    kept for the next call), the `deferred` test, send, and the mask
    update;
  - QoS 1 `mqtt_publish`, split into build+alloc, send+free, and the mask
    update;
  - the callbacks `tcp_client_connected`, `tcp_client_recv` and
    `tcp_client_err`;
  - a broker that answers CONNECT and PUBLISH, publishes at QoS 1, and may
    close its side of the connection. Its FIN reaches `tcp_client_recv` as
    a NULL pbuf, and the callback returns -1 without closing.

  The steps are cut where a callback can run. The constant `Background`
  chooses the pico_cyw43_arch build:
  - **poll build:** callbacks run inside `cyw43_arch_poll`, so only while
    the application is between calls (`pc = "idle"`);
  - **threadsafe_background build:** callbacks run whenever the lwIP lock is
    free. The driver holds that lock only inside `open_conn` and
    `socket_send`, which are single steps here.

  State:
  - `outp` is `stat->outp.payload`, and `buffer` is the one static
    `socket_context.buffer`. `alloc_send_buf` hands out that buffer every
    time.
  - `tcp_pcb` is NULL, live, or freed. lwIP frees it before calling
    `tcp_client_err`, which only logs, so the pointer stays set.
  - `lockLeaked` records the early return of `socket_send` (line 210),
    which skips `cyw43_arch_lwip_end`.
  - The engine's recv side is cut down to CONNACK, PUBACK and QoS 1
    PUBLISH. The full dispatch is in `MQTTClient`.

### Fairness

Only two actions are fair:

- **`mqtt_process_packet` (weakly fair).** A program that uses the library
  calls `mqtt_poll` in its loop.
- **`BrokerRecv` (weakly fair).** A server reads its socket.

Nothing obliges the application to call the API, the broker to publish or
disconnect, or the network to fail.

In `LwipDriver` these are weakly fair:
- each step of an API call already started, since the call runs to its end;
- `tcp_client_connected` and `tcp_client_recv`, since lwIP delivers what
  arrived (in the poll build, because the application loop calls
  `cyw43_arch_poll`);
- the broker's `BrokerRecv`.

Connection aborts, new API calls and broker publishes are not fair.

The socket driver, codec, validator and builder modules have no fairness.
Their runs check invariants only.

### Bounds

Session model (`MQTTSystem`):

- `RECEIVE_MAXIMUM = 2` is enough for two live slots to collide, and for the
  client's requests to fill the table. `MC_refine` uses 3, so that the
  client's two minted ids never fill it against the broker's flow.
- `PacketIdBits = 2` (ids 1..3) lets the counter wrap within a few
  reservations.
- `MaxMintedId` caps the counter where wrap is not the question.
- `MaxChan` bounds the packets on the wire when the application calls, which
  keeps pings from growing the channels.
- `MaxMsgs` bounds the broker's publishes.
- `MaxConnLoss` bounds connection losses.
- `BrokerIds` lists the broker's packet identifiers.

Other modules:

- **`SocketDriver`.** `MaxFds = 3` descriptors and three peer closes let a
  reconnect follow each close. `MaxBufs` caps the receive buffers.
- **`Codec`.** The lengths are every value to 300, plus both sides of each
  boundary between 1, 2, 3 and 4 bytes, plus the largest value.
- **`PropertyParser`.** The blocks are every list of up to three PUBLISH
  properties (4,747 blocks), with each identifier at most once except User
  Property. Strings and binary data have length 0 or 2, User Property
  strings length 1 or 2, and Subscription Identifiers are 1 and 127, the
  largest one-byte value. Three properties put every case before and after
  every other. Longer blocks would not add cases: a block of 128 bytes or
  more has its length misread first (`MC_varint`).
- **`Utf8`.** Every string of up to 4 bytes over 21 byte values: the first
  and last value of each range of RFC 3629 Table 3-7, plus ASCII, plus bytes
  that are never valid. That is 204,205 strings, and every branch of the
  scan meets its boundary.
- **`Builder`.** String lengths 0 and 130 put property blocks and Remaining
  Lengths on both sides of the one/two-byte boundary. Subscription ids go up
  to 2^28 - 1. The sets are kept small because the initial states are the
  product of every field's domain.

- **`LwipDriver`.** Two `mqtt_connect` calls, so that a call that failed
  locally is retried on the kept pcb. Two QoS 1 publishes fill two slots.
  Two broker publishes let a PUBACK of the client meet each step of a
  publish. `PacketIdBits = 2`. The application calls `mqtt_connect` again
  only when no connection is open or opening: a second CONNECT on a live
  connection is a protocol error, which the broker model does not play.

Each violation run was chosen so that the scenario it reports needs every
bound it has, and no more.

## Properties

| Property | Module | Kind | What it states |
|---|---|---|---|
| `TypeOK` | MQTTSystem | invariant | Types, and "a slot is live iff it awaits something". |
| `NoDuplicatePacketIds` | MQTTSystem | invariant | No two live slots share a packet_id (spec §3, §8.5). |
| `AwaitedAnswerAccepted` | MQTTSystem | invariant | An answer that a slot awaits passes the mask check and the first-match lookup. |
| `BrokerFlowsComplete` | MQTTSystem | liveness | Every QoS 1/2 flow the broker starts closes, or its connection goes down. |
| `ClientFlowsComplete` | MQTTSystem | liveness | Every publish, subscribe or unsubscribe flow of the client closes, or its connection goes down. |
| `InboundFlowsComplete` | MQTTSystem | liveness | Every slot `mqtt_pubrec` reserved for an inbound QoS 2 message is released by `process_pubrel`, or its connection goes down. |
| `NoPubrelAfterRefusal` | MQTTSystem | action | The client sends PUBREL only after a PUBREC below 0x80 (MQTT 5 §4.3.3). |
| `PendingRefinesFlows` | MQTTSystem | refinement | The pending table, seen as a bag of flows, is a behaviour of `PendingFlows`. |
| `QoS2DeliveredOnce` | MQTTSystem | invariant | A QoS 2 message reaches the application at most once (MQTT 5 §4.3.3). |
| `AcksCarrySuccess` | MQTTSystem | invariant | The client's PUBACK/PUBREC carry Success (spec §4.5). |
| `DisconnectClearsTable` | MQTTSystem | action | A step that ends a session zeroes the table (spec §4.6). |
| `ReservationSent` | MQTTSystem | action | A slot is taken only by a step that sends its packet (spec §4.7, §5). |
| `NoSocketLeak` | SocketDriver | invariant | Every open socket is `ctx->handle`. |
| `ConnectedHasSocket` | SocketDriver | invariant | While `connected`, `ctx->handle` is open. |
| `NoSigpipe` | SocketDriver | invariant | No send kills the process. |
| `RecvBuffersFreed` | SocketDriver | invariant | At most one receive buffer is allocated (spec §3). |
| `EncodingIsMQTT` | Codec | invariant | `pack_variable_size` writes the MQTT 5 §1.5.5 encoding. |
| `ByteCountMatches` | Codec | invariant | `get_variable_size_byte_count` counts what `pack_variable_size` writes. |
| `PublishPropertiesRoundTrip` | PropertyParser | invariant | `process_publish` parses an encoded block of PUBLISH properties back to its fields and user properties, stops at its end, and gives the payload length. |
| `ConnackPropertiesRoundTrip` | PropertyParser | invariant | `process_connack_poperties` reads every property of an encoded CONNACK block and stores its value. |
| `WellFormedPacketAccepted` | Codec | invariant | A well-formed packet passes the size check of `mqtt_process_packet`. |
| `Utf8Agrees` | Utf8 | invariant | `is_valid_utf8` accepts exactly the well-formed UTF-8 strings. |
| `TwoPassesAgree` | Builder | invariant | The second pass writes exactly the remaining length of the first (spec §8, law 4). |
| `PropLengthExact` | Builder | invariant | Each property block writes exactly the length it announces. |
| `NoBufferOverrun` | Builder | invariant | The fixed header and body fit in the `packet_size` bytes allocated. |
| `OutboundBufferOwned` | LwipDriver | invariant | Between its alloc and its send, an API call's `outp` is set and the buffer holds its packet. |
| `ConnectCompletes` | LwipDriver | liveness | After `mqtt_connect` returned success, the session comes up, unless lwIP aborts the connection or the broker closes it. |
| `OutboundFlowsComplete` | LwipDriver | liveness | A slot awaiting PUBACK is freed, unless lwIP aborts the connection or the broker closes it. |
| `NoUseAfterFree` | LwipDriver | invariant | No `tcp_write`/`tcp_close` on a pcb that lwIP freed. |
| `PeerCloseNoticed` | LwipDriver | liveness | After the broker's FIN, `net.connected` is eventually cleared, so a new connection can be opened. |
| `ConnectFlagsEncodeSettings` | Builder | invariant | The Connect Flags put each setting at its MQTT 5 §3.1.2.3 bit. |

## Runs

`PROJECT.json` lists twelve runs. Each property of a passing run has a
mutant there: a plausible bug in the code that TLC must then catch.

Passing runs:

- **`MC_faults`** (`MQTTSystem`, about 300k states). It includes allocation
  failures, invalid requests, coalesced chunks, a refused CONNECT, a
  connection loss, and disconnects by both sides. It checks `TypeOK` and
  `AwaitedAnswerAccepted`. Its ids come only from the counter, without a
  wrap, so `NoDuplicatePacketIds` is not checked here.
- **`MC_refine`** (`MQTTSystem`, about 27k states). It is one fault-free
  session with QoS 0/1/2 in both directions, plus subscribe and unsubscribe.
  It checks `NoDuplicatePacketIds` (the broker reuses an id once the client
  has freed it), `AwaitedAnswerAccepted`, `BrokerFlowsComplete`,
  `ClientFlowsComplete` and `InboundFlowsComplete`.
  The broker acknowledges with Success only. With refusals as well
  (`AckCodes = {0, 128}`), `InboundFlowsComplete` fails: a refused PUBREC
  of the client's own publish leaves 0x80 in `stat->pubrec`. The next
  inbound QoS 2 PUBLISH is answered with that code, the broker ends its
  flow, and the client's slot is never released. Together with `MC_faults`, it fires every action of
  `Next`.
- **`MC_socket`** (`SocketDriver`, 159 states). The application reconnects
  only a closed session and ignores SIGPIPE. It checks `NoSocketLeak` and
  `ConnectedHasSocket`. Deadlock is not checked: once the broker resets the
  socket, a client that still believes it is connected can do nothing more,
  and the code really stops there.
- **`MC_parser`** (`PropertyParser`, 306 lengths and 4,747 property
  blocks). It checks `EncodingIsMQTT`, `ByteCountMatches` and
  `PublishPropertiesRoundTrip`. `MC_codec` checks the first two alone on
  `Codec`.
- **`MC_utf8`** (`Utf8`, about 204k strings, unsigned `char`). It checks
  `Utf8Agrees`.
- **`MC_builder`** (`Builder`, about 35k requests). It covers every packet
  sent once connected. It checks `TwoPassesAgree` and `PropLengthExact`.
- **`MC_lwip`** (`LwipDriver`, about 2k states). This is the poll build,
  with connection aborts, broker closes, and local failures of `open_conn`.
  It checks `ConnectCompletes` and `OutboundFlowsComplete`. In the poll
  build no callback runs during an API call, so `OutboundBufferOwned`
  holds there by construction. It is checked on the background build by
  `MC_lwip_race`, which finds it violated.
  - Deadlock is not checked: once its calls are made and answered, the
    client sits idle in its loop.
  - The two liveness properties exempt a connection that lwIP aborted or
    the broker closed. What happens after an abort is `MC_lwip_reset`; what
    happens after a close is `MC_lwip_fin`.

Violation runs. Each checks one property, and each is a finding in
`PROJECT.json`:

- **`MC_collision`**: the broker's QoS 2 id equals one the client minted, and
  two slots share it.
- **`MC_redelivery`**: a QoS 2 PUBLISH resent after a connection loss is
  delivered twice.
- **`MC_tablefull`**: the client's subscribe and unsubscribe hold both
  slots. An inbound QoS 2 PUBLISH then finds no slot, so `mqtt_pubrec`
  returns before sending PUBREC. `process_publish` delivers the message
  anyway, and the broker's flow never completes.
- **`MC_sigpipe`**: after the broker closes, `connected` stays true. The
  second send on the reset socket raises SIGPIPE.
- **`MC_lwip_race`**: the threadsafe_background build, checking
  `OutboundBufferOwned`. `mqtt_connect` sets `deferred`. Before its own
  send, `tcp_client_connected` runs: it sends the CONNECT from
  `stat->outp` and frees it. `mqtt_connect` then hands `tcp_write` a NULL
  payload, which fails and leaves the lwIP lock taken. It then closes the
  connection it just opened. `mqtt_puback` from `tcp_client_recv` does the
  same to a running `mqtt_publish`.

### Counterexamples

These configurations are kept beside the listed runs. Each checks one
property, and TLC finds each one violated by the code. Each is a hazard in
`PROJECT.json`.

| Configuration | Module | Property | What TLC shows |
|---|---|---|---|
| `MC_varint` | Codec | `WellFormedPacketAccepted` | `unpack_variable_size` stops after one byte, so every remaining length ≥ 128 fails the size check. |
| `MC_parser_user` | PropertyParser | `PublishPropertiesRoundTrip` | A User Property with an empty key or value is counted as 4 bytes, so the loop reads the payload as a property and fails with ERROR_UNKNOWN_IDENTIFIER. A pair of two empty strings parses but never reaches `mqtt_user_property`. |
| `MC_parser_subid` | PropertyParser | `PublishPropertiesRoundTrip` | A Subscription Identifier of 128 is read as 0 in one byte, and its second byte is taken for a Payload Format Indicator. `prop_len` then wraps below zero and the loop runs into the payload. |
| `MC_parser_connack` | PropertyParser | `ConnackPropertiesRoundTrip` | A CONNACK with a Session Expiry Interval, Authentication Method or Authentication Data fails with ERROR_UNKNOWN_IDENTIFIER, and the session never comes up. The other counts are right: `STRLEN` includes the two length bytes. |
| `MC_connect_authdata` | Builder | `NoBufferOverrun` | Authentication data is counted as 1 + len and written as 3 + len: 2 bytes past the buffer. |
| `MC_lwip_connack` | LwipDriver | `ConnectCompletes` | Background build: a CONNACK processed before `mqtt_connect` adds CONNACK to the mask is dropped, and the session never comes up. |
| `MC_lwip_reset` | LwipDriver | `NoUseAfterFree` | After an abort, `net.connected` is still true, and the next publish calls `tcp_write` on the freed pcb. |
| `MC_lwip_fin` | LwipDriver | `PeerCloseNoticed` | The broker closes; `tcp_client_recv` returns on the NULL pbuf, and `net.connected` stays set for good, so `open_conn` never connects again. |
| `MC_pubrel_fail` | MQTTSystem | `ClientFlowsComplete` | With `malloc` failing, a QoS 2 slot moved to PUBCOMP waits forever because `mqtt_pubrel` sent nothing. A publish whose allocation failed keeps its slot the same way. |
| `MC_wrap` | MQTTSystem | `NoDuplicatePacketIds` | After the counter wraps, id 1 is minted twice. |
| `MC_ackrc` | MQTTSystem | `AcksCarrySuccess` | A 0x80 PUBACK from the broker is echoed in the client's next PUBACK. |
| `MC_pubrel_refused` | MQTTSystem | `NoPubrelAfterRefusal` | The broker refuses a QoS 2 publish with PUBREC 0x80, and `process_pubrec` answers with PUBREL. |
| `MC_disconnect` | MQTTSystem | `DisconnectClearsTable` | `pending[]` survives a disconnect. |
| `MC_resume` | MQTTSystem | `AwaitedAnswerAccepted` | A resent PUBREL is dropped by the mask while a slot awaits it. |
| `MC_leak` | MQTTSystem | `ReservationSent` | `mqtt_subscribe` keeps its slot when validation fails. |
| `MC_framing` | MQTTSystem | `BrokerFlowsComplete` | Two packets in one recv chunk are both dropped. |
| `MC_refine_stale` | MQTTSystem | `PendingRefinesFlows` | A stale slot survives a disconnect, and the broker reuses its id. |
| `MC_session` | MQTTSystem | (passes) | Client QoS 0/1/2 and disconnects by both sides, with inbound QoS 1; the four session properties hold. |
| `MC_inbound` | MQTTSystem | (passes) | Inbound QoS 0/1/2 with two broker ids. |
| `MC_sockleak` | SocketDriver | `NoSocketLeak` | A second `mqtt_connect` overwrites `ctx->handle`. |
| `MC_recvleak` | SocketDriver | `RecvBuffersFreed` | `mqtt_poll` never frees a processed buffer. |
| `MC_utf8_signed` | Utf8 | `Utf8Agrees` | With signed `char`, bytes ≥ 0x80 pass as ASCII. |
| `MC_connect_auth` | Builder | `TwoPassesAgree` | User and password are written only with a will. |
| `MC_connect_userprops` | Builder | `PropLengthExact` | CONNECT user properties are counted, never packed. |
| `MC_connect_plen` | Builder | `NoBufferOverrun` | `uint8_t plen` wraps above 255. |
| `MC_connect_flags` | Builder | `ConnectFlagsEncodeSettings` | Will QoS lands on the Will Flag, and Will Retain is never set. |
| `MC_disconnect_proplen` | Builder | `PropLengthExact` | The DISCONNECT property length is the will's. |
| `MC_disconnect_boundary` | Builder | `TwoPassesAgree` | At a property length of 127 the byte counts differ. |
| `MC_subid` | Builder | `NoBufferOverrun` | A subscription id ≥ 2^28 takes 5 bytes, and 4 are counted. |

Run any configuration with:

```
tlc -workers 2 -config MC_refine.cfg MQTTSystem
```

## Not modelled, and the plan

The next steps, in order:

1. **A run for the CONNACK parser.** `ConnackPropertiesRoundTrip` is
   checked only by the counterexample `MC_parser_connack`, because every
   run slot is taken.
2. **Correlation Data over 256 bytes.** `process_publish_properties` skips
   it, but a block long enough to carry it has its length misread first by
   `unpack_variable_size` (`MC_varint`), so no input reaches that branch.

Also left out:

- keep-alive timing (the engine has no timer);
- in the lwIP driver: pbufs that hold more or less than one packet (the
  socket build's coalesced chunk, in `MQTTClient`, shows what that does to
  the size check); a connected callback with an error, which lwIP never
  passes;
- the contents of properties and strings, which no property distinguishes;
- `alloc_send_buf`/`free_send_buf` of the socket driver, which are paired on
  every path.
