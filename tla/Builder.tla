------------------------------- MODULE Builder -------------------------------
(***************************************************************************)
(* The two-pass packet builders of mqtt_client.c.  Every API function     *)
(* calls its make_*() twice: with stat->pout = NULL it only computes the  *)
(* Remaining Length rsize and stat->packet_size, alloc_send_buf() gets     *)
(* packet_size bytes, and the second call writes the packet through pout.  *)
(*                                                                         *)
(* The data is abstracted to sizes: a string is Null or its strlen(), a    *)
(* blob its len (data is non-NULL whenever len > 0), a numeric property    *)
(* zero or not.  Each make_*() operator gives both passes: rsize, the     *)
(* bytes the second pass writes after the fixed header, and each property *)
(* block it writes (the value of its length field and the bytes after it). *)
(***************************************************************************)
EXTENDS Integers, Sequences, SequencesExt, Bitwise

CONSTANTS
    Kinds,          \* packet types built
    Strings,        \* strlen() of string fields that are set
    Numbers,        \* values of numeric property fields
    BlobLens,       \* len of mqtt_blob fields
    AuthDataLens,   \* len of connect.auth_data
    SubIds,         \* values of subscription_identifier
    MaxUserProps,   \* longest user_properties array
    BasicAuth       \* whether mqtt_set_basic_auth() was called

LOCAL Cod == INSTANCE Codec WITH Lengths <- {0}, len <- 0

Null == -1

\* get_variable_size_byte_count() and the bytes pack_variable_size() writes.
VarCount(n) == Cod!get_variable_size_byte_count(n)
VarLen(n) == Len(Cod!pack_variable_size(n))

\* common.h BIT(n).
BIT(n) == 2^n

\* The STRLEN and BLEN macros of the first pass.
STRLEN(s) == IF s = Null THEN 2 ELSE s + 2
BLEN(b) == b + 2

\* Bytes written by pack_string() (uint16_t len = strlen(data)) and by
\* pack_binary().
pack_string(s) == 2 + (s % 65536)
pack_binary(b) == 2 + b

Opt(cond, n) == IF cond THEN n ELSE 0

\* One property block as the second pass writes it: the value put in its
\* length field and the bytes that follow.
Written(blk) == VarLen(blk.len) + blk.content

-----------------------------------------------------------------------------
(* The fields of struct mqtt_client and of the API arguments the builders *)
(* read, with the sizes they can have.                                     *)

\* An optional string field: NULL or set.
Str == Strings \cup {Null}
NonNullStr == Strings

\* struct mqtt_user_property: a key and a value, both set.
UserProperty == [key : NonNullStr, value : NonNullStr]
UserProperties == UNION {[1..k -> UserProperty] : k \in 0..MaxUserProps}

\* Stand-in for MQTT_RECEIVE_MAXIMUM, which mqtt_connect() stores in
\* connect.recv_max: only its being non-zero matters to the builder.
RecvMaxSet == {1}

\* mqtt_set_basic_auth(): sets both flags and both pointers.
BasicAuthSettings ==
    {[un_flag |-> FALSE, pw_flag |-> FALSE, user |-> Null, passwd |-> Null]}
    \cup (IF TRUE \in BasicAuth
          THEN [un_flag : {TRUE}, pw_flag : {TRUE}, user : NonNullStr, passwd : NonNullStr]
          ELSE {})

\* connect.will.
WillFields ==
    [delay_interval : Numbers, payload_format_indicator : Numbers,
     message_expiry_delay : Numbers, topic : NonNullStr, content_type : Str,
     response_topic : Str, correlation_data : BlobLens, payload : BlobLens]

\* stat->connect as mqtt_connect() leaves it before make_connect().
ConnectFields ==
    { [c EXCEPT !.un_flag = a.un_flag, !.pw_flag = a.pw_flag,
                !.user = a.user, !.passwd = a.passwd] :
        c \in [kind : {"CONNECT"}, will_flag : BOOLEAN, will_qos : 0..2,
               will_retain : BOOLEAN, clean_start : BOOLEAN,
               session_expiry_interval : Numbers, recv_max : RecvMaxSet,
               max_packet_size : Numbers, topic_alias_max : Numbers,
               req_res_inf : BOOLEAN, req_prob_inf : BOOLEAN,
               auth_method : Str, auth_data : AuthDataLens,
               user_properties : UserProperties, client_id : NonNullStr,
               will : WillFields, un_flag : {FALSE}, pw_flag : {FALSE},
               user : {Null}, passwd : {Null}],
        a \in BasicAuthSettings }

\* stat->disconn, with the stat->connect.will that pack_disconn_props() reads.
DisconnFields ==
    [kind : {"DISCONNECT"}, reason_string : Str, server_reference : Str,
     session_expiry_interval : Numbers, user_properties : UserProperties,
     will : WillFields]

\* struct mqtt_pub_packet (mqtt_pub_packet()) and stat->publish.
PublishFields ==
    [kind : {"PUBLISH"}, topic : NonNullStr, payload : BlobLens, qos : 0..2,
     payload_format_indicator : Numbers, message_expiry_interval : Numbers,
     content_type : Str, response_topic : Str, correlation_data : BlobLens,
     topic_alias : Numbers, subscription_identifier : SubIds,
     user_properties : UserProperties]

\* stat->subscribe and stat->unsubscribe; an entry is its topic's strlen()
\* (struct mqtt_sub_entry, topic checked non-NULL by mqtt_subscribe()).
Entries == UNION {[1..k -> NonNullStr] : k \in 1..2}
SubscribeFields ==
    [kind : {"SUBSCRIBE"}, entries : Entries, subscription_identifier : SubIds,
     user_properties : UserProperties]
UnsubscribeFields ==
    [kind : {"UNSUBSCRIBE"}, entries : Entries, user_properties : UserProperties]

\* stat->puback, stat->pubrec, stat->pubrel, stat->pubcomp.
AckFields ==
    [kind : {"PUBACK", "PUBREC", "PUBREL", "PUBCOMP"}, reason_string : Str,
     user_properties : UserProperties]

PingFields == [kind : {"PINGREQ"}]

-----------------------------------------------------------------------------
(* Property estimates and property packers.                                *)

\* The user-property loops: 1 byte ID and two strings per entry.
UserPropsSize(ups) ==
    FoldSeq(LAMBDA u, acc : acc + 1 + STRLEN(u.key) + STRLEN(u.value), 0, ups)
PackedUserProps(ups) ==
    FoldSeq(LAMBDA u, acc : acc + 1 + pack_string(u.key) + pack_string(u.value), 0, ups)

estimate_conn_prop_size(c) ==
    Opt(c.session_expiry_interval # 0, 5) + Opt(c.recv_max # 0, 3)
    + Opt(c.max_packet_size # 0, 5) + Opt(c.topic_alias_max # 0, 3)
    + Opt(c.req_res_inf, 2) + Opt(c.req_prob_inf, 2)
    + Opt(c.auth_method # Null, 1 + STRLEN(c.auth_method))
    + Opt(c.auth_data > 0, 1 + c.auth_data)
    + UserPropsSize(c.user_properties)

\* pack_conn_props(): the loop over user_properties is missing.
pack_conn_props(c) ==
    [len |-> estimate_conn_prop_size(c),
     content |-> Opt(c.session_expiry_interval # 0, 5) + Opt(c.recv_max # 0, 3)
                 + Opt(c.max_packet_size # 0, 5) + Opt(c.topic_alias_max # 0, 3)
                 + Opt(c.req_res_inf, 2) + Opt(c.req_prob_inf, 2)
                 + Opt(c.auth_method # Null, 1 + pack_string(c.auth_method))
                 + Opt(c.auth_data > 0, 1 + pack_binary(c.auth_data))]

estimate_will_prop_size(w) ==
    Opt(w.delay_interval # 0, 5) + Opt(w.payload_format_indicator # 0, 2)
    + Opt(w.message_expiry_delay # 0, 5)
    + Opt(w.content_type # Null, STRLEN(w.content_type) + 1)
    + Opt(w.response_topic # Null, STRLEN(w.response_topic) + 1)
    + Opt(w.correlation_data > 0, BLEN(w.correlation_data) + 1)

pack_will_props(w) ==
    [len |-> estimate_will_prop_size(w),
     content |-> Opt(w.delay_interval # 0, 5) + Opt(w.payload_format_indicator # 0, 2)
                 + Opt(w.message_expiry_delay # 0, 5)
                 + Opt(w.content_type # Null, 1 + pack_string(w.content_type))
                 + Opt(w.response_topic # Null, 1 + pack_string(w.response_topic))
                 + Opt(w.correlation_data > 0, 1 + pack_binary(w.correlation_data))]

estimate_disconn_prop_size(d) ==
    Opt(d.session_expiry_interval # 0, 5)
    + Opt(d.reason_string # Null, STRLEN(d.reason_string) + 1)
    + Opt(d.server_reference # Null, STRLEN(d.server_reference) + 1)
    + UserPropsSize(d.user_properties)

\* pack_disconn_props(): its length field is estimate_will_prop_size().
pack_disconn_props(d) ==
    [len |-> estimate_will_prop_size(d.will),
     content |-> Opt(d.session_expiry_interval # 0, 5)
                 + Opt(d.reason_string # Null, 1 + pack_string(d.reason_string))
                 + Opt(d.server_reference # Null, 1 + pack_string(d.server_reference))
                 + PackedUserProps(d.user_properties)]

\* Variant of estimate_publish_prop_size() that counts correlation data
\* without its identifier byte.
PublishPropsNoCorrId(p) ==
    Opt(p.payload_format_indicator # 0, 2) + Opt(p.message_expiry_interval # 0, 5)
    + Opt(p.content_type # Null, 1 + STRLEN(p.content_type))
    + Opt(p.response_topic # Null, 1 + STRLEN(p.response_topic))
    + Opt(p.correlation_data > 0, BLEN(p.correlation_data))
    + Opt(p.topic_alias # 0, 3)
    + Opt(p.subscription_identifier # 0, 1 + VarCount(p.subscription_identifier))
    + UserPropsSize(p.user_properties)

estimate_publish_prop_size(p) ==
    Opt(p.payload_format_indicator # 0, 2) + Opt(p.message_expiry_interval # 0, 5)
    + Opt(p.content_type # Null, 1 + STRLEN(p.content_type))
    + Opt(p.response_topic # Null, 1 + STRLEN(p.response_topic))
    + Opt(p.correlation_data > 0, 1 + BLEN(p.correlation_data))
    + Opt(p.topic_alias # 0, 3)
    + Opt(p.subscription_identifier # 0, 1 + VarCount(p.subscription_identifier))
    + UserPropsSize(p.user_properties)

pack_publish_props(p) ==
    [len |-> estimate_publish_prop_size(p),
     content |-> Opt(p.payload_format_indicator # 0, 2) + Opt(p.message_expiry_interval # 0, 5)
                 + Opt(p.content_type # Null, 1 + pack_string(p.content_type))
                 + Opt(p.response_topic # Null, 1 + pack_string(p.response_topic))
                 + Opt(p.correlation_data > 0, 1 + pack_binary(p.correlation_data))
                 + Opt(p.topic_alias # 0, 3)
                 + Opt(p.subscription_identifier # 0, 1 + VarLen(p.subscription_identifier))
                 + PackedUserProps(p.user_properties)]

estimate_subscribe_prop_size(s) ==
    Opt(s.subscription_identifier # 0, 1 + VarCount(s.subscription_identifier))
    + UserPropsSize(s.user_properties)

pack_subscribe_props(s) ==
    [len |-> estimate_subscribe_prop_size(s),
     content |-> Opt(s.subscription_identifier # 0, 1 + VarLen(s.subscription_identifier))
                 + PackedUserProps(s.user_properties)]

\* estimate_puback_prop_size(); the pubrec, pubrel and pubcomp ones are the
\* same code over their own struct.
estimate_puback_prop_size(a) ==
    Opt(a.reason_string # Null, 1 + STRLEN(a.reason_string))
    + UserPropsSize(a.user_properties)

pack_puback_props(a) ==
    [len |-> estimate_puback_prop_size(a),
     content |-> Opt(a.reason_string # Null, 1 + pack_string(a.reason_string))
                 + PackedUserProps(a.user_properties)]

estimate_unsubscribe_prop_size(u) == UserPropsSize(u.user_properties)

pack_unsubscribe_props(u) ==
    [len |-> estimate_unsubscribe_prop_size(u),
     content |-> PackedUserProps(u.user_properties)]

-----------------------------------------------------------------------------
(* The make_*() functions.  Each gives rsize (the first pass), the bytes   *)
(* the second pass writes after the fixed header, and its property blocks. *)

\* The connect flags byte: SET(flags, BIT(n)) is a bitwise or.
ConnectFlags(c) ==
    ((c.will_qos & 3) * 4) | Opt(c.clean_start, BIT(1)) | Opt(c.will_flag, BIT(2))
    | Opt(c.pw_flag, BIT(6)) | Opt(c.un_flag, BIT(7))

\* make_connect(): plen is a uint8_t; user and password are counted when
\* their flags are set and packed only inside the will branch.
make_connect(c) ==
    LET plen  == estimate_conn_prop_size(c) % 256
        wplen == estimate_will_prop_size(c.will) % 256
        cp    == pack_conn_props(c)
        wp    == pack_will_props(c.will)
    IN  [rsize   |-> 10 + plen + STRLEN(c.client_id) + VarCount(plen)
                     + Opt(c.will_flag, wplen + STRLEN(c.will.topic)
                                        + BLEN(c.will.payload) + VarCount(wplen))
                     + Opt(c.un_flag, STRLEN(c.user)) + Opt(c.pw_flag, STRLEN(c.passwd)),
         written |-> pack_string(4) + 1 + 1 + 2 + Written(cp) + pack_string(c.client_id)
                     + Opt(c.will_flag, Written(wp) + pack_string(c.will.topic)
                                        + pack_binary(c.will.payload)
                                        + Opt(c.un_flag, pack_string(c.user))
                                        + Opt(c.pw_flag, pack_string(c.passwd))),
         props   |-> IF c.will_flag THEN {cp, wp} ELSE {cp}]

\* make_disconnect(): the byte count added is that of rsize, not of the
\* property length.
make_disconnect(d) ==
    LET withProps == \/ d.reason_string # Null \/ d.server_reference # Null
                     \/ d.session_expiry_interval # 0 \/ Len(d.user_properties) > 0
        r0 == 1 + estimate_disconn_prop_size(d)
        dp == pack_disconn_props(d)
    IN  [rsize   |-> IF withProps THEN r0 + VarCount(r0) ELSE 1,
         written |-> 1 + Opt(withProps, Written(dp)),
         props   |-> IF withProps THEN {dp} ELSE {}]

\* make_publish(); the payload bytes are copied when data is set and len > 0.
make_publish(p) ==
    LET P  == estimate_publish_prop_size(p)
        pp == pack_publish_props(p)
    IN  [rsize   |-> STRLEN(p.topic) + VarCount(P) + P + Opt(p.qos > 0, 2) + p.payload,
         written |-> pack_string(p.topic) + Opt(p.qos > 0, 2) + Written(pp) + p.payload,
         props   |-> {pp}]

\* make_subscribe(): a topic and an options byte per entry.
make_subscribe(s) ==
    LET P  == estimate_subscribe_prop_size(s)
        sp == pack_subscribe_props(s)
    IN  [rsize   |-> 2 + VarCount(P) + P
                     + FoldSeq(LAMBDA t, acc : acc + STRLEN(t) + 1, 0, s.entries),
         written |-> 2 + Written(sp)
                     + FoldSeq(LAMBDA t, acc : acc + pack_string(t) + 1, 0, s.entries),
         props   |-> {sp}]

make_unsubscribe(u) ==
    LET P  == estimate_unsubscribe_prop_size(u)
        up == pack_unsubscribe_props(u)
    IN  [rsize   |-> 2 + VarCount(P) + P + FoldSeq(LAMBDA t, acc : acc + STRLEN(t), 0, u.entries),
         written |-> 2 + Written(up) + FoldSeq(LAMBDA t, acc : acc + pack_string(t), 0, u.entries),
         props   |-> {up}]

\* Variant of make_puback() that counts no byte for an empty property block.
AckNoEmptyPropLen(a) ==
    LET P  == estimate_puback_prop_size(a)
        ap == pack_puback_props(a)
    IN  [rsize |-> 3 + Opt(P > 0, VarCount(P) + P), written |-> 3 + Written(ap), props |-> {ap}]

\* make_puback(): packet id, reason code, then the properties; an empty
\* property block is one byte 0.
make_puback(a) ==
    LET P  == estimate_puback_prop_size(a)
        ap == pack_puback_props(a)
    IN  [rsize   |-> 3 + (IF P > 0 THEN VarCount(P) + P ELSE 1),
         written |-> 3 + Written(ap),
         props   |-> {ap}]

\* make_pubrec(), make_pubrel() and make_pubcomp() are make_puback()'s code
\* over their own struct (only the type and the header flags differ).
make_pubrec(a) == make_puback(a)
make_pubrel(a) == make_puback(a)
make_pubcomp(a) == make_puback(a)

make_pingreq == [rsize |-> 0, written |-> 0, props |-> {}]

\* The make_*() an API function calls for a request.
Build(r) ==
    CASE r.kind = "CONNECT"     -> make_connect(r)
      [] r.kind = "DISCONNECT"  -> make_disconnect(r)
      [] r.kind = "PUBLISH"     -> make_publish(r)
      [] r.kind = "SUBSCRIBE"   -> make_subscribe(r)
      [] r.kind = "UNSUBSCRIBE" -> make_unsubscribe(r)
      [] r.kind = "PUBACK"      -> make_puback(r)
      [] r.kind = "PUBREC"      -> make_pubrec(r)
      [] r.kind = "PUBREL"      -> make_pubrel(r)
      [] r.kind = "PUBCOMP"     -> make_pubcomp(r)
      [] r.kind = "PINGREQ"     -> make_pingreq

\* stat->packet_size: rsize + estimate_fixed_header_size(rsize).
packet_size(b) == b.rsize + VarCount(b.rsize) + 1

-----------------------------------------------------------------------------
VARIABLE req

FieldsOf(k) ==
    CASE k = "CONNECT"     -> ConnectFields
      [] k = "DISCONNECT"  -> DisconnFields
      [] k = "PUBLISH"     -> PublishFields
      [] k = "SUBSCRIBE"   -> SubscribeFields
      [] k = "UNSUBSCRIBE" -> UnsubscribeFields
      [] k = "PINGREQ"     -> PingFields
      [] OTHER             -> {a \in AckFields : a.kind = k}

Init == req \in UNION {FieldsOf(k) : k \in Kinds}
Next == UNCHANGED req
Spec == Init /\ [][Next]_req

\* Spec 8 law 4: the Remaining Length the first pass computes is the number
\* of bytes the second pass writes after the fixed header.
TwoPassesAgree == Build(req).written = Build(req).rsize

\* Every property length the builder writes (pack_*_props() writes it with
\* pack_variable_size(estimate_*_prop_size())) is the number of property
\* bytes that follow it (MQTT 5 2.2.2.1).
PropLengthExact == \A blk \in Build(req).props : blk.len = blk.content

\* The second pass stays inside the packet_size bytes alloc_send_buf()
\* allocated after the first pass: fixed header plus what make_*() writes.
NoBufferOverrun ==
    LET b == Build(req) IN 1 + VarLen(b.rsize) + b.written <= packet_size(b)

FlagBit(f, n) == (shiftR(f, n) & 1) = 1

\* The connect flags byte make_connect() writes carries the settings of
\* stat->connect at the positions of MQTT 5 3.1.2.3: reserved bit 0,
\* Clean Start bit 1, Will Flag bit 2, Will QoS bits 3-4 (0 without a
\* will), Will Retain bit 5, Password bit 6, User Name bit 7.
ConnectFlagsEncodeSettings ==
    req.kind = "CONNECT" =>
        LET f == ConnectFlags(req) IN
        /\ ~FlagBit(f, 0)
        /\ FlagBit(f, 1) <=> req.clean_start
        /\ FlagBit(f, 2) <=> req.will_flag
        /\ (shiftR(f, 3) & 3) = (IF req.will_flag THEN req.will_qos ELSE 0)
        /\ FlagBit(f, 5) <=> (req.will_flag /\ req.will_retain)
        /\ FlagBit(f, 6) <=> req.pw_flag
        /\ FlagBit(f, 7) <=> req.un_flag

====
