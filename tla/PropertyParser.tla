--------------------------- MODULE PropertyParser ---------------------------
(***************************************************************************)
(* process_publish_properties() and the part of process_publish() around  *)
(* it: the property length read with unpack_variable_size(), the loop over *)
(* the property block with unpack_byte/word/dword/string, the uint32_t     *)
(* prop_len it counts down, and the payload length taken from what is left.*)
(*                                                                         *)
(* Bytes are numbers 0..255 in a sequence bs that starts at the property  *)
(* length and ends with the payload, the inp buffer past the packet id.    *)
(* A read past its end is a read of memory the packet does not own; the    *)
(* parser's result is then "OVERREAD".  A string is its length: the bytes  *)
(* a well-formed block carries are letters, so strlen() of what           *)
(* unpack_string() returns is its length word.                             *)
(***************************************************************************)
EXTENDS Codec, SequencesExt

CONSTANTS
    StrLens,    \* lengths of strings and binary data a property carries
    UserLens,   \* lengths of a User Property's key and value
    SubIds,     \* Subscription Identifiers
    MaxProps,   \* properties in one block
    Payload     \* the application message after the block

\* MQTT 5 2.2.2.2: the PUBLISH property identifiers the switch names.
PFI == 1
MEI == 2
CTYPE == 3
RTOPIC == 8
CDATA == 9
SUBID == 11
ALIAS == 35
USER == 38

\* sizeof(received_publish.correlation_data_buffer).
MQTT_CORELATION_DATA_MAXIMUM == 256

Fits(bs, p, n) == p + n - 1 <= Len(bs)

unpack_word(bs, p) == bs[p] * 256 + bs[p + 1]

unpack_dword(bs, p) == unpack_word(bs, p) * 65536 + unpack_word(bs, p + 2)

\* Variant that leaves out the two length words of a User Property.
user_property_count_nowords(n1, n2) == IF n1 > 0 /\ n2 > 0 THEN n1 + n2 ELSE 4

\* What the User Property case takes off prop_len: unpack_string() gives
\* NULL for an empty string, and only a pair of two non-empty strings is
\* counted with its lengths.
user_property_count(n1, n2) == IF n1 > 0 /\ n2 > 0 THEN n1 + n2 + 4 ELSE 4

\* received_publish after memset(), and the loop's own state.
Cleared(pos, prop_len) ==
    [pos |-> pos, prop_len |-> prop_len, rc |-> "go",
     pfi |-> 0, mei |-> 0, alias |-> 0, rtopic |-> 0, cdata |-> 0, ctype |-> 0,
     subid |-> 0, users |-> <<>>, payload |-> 0]

\* One pass of the while loop: the identifier byte, then the case that
\* reads the value from q, stores it, and takes counted bytes off prop_len
\* while the read pointer moves by the bytes it actually read.
PublishPropStep(bs, s) ==
    LET id == bs[s.pos]
        q  == s.pos + 1
        n  == unpack_word(bs, q)
        Move(read, counted) ==
            [s EXCEPT !.pos = q + read, !.prop_len = @ - 1 - counted]
        Store(f, v, read, counted) ==
            IF Fits(bs, q, read) THEN [Move(read, counted) EXCEPT ![f] = v]
                                 ELSE [s EXCEPT !.rc = "OVERREAD"]
        StringProp(f) ==
            IF ~Fits(bs, q, 2) THEN [s EXCEPT !.rc = "OVERREAD"]
            ELSE Store(f, n, n + 2, n + 2)
    IN CASE id = PFI    -> Store("pfi", bs[q], 1, 1)
         [] id = MEI    -> Store("mei", unpack_dword(bs, q), 4, 4)
         [] id = ALIAS  -> Store("alias", unpack_word(bs, q), 2, 2)
         [] id = RTOPIC -> StringProp("rtopic")
         [] id = CTYPE  -> StringProp("ctype")
         [] id = CDATA  ->
              IF ~Fits(bs, q, 2) THEN [s EXCEPT !.rc = "OVERREAD"]
              ELSE Store("cdata",
                         IF n > 0 /\ n <= MQTT_CORELATION_DATA_MAXIMUM THEN n ELSE s.cdata,
                         n + 2, n + 2)
         [] id = SUBID  ->
              IF ~Fits(bs, q, 1) THEN [s EXCEPT !.rc = "OVERREAD"]
              ELSE LET r == Unpack(bs, q, 0, 1, 0)
                   IN  Store("subid", r.value, r.next - q,
                             get_variable_size_byte_count(r.value))
         [] id = USER   ->
              LET n2 == unpack_word(bs, q + 2 + n)
              IN  IF ~Fits(bs, q, 2) \/ ~Fits(bs, q + 2 + n, 2)
                  THEN [s EXCEPT !.rc = "OVERREAD"]
                  ELSE LET t == Store("users", s.users, n + n2 + 4,
                                      user_property_count(n, n2))
                       IN  IF n > 0 /\ n2 > 0 /\ t.rc = "go"
                           THEN [t EXCEPT !.users = Append(@, <<n, n2>>)]
                           ELSE t
         [] OTHER       -> [s EXCEPT !.rc = "UNKNOWN_IDENTIFIER"]

\* while (prop_len > 0): prop_len is a uint32_t, so a count that passes
\* zero wraps and the loop goes on; the check prop_len < 0 after it never
\* holds.  A negative prop_len x here is the uint32_t 2^32 + x, and on a
\* uint32_t, prop_len > 0 is prop_len # 0.
RECURSIVE process_publish_properties(_, _)
process_publish_properties(bs, s) ==
    IF s.rc # "go" THEN s
    ELSE IF s.prop_len = 0 THEN [s EXCEPT !.rc = "OK"]
    ELSE IF ~Fits(bs, s.pos, 1) THEN [s EXCEPT !.rc = "OVERREAD"]
    ELSE process_publish_properties(bs, PublishPropStep(bs, s))

\* process_publish() from the property length on: the properties, if any,
\* then payload.len = inp.len - bytes_consumed when bytes are left.
process_publish_body(bs) ==
    LET v == Unpack(bs, 1, 0, 1, 0)
        s == IF v.value > 0
             THEN process_publish_properties(bs, Cleared(v.next, v.value))
             ELSE [Cleared(v.next, 0) EXCEPT !.rc = "OK"]
    IN  [s EXCEPT !.payload = IF s.pos - 1 < Len(bs) THEN Len(bs) - (s.pos - 1) ELSE 0]

-----------------------------------------------------------------------------
(***************************************************************************)
(* Reference: MQTT 5 3.3.2.3.  A property is its identifier and its value: *)
(* a byte, a Two or Four Byte Integer, a UTF-8 string or binary data with *)
(* a two-byte length, a Variable Byte Integer, or a string pair.           *)
(***************************************************************************)
Items ==
    [id : {PFI}, v : {0, 1}] \cup [id : {MEI}, v : {0, 70000}]
    \cup [id : {ALIAS}, v : {1, 300}] \cup [id : {RTOPIC, CTYPE, CDATA}, v : StrLens]
    \cup [id : {SUBID}, v : SubIds] \cup [id : {USER}, v : UserLens \X UserLens]

StrEnc(k) == <<k \div 256, k % 256>> \o [i \in 1..k |-> 65]

Enc(it) ==
    <<it.id>> \o
    CASE it.id = PFI  -> <<it.v>>
      [] it.id = MEI  -> <<it.v \div 2^24, (it.v \div 2^16) % 256, (it.v \div 256) % 256, it.v % 256>>
      [] it.id = ALIAS -> <<it.v \div 256, it.v % 256>>
      [] it.id = SUBID -> pack_variable_size(it.v)
      [] it.id = USER -> StrEnc(it.v[1]) \o StrEnc(it.v[2])
      [] OTHER        -> StrEnc(it.v)

\* Blocks of up to MaxProps properties; only User Property may repeat.
PropLists ==
    {L \in UNION {[1..k -> Items] : k \in 0..MaxProps} :
        \A i, j \in DOMAIN L : i # j /\ L[i].id = L[j].id => L[i].id = USER}

Block(L) == FlattenSeq([k \in DOMAIN L |-> Enc(L[k])])

ValueOf(L, id) ==
    IF \E k \in DOMAIN L : L[k].id = id
    THEN L[CHOOSE k \in DOMAIN L : L[k].id = id].v ELSE 0

UserPairs(L) == [k \in DOMAIN SelectSeq(L, LAMBDA it : it.id = USER) |->
                    SelectSeq(L, LAMBDA it : it.id = USER)[k].v]

-----------------------------------------------------------------------------
VARIABLE props

\* "Hi": a payload whose bytes name no PUBLISH property.
ParserPayload == <<72, 105>>

CodecParserInit ==
    \/ len \in Lengths /\ props = <<>>
    \/ len = 0 /\ props \in PropLists

CodecParserSpec == CodecParserInit /\ [][UNCHANGED <<len, props>>]_<<len, props>>

\* A PUBLISH whose property block holds props, followed by the payload,
\* is parsed by process_publish() without error: the loop stops exactly
\* at the end of the block, every property reaches received_publish, each
\* User Property reaches mqtt_user_property(), and the payload length is
\* the bytes after the block.
PublishPropertiesRoundTrip ==
    LET bl == Block(props)
        r  == process_publish_body(pack_variable_size(Len(bl)) \o bl \o Payload)
    IN  /\ r.rc = "OK"
        /\ r.payload = Len(Payload)
        /\ r.pfi = ValueOf(props, PFI) /\ r.mei = ValueOf(props, MEI)
        /\ r.alias = ValueOf(props, ALIAS) /\ r.subid = ValueOf(props, SUBID)
        /\ r.rtopic = ValueOf(props, RTOPIC) /\ r.ctype = ValueOf(props, CTYPE)
        /\ r.cdata = ValueOf(props, CDATA)
        /\ r.users = UserPairs(props)

-----------------------------------------------------------------------------
(***************************************************************************)
(* process_connack_poperties(): the same loop over a CONNACK's block, with *)
(* an int len and one --len per identifier after the case.  A string is   *)
(* counted as STRLEN() of what unpack_string() returned, strlen() + 2 or 2 *)
(* for NULL, a User Property as the two STRLEN()s.  Identifiers (MQTT 5    *)
(* 2.2.2.2) by what the case reads; 23 and 25 are read and dropped.        *)
(***************************************************************************)
ConnackByteIds  == {23, 25, 36, 37, 40, 41, 42}
ConnackWordIds  == {19, 33, 34}
ConnackDwordIds == {39}
ConnackStrIds   == {18, 26, 28, 31}

\* One pass: the case reads from q and stores into connack[id]; the flags
\* 37, 40, 41 and 42 keep bit 0.
ConnackStep(bs, s) ==
    LET id == bs[s.pos]
        q  == s.pos + 1
        n  == unpack_word(bs, q)
        Take(v, read, counted) ==
            IF Fits(bs, q, read)
            THEN [s EXCEPT !.pos = q + read, !.prop_len = @ - counted - 1,
                           !.connack = IF id \in {23, 25, USER} THEN @
                                       ELSE [@ EXCEPT ![id] = v]]
            ELSE [s EXCEPT !.rc = "OVERREAD"]
    IN CASE id \in ConnackByteIds ->
              Take(IF id \in {37, 40, 41, 42} THEN bs[q] % 2 ELSE bs[q], 1, 1)
         [] id \in ConnackWordIds  -> Take(unpack_word(bs, q), 2, 2)
         [] id \in ConnackDwordIds -> Take(unpack_dword(bs, q), 4, 4)
         [] id \in ConnackStrIds   ->
              IF Fits(bs, q, 2) THEN Take(n, n + 2, n + 2) ELSE [s EXCEPT !.rc = "OVERREAD"]
         [] id = USER ->
              IF Fits(bs, q, 2) /\ Fits(bs, q + 2 + n, 2)
              THEN LET n2 == unpack_word(bs, q + 2 + n) IN Take(0, n + n2 + 4, n + n2 + 4)
              ELSE [s EXCEPT !.rc = "OVERREAD"]
         [] OTHER -> [s EXCEPT !.rc = "UNKNOWN_IDENTIFIER"]

\* while (len > 0), then the len < 0 check, which an int can reach.
RECURSIVE process_connack_poperties(_, _)
process_connack_poperties(bs, s) ==
    IF s.rc # "go" THEN s
    ELSE IF s.prop_len <= 0
         THEN [s EXCEPT !.rc = IF s.prop_len < 0 THEN "MALFORMED_PACKET" ELSE "OK"]
    ELSE IF ~Fits(bs, s.pos, 1) THEN [s EXCEPT !.rc = "OVERREAD"]
    ELSE process_connack_poperties(bs, ConnackStep(bs, s))

\* MQTT 5 3.2.2.3: the CONNACK properties and their encodings.
ConnackItems ==
    [id : {36, 37, 40}, v : {0, 1}] \cup [id : {33}, v : {1, 300}]
    \cup [id : {39, 17}, v : {70000}] \cup [id : {18, 31, 21}, v : StrLens]

ConnackEnc(it) ==
    <<it.id>> \o
    CASE it.id \in {36, 37, 40} -> <<it.v>>
      [] it.id = 33             -> <<it.v \div 256, it.v % 256>>
      [] it.id \in {39, 17}     -> <<it.v \div 2^24, (it.v \div 2^16) % 256,
                                     (it.v \div 256) % 256, it.v % 256>>
      [] OTHER                  -> StrEnc(it.v)

\* CONNACK blocks of up to MaxProps distinct properties.
ConnackLists ==
    {L \in UNION {[1..k -> ConnackItems] : k \in 0..MaxProps} :
        \A i, j \in DOMAIN L : i # j => L[i].id # L[j].id}

ConnackBlock(L) == FlattenSeq([k \in DOMAIN L |-> ConnackEnc(L[k])])

\* process_connack() on a CONNACK whose block holds props: every property
\* the broker sent is read and stored, and the session comes up.
ConnackPropertiesRoundTrip ==
    LET bl == ConnackBlock(props)
        s0 == [pos |-> 1, prop_len |-> Len(bl), rc |-> "go",
               connack |-> [i \in 0..255 |-> 0]]
        r  == IF Len(bl) > 0 THEN process_connack_poperties(bl, s0)
              ELSE [s0 EXCEPT !.rc = "OK"]
    IN  r.rc = "OK" /\ \A k \in DOMAIN props : r.connack[props[k].id] = props[k].v


ConnackInit == len = 0 /\ props \in ConnackLists

ConnackSpec == ConnackInit /\ [][UNCHANGED <<len, props>>]_<<len, props>>

=============================================================================
