---------------------------- MODULE HdhomerunWire ----------------------------
(***************************************************************************)
(* The HDHomeRun messages on the wire: the tagged values and frames of     *)
(* internal/discovery/tlv.go, packets.go and control.go, as the two        *)
(* endpoints use them.  A peer of the UDP endpoint sends datagrams, each   *)
(* read as a whole; a peer of the TCP endpoint sends a stream of frames    *)
(* that reads may split and join anywhere.                                 *)
(*                                                                         *)
(* Sizes are scaled.  A byte has ByteRadix values and its high bit, which  *)
(* marks a length of two bytes, half of that; frame types and checksums    *)
(* are one byte, lengths of frames two, and a device id or type WordLen.   *)
(* Text is a sequence of bytes above 0, and keys are texts of one byte.    *)
(***************************************************************************)
EXTENDS Integers, SequencesExt

CONSTANTS
    Messages,       \* endpoint -> the messages its peer may send
    MaxMessages     \* endpoint -> bound: messages sent

ByteRadix == 8
HighBit == 4
WordLen == 2
Byte == 0 .. ByteRadix - 1

DiscoverRequest == 1
DiscoverReply == 2
GetSetRequest == 3
GetSetReply == 4
TagDeviceType == 1
TagDeviceID == 2
TagMultiType == 3
TagTunerCount == 4
TagDeviceAuth == 5
TagBaseURL == 6
TagLineupURL == 7
TagGetSetName == 1
TagGetSetValue == 2
TagErrorMessage == 3

TunerWord == <<0, 1>>
WildcardWord == <<7, 7>>
DeviceID == <<2, 1>>
TunerCount == <<2>>     \* of the configuration
DeviceAuth == <<3, 3>>
BaseURL == <<5, 6, 7>>
LineupPath == <<1, 2>>

ChannelKey == <<1>>
ProgramKey == <<2>>
StatusKey == <<3>>
Initial == (ChannelKey :> <<1>>) @@ (ProgramKey :> <<3>>)     \* "none" and "0"
NoLock == <<1>>        \* what a status says
Locked == <<2>>
Unknown == <<2>>                        \* "ERROR: unknown key"

Tag(t, v) == [tag |-> t, value |-> v]

\* A message: its tags, then perhaps the beginning of one more, the frame type,
\* whether the checksum is right, and for a datagram whether it is shorter or
\* longer than its header says.
Message == [type : Byte, tags : Seq([tag : Byte, value : Seq(Byte)]),
            cut : Seq(Byte), crc : BOOLEAN, size : {"exact", "short", "long"}]

ASSUME WireAssumption ==
    /\ DOMAIN Messages = {"udp", "tcp"}
    /\ \A m \in Messages["tcp"] : m.size = "exact"
    /\ MaxMessages \in [{"udp", "tcp"} -> Nat]

-----------------------------------------------------------------------------
(* Encoding.                                                               *)

\* encodeHdhomerunVarLength; the second byte loses what is above its size.
encodeVarLength(n) ==
    IF n < HighBit THEN <<n>>
    ELSE <<(n % HighBit) + HighBit, (n \div HighBit) % ByteRadix>>

encodeTag(t) == <<t.tag>> \o encodeVarLength(Len(t.value)) \o t.value
EncodeTags(tags) == FlattenSeq([i \in 1 .. Len(tags) |-> encodeTag(tags[i])])

crc32(bytes) == FoldLeft(LAMBDA c, b : (c + b + 1) % ByteRadix, 0, bytes)

buildFrame(type, payload) ==
    LET packet == <<type, Len(payload) \div ByteRadix, Len(payload) % ByteRadix>> \o payload
    IN  Append(packet, crc32(packet))

encodeCString(text) == Append(text, 0)

Bytes(m) ==
    LET frame == buildFrame(m.type, EncodeTags(m.tags) \o m.cut)
        good  == [frame EXCEPT ![Len(frame)] = IF m.crc THEN @ ELSE (@ + 1) % ByteRadix]
    IN  CASE m.size = "exact" -> good
          [] m.size = "short" -> Front(good)
          [] m.size = "long"  -> Append(good, 0)

-----------------------------------------------------------------------------
(* Decoding.                                                               *)

\* readHdhomerunVarLength at position o: the bytes it takes and the length it
\* says, nothing when the packet ends before.
readVarLength(packet, o) ==
    CASE o > Len(packet) -> {}
      [] o <= Len(packet) /\ packet[o] < HighBit ->
            {[byteLength |-> 1, value |-> packet[o]]}
      [] o = Len(packet) /\ packet[o] >= HighBit -> {}
      [] o < Len(packet) /\ packet[o] >= HighBit ->
            {[byteLength |-> 2,
              value |-> packet[o] - HighBit + packet[o + 1] * HighBit]}

Broken == Tag(-1, <<>>)

\* The loop both parsers have: the tags between two positions, up to one whose
\* length is missing or leads past the last.  Lengths are looked for in the
\* whole packet.
ReadTags(packet, start, limit) ==
    LET walk[o \in start .. limit + 1] ==
            IF o > limit THEN <<>>
            ELSE LET fits == {n \in readVarLength(packet, o + 1) :
                                  o + n.byteLength + n.value <= limit}
                 IN  IF fits = {} THEN <<Broken>>
                     ELSE LET n == CHOOSE n \in fits : TRUE
                              first == o + 1 + n.byteLength
                          IN  <<Tag(packet[o], SubSeq(packet, first, first + n.value - 1))>>
                                \o walk[first + n.value]
    IN  walk[start]

payloadLength(packet) == packet[2] * ByteRadix + packet[3]
totalLength(packet) == 4 + payloadLength(packet)
CrcMatches(packet) ==
    crc32(SubSeq(packet, 1, totalLength(packet) - 1)) = packet[totalLength(packet)]

Values(tags, t) ==
    LET chosen == SelectSeq(tags, LAMBDA x : x.tag = t)
    IN  [i \in 1 .. Len(chosen) |-> chosen[i].value]

Words(value) == {SubSeq(value, i, i + WordLen - 1) :
                    i \in {j \in 1 .. Len(value) : j % WordLen = 1}}

\* A plausible bug: a list of types is read like a single one.
deviceTypesSingle(tags) ==
    {w \in ToSet(Values(tags, TagDeviceType) \o Values(tags, TagMultiType)) : Len(w) = WordLen}

deviceTypes(tags) ==
    {w \in ToSet(Values(tags, TagDeviceType)) : Len(w) = WordLen}
    \union UNION {Words(v) : v \in {w \in ToSet(Values(tags, TagMultiType)) :
                                        Len(w) >= WordLen /\ Len(w) % WordLen = 0}}

\* The last device id of the right size, if any.
deviceID(tags) ==
    LET ids == SelectSeq(Values(tags, TagDeviceID), LAMBDA w : Len(w) = WordLen)
    IN  IF ids = <<>> THEN WildcardWord ELSE Last(ids)

requestMatchesConfig(tags) ==
    /\ deviceTypes(tags) \intersect {TunerWord, WildcardWord} # {}
    /\ deviceID(tags) \in {WildcardWord, DeviceID}

\* parseHdhomerunDiscoveryRequest and requestMatchesConfig.
AnswersDatagram(packet) ==
    /\ Len(packet) >= 4
    /\ packet[1] = DiscoverRequest
    /\ Len(packet) >= totalLength(packet)
    /\ CrcMatches(packet)
    /\ LET tags == ReadTags(packet, 4, 3 + payloadLength(packet))
       IN  Broken \notin ToSet(tags) /\ requestMatchesConfig(tags)

-----------------------------------------------------------------------------
(* Control requests.                                                       *)

\* decodeCString: without the zero bytes at the end.
decodeCString(value) ==
    SubSeq(value, 1, Max({0} \union {i \in 1 .. Len(value) : value[i] # 0}))

\* parseGetSetRequest: the last name and the last value of the payload count;
\* nothing without a name or with a tag that does not fit.
parseGetSetRequest(payload) ==
    LET tags   == ReadTags(payload, 1, Len(payload))
        names  == Values(tags, TagGetSetName)
        values == Values(tags, TagGetSetValue)
    IN  IF Broken \in ToSet(tags) \/ names = <<>> THEN {}
        ELSE {[name |-> decodeCString(Last(names)),
               value |-> [i \in 1 .. Min({1, Len(values)}) |-> decodeCString(Last(values))]]}

\* A plausible bug: an empty value is stored as it is.
handleTunerRequestVerbatim(state, request) ==
    IF request.name \in DOMAIN state /\ request.value # <<>>
    THEN [state EXCEPT ![request.name] = request.value[1]]
    ELSE state

\* handleTunerRequest: a value is stored, an empty one restores the initial one.
handleTunerRequest(state, request) ==
    IF request.name \in DOMAIN state /\ request.value # <<>>
    THEN [state EXCEPT ![request.name] =
             IF request.value[1] = <<>> THEN Initial[request.name] ELSE request.value[1]]
    ELSE state

status(state) == IF state[ChannelKey] = Initial[ChannelKey] THEN NoLock ELSE Locked

\* What handleControlRequest answers, given the state behind it.
ReplyTags(state, name) ==
    << Tag(TagGetSetName, encodeCString(name)),
       CASE name \in DOMAIN state -> Tag(TagGetSetValue, encodeCString(state[name]))
         [] name = StatusKey      -> Tag(TagGetSetValue, encodeCString(status(state)))
         [] OTHER                 -> Tag(TagErrorMessage, encodeCString(Unknown)) >>

-----------------------------------------------------------------------------
VARIABLES
    endpoint,       \* the socket the peer talks to
    sent,           \* the messages it has sent
    stream,         \* bytes of a TCP peer on their way
    pc, buffer,     \* handleControlConnection
    tuner,          \* the tuner's state
    replies         \* frames sent back

vars == <<endpoint, sent, stream, pc, buffer, tuner, replies>>

Init ==
    /\ endpoint \in {"udp", "tcp"}
    /\ sent = <<>> /\ stream = <<>>
    /\ pc = "read" /\ buffer = <<>>
    /\ tuner = Initial /\ replies = <<>>

Send(m) == Len(sent) < MaxMessages[endpoint] /\ sent' = Append(sent, m)

buildHdhomerunDiscoveryReply ==
    buildFrame(DiscoverReply, EncodeTags(
        << Tag(TagDeviceID, DeviceID), Tag(TagDeviceType, TunerWord),
           Tag(TagTunerCount, TunerCount), Tag(TagDeviceAuth, DeviceAuth),
           Tag(TagBaseURL, BaseURL), Tag(TagLineupURL, BaseURL \o LineupPath) >>))

\* One datagram, from its read to the reply.
handleHdhomerunDiscoveryRequest(m) ==
    /\ endpoint = "udp"
    /\ Send(m)
    /\ replies' = IF AnswersDatagram(Bytes(m)) THEN Append(replies, buildHdhomerunDiscoveryReply)
                  ELSE replies
    /\ UNCHANGED <<endpoint, stream, pc, buffer, tuner>>

sendFrame(m) ==
    /\ endpoint = "tcp"
    /\ Send(m)
    /\ stream' = stream \o Bytes(m)
    /\ UNCHANGED <<endpoint, pc, buffer, tuner, replies>>

readConn ==
    /\ pc = "read"
    /\ \E n \in 1 .. Len(stream) :
          /\ buffer' = buffer \o SubSeq(stream, 1, n)
          /\ stream' = SubSeq(stream, n + 1, Len(stream))
    /\ pc' = "frames"
    /\ UNCHANGED <<endpoint, sent, tuner, replies>>

FrameComplete == Len(buffer) >= 4 /\ Len(buffer) >= totalLength(buffer)

\* The request of the frame in front of the buffer, if it is one.
FrameRequest ==
    IF CrcMatches(buffer) /\ buffer[1] = GetSetRequest
    THEN parseGetSetRequest(SubSeq(buffer, 4, 3 + payloadLength(buffer)))
    ELSE {}

waitForRest ==
    /\ pc = "frames" /\ ~FrameComplete
    /\ pc' = "read"
    /\ UNCHANGED <<endpoint, sent, stream, buffer, tuner, replies>>

skipFrame ==
    /\ pc = "frames" /\ FrameComplete
    /\ FrameRequest = {}
    /\ buffer' = SubSeq(buffer, totalLength(buffer) + 1, Len(buffer))
    /\ UNCHANGED <<endpoint, sent, stream, pc, tuner, replies>>

\* A plausible bug: what was read behind a request is forgotten.
answerFrameDropsRest ==
    /\ pc = "frames" /\ FrameComplete
    /\ \E request \in FrameRequest :
          /\ tuner' = handleTunerRequest(tuner, request)
          /\ replies' = Append(replies,
                buildFrame(GetSetReply, EncodeTags(ReplyTags(tuner', request.name))))
    /\ buffer' = <<>>
    /\ UNCHANGED <<endpoint, sent, stream, pc>>

answerFrame ==
    /\ pc = "frames" /\ FrameComplete
    /\ \E request \in FrameRequest :
          /\ tuner' = handleTunerRequest(tuner, request)
          /\ replies' = Append(replies,
                buildFrame(GetSetReply, EncodeTags(ReplyTags(tuner', request.name))))
    /\ buffer' = SubSeq(buffer, totalLength(buffer) + 1, Len(buffer))
    /\ UNCHANGED <<endpoint, sent, stream, pc>>

Next ==
    \/ \E m \in Messages["udp"] : handleHdhomerunDiscoveryRequest(m)
    \/ \E m \in Messages["tcp"] : sendFrame(m)
    \/ readConn \/ waitForRest \/ skipFrame \/ answerFrame

Spec == Init /\ [][Next]_vars

-----------------------------------------------------------------------------
(* What the peer's messages ask for, told from the messages themselves.    *)

Sound(m) == m.crc /\ m.cut = <<>> /\ m.size # "short"

\* A discovery request names the tuner type or any type, in a type of its own
\* or in a list, and in its last device id this device, any or none.
AsksForUs(m) ==
    /\ Sound(m) /\ m.type = DiscoverRequest
    /\ \E i \in 1 .. Len(m.tags) : \E w \in {TunerWord, WildcardWord} :
          \/ m.tags[i] = Tag(TagDeviceType, w)
          \/ /\ m.tags[i].tag = TagMultiType
             /\ Len(m.tags[i].value) % WordLen = 0
             /\ \E k \in 1 .. Len(m.tags[i].value) - 1 :
                    k % WordLen = 1 /\ SubSeq(m.tags[i].value, k, k + 1) = w
    /\ LET ids == {i \in 1 .. Len(m.tags) : /\ m.tags[i].tag = TagDeviceID
                                            /\ Len(m.tags[i].value) = WordLen}
       IN  ids = {} \/ m.tags[Max(ids)].value \in {DeviceID, WildcardWord}

Named(i, t) == {k \in 1 .. Len(sent[i].tags) : sent[i].tags[k].tag = t}
Text(i, t) == decodeCString(sent[i].tags[Max(Named(i, t))].value)
Requests == {i \in 1 .. Len(sent) : /\ Sound(sent[i]) /\ sent[i].type = GetSetRequest
                                    /\ Named(i, TagGetSetName) # {}}

\* The value of a key behind the i-th message: the last one it was given.
Value(key, i) ==
    LET sets == {j \in Requests : /\ j <= i /\ Text(j, TagGetSetName) = key
                                  /\ Named(j, TagGetSetValue) # {}}
        last == Text(Max(sets), TagGetSetValue)
    IN  IF sets = {} \/ last = <<>> THEN Initial[key] ELSE last

Expected(i) == ReplyTags([k \in DOMAIN Initial |-> Value(k, i)], Text(i, TagGetSetName))

\* Lengths above 15 bits (scaled) do not survive encodeVarLength.
Encodable(tags) == \A k \in 1 .. Len(tags) : Len(tags[k].value) < HighBit * ByteRadix

\* A discovery request is answered exactly when it asks for this device, wherever
\* in it types and id stand and whatever surrounds them; a damaged, cut or
\* foreign datagram never is, and the answer reads back as this device with a
\* lineup below its base url (parseHdhomerunDiscoveryRequest, encodeTag).
DiscoveryAnswersOwn ==
    endpoint = "udp" =>
        /\ Len(replies) = Cardinality({i \in 1 .. Len(sent) : AsksForUs(sent[i])})
        /\ \A k \in 1 .. Len(replies) :
              LET tags == ReadTags(replies[k], 4, Len(replies[k]) - 1)
              IN  /\ CrcMatches(replies[k]) /\ requestMatchesConfig(tags)
                  /\ Values(tags, TagLineupURL) = <<Values(tags, TagBaseURL)[1] \o LineupPath>>

\* The control peer reads, in order, the answer to each of its requests, with
\* the values it set before, however frames fall into reads and whatever comes
\* between them (tryReadFrame, handleControlConnection).  An answer whose value
\* fills the 15 bits of a length is the exception: it cannot be read.
RepliesAnswerRequests ==
    endpoint = "tcp" =>
        /\ Len(replies) <= Cardinality(Requests)
        /\ \A k \in 1 .. Len(replies) :
              LET i == SetToSortSeq(Requests, <)[k]
              IN  Encodable(Expected(i)) =>
                    ReadTags(replies[k], 4, Len(replies[k]) - 1) = Expected(i)

\* When all that was sent has been read, no request waits for its answer behind
\* another frame (the inner loop of handleControlConnection).
NoRequestHeldBack ==
    endpoint = "tcp" /\ stream = <<>> /\ pc = "read" =>
        Len(replies) = Cardinality(Requests)
=============================================================================
