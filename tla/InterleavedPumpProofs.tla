------------------------- MODULE InterleavedPumpProofs -------------------------
(***************************************************************************)
(* Proofs about InterleavedPump, for any frames, messages and length of    *)
(* the stream: that a playback without media is never a success, and that  *)
(* the handler is given the media of the stream, in order and in time.     *)
(***************************************************************************)
EXTENDS InterleavedPump, TLAPS, WellFoundedInduction, NaturalsInduction

-----------------------------------------------------------------------------
(* Bytes.                                                                  *)

LEMMA HeaderByteIsByte ==
    \A h \in HeaderKind : HeaderByte[h] \in Nat
BY DEF HeaderKind, HeaderByte

LEMMA PayloadIsBytes ==
    ASSUME NEW i \in Nat, NEW len \in 0 .. 3
    PROVE  Payload(i, len) \in Seq(Nat)
<1>1. Payload(i, len) \in [1 .. len -> Nat]
    BY DEF Payload, interleavedFrameMarker, UnitByte
<1> QED BY <1>1

\* Whatever the server sends is a sequence of bytes.
LEMMA UnitIsBytes ==
    ASSUME NEW i \in Nat, NEW u \in Unit
    PROVE  Bytes(i, u) \in Seq(Nat)
<1>1. CASE u \in Frames
    <2>1. u.kind = "frame" /\ u.channel \in 0 .. 3 /\ u.len \in 0 .. 3
        BY <1>1, PumpAssumption
    <2>2. Bytes(i, u) = << interleavedFrameMarker, u.channel,
                           u.len \div LengthBase, u.len % LengthBase >>
                        \o Payload(i, u.len)
        BY <2>1, Zenon DEF Bytes
    <2>3. u.len \div LengthBase \in Nat /\ u.len % LengthBase \in Nat
        BY <2>1 DEF LengthBase
    <2>4. << interleavedFrameMarker, u.channel,
             u.len \div LengthBase, u.len % LengthBase >> \in Seq(Nat)
        BY <2>1, <2>3 DEF interleavedFrameMarker
    <2>5. Payload(i, u.len) \in Seq(Nat)
        BY <2>1, PayloadIsBytes
    <2> QED BY <2>2, <2>4, <2>5
<1>2. ASSUME NEW h \in Headers, u = Response(h)
      PROVE  Bytes(i, u) \in Seq(Nat)
    <2>1. u.kind = "response" /\ u.header = h
        BY <1>2 DEF Response
    <2>2. Bytes(i, u) = Prefix \o <<HeaderByte[h], EmptyLine>>
                          \o (IF h = "ok1" THEN <<UnitByte(i)>> ELSE <<>>)
        <3>1. u.kind # "frame" /\ u.kind # "stray" BY <2>1
        <3> QED BY <2>1, <3>1, Zenon DEF Bytes
    <2>3. HeaderByte[h] \in Nat
        BY HeaderByteIsByte, PumpAssumption
    <2>4. Prefix \o <<HeaderByte[h], EmptyLine>> \in Seq(Nat)
        BY <2>3 DEF Prefix, EmptyLine
    <2>5. (IF h = "ok1" THEN <<UnitByte(i)>> ELSE <<>>) \in Seq(Nat)
        BY DEF UnitByte
    <2> QED BY <2>2, <2>4, <2>5
<1>3. CASE u = Stray
    <2>1. u.kind = "stray"
        BY <1>3 DEF Stray
    <2>2. Bytes(i, u) = <<UnitByte(i)>>
        <3>1. u.kind # "frame" /\ u.kind # "response" BY <2>1
        <3> QED BY <2>1, <3>1, Zenon DEF Bytes
    <2> QED BY <2>2 DEF UnitByte
<1> QED BY <1>1, <1>2, <1>3 DEF Unit

-----------------------------------------------------------------------------
(* The inductive invariant.                                                *)

\* What flows: bytes under way and read, payloads handed on, units sent.
FlowInv ==
    /\ buffer \in Seq(Nat)
    /\ wire \in Seq(Nat)
    /\ handled \in Seq(Seq(Nat))
    /\ sent \in Seq(Unit)

SomeMedia == \E i \in 1 .. Len(handled) : Len(handled[i]) > 1

\* started is set only by a payload longer than a bare header.
StartedInv == started => SomeMedia

\* A success is reported only once media have been written.
SuccessInv == response = "success" => started

IInv == FlowInv /\ StartedInv /\ SuccessInv

LEMMA LeastNatural ==
    ASSUME NEW T, T \subseteq Nat, T # {}
    PROVE  \E k \in T : \A j \in T : k <= j
<1> DEFINE R == {ss \in Nat \X Nat : ss[1] < ss[2]}
<1>1. IsWellFoundedOn(R, Nat)
    BY NatLessThanWellFounded DEF OpToRel
<1>2. PICK x \in T : \A y \in T : ~ (<<y, x>> \in R)
    <2> HIDE DEF R
    <2> QED BY <1>1, WFMin
<1>3. ASSUME NEW y \in T PROVE x <= y
    <2>1. ~ (<<y, x>> \in R) BY <1>2
    <2>2. <<y, x>> \in Nat \X Nat OBVIOUS
    <2> QED BY <2>1, <2>2
<1> QED BY <1>3

\* The end of a header is a position in the buffer, the first with an empty line.
LEMMA HeaderEndIsLeast ==
    ASSUME FlowInv, HeaderEnds # {}
    PROVE  /\ Min(HeaderEnds) \in HeaderEnds
           /\ \A y \in HeaderEnds : Min(HeaderEnds) <= y
<1>1. HeaderEnds \subseteq Nat
    BY DEF HeaderEnds, FlowInv
<1>2. \E m \in HeaderEnds : \A y \in HeaderEnds : m <= y
    BY <1>1, LeastNatural
<1> QED BY <1>2 DEF Min

LEMMA HeaderEndIsPosition ==
    ASSUME FlowInv, HeaderEnds # {}
    PROVE  Min(HeaderEnds) \in 1 .. Len(buffer)
BY HeaderEndIsLeast DEF HeaderEnds

\* What is left of the buffer is a sequence of bytes.
LEMMA RestIsBytes ==
    ASSUME FlowInv, NEW k \in Nat
    PROVE  SubSeq(buffer, k + 1, Len(buffer)) \in Seq(Nat)
BY DEF FlowInv

\* The length of a frame whose head has been read.
LEMMA FrameLengthIsNat ==
    ASSUME FlowInv, FrameComplete
    PROVE  frameLength \in Nat
<1>1. Len(buffer) >= 4
    BY DEF FrameComplete
<1>2. buffer[3] \in Nat /\ buffer[4] \in Nat
    BY <1>1 DEF FlowInv
<1> QED BY <1>2 DEF frameLength, LengthBase

LEMMA FlowStep ==
    ASSUME FlowInv, [Next]_vars
    PROVE  FlowInv'
<1> USE DEF bufferVars, serverVars, mediaVars, outcomeVars
<1>1. ASSUME NEW at, NEW to, readBytes(at, to) PROVE FlowInv'
    <2>1. PICK n \in 1 .. Len(wire) :
              /\ buffer' = buffer \o SubSeq(wire, 1, n)
              /\ wire' = SubSeq(wire, n + 1, Len(wire))
        BY <1>1 DEF readBytes
    <2>2. SubSeq(wire, 1, n) \in Seq(Nat) /\ SubSeq(wire, n + 1, Len(wire)) \in Seq(Nat)
        BY DEF FlowInv
    <2>3. UNCHANGED <<handled, sent>>
        BY <1>1 DEF readBytes
    <2> QED BY <2>1, <2>2, <2>3 DEF FlowInv
<1>2. ASSUME NEW at, readFails(at) PROVE FlowInv'
    BY <1>2 DEF readFails, FlowInv
<1>3. ASSUME NEW at, NEW readAt, NEW next, NEW accepts,
             readResponse(at, readAt, next, accepts)
      PROVE  FlowInv'
    <2>1. UNCHANGED <<wire, handled, sent>>
        BY <1>3 DEF readResponse
    <2>2. buffer' \in Seq(Nat)
        <3>1. CASE UNCHANGED buffer
            BY <3>1 DEF FlowInv
        <3>2. CASE buffer' # buffer
            <4>1. HeaderEnds # {}
                BY <1>3, <3>2 DEF readResponse
            <4>2. PICK header : buffer' =
                      SubSeq(buffer,
                             Min(HeaderEnds) + (IF header = "ok1" THEN 1 ELSE 0) + 1,
                             Len(buffer))
                BY <1>3, <3>2 DEF readResponse
            <4> DEFINE bodyEnd == Min(HeaderEnds) + (IF header = "ok1" THEN 1 ELSE 0)
            <4>3. bodyEnd \in Nat
                <5>1. Min(HeaderEnds) \in Nat
                    BY <4>1, HeaderEndIsPosition
                <5> QED BY <5>1
            <4>4. buffer' = SubSeq(buffer, bodyEnd + 1, Len(buffer))
                BY <4>2
            <4> HIDE DEF bodyEnd
            <4> QED BY <4>3, <4>4, RestIsBytes
        <3> QED BY <3>1, <3>2
    <2> QED BY <2>1, <2>2 DEF FlowInv
<1>4. ASSUME pumpTurn PROVE FlowInv'
    <2>1. UNCHANGED <<wire, sent>>
        BY <1>4 DEF pumpTurn
    <2>2. CASE UNCHANGED <<buffer, handled>>
        BY <2>1, <2>2 DEF FlowInv
    <2>3. CASE FrameComplete /\ buffer' = SubSeq(buffer, 4 + frameLength + 1, Len(buffer))
               /\ (UNCHANGED handled
                   \/ handled' = Append(handled, SubSeq(buffer, 5, 4 + frameLength)))
        <3>1. frameLength \in Nat
            BY <2>3, FrameLengthIsNat
        <3>2. 4 + frameLength =< Len(buffer)
            BY <2>3 DEF FrameComplete
        <3>3. SubSeq(buffer, 5, 4 + frameLength) \in Seq(Nat)
            BY <3>1, <3>2 DEF FlowInv
        <3>4. buffer' \in Seq(Nat)
            <4> DEFINE frameEnd == 4 + frameLength
            <4>1. frameEnd \in Nat BY <3>1
            <4>2. buffer' = SubSeq(buffer, frameEnd + 1, Len(buffer)) BY <2>3
            <4> HIDE DEF frameEnd
            <4> QED BY <4>1, <4>2, RestIsBytes
        <3>5. handled' \in Seq(Seq(Nat))
            <4>1. CASE UNCHANGED handled BY <4>1 DEF FlowInv
            <4>2. CASE handled' = Append(handled, SubSeq(buffer, 5, 4 + frameLength))
                <5> DEFINE p == SubSeq(buffer, 5, 4 + frameLength)
                <5>1. p \in Seq(Nat) /\ handled' = Append(handled, p) BY <3>3, <4>2
                <5>2. handled \in Seq(Seq(Nat)) BY DEF FlowInv
                <5> HIDE DEF p
                <5> QED BY <5>1, <5>2
            <4> QED BY <2>3, <4>1, <4>2
        <3> QED BY <2>1, <3>4, <3>5 DEF FlowInv
    <2> QED BY <1>4, <2>2, <2>3 DEF pumpTurn, handle
<1>5. ASSUME NEW u \in Unit, serverSends(u) PROVE FlowInv'
    <2>1. Bytes(Len(sent) + 1, u) \in Seq(Nat)
        <3>1. Len(sent) + 1 \in Nat BY DEF FlowInv
        <3> QED BY <3>1, UnitIsBytes
    <2> QED BY <1>5, <2>1 DEF serverSends, FlowInv
<1>6. CASE finishPlayback \/ watch \/ serverCloses \/ clientLeaves \/ cancelContext
           \/ UNCHANGED vars
    BY <1>6 DEF finishPlayback, watch, serverCloses, clientLeaves, cancelContext, vars,
                FlowInv
<1> QED BY <1>1, <1>2, <1>3, <1>4, <1>5, <1>6
        DEF Next, LocalStep, ReadStep, playAnswered, responseSkipped

\* What the handler was given stays given.
LEMMA SomeMediaStays ==
    ASSUME FlowInv, SomeMedia, NEW p, handled' = Append(handled, p)
    PROVE  SomeMedia'
<1>1. PICK i \in 1 .. Len(handled) : Len(handled[i]) > 1
    BY DEF SomeMedia
<1>2. i \in 1 .. Len(handled')
    BY DEF FlowInv
<1>3. handled'[i] = handled[i]
    BY DEF FlowInv
<1> QED BY <1>1, <1>2, <1>3 DEF SomeMedia

LEMMA MediaStep ==
    ASSUME IInv, [Next]_vars
    PROVE  StartedInv' /\ SuccessInv'
<1> USE DEF bufferVars, serverVars, mediaVars, outcomeVars
<1>1. ASSUME pumpTurn PROVE StartedInv' /\ SuccessInv'
    <2>1. UNCHANGED response
        BY <1>1 DEF pumpTurn
    <2>2. CASE UNCHANGED <<handled, started>>
        BY <2>1, <2>2 DEF IInv, StartedInv, SuccessInv, SomeMedia
    <2>3. ASSUME NEW p, handle(p), FrameComplete, p = SubSeq(buffer, 5, 4 + frameLength)
          PROVE  StartedInv' /\ SuccessInv'
        <3>1. handled' = Append(handled, p)
            BY <2>3 DEF handle
        <3>2. started' = (started \/ Len(p) > 1)
            BY <2>3 DEF handle
        <3>3. CASE started
            <4>1. SomeMedia'
                BY <3>1, <3>3, SomeMediaStays DEF IInv, StartedInv
            <4>2. started'
                BY <3>2, <3>3
            <4> QED BY <4>1, <4>2 DEF StartedInv, SuccessInv
        <3>4. CASE ~started
            <4>1. response' # "success"
                BY <2>1, <3>4 DEF IInv, SuccessInv
            <4>2. ASSUME Len(p) > 1 PROVE SomeMedia'
                <5>1. handled \in Seq(Seq(Nat))
                    BY DEF IInv, FlowInv
                <5>2. Len(handled') = Len(handled) + 1 /\ handled'[Len(handled) + 1] = p
                    BY <3>1, <5>1
                <5>3. Len(handled) + 1 \in 1 .. Len(handled')
                    BY <5>1, <5>2
                <5> QED BY <4>2, <5>2, <5>3 DEF SomeMedia
            <4>3. started' => SomeMedia'
                BY <3>2, <3>4, <4>2
            <4> QED BY <4>1, <4>3 DEF StartedInv, SuccessInv
        <3> QED BY <3>3, <3>4
    <2> QED BY <1>1, <2>2, <2>3 DEF pumpTurn
<1>2. CASE finishPlayback
    <2>1. UNCHANGED <<handled, started>>
        BY <1>2 DEF finishPlayback
    <2>2. response' = "success" => started
        BY <1>2 DEF finishPlayback
    <2> QED BY <2>1, <2>2 DEF IInv, StartedInv, SuccessInv, SomeMedia
<1>3. CASE UNCHANGED <<handled, started, response>>
    BY <1>3 DEF IInv, StartedInv, SuccessInv, SomeMedia
<1>4. [Next]_vars => pumpTurn \/ finishPlayback \/ UNCHANGED <<handled, started, response>>
    BY DEF Next, LocalStep, ReadStep, playAnswered, responseSkipped, readBytes, readFails,
           readResponse, watch, serverSends, serverCloses, clientLeaves, cancelContext, vars
<1> QED BY <1>1, <1>2, <1>3, <1>4

-----------------------------------------------------------------------------
\* Whatever arrives and however it falls into reads, whoever leaves and
\* whatever error ends the playback, its answer is a success only if a payload
\* longer than a bare RTP header was handed on (streamMedia, Relay).
THEOREM NoMediaNoSuccess == Spec => []NoEmptySuccess
<1>1. Init => IInv
    BY DEF Init, IInv, FlowInv, StartedInv, SuccessInv
<1>2. IInv /\ [Next]_vars => IInv'
    BY FlowStep, MediaStep DEF IInv
<1>3. IInv => NoEmptySuccess
    BY DEF IInv, StartedInv, SuccessInv, SomeMedia, NoEmptySuccess
<1> QED BY <1>1, <1>2, <1>3, PTL DEF Spec

-----------------------------------------------------------------------------
(* Where the bytes of a unit are.                                          *)

LEMMA FrameBytes ==
    ASSUME NEW i \in Nat, NEW u \in Frames
    PROVE  /\ u.kind = "frame" /\ u.channel \in 0 .. 3 /\ u.len \in 0 .. 3
           /\ Bytes(i, u) \in Seq(Nat)
           /\ Len(Bytes(i, u)) = 4 + u.len
           /\ Bytes(i, u)[1] = 36 /\ Bytes(i, u)[2] = u.channel
           /\ Bytes(i, u)[3] * 2 + Bytes(i, u)[4] = u.len
           /\ Bytes(i, u)[3] \in 0 .. 3 /\ Bytes(i, u)[4] \in 0 .. 3
           /\ \A k \in 1 .. u.len : Bytes(i, u)[4 + k] = Payload(i, u.len)[k]
<1>1. u.kind = "frame" /\ u.channel \in 0 .. 3 /\ u.len \in 0 .. 3
    BY PumpAssumption
<1> DEFINE p == Payload(i, u.len)
           d == u.len \div LengthBase
           m == u.len % LengthBase
<1>2. Bytes(i, u) = << interleavedFrameMarker, u.channel, d, m >> \o p
    BY <1>1, Zenon DEF Bytes
<1>3. p \in Seq(Nat) /\ Len(p) = u.len
    <2>1. p \in [1 .. u.len -> Nat]
        BY <1>1 DEF Payload, interleavedFrameMarker, UnitByte
    <2> HIDE DEF p
    <2> QED BY <1>1, <2>1
<1>4. d \in 0 .. 3 /\ m \in 0 .. 3 /\ d * 2 + m = u.len
    BY <1>1 DEF LengthBase
<1> HIDE DEF p, d, m
<1>5. << interleavedFrameMarker, u.channel, d, m >> \in Seq(Nat)
    BY <1>1, <1>4 DEF interleavedFrameMarker
<1>6. /\ Bytes(i, u) \in Seq(Nat)
      /\ Len(Bytes(i, u)) = 4 + u.len
      /\ Bytes(i, u)[1] = 36 /\ Bytes(i, u)[2] = u.channel
      /\ Bytes(i, u)[3] = d /\ Bytes(i, u)[4] = m
      /\ \A k \in 1 .. u.len : Bytes(i, u)[4 + k] = p[k]
    BY <1>1, <1>2, <1>3, <1>4, <1>5 DEF interleavedFrameMarker
<1> QED BY <1>1, <1>4, <1>6 DEF p

LEMMA ResponseBytes ==
    ASSUME NEW i \in Nat, NEW h \in HeaderKind
    PROVE  /\ Bytes(i, Response(h)) \in Seq(Nat)
           /\ Len(Bytes(i, Response(h))) = 4 + (IF h = "ok1" THEN 1 ELSE 0)
           /\ Bytes(i, Response(h))[1] = 82 /\ Bytes(i, Response(h))[2] = 47
           /\ Bytes(i, Response(h))[3] = HeaderByte[h]
           /\ Bytes(i, Response(h))[4] = EmptyLine
<1>1. Response(h).kind = "response" /\ Response(h).header = h
    BY DEF Response
<1>2. Bytes(i, Response(h)) = Prefix \o <<HeaderByte[h], EmptyLine>>
                                \o (IF h = "ok1" THEN <<UnitByte(i)>> ELSE <<>>)
    <2>1. Response(h).kind # "frame" /\ Response(h).kind # "stray" BY <1>1
    <2> QED BY <1>1, <2>1, Zenon DEF Bytes
<1>3. HeaderByte[h] \in Nat
    BY HeaderByteIsByte
<1>4. CASE h = "ok1"
    BY <1>2, <1>3, <1>4 DEF Prefix, EmptyLine, UnitByte
<1>5. CASE h # "ok1"
    BY <1>2, <1>3, <1>5 DEF Prefix, EmptyLine
<1> QED BY <1>4, <1>5

LEMMA StrayBytes ==
    ASSUME NEW i \in Nat
    PROVE  Bytes(i, Stray) = <<UnitByte(i)>> /\ Stray.kind = "stray"
<1>1. Stray.kind = "stray" /\ Stray.kind # "frame" /\ Stray.kind # "response"
    BY DEF Stray
<1> QED BY <1>1, Zenon DEF Bytes

\* A unit is known by its kind.
LEMMA KindOfUnit ==
    ASSUME NEW u \in Unit
    PROVE  \/ u.kind = "frame" /\ u \in Frames
           \/ u.kind = "response" /\ \E h \in HeaderKind : u = Response(h) /\ u.header = h
           \/ u.kind = "stray" /\ u = Stray
BY PumpAssumption DEF Unit, Response, Stray

\* The header of a message can be told from its byte.
LEMMA HeaderOfByte ==
    ASSUME NEW h \in HeaderKind
    PROVE  HeaderOf(HeaderByte[h]) = h /\ HeaderByte[h] \in 100 .. 104
<1>1. HeaderByte[h] \in 100 .. 104
    BY DEF HeaderKind, HeaderByte
<1>2. \A g \in HeaderKind : HeaderByte[g] = HeaderByte[h] => g = h
    BY DEF HeaderKind, HeaderByte
<1> QED BY <1>1, <1>2 DEF HeaderOf

\* Only a message has an empty line.
LEMMA NoEmptyLine ==
    ASSUME NEW i \in Nat, NEW u \in Unit, u.kind # "response",
           NEW k \in 1 .. Len(Bytes(i, u))
    PROVE  Bytes(i, u)[k] # EmptyLine
<1> i \in Nat OBVIOUS
<1>1. CASE u \in Frames
    <2>1. CASE k <= 4
        <3> DEFINE b == Bytes(i, u)
        <3>1. b[1] = 36 /\ b[2] \in 0 .. 3 /\ b[3] \in 0 .. 3 /\ b[4] \in 0 .. 3
            BY <1>1, FrameBytes
        <3>2. k \in {1, 2, 3, 4}
            <4>1. Len(b) \in Nat BY <1>1, FrameBytes
            <4> QED BY <2>1, <4>1
        <3> HIDE DEF b
        <3>3. b[k] # 13
            BY <3>1, <3>2
        <3> QED BY <3>3 DEF b, EmptyLine
    <2>2. CASE k > 4
        <3> DEFINE b == Bytes(i, u)
        <3>1. u.len \in 0 .. 3 /\ Len(b) = 4 + u.len
            BY <1>1, FrameBytes
        <3>2. \A l \in 1 .. u.len : b[4 + l] = Payload(i, u.len)[l]
            BY <1>1, FrameBytes
        <3> HIDE DEF b
        <3>3. k - 4 \in 1 .. u.len /\ 4 + (k - 4) = k
            BY <2>2, <3>1 DEF b
        <3>4. b[k] = Payload(i, u.len)[k - 4]
            BY <3>2, <3>3
        <3>5. Payload(i, u.len)[k - 4] \in {36, UnitByte(i)}
            BY <3>3 DEF Payload, interleavedFrameMarker, UnitByte
        <3> QED BY <3>4, <3>5 DEF EmptyLine, UnitByte, b
    <2> QED BY <2>1, <2>2, <1>1, FrameBytes
<1>2. CASE u = Stray
    <2>1. Bytes(i, u) = <<UnitByte(i)>>
        BY <1>2, StrayBytes
    <2>2. k = 1 /\ Bytes(i, u)[k] = 200 + i
        BY <2>1 DEF UnitByte
    <2> QED BY <2>2 DEF EmptyLine
<1> QED BY <1>1, <1>2, KindOfUnit

-----------------------------------------------------------------------------
(* Sequences and sets of numbers.                                          *)

LEMMA ConcatAssoc ==
    ASSUME NEW a \in Seq(Nat), NEW b \in Seq(Nat), NEW c \in Seq(Nat)
    PROVE  (a \o b) \o c = a \o (b \o c)
OBVIOUS

LEMMA ConcatAt ==
    ASSUME NEW a \in Seq(Nat), NEW b \in Seq(Nat)
    PROVE  /\ a \o b \in Seq(Nat) /\ Len(a \o b) = Len(a) + Len(b)
           /\ \A k \in 1 .. Len(a) : (a \o b)[k] = a[k]
           /\ \A k \in 1 .. Len(b) : (a \o b)[Len(a) + k] = b[k]
OBVIOUS

LEMMA ConcatBehind ==
    ASSUME NEW a \in Seq(Nat), NEW b \in Seq(Nat), NEW k \in 1 .. Len(b)
    PROVE  (a \o b)[Len(a) + k] = b[k]
OBVIOUS

LEMMA SameFunction ==
    ASSUME NEW D, NEW f \in [D -> Nat], NEW g \in [D -> Nat], \A x \in D : f[x] = g[x]
    PROVE  f = g
OBVIOUS

LEMMA SameSequence ==
    ASSUME NEW a \in Seq(Nat), NEW b \in Seq(Nat), Len(a) = Len(b),
           \A k \in 1 .. Len(b) : a[k] = b[k]
    PROVE  a = b
<1>1. a \in [1 .. Len(b) -> Nat] /\ b \in [1 .. Len(b) -> Nat]
    OBVIOUS
<1> QED BY <1>1

\* What has been taken from the front of the buffer is gone from the stream.
LEMMA DropFront ==
    ASSUME NEW a \in Seq(Nat), NEW b \in Seq(Nat), NEW x \in Seq(Nat), NEW y \in Seq(Nat),
           a \o b = x \o y, Len(x) <= Len(a)
    PROVE  SubSeq(a, Len(x) + 1, Len(a)) \o b = y
<1> DEFINE d == SubSeq(a, Len(x) + 1, Len(a))
           l == d \o b
<1>1. /\ d \in Seq(Nat) /\ Len(d) = Len(a) - Len(x)
      /\ \A k \in 1 .. Len(d) : d[k] = a[Len(x) + k]
    OBVIOUS
<1> HIDE DEF d
<1>2. l \in Seq(Nat) /\ Len(l) = Len(y) /\ Len(l) = Len(d) + Len(b)
    <2>1. Len(a \o b) = Len(a) + Len(b) /\ Len(x \o y) = Len(x) + Len(y)
        OBVIOUS
    <2>2. l \in Seq(Nat) /\ Len(l) = Len(d) + Len(b)
        BY <1>1
    <2> QED BY <1>1, <2>1, <2>2
<1>3. ASSUME NEW k \in 1 .. Len(y) PROVE l[k] = y[k]
    <2>1. y[k] = (x \o y)[Len(x) + k]
        OBVIOUS
    <2>2. l[k] = (a \o b)[Len(x) + k]
        <3> DEFINE j == Len(x) + k
        <3>1. k \in 1 .. Len(d) + Len(b) /\ j \in 1 .. Len(a) + Len(b)
            BY <1>1, <1>2
        <3>2. CASE k <= Len(d)
            <4>1. k \in 1 .. Len(d) /\ j \in 1 .. Len(a)
                BY <1>1, <3>1, <3>2
            <4>2. l[k] = d[k] /\ d[k] = a[j]
                BY <1>1, <4>1
            <4> HIDE DEF j
            <4>3. (a \o b)[j] = a[j]
                BY <4>1, ConcatAt, Zenon
            <4> QED BY <4>2, <4>3 DEF j
        <3>3. CASE k > Len(d)
            <4>1. k - Len(d) \in 1 .. Len(b) /\ j - Len(a) = k - Len(d) /\ j > Len(a)
                BY <1>1, <3>1, <3>3
            <4> DEFINE m == k - Len(d)
            <4>2. m \in 1 .. Len(b) /\ k = Len(d) + m /\ j = Len(a) + m
                <5>1. k \in Int /\ Len(d) \in Int /\ Len(a) \in Int /\ j \in Int
                    BY <1>1, <3>1
                <5> HIDE DEF j, l
                <5> QED BY <4>1, <5>1
            <4> HIDE DEF j, m, l
            <4>3. (d \o b)[Len(d) + m] = b[m]
                <5>1. d \in Seq(Nat) /\ m \in 1 .. Len(b) BY <1>1, <4>2
                <5> QED BY <5>1, ConcatBehind, Zenon
            <4>4. (a \o b)[Len(a) + m] = b[m]
                BY <4>2, ConcatBehind, Zenon
            <4>5. (d \o b)[k] = (a \o b)[j]
                BY <4>2, <4>3, <4>4, Zenon
            <4> QED BY <4>5 DEF j, l
        <3>4. k <= Len(d) \/ k > Len(d) BY <1>1
        <3> QED BY <3>2, <3>3, <3>4, Zenon
    <2> QED BY <2>1, <2>2
<1> HIDE DEF l
<1>4. l = y
    BY <1>2, <1>3, SameSequence
<1> QED BY <1>4 DEF l, d

\* Induction over the units of a stream.
LEMMA UnitInduction ==
    ASSUME NEW n \in Nat, NEW S, 0 \in S, \A i \in 0 .. n - 1 : i \in S => i + 1 \in S
    PROVE  \A i \in 0 .. n : i \in S
<1> DEFINE T == {i \in 0 .. n : i \notin S}
<1>1. ASSUME T # {} PROVE FALSE
    <2>1. PICK k \in T : \A j \in T : k <= j
        <3>1. T \subseteq Nat OBVIOUS
        <3> HIDE DEF T
        <3> QED BY <1>1, <3>1, LeastNatural
    <2>2. k \in 0 .. n /\ k \notin S /\ k # 0
        OBVIOUS
    <2>3. k - 1 \in 0 .. n - 1 /\ k - 1 \in 0 .. n /\ k - 1 \notin T
        BY <2>1, <2>2
    <2>4. (k - 1) + 1 \in S
        BY <2>3
    <2>5. (k - 1) + 1 = k
        BY <2>2
    <2> QED BY <2>2, <2>4, <2>5
<1> QED BY <1>1

-----------------------------------------------------------------------------
(* The stream behind a unit, and the media up to it.                       *)

\* r[i] is what follows the first i units.
RestOf(s, r) ==
    /\ r \in [0 .. Len(s) -> Seq(Nat)]
    /\ r[Len(s)] = <<>>
    /\ \A i \in 1 .. Len(s) : r[i - 1] = Bytes(i, s[i]) \o r[i]

\* h[i] is what the first i units give the handler: nothing before PLAY is
\* answered, nothing more behind a byte that is out of place.
MediaUpTo(s, h) ==
    /\ h \in [0 .. Len(s) -> Seq(Seq(Nat))]
    /\ h[0] = <<>>
    /\ \A i \in 1 .. Len(s) :
          h[i] = IF IsMedia(s, i) THEN Append(h[i - 1], Payload(i, s[i].len)) ELSE h[i - 1]
    /\ \A i \in 0 .. Len(s) : ~Answered(s, i) => h[i] = <<>>
    /\ \A i \in 1 .. Len(s), m \in 0 .. Len(s) :
          i <= m /\ s[i].kind = "stray" /\ Answered(s, i) => h[m] = h[i - 1]
    /\ \A i, m \in 0 .. Len(s) : i <= m => IsPrefix(h[i], h[m])

\* What is sent later changes nothing about what was sent before.
LEMMA SentGrows ==
    ASSUME NEW s \in Seq(Unit), NEW u \in Unit
    PROVE  /\ Append(s, u) \in Seq(Unit)
           /\ Len(Append(s, u)) = Len(s) + 1 /\ Append(s, u)[Len(s) + 1] = u
           /\ \A i \in 1 .. Len(s) : Append(s, u)[i] = s[i]
           /\ \A i \in 0 .. Len(s) + 1 : Answered(Append(s, u), i) <=> Answered(s, i)
           /\ \A i \in 0 .. Len(s) + 1 : Astray(Append(s, u), i) <=> Astray(s, i)
           /\ \A i \in 1 .. Len(s) : IsMedia(Append(s, u), i) <=> IsMedia(s, i)
<1> DEFINE t == Append(s, u)
<1>1. /\ t \in Seq(Unit) /\ Len(t) = Len(s) + 1 /\ t[Len(s) + 1] = u
      /\ \A i \in 1 .. Len(s) : t[i] = s[i]
      /\ Len(s) \in Nat
    OBVIOUS
<1> HIDE DEF t
<1>2. ASSUME NEW i \in 0 .. Len(s) + 1 PROVE Answered(t, i) <=> Answered(s, i)
    <2>1. \A j \in 1 .. i - 1 : t[j] = s[j]
        BY <1>1
    <2> QED BY <2>1 DEF Answered
<1>3. ASSUME NEW i \in 0 .. Len(s) + 1 PROVE Astray(t, i) <=> Astray(s, i)
    <2>1. \A j \in 1 .. i - 1 : t[j] = s[j] /\ (Answered(t, j) <=> Answered(s, j))
        BY <1>1, <1>2
    <2> QED BY <2>1 DEF Astray
<1>4. ASSUME NEW i \in 1 .. Len(s) PROVE IsMedia(t, i) <=> IsMedia(s, i)
    <2>1. t[i] = s[i] /\ i \in 0 .. Len(s) + 1
        BY <1>1
    <2> QED BY <2>1, <1>2, <1>3 DEF IsMedia
<1> QED BY <1>1, <1>2, <1>3, <1>4 DEF t

LEMMA RestGrows ==
    ASSUME NEW s \in Seq(Unit), NEW u \in Unit, NEW r, RestOf(s, r)
    PROVE  \E q : /\ RestOf(Append(s, u), q)
                  /\ \A i \in 0 .. Len(s) : q[i] = r[i] \o Bytes(Len(s) + 1, u)
<1> DEFINE n == Len(s)
           t == Append(s, u)
           b == Bytes(n + 1, u)
           q == [i \in 0 .. n + 1 |-> IF i = n + 1 THEN <<>> ELSE r[i] \o b]
<1>1. n \in Nat /\ Len(t) = n + 1 /\ t[n + 1] = u /\ \A i \in 1 .. n : t[i] = s[i]
    OBVIOUS
<1>2. b \in Seq(Nat)
    <2>1. n + 1 \in Nat BY <1>1
    <2> HIDE DEF n
    <2> QED BY <2>1, UnitIsBytes
<1>3. ASSUME NEW i \in 1 .. n PROVE Bytes(i, s[i]) \in Seq(Nat)
    <2>1. i \in Nat /\ s[i] \in Unit OBVIOUS
    <2> QED BY <2>1, UnitIsBytes
<1>4. /\ \A i \in 0 .. n : r[i] \in Seq(Nat)
      /\ r[n] = <<>>
      /\ \A i \in 1 .. n : r[i - 1] = Bytes(i, s[i]) \o r[i]
    BY DEF RestOf
<1> HIDE DEF n, t, b
<1>5. q \in [0 .. n + 1 -> Seq(Nat)]
    <2>1. \A i \in 0 .. n : r[i] \o b \in Seq(Nat)
        BY <1>2, <1>4
    <2>2. \A i \in 0 .. n + 1 : i # n + 1 => i \in 0 .. n
        BY <1>1
    <2> QED BY <2>1, <2>2
<1>6. \A i \in 0 .. n : q[i] = r[i] \o b
    BY <1>1
<1>7. q[n + 1] = <<>>
    BY <1>1
<1> HIDE DEF q
<1>8. ASSUME NEW i \in 1 .. n + 1 PROVE q[i - 1] = Bytes(i, t[i]) \o q[i]
    <2>1. CASE i = n + 1
        <3>1. i - 1 = n /\ n \in 0 .. n
            BY <1>1, <2>1
        <3>2. q[n] = <<>> \o b
            BY <1>4, <1>6, <3>1
        <3>3. Bytes(i, t[i]) = b
            BY <1>1, <2>1 DEF b, n
        <3>4. <<>> \o b = b /\ b \o <<>> = b
            BY <1>2
        <3> QED BY <1>7, <2>1, <3>1, <3>2, <3>3, <3>4
    <2>2. CASE i # n + 1
        <3>1. i \in 1 .. n /\ i \in 0 .. n /\ i - 1 \in 0 .. n
            BY <1>1, <2>2
        <3>2. q[i - 1] = (Bytes(i, s[i]) \o r[i]) \o b
            BY <1>4, <1>6, <3>1
        <3>3. q[i] = r[i] \o b /\ t[i] = s[i]
            BY <1>1, <1>6, <3>1
        <3>4. Bytes(i, s[i]) \in Seq(Nat) /\ r[i] \in Seq(Nat)
            BY <1>3, <1>4, <3>1
        <3>5. (Bytes(i, s[i]) \o r[i]) \o b = Bytes(i, s[i]) \o (r[i] \o b)
            BY <1>2, <3>4, ConcatAssoc, Zenon
        <3> QED BY <3>2, <3>3, <3>5, Zenon
    <2> QED BY <2>1, <2>2
<1>9. RestOf(t, q)
    BY <1>1, <1>5, <1>7, <1>8 DEF RestOf
<1>10. \A i \in 0 .. Len(s) : q[i] = r[i] \o Bytes(Len(s) + 1, u)
    BY <1>6 DEF n, b
<1> QED BY <1>9, <1>10, Zenon DEF t

\* A prefix stays one.
LEMMA PrefixGrows ==
    ASSUME NEW x \in Seq(Seq(Nat)), NEW y \in Seq(Seq(Nat)), NEW p \in Seq(Nat),
           IsPrefix(x, y)
    PROVE  IsPrefix(x, Append(y, p))
BY DEF IsPrefix

\* A payload is handed on as bytes.
LEMMA MediaPayload ==
    ASSUME NEW s \in Seq(Unit), NEW i \in 1 .. Len(s), s[i].kind = "frame"
    PROVE  s[i] \in Frames /\ s[i].len \in 0 .. 3 /\ Payload(i, s[i].len) \in Seq(Nat)
<1>1. s[i] \in Unit /\ i \in Nat
    OBVIOUS
<1>2. s[i] \in Frames
    BY <1>1, KindOfUnit
<1>3. s[i].len \in 0 .. 3
    BY <1>2, PumpAssumption
<1> QED BY <1>1, <1>2, <1>3, PayloadIsBytes

LEMMA MediaGrows ==
    ASSUME NEW s \in Seq(Unit), NEW u \in Unit, NEW h, MediaUpTo(s, h)
    PROVE  \E g : MediaUpTo(Append(s, u), g) /\ \A i \in 0 .. Len(s) : g[i] = h[i]
<1> DEFINE n == Len(s)
           t == Append(s, u)
           new == IF IsMedia(t, n + 1) THEN Append(h[n], Payload(n + 1, t[n + 1].len)) ELSE h[n]
           g == [i \in 0 .. n + 1 |-> IF i = n + 1 THEN new ELSE h[i]]
<1>1. /\ t \in Seq(Unit) /\ Len(t) = n + 1 /\ t[n + 1] = u
      /\ \A i \in 1 .. n : t[i] = s[i]
      /\ \A i \in 0 .. n + 1 : Answered(t, i) <=> Answered(s, i)
      /\ \A i \in 1 .. n : IsMedia(t, i) <=> IsMedia(s, i)
    BY SentGrows
<1>2. n \in Nat
    OBVIOUS
<1>3. /\ \A i \in 0 .. n : h[i] \in Seq(Seq(Nat))
      /\ h[0] = <<>>
      /\ \A i \in 1 .. n :
            h[i] = IF IsMedia(s, i) THEN Append(h[i - 1], Payload(i, s[i].len)) ELSE h[i - 1]
    BY DEF MediaUpTo
<1>4. \A i \in 0 .. n : ~Answered(s, i) => h[i] = <<>>
    BY DEF MediaUpTo
<1>5. \A i \in 1 .. n, m \in 0 .. n :
          i <= m /\ s[i].kind = "stray" /\ Answered(s, i) => h[m] = h[i - 1]
    BY DEF MediaUpTo
<1>6. \A i, m \in 0 .. n : i <= m => IsPrefix(h[i], h[m])
    BY DEF MediaUpTo
<1> HIDE DEF n, t
<1>7. n \in 0 .. n /\ h[n] \in Seq(Seq(Nat))
    BY <1>2, <1>3
<1>8. new \in Seq(Seq(Nat)) /\ IsPrefix(h[n], new)
    <2>1. CASE IsMedia(t, n + 1)
        <3>1. t[n + 1].kind = "frame" /\ n + 1 \in 1 .. Len(t)
            BY <1>1, <1>2, <2>1 DEF IsMedia
        <3> DEFINE p == Payload(n + 1, t[n + 1].len)
        <3>2. p \in Seq(Nat)
            BY <1>1, <3>1, MediaPayload
        <3>3. new = Append(h[n], p)
            BY <2>1
        <3> HIDE DEF p, new
        <3>4. IsPrefix(h[n], h[n])
            BY <1>2, <1>6, <1>7
        <3> QED BY <1>7, <3>2, <3>3, <3>4, PrefixGrows
    <2>2. CASE ~IsMedia(t, n + 1)
        <3>1. IsPrefix(h[n], h[n])
            BY <1>2, <1>6, <1>7
        <3> QED BY <1>7, <2>2, <3>1
    <2> QED BY <2>1, <2>2
<1>9. /\ g \in [0 .. n + 1 -> Seq(Seq(Nat))]
      /\ g[n + 1] = new
      /\ \A i \in 0 .. n : g[i] = h[i]
    <2> HIDE DEF new
    <2>1. \A i \in 0 .. n + 1 : i # n + 1 => i \in 0 .. n
        BY <1>2
    <2> QED BY <1>2, <1>3, <1>8, <2>1
<1>10. ASSUME NEW i \in 1 .. n + 1
       PROVE  g[i] = IF IsMedia(t, i) THEN Append(g[i - 1], Payload(i, t[i].len)) ELSE g[i - 1]
    <2> HIDE DEF g
    <2>1. CASE i = n + 1
        <3>1. i - 1 = n
            BY <1>2, <2>1
        <3>2. g[i] = new /\ g[i - 1] = h[n]
            BY <1>7, <1>9, <2>1, <3>1
        <3> QED BY <2>1, <3>2, Zenon
    <2>2. CASE i # n + 1
        <3>1. i \in 1 .. n /\ i \in 0 .. n /\ i - 1 \in 0 .. n
            BY <1>2, <2>2
        <3>2. g[i] = h[i] /\ g[i - 1] = h[i - 1] /\ t[i] = s[i]
              /\ (IsMedia(t, i) <=> IsMedia(s, i))
            BY <1>1, <1>9, <3>1
        <3> QED BY <1>3, <3>1, <3>2
    <2> QED BY <2>1, <2>2
<1> HIDE DEF g
<1>11. ASSUME NEW i \in 0 .. n + 1, ~Answered(t, i) PROVE g[i] = <<>>
    <2>1. CASE i = n + 1
        <3>1. ~Answered(t, n)
            BY <1>2, <1>11, <2>1 DEF Answered
        <3>2. h[n] = <<>>
            BY <1>1, <1>2, <1>4, <1>7, <3>1
        <3>3. ~IsMedia(t, n + 1)
            BY <1>11, <2>1 DEF IsMedia
        <3> QED BY <1>9, <2>1, <3>2, <3>3
    <2>2. CASE i # n + 1
        <3>1. i \in 0 .. n
            BY <1>2, <2>2
        <3> QED BY <1>1, <1>4, <1>9, <1>11, <3>1
    <2> QED BY <2>1, <2>2
<1>12. ASSUME NEW i \in 1 .. n + 1, NEW m \in 0 .. n + 1,
              i <= m, t[i].kind = "stray", Answered(t, i)
       PROVE  g[m] = g[i - 1]
    <2>1. CASE m = n + 1
        <3>1. ~IsMedia(t, n + 1)
            <4>1. CASE i = n + 1
                BY <1>12, <4>1 DEF IsMedia
            <4>2. CASE i # n + 1
                <5>1. i \in 1 .. (n + 1) - 1
                    BY <1>2, <4>2
                <5>2. Astray(t, n + 1)
                    BY <1>12, <5>1 DEF Astray
                <5> QED BY <5>2 DEF IsMedia
            <4> QED BY <4>1, <4>2
        <3>2. g[m] = h[n]
            BY <1>9, <2>1, <3>1
        <3>3. CASE i = n + 1
            <4>1. i - 1 = n
                BY <1>2, <3>3
            <4> QED BY <1>7, <1>9, <3>2, <4>1
        <3>4. CASE i # n + 1
            <4>1. i \in 1 .. n /\ i <= n /\ i - 1 \in 0 .. n /\ i \in 0 .. n + 1
                BY <1>2, <3>4
            <4>2. s[i].kind = "stray" /\ Answered(s, i)
                BY <1>1, <1>12, <4>1
            <4>3. h[n] = h[i - 1]
                BY <1>5, <1>7, <4>1, <4>2
            <4> QED BY <1>9, <3>2, <4>1, <4>3
        <3> QED BY <3>3, <3>4
    <2>2. CASE m # n + 1
        <3>1. i \in 1 .. n /\ m \in 0 .. n /\ i - 1 \in 0 .. n /\ i \in 0 .. n + 1
            BY <1>2, <1>12, <2>2
        <3>2. s[i].kind = "stray" /\ Answered(s, i)
            BY <1>1, <1>12, <3>1
        <3>3. h[m] = h[i - 1]
            BY <1>5, <1>12, <3>1, <3>2
        <3> QED BY <1>9, <3>1, <3>3
    <2> QED BY <2>1, <2>2
<1>13. ASSUME NEW i \in 0 .. n + 1, NEW m \in 0 .. n + 1, i <= m
       PROVE  IsPrefix(g[i], g[m])
    <2>1. CASE m = n + 1
        <3>1. CASE i = n + 1
            <4>1. \A x \in Seq(Seq(Nat)) : IsPrefix(x, x)
                BY DEF IsPrefix
            <4> QED BY <1>8, <1>9, <2>1, <3>1, <4>1
        <3>2. CASE i # n + 1
            <4>1. i \in 0 .. n /\ i <= n
                BY <1>2, <3>2
            <4>2. g[i] = h[i] /\ g[m] = new /\ IsPrefix(h[i], h[n])
                BY <1>6, <1>7, <1>9, <2>1, <4>1
            <4>3. IsPrefix(h[i], new)
                <5>1. \A x, y, z \in Seq(Seq(Nat)) :
                          IsPrefix(x, y) /\ IsPrefix(y, z) => IsPrefix(x, z)
                    BY DEF IsPrefix
                <5> HIDE DEF new
                <5> QED BY <1>3, <1>7, <1>8, <4>1, <4>2, <5>1
            <4> QED BY <4>2, <4>3
        <3> QED BY <3>1, <3>2
    <2>2. CASE m # n + 1
        <3>1. i \in 0 .. n /\ m \in 0 .. n
            BY <1>2, <1>13, <2>2
        <3> QED BY <1>6, <1>9, <1>13, <3>1
    <2> QED BY <2>1, <2>2
<1>14. g[0] = <<>>
    BY <1>2, <1>3, <1>9
<1>15. MediaUpTo(t, g)
    <2> HIDE DEF new
    <2>1. Len(t) = n + 1 /\ g \in [0 .. n + 1 -> Seq(Seq(Nat))]
        BY <1>1, <1>9
    <2> QED BY <1>10, <1>11, <1>12, <1>13, <1>14, <2>1 DEF MediaUpTo
<1>16. \A i \in 0 .. Len(s) : g[i] = h[i]
    BY <1>9 DEF n
<1> QED BY <1>15, <1>16, Zenon DEF t

\* The media of a stream are those up to its last unit.
LEMMA MediaOfStream ==
    ASSUME NEW s \in Seq(Unit), NEW h, MediaUpTo(s, h)
    PROVE  MediaOf(s) = h[Len(s)]
<1> DEFINE n == Len(s)
           upto[i \in 0 .. n] ==
               IF i = 0 THEN <<>>
               ELSE IF IsMedia(s, i) THEN Append(upto[i - 1], Payload(i, s[i].len))
               ELSE upto[i - 1]
           same == {i \in 0 .. n : upto[i] = h[i]}
<1>1. /\ n \in Nat /\ h \in [0 .. n -> Seq(Seq(Nat))]
      /\ h[0] = <<>>
      /\ \A i \in 1 .. n :
            h[i] = IF IsMedia(s, i) THEN Append(h[i - 1], Payload(i, s[i].len)) ELSE h[i - 1]
    BY DEF MediaUpTo
<1>2. h = [i \in 0 .. n |->
              IF i = 0 THEN <<>>
              ELSE IF IsMedia(s, i) THEN Append(h[i - 1], Payload(i, s[i].len))
              ELSE h[i - 1]]
    <2> HIDE DEF n
    <2>1. \A i \in 0 .. n : i # 0 => i \in 1 .. n
        BY <1>1
    <2> QED BY <1>1, <2>1
<1>3. upto = [i \in 0 .. n |->
              IF i = 0 THEN <<>>
              ELSE IF IsMedia(s, i) THEN Append(upto[i - 1], Payload(i, s[i].len))
              ELSE upto[i - 1]]
    BY <1>2
<1>4. MediaOf(s) = upto[n]
    BY DEF MediaOf
<1> HIDE DEF upto
<1>5. 0 \in same
    BY <1>1, <1>3
<1>6. ASSUME NEW i \in 0 .. n - 1, i \in same PROVE i + 1 \in same
    <2>1. i + 1 \in 0 .. n /\ i + 1 # 0 /\ (i + 1) - 1 = i /\ i + 1 \in 1 .. n
        <3>1. n \in Nat BY <1>1
        <3> HIDE DEF n
        <3> QED BY <3>1
    <2>2. upto[i] = h[i]
        BY <1>6
    <2>3. upto[i + 1] = IF IsMedia(s, i + 1) THEN Append(upto[i], Payload(i + 1, s[i + 1].len))
                        ELSE upto[i]
        <3> HIDE DEF n
        <3> QED BY <1>3, <2>1
    <2>4. h[i + 1] = IF IsMedia(s, i + 1) THEN Append(h[i], Payload(i + 1, s[i + 1].len))
                     ELSE h[i]
        <3> HIDE DEF n
        <3> QED BY <1>1, <2>1
    <2> QED BY <2>1, <2>2, <2>3, <2>4
<1>7. n \in same
    <2> HIDE DEF n, same
    <2>1. n \in Nat /\ \A i \in 0 .. n - 1 : i \in same => i + 1 \in same
        BY <1>1, <1>6
    <2>2. \A i \in 0 .. n : i \in same
        BY <1>5, <2>1, UnitInduction, Zenon
    <2> QED BY <2>1, <2>2
<1> QED BY <1>4, <1>7

-----------------------------------------------------------------------------
(* Where the pump is in the stream.                                        *)

PlayAt == {"play", "readPlay"}
PumpAt == {"pump", "readFrame", "response", "readResponse"}

NoEnd(q) == \A i \in 1 .. Len(q) : q[i] # EmptyLine

\* The first empty line of the stream ends its first message.
FirstMessage(s, r) ==
    \/ ~Answered(s, Len(s) + 1) /\ NoEnd(r[0])
    \/ \E k \in 1 .. Len(s), q \in Seq(Nat) :
          /\ s[k].kind = "response" /\ ~Answered(s, k)
          /\ NoEnd(q) /\ r[0] = q \o r[k - 1]

\* u units have been taken from the stream and the handler has their media;
\* what was read and not yet used begins with the next unit.
Position(r, h, u) ==
    /\ RestOf(sent, r) /\ MediaUpTo(sent, h)
    /\ u \in 0 .. Len(sent) /\ handled = h[u]
    /\ pc \in PlayAt => u = 0 /\ buffer \o wire = r[0] /\ FirstMessage(sent, r)
    /\ pc \in PumpAt =>
          buffer \o wire = r[u] /\ Answered(sent, u + 1) /\ ~Astray(sent, u + 1)

StreamInv == \E r, h, u : Position(r, h, u)

\* The end of the message in front of the buffer, its body included.
MessageEnd ==
    Min(HeaderEnds) + (IF HeaderOf(buffer[Min(HeaderEnds) - 1]) = "ok1" THEN 1 ELSE 0)

\* What the pump is about when it waits for more.
WaitInv ==
    /\ pc \in {"response", "readResponse"} => StartsResponse
    /\ pc = "readFrame" => ~StartsResponse /\ ~FrameComplete
    /\ pc = "readResponse" => HeaderEnds = {} \/ Len(buffer) < MessageEnd

LEMMA WaitStep ==
    ASSUME FlowInv, WaitInv, [Next]_vars
    PROVE  WaitInv'
<1> USE DEF bufferVars, serverVars, mediaVars, outcomeVars
<1>1. ASSUME NEW at, NEW to, readBytes(at, to),
             <<at, to>> \in { <<"readPlay", "play">>, <<"readFrame", "pump">>,
                             <<"readResponse", "response">> }
      PROVE  WaitInv'
    <2>1. pc = at /\ pc' = to
        BY <1>1 DEF readBytes, Goto
    <2>2. CASE to # "response"
        BY <1>1, <2>1, <2>2 DEF WaitInv
    <2>3. CASE to = "response"
        <3>1. StartsResponse
            BY <1>1, <2>1, <2>3 DEF WaitInv
        <3>2. PICK n \in 1 .. Len(wire) : buffer' = buffer \o SubSeq(wire, 1, n)
            BY <1>1 DEF readBytes
        <3>3. SubSeq(wire, 1, n) \in Seq(Nat)
            BY DEF FlowInv
        <3>4. StartsResponse'
            <4> DEFINE x == SubSeq(wire, 1, n)
            <4>1. x \in Seq(Nat) /\ buffer \in Seq(Nat) /\ buffer' = buffer \o x
                BY <3>2, <3>3 DEF FlowInv
            <4> HIDE DEF x
            <4>2. Len(buffer) >= 2 /\ buffer[1] = 82 /\ buffer[2] = 47
                BY <3>1, <4>1 DEF StartsResponse, IsPrefix, Prefix
            <4>3. Len(buffer') >= 2 /\ buffer'[1] = 82 /\ buffer'[2] = 47
                BY <4>1, <4>2
            <4>4. buffer' \in Seq(Nat)
                BY <4>1
            <4> QED BY <4>3, <4>4 DEF StartsResponse, IsPrefix, Prefix
        <3> QED BY <2>1, <2>3, <3>4 DEF WaitInv
    <2> QED BY <2>2, <2>3
<1>2. ASSUME NEW at, readFails(at) PROVE WaitInv'
    BY <1>2 DEF readFails, Return, WaitInv
<1>3. CASE playAnswered
    <2>1. pc' \in {"readPlay", "pump", "return"}
        BY <1>3 DEF playAnswered, readResponse, Goto, Return
    <2> QED BY <2>1 DEF WaitInv
<1>4. CASE responseSkipped
    <2>1. StartsResponse
        BY <1>4 DEF responseSkipped, readResponse, WaitInv
    <2>2. CASE pc' \in {"pump", "return"}
        BY <2>2 DEF WaitInv
    <2>3. CASE HeaderEnds = {} /\ UNCHANGED buffer /\ pc' = "readResponse"
        BY <2>1, <2>3 DEF WaitInv, StartsResponse, HeaderEnds
    <2>4. CASE HeaderEnds # {} /\ UNCHANGED buffer /\ pc' = "readResponse"
               /\ Len(buffer) < MessageEnd
        <3>1. StartsResponse' /\ HeaderEnds' = HeaderEnds /\ MessageEnd' = MessageEnd
            BY <2>1, <2>4 DEF StartsResponse, HeaderEnds, MessageEnd
        <3> QED BY <2>4, <3>1 DEF WaitInv
    <2>5. \A end : Parsed(end) = {HeaderOf(buffer[end - 1])}
        BY <2>1 DEF Parsed
    <2> QED BY <1>4, <2>2, <2>3, <2>4, <2>5
            DEF responseSkipped, readResponse, Goto, Return, MessageEnd
<1>5. CASE pumpTurn
    <2>1. CASE pc' = "response"
        <3>1. StartsResponse /\ UNCHANGED buffer
            BY <1>5, <2>1 DEF pumpTurn, handle, Goto, Return
        <3> QED BY <2>1, <3>1 DEF WaitInv, StartsResponse
    <2>2. CASE pc' = "readFrame"
        <3>1. ~StartsResponse /\ ~FrameComplete /\ UNCHANGED buffer
            BY <1>5, <2>2 DEF pumpTurn, handle, Goto, Return
        <3> QED BY <2>2, <3>1 DEF WaitInv, StartsResponse, FrameComplete, frameLength
    <2>3. CASE pc' \in {"return", "pump"}
        BY <2>3 DEF WaitInv
    <2> QED BY <1>5, <2>1, <2>2, <2>3 DEF pumpTurn, handle, Goto, Return
<1>6. CASE finishPlayback
    BY <1>6 DEF finishPlayback, WaitInv
<1>7. CASE UNCHANGED <<pc, buffer>>
    <2>1. /\ StartsResponse' <=> StartsResponse
          /\ FrameComplete' <=> FrameComplete
          /\ HeaderEnds' = HeaderEnds
          /\ MessageEnd' = MessageEnd
        BY <1>7 DEF StartsResponse, FrameComplete, frameLength, HeaderEnds, MessageEnd
    <2> QED BY <1>7, <2>1 DEF WaitInv
<1>8. ASSUME NEW u \in Unit, serverSends(u) PROVE WaitInv'
    BY <1>7, <1>8 DEF serverSends
<1> QED BY <1>1, <1>2, <1>3, <1>4, <1>5, <1>6, <1>7, <1>8
        DEF Next, LocalStep, ReadStep, watch, serverCloses, clientLeaves, cancelContext, vars

\* A read moves bytes and loses none.
LEMMA ReadKeepsStream ==
    ASSUME NEW a \in Seq(Nat), NEW w \in Seq(Nat), NEW n \in 1 .. Len(w)
    PROVE  (a \o SubSeq(w, 1, n)) \o SubSeq(w, n + 1, Len(w)) = a \o w
<1> DEFINE x == SubSeq(w, 1, n)
           y == SubSeq(w, n + 1, Len(w))
<1>1. x \in Seq(Nat) /\ Len(x) = n /\ \A k \in 1 .. n : x[k] = w[k]
    OBVIOUS
<1>2. y \in Seq(Nat) /\ Len(y) = Len(w) - n /\ \A k \in 1 .. Len(w) - n : y[k] = w[n + k]
    OBVIOUS
<1> HIDE DEF x, y
<1>3. /\ x \o y \in Seq(Nat) /\ Len(x \o y) = Len(w)
      /\ \A k \in 1 .. Len(x) : (x \o y)[k] = x[k]
    <2> DEFINE z == x \o y
    <2>1. /\ z \in Seq(Nat) /\ Len(z) = Len(x) + Len(y)
          /\ \A k \in 1 .. Len(x) : z[k] = x[k]
        <3>1. x \in Seq(Nat) /\ y \in Seq(Nat)
            BY <1>1, <1>2
        <3> QED BY <3>1, ConcatAt, Zenon
    <2> HIDE DEF z
    <2>2. Len(z) = Len(w)
        <3>1. Len(w) \in Nat /\ n \in Nat /\ Len(x) = n /\ Len(y) = Len(w) - n
            BY <1>1, <1>2
        <3> QED BY <2>1, <3>1
    <2> QED BY <2>1, <2>2, Zenon DEF z
<1>4. ASSUME NEW k \in 1 .. Len(w) PROVE (x \o y)[k] = w[k]
    <2>1. CASE k <= n
        <3>1. k \in 1 .. n /\ k \in 1 .. Len(x)
            BY <1>1, <2>1
        <3>2. x[k] = w[k]
            BY <1>1, <3>1
        <3> QED BY <1>3, <3>1, <3>2, Zenon
    <2>2. CASE k > n
        <3> DEFINE j == k - n
        <3>1. j \in 1 .. Len(y) /\ k = n + j
            <4>1. Len(w) \in Nat /\ Len(y) = Len(w) - n BY <1>2
            <4> QED BY <2>2, <4>1
        <3> HIDE DEF j
        <3>2. (x \o y)[Len(x) + j] = y[j]
            BY <1>1, <1>2, <3>1, ConcatBehind, Zenon
        <3>3. y[j] = w[n + j]
            BY <1>2, <3>1
        <3> QED BY <1>1, <3>1, <3>2, <3>3
    <2>3. k <= n \/ k > n OBVIOUS
    <2> QED BY <2>1, <2>2, <2>3, Zenon
<1>5. x \o y = w
    BY <1>3, <1>4, SameSequence
<1>6. (a \o x) \o y = a \o (x \o y)
    BY <1>1, <1>2, ConcatAssoc
<1> QED BY <1>5, <1>6 DEF x, y

\* Where a part of the stream is in it.
LEMMA PartAt ==
    ASSUME NEW q \in Seq(Nat), NEW b \in Seq(Nat), NEW rest \in Seq(Nat)
    PROVE  /\ \A k \in 1 .. Len(q) : (q \o (b \o rest))[k] = q[k]
           /\ \A k \in 1 .. Len(b) : (q \o (b \o rest))[Len(q) + k] = b[k]
<1> DEFINE c == b \o rest
<1>1. c \in Seq(Nat) /\ Len(c) = Len(b) + Len(rest) /\ \A k \in 1 .. Len(b) : c[k] = b[k]
    OBVIOUS
<1> HIDE DEF c
<1>2. ASSUME NEW k \in 1 .. Len(q) PROVE (q \o c)[k] = q[k]
    BY <1>1
<1>3. ASSUME NEW k \in 1 .. Len(b) PROVE (q \o c)[Len(q) + k] = b[k]
    <2>1. c \in Seq(Nat) /\ k \in 1 .. Len(c)
        BY <1>1
    <2>2. (q \o c)[Len(q) + k] = c[k]
        BY <2>1, ConcatBehind, Zenon
    <2> QED BY <1>1, <2>2
<1>4. (\A k \in 1 .. Len(q) : (q \o c)[k] = q[k])
      /\ \A k \in 1 .. Len(b) : (q \o c)[Len(q) + k] = b[k]
    BY <1>2, <1>3, Zenon
<1> QED BY <1>4, Zenon DEF c

\* The first empty line behind q is the one of the message that follows it.
LEMMA HeaderCut ==
    ASSUME FlowInv, HeaderEnds # {},
           NEW q \in Seq(Nat), NoEnd(q), NEW hd \in HeaderKind, NEW w,
           \A k \in 1 .. Len(buffer) : buffer[k] = w[k],
           \A k \in 1 .. Len(q) : w[k] = q[k],
           w[Len(q) + 1] = 82, w[Len(q) + 2] = 47, w[Len(q) + 3] = HeaderByte[hd],
           w[Len(q) + 4] = EmptyLine
    PROVE  /\ Min(HeaderEnds) = Len(q) + 4
           /\ HeaderOf(buffer[Min(HeaderEnds) - 1]) = hd
<1> DEFINE e == Min(HeaderEnds)
           n == Len(q)
<1>1. HeaderByte[hd] \in 100 .. 104 /\ HeaderOf(HeaderByte[hd]) = hd
    BY HeaderOfByte
<1>2. e \in 1 .. Len(buffer) /\ buffer[e] = 13
    BY HeaderEndIsLeast DEF HeaderEnds, EmptyLine
<1>3. \A y \in 1 .. Len(buffer) : buffer[y] = 13 => e <= y
    BY HeaderEndIsLeast DEF HeaderEnds, EmptyLine
<1>4. n \in Nat /\ Len(buffer) \in Nat /\ w[e] = 13
    BY <1>2 DEF FlowInv
<1>5. \A k \in 1 .. n : w[k] # 13
    BY DEF NoEnd, EmptyLine
<1>6. w[n + 1] = 82 /\ w[n + 2] = 47 /\ w[n + 3] = HeaderByte[hd] /\ w[n + 4] = 13
    BY DEF EmptyLine
<1> HIDE DEF e, n
<1>7. ~ (e <= n)
    BY <1>2, <1>4, <1>5
<1>8. e # n + 1 /\ e # n + 2 /\ e # n + 3
    <2>1. w[n + 1] # w[e] /\ w[n + 2] # w[e] /\ w[n + 3] # w[e]
        <3>1. 82 # 13 /\ 47 # 13 /\ HeaderByte[hd] # 13
            BY <1>1
        <3> QED BY <1>4, <1>6, <3>1, Zenon
    <2> QED BY <2>1, Zenon
<1>9. ~ (e > n + 4)
    <2> SUFFICES ASSUME e > n + 4 PROVE FALSE
        OBVIOUS
    <2>1. n + 4 \in 1 .. Len(buffer)
        BY <1>2, <1>4
    <2>2. buffer[n + 4] = 13
        BY <1>6, <2>1
    <2> QED BY <1>2, <1>3, <1>4, <2>1, <2>2
<1>10. e = n + 4
    BY <1>2, <1>4, <1>7, <1>8, <1>9
<1>11. buffer[e - 1] = HeaderByte[hd]
    <2>1. e - 1 = n + 3 /\ e - 1 \in 1 .. Len(buffer)
        BY <1>2, <1>4, <1>10
    <2> QED BY <1>6, <2>1
<1> QED BY <1>1, <1>10, <1>11 DEF e, n

\* The unit at a position, of which the stream from there on begins.
LEMMA NextUnit ==
    ASSUME FlowInv, NEW r, NEW u \in 0 .. Len(sent), RestOf(sent, r),
           buffer \o wire = r[u], Len(buffer) > 0
    PROVE  /\ u + 1 \in 1 .. Len(sent) /\ u + 1 \in Nat
           /\ sent[u + 1] \in Unit
           /\ r[u + 1] \in Seq(Nat)
           /\ buffer \o wire = Bytes(u + 1, sent[u + 1]) \o r[u + 1]
<1>1. Len(sent) \in Nat
    BY DEF FlowInv
<1>2. Len(buffer \o wire) > 0
    BY DEF FlowInv
<1>3. u # Len(sent)
    BY <1>2 DEF RestOf
<1>4. u + 1 \in 1 .. Len(sent) /\ u + 1 \in Nat /\ u + 1 \in 0 .. Len(sent)
      /\ (u + 1) - 1 = u
    BY <1>1, <1>3
<1>5. sent[u + 1] \in Unit
    BY <1>4 DEF FlowInv
<1>6. r[u + 1] \in Seq(Nat) /\ r[(u + 1) - 1] = Bytes(u + 1, sent[u + 1]) \o r[u + 1]
    BY <1>4 DEF RestOf
<1> QED BY <1>4, <1>5, <1>6

\* The bytes of the unit in front, as far as they have been read.
LEMMA FrontBytes ==
    ASSUME FlowInv, NEW b \in Seq(Nat), NEW rest \in Seq(Nat), buffer \o wire = b \o rest
    PROVE  \A k \in 1 .. Len(b) : k <= Len(buffer) => buffer[k] = b[k]
<1>1. ASSUME NEW k \in 1 .. Len(b), k <= Len(buffer) PROVE buffer[k] = b[k]
    <2>1. (b \o rest)[k] = b[k]
        OBVIOUS
    <2>2. (buffer \o wire)[k] = buffer[k]
        <3>1. k \in 1 .. Len(buffer) BY <1>1 DEF FlowInv
        <3> QED BY <3>1 DEF FlowInv
    <2> QED BY <2>1, <2>2
<1> QED BY <1>1

LEMMA BufferInStream ==
    ASSUME FlowInv
    PROVE  \A k \in 1 .. Len(buffer) : buffer[k] = (buffer \o wire)[k]
BY DEF FlowInv

\* What is ahead, read or under way.
Ahead(x) == buffer \o wire = x

\* The bytes of a message with header hd.
Message(b, hd) ==
    /\ b \in Seq(Nat) /\ Len(b) = 4 + (IF hd = "ok1" THEN 1 ELSE 0)
    /\ b[1] = 82 /\ b[2] = 47 /\ b[3] = HeaderByte[hd] /\ b[4] = EmptyLine

\* Taking the message behind q from the buffer leaves what follows it.
LEMMA MessageCut ==
    ASSUME FlowInv, HeaderEnds # {},
           NEW q \in Seq(Nat), NoEnd(q), NEW hd \in HeaderKind,
           NEW rest \in Seq(Nat), NEW b, Message(b, hd), Ahead(q \o (b \o rest))
    PROVE  /\ HeaderOf(buffer[Min(HeaderEnds) - 1]) = hd
           /\ MessageEnd = Len(q) + Len(b) /\ MessageEnd \in Nat
           /\ Len(buffer) >= MessageEnd =>
                 SubSeq(buffer, MessageEnd + 1, Len(buffer)) \o wire = rest
<1>1. b \in Seq(Nat) /\ Len(b) = 4 + (IF hd = "ok1" THEN 1 ELSE 0)
    BY DEF Message
<1>2. b[1] = 82 /\ b[2] = 47 /\ b[3] = HeaderByte[hd] /\ b[4] = EmptyLine
    BY DEF Message
<1> DEFINE w == buffer \o wire
           z == q \o (b \o rest)
           x == q \o b
<1>3. \A k \in 1 .. Len(buffer) : buffer[k] = w[k]
    BY BufferInStream
<1>4. /\ \A k \in 1 .. Len(q) : z[k] = q[k]
      /\ \A k \in 1 .. Len(b) : z[Len(q) + k] = b[k]
    BY <1>1, PartAt
<1>5. w = z
    BY Zenon DEF Ahead
<1>6. x \in Seq(Nat) /\ Len(x) = Len(q) + Len(b)
    <2>1. b \in Seq(Nat) BY <1>1
    <2> QED BY <2>1
<1>7. z = x \o rest
    BY <1>1, ConcatAssoc
<1>8. Len(q) \in Nat
    OBVIOUS
<1> HIDE DEF w, z, x
<1>9. /\ w[Len(q) + 1] = 82 /\ w[Len(q) + 2] = 47 /\ w[Len(q) + 3] = HeaderByte[hd]
      /\ w[Len(q) + 4] = EmptyLine
      /\ \A k \in 1 .. Len(q) : w[k] = q[k]
    <2>1. 1 \in 1 .. Len(b) /\ 2 \in 1 .. Len(b) /\ 3 \in 1 .. Len(b) /\ 4 \in 1 .. Len(b)
        BY <1>1
    <2>2. z[Len(q) + 1] = b[1] /\ z[Len(q) + 2] = b[2] /\ z[Len(q) + 3] = b[3]
          /\ z[Len(q) + 4] = b[4]
        BY <1>4, <2>1
    <2>3. \A k \in 1 .. Len(q) : w[k] = q[k]
        BY <1>4, <1>5
    <2> QED BY <1>2, <1>5, <2>2, <2>3
<1>10. Min(HeaderEnds) = Len(q) + 4 /\ HeaderOf(buffer[Min(HeaderEnds) - 1]) = hd
    BY <1>3, <1>9, HeaderCut
<1>11. MessageEnd = Len(x) /\ Len(x) \in Nat
    BY <1>1, <1>6, <1>8, <1>10 DEF MessageEnd
<1>12. ASSUME Len(buffer) >= Len(x)
       PROVE  SubSeq(buffer, Len(x) + 1, Len(buffer)) \o wire = rest
    <2>1. buffer \in Seq(Nat) /\ wire \in Seq(Nat) /\ Len(x) <= Len(buffer)
        BY <1>12, <1>11 DEF FlowInv
    <2>2. buffer \o wire = x \o rest
        BY <1>5, <1>7 DEF w
    <2> QED BY <1>6, <2>1, <2>2, DropFront
<1> QED BY <1>6, <1>10, <1>11, <1>12

LEMMA MessageBytes ==
    ASSUME NEW i \in Nat, NEW hd \in HeaderKind
    PROVE  Message(Bytes(i, Response(hd)), hd)
BY ResponseBytes DEF Message

\* A step past a unit that is no stray.
LEMMA StillInStep ==
    ASSUME NEW s, NEW i \in Nat
    PROVE  /\ Answered(s, i) => Answered(s, i + 1)
           /\ s[i].kind = "response" /\ i > 0 => Answered(s, i + 1)
           /\ ~Astray(s, i) /\ s[i].kind # "stray" => ~Astray(s, i + 1)
           /\ ~Answered(s, i) /\ s[i].kind # "stray" => ~Astray(s, i + 1)
<1>1. (i + 1) - 1 = i /\ \A j \in 1 .. i - 1 : j \in 1 .. i
    OBVIOUS
<1>2. \A j \in 1 .. i : j \in 1 .. i - 1 \/ j = i
    OBVIOUS
<1>3. Answered(s, i) => Answered(s, i + 1)
    BY <1>1 DEF Answered
<1>4. s[i].kind = "response" /\ i > 0 => Answered(s, i + 1)
    BY <1>1 DEF Answered
<1>5. ~Astray(s, i) /\ s[i].kind # "stray" => ~Astray(s, i + 1)
    BY <1>1, <1>2 DEF Astray
<1>6. ASSUME ~Answered(s, i), s[i].kind # "stray" PROVE ~Astray(s, i + 1)
    <2>1. \A j \in 1 .. i : ~Answered(s, j)
        BY <1>6 DEF Answered
    <2> QED BY <1>1, <2>1 DEF Astray
<1> QED BY <1>3, <1>4, <1>5, <1>6

LEMMA PlayAnsweredStep ==
    ASSUME FlowInv, StreamInv, playAnswered
    PROVE  StreamInv'
<1> USE DEF serverVars, mediaVars
<1>1. PICK r, h, u : Position(r, h, u)
    BY DEF StreamInv
<1>2. pc = "play" /\ UNCHANGED <<wire, sent, handled>>
    BY DEF playAnswered, readResponse
<1>3. /\ RestOf(sent, r) /\ MediaUpTo(sent, h)
      /\ u = 0 /\ u \in 0 .. Len(sent) /\ handled = h[0] /\ buffer \o wire = r[0]
      /\ FirstMessage(sent, r)
    BY <1>1, <1>2 DEF Position, PlayAt
<1>4. CASE pc' = "return"
    <2>1. Position(r, h, u)'
        BY <1>2, <1>3, <1>4 DEF Position, PlayAt, PumpAt
    <2> QED BY <2>1 DEF StreamInv
<1>5. CASE pc' = "readPlay" /\ UNCHANGED buffer
    <2>1. Position(r, h, u)'
        BY <1>2, <1>3, <1>5 DEF Position, PlayAt, PumpAt
    <2> QED BY <2>1 DEF StreamInv
<1>6. ASSUME HeaderEnds # {}, NEW header \in Parsed(Min(HeaderEnds)), header # "invalid",
             Len(buffer) >= Min(HeaderEnds) + (IF header = "ok1" THEN 1 ELSE 0),
             buffer' = SubSeq(buffer, Min(HeaderEnds) + (IF header = "ok1" THEN 1 ELSE 0) + 1,
                              Len(buffer)),
             pc' = "pump"
      PROVE  StreamInv'
    <2>1. ~NoEnd(r[0])
        <3>1. Min(HeaderEnds) \in 1 .. Len(buffer) /\ buffer[Min(HeaderEnds)] = EmptyLine
            BY <1>6, HeaderEndIsLeast DEF HeaderEnds
        <3> DEFINE e == Min(HeaderEnds)
        <3> HIDE DEF e
        <3>2. e \in 1 .. Len(buffer) /\ buffer[e] = EmptyLine
            BY <3>1 DEF e
        <3>3. e \in 1 .. Len(buffer \o wire) /\ (buffer \o wire)[e] = EmptyLine
            BY <3>2 DEF FlowInv
        <3> QED BY <1>3, <3>3 DEF NoEnd
    <2>2. PICK k \in 1 .. Len(sent), q \in Seq(Nat) :
              /\ sent[k].kind = "response" /\ ~Answered(sent, k)
              /\ NoEnd(q) /\ r[0] = q \o r[k - 1]
        BY <1>3, <2>1 DEF FirstMessage
    <2>3. sent[k] \in Unit /\ k \in Nat /\ k \in 0 .. Len(sent) /\ k > 0
        BY DEF FlowInv
    <2>4. PICK hd \in HeaderKind : sent[k] = Response(hd)
        BY <2>2, <2>3, KindOfUnit
    <2> DEFINE b == Bytes(k, sent[k])
    <2>5. r[k - 1] = b \o r[k] /\ r[k] \in Seq(Nat)
        BY <1>3, <2>3 DEF RestOf
    <2> HIDE DEF b
    <2>6. Ahead(q \o (b \o r[k]))
        BY <1>3, <2>2, <2>5, Zenon DEF Ahead
    <2>7. Message(b, hd)
        BY <2>3, <2>4, MessageBytes DEF b
    <2>8. /\ HeaderOf(buffer[Min(HeaderEnds) - 1]) = hd
          /\ MessageEnd \in Nat
          /\ Len(buffer) >= MessageEnd =>
                SubSeq(buffer, MessageEnd + 1, Len(buffer)) \o wire = r[k]
        BY <1>6, <2>2, <2>5, <2>6, <2>7, MessageCut
    <2>9. header = hd
        BY <1>6, <2>8 DEF Parsed
    <2>10. Len(buffer) >= MessageEnd
           /\ buffer' = SubSeq(buffer, MessageEnd + 1, Len(buffer))
        BY <1>6, <2>8, <2>9 DEF MessageEnd
    <2>11. buffer' \o wire' = r[k]
        BY <1>2, <2>8, <2>10
    <2>12. handled' = h[k]
        <3>1. h[0] = <<>> /\ h[k] = <<>>
            BY <1>3, <2>2, <2>3 DEF MediaUpTo
        <3> QED BY <1>2, <1>3, <3>1
    <2>13. Answered(sent, k + 1) /\ ~Astray(sent, k + 1)
        <3>1. sent[k].kind # "stray"
            BY <2>2
        <3> QED BY <2>2, <2>3, <3>1, StillInStep
    <2>14. Position(r, h, k)'
        BY <1>2, <1>3, <1>6, <2>3, <2>11, <2>12, <2>13 DEF Position, PlayAt, PumpAt
    <2> QED BY <2>14 DEF StreamInv
<1> QED BY <1>4, <1>5, <1>6 DEF playAnswered, readResponse, Goto, Return

\* A unit whose first byte starts a message is a message; one whose first byte
\* is the marker is a frame.
LEMMA FirstByte ==
    ASSUME NEW i \in Nat, NEW u \in Unit
    PROVE  /\ Bytes(i, u) \in Seq(Nat) /\ Len(Bytes(i, u)) >= 1
           /\ Bytes(i, u)[1] = 82 => \E hd \in HeaderKind : u = Response(hd)
           /\ Bytes(i, u)[1] = 36 => u \in Frames
<1>1. i \in Nat
    OBVIOUS
<1>2. CASE u \in Frames
    <2> DEFINE b == Bytes(i, u)
    <2>1. u.len \in 0 .. 3 /\ b \in Seq(Nat) /\ Len(b) = 4 + u.len /\ b[1] = 36
        BY <1>1, <1>2, FrameBytes
    <2> HIDE DEF b
    <2>2. Len(b) >= 1 /\ b[1] # 82
        BY <2>1
    <2> QED BY <1>2, <2>1, <2>2 DEF b
<1>3. ASSUME NEW hd \in HeaderKind, u = Response(hd)
      PROVE  /\ Bytes(i, u) \in Seq(Nat) /\ Len(Bytes(i, u)) >= 1
             /\ Bytes(i, u)[1] # 36
    <2> DEFINE b == Bytes(i, u)
    <2>1. Message(b, hd)
        BY <1>1, <1>3, MessageBytes
    <2> HIDE DEF b
    <2>2. b \in Seq(Nat) /\ Len(b) = 4 + (IF hd = "ok1" THEN 1 ELSE 0) /\ b[1] = 82
        BY <2>1 DEF Message
    <2>3. Len(b) >= 1 /\ b[1] # 36
        BY <2>2
    <2> QED BY <2>2, <2>3 DEF b
<1>4. CASE u = Stray
    <2>1. Bytes(i, u) = <<UnitByte(i)>>
        BY <1>1, <1>4, StrayBytes
    <2> QED BY <2>1 DEF UnitByte
<1> QED BY <1>2, <1>3, <1>4, KindOfUnit

\* The unit in front, told from the first byte of the buffer.
LEMMA FrontUnit ==
    ASSUME FlowInv, NEW r, NEW u \in 0 .. Len(sent), RestOf(sent, r),
           Ahead(r[u]), Len(buffer) > 0
    PROVE  /\ u + 1 \in 1 .. Len(sent) /\ u + 1 \in Nat /\ sent[u + 1] \in Unit
           /\ r[u + 1] \in Seq(Nat) /\ Bytes(u + 1, sent[u + 1]) \in Seq(Nat)
           /\ Ahead(Bytes(u + 1, sent[u + 1]) \o r[u + 1])
           /\ buffer[1] = 82 => \E hd \in HeaderKind : sent[u + 1] = Response(hd)
           /\ buffer[1] = 36 => sent[u + 1] \in Frames
<1>1. buffer \o wire = r[u]
    BY Zenon DEF Ahead
<1>2. /\ u + 1 \in 1 .. Len(sent) /\ u + 1 \in Nat
      /\ sent[u + 1] \in Unit
      /\ r[u + 1] \in Seq(Nat)
      /\ buffer \o wire = Bytes(u + 1, sent[u + 1]) \o r[u + 1]
    BY <1>1, NextUnit
<1> DEFINE b == Bytes(u + 1, sent[u + 1])
<1>3. /\ b \in Seq(Nat) /\ Len(b) >= 1
      /\ b[1] = 82 => \E hd \in HeaderKind : sent[u + 1] = Response(hd)
      /\ b[1] = 36 => sent[u + 1] \in Frames
    BY <1>2, FirstByte
<1> HIDE DEF b
<1>4. buffer[1] = b[1]
    <2>1. 1 \in 1 .. Len(b) /\ 1 <= Len(buffer)
        BY <1>3 DEF FlowInv
    <2>2. buffer \o wire = b \o r[u + 1]
        BY <1>2, Zenon DEF b
    <2> QED BY <1>2, <1>3, <2>1, <2>2, FrontBytes
<1>5. Ahead(b \o r[u + 1])
    BY <1>2, Zenon DEF Ahead, b
<1>6. /\ buffer[1] = 82 => \E hd \in HeaderKind : sent[u + 1] = Response(hd)
      /\ buffer[1] = 36 => sent[u + 1] \in Frames
    BY <1>3, <1>4
<1> QED BY <1>2, <1>3, <1>5, <1>6 DEF b

LEMMA ResponseSkippedStep ==
    ASSUME FlowInv, WaitInv, StreamInv, responseSkipped
    PROVE  StreamInv'
<1> USE DEF serverVars, mediaVars
<1>1. PICK r, h, u : Position(r, h, u)
    BY DEF StreamInv
<1>2. pc = "response" /\ UNCHANGED <<wire, sent, handled>>
    BY DEF responseSkipped, readResponse
<1>3. /\ RestOf(sent, r) /\ MediaUpTo(sent, h)
      /\ u \in 0 .. Len(sent) /\ handled = h[u] /\ Ahead(r[u])
      /\ Answered(sent, u + 1) /\ ~Astray(sent, u + 1)
    BY <1>1, <1>2 DEF Position, PumpAt, Ahead
<1>4. CASE pc' = "return"
    <2>1. Position(r, h, u)'
        BY <1>2, <1>3, <1>4 DEF Position, PlayAt, PumpAt
    <2> QED BY <2>1 DEF StreamInv
<1>5. CASE pc' = "readResponse" /\ UNCHANGED buffer
    <2>1. Position(r, h, u)'
        BY <1>2, <1>3, <1>5 DEF Position, PlayAt, PumpAt, Ahead
    <2> QED BY <2>1 DEF StreamInv
<1>6. ASSUME HeaderEnds # {}, NEW header \in Parsed(Min(HeaderEnds)),
             Len(buffer) >= Min(HeaderEnds) + (IF header = "ok1" THEN 1 ELSE 0),
             buffer' = SubSeq(buffer, Min(HeaderEnds) + (IF header = "ok1" THEN 1 ELSE 0) + 1,
                              Len(buffer)),
             pc' = "pump"
      PROVE  StreamInv'
    <2>1. StartsResponse /\ Len(buffer) > 0 /\ buffer[1] = 82
        <3>1. StartsResponse
            BY <1>2 DEF WaitInv
        <3>2. Len(buffer) >= 2 /\ buffer[1] = 82
            BY <3>1 DEF StartsResponse, IsPrefix, Prefix, FlowInv
        <3> QED BY <3>1, <3>2 DEF FlowInv
    <2> DEFINE k == u + 1
               b == Bytes(k, sent[k])
    <2>2. /\ k \in 1 .. Len(sent) /\ r[k] \in Seq(Nat) /\ b \in Seq(Nat)
          /\ Ahead(b \o r[k])
          /\ \E hd \in HeaderKind : sent[k] = Response(hd)
        BY <1>3, <2>1, FrontUnit
    <2>3. k \in Nat /\ k \in 0 .. Len(sent) /\ k - 1 = u
        BY <1>3, <2>2
    <2> HIDE DEF k, b
    <2>4. PICK hd \in HeaderKind : sent[k] = Response(hd)
        BY <2>2
    <2>5. sent[k].kind = "response"
        BY <2>4 DEF Response
    <2>6. Message(b, hd)
        BY <2>3, <2>4, MessageBytes DEF b
    <2>7. Ahead(<<>> \o (b \o r[k]))
        <3>1. b \o r[k] \in Seq(Nat)
            BY <2>2
        <3>2. <<>> \o (b \o r[k]) = b \o r[k]
            BY <3>1
        <3> QED BY <2>2, <3>2, Zenon
    <2>8. NoEnd(<<>>) /\ <<>> \in Seq(Nat)
        BY DEF NoEnd
    <2>9. /\ HeaderOf(buffer[Min(HeaderEnds) - 1]) = hd
          /\ MessageEnd \in Nat
          /\ Len(buffer) >= MessageEnd =>
                SubSeq(buffer, MessageEnd + 1, Len(buffer)) \o wire = r[k]
        BY <1>6, <2>2, <2>6, <2>7, <2>8, MessageCut
    <2>10. header = hd
        BY <1>6, <2>1, <2>9 DEF Parsed
    <2>11. Len(buffer) >= MessageEnd
           /\ buffer' = SubSeq(buffer, MessageEnd + 1, Len(buffer))
        BY <1>6, <2>9, <2>10 DEF MessageEnd
    <2>12. buffer' \o wire' = r[k]
        BY <1>2, <2>9, <2>11
    <2>13. handled' = h[k]
        <3>1. ~IsMedia(sent, k)
            BY <2>5 DEF IsMedia
        <3>2. h[k] = h[k - 1]
            BY <1>3, <2>2, <3>1 DEF MediaUpTo
        <3> QED BY <1>2, <1>3, <2>3, <3>2
    <2>14. Answered(sent, k + 1) /\ ~Astray(sent, k + 1)
        <3>1. sent[k].kind # "stray" /\ ~Astray(sent, k) /\ Answered(sent, k)
            BY <1>3, <2>5 DEF k
        <3> QED BY <2>3, <3>1, StillInStep
    <2>15. Position(r, h, k)'
        BY <1>2, <1>3, <1>6, <2>3, <2>12, <2>13, <2>14 DEF Position, PlayAt, PumpAt
    <2> QED BY <2>15 DEF StreamInv
<1> QED BY <1>4, <1>5, <1>6 DEF responseSkipped, readResponse, Goto, Return

\* Taking the frame in front of the buffer leaves what follows it, and what is
\* taken is its payload.
LEMMA FrameCut ==
    ASSUME FlowInv, FrameComplete, NEW i \in Nat, NEW f \in Frames, NEW rest \in Seq(Nat),
           Ahead(Bytes(i, f) \o rest)
    PROVE  /\ buffer[2] = f.channel
           /\ SubSeq(buffer, 5, 4 + frameLength) = Payload(i, f.len)
           /\ SubSeq(buffer, 4 + frameLength + 1, Len(buffer)) \o wire = rest
<1> DEFINE b == Bytes(i, f)
<1>1. /\ f.len \in 0 .. 3 /\ b \in Seq(Nat) /\ Len(b) = 4 + f.len
      /\ b[2] = f.channel /\ b[3] * 2 + b[4] = f.len
      /\ \A k \in 1 .. f.len : b[4 + k] = Payload(i, f.len)[k]
    BY FrameBytes
<1>2. Payload(i, f.len) \in [1 .. f.len -> Nat]
    BY <1>1 DEF Payload, interleavedFrameMarker, UnitByte
<1>3. buffer \in Seq(Nat) /\ wire \in Seq(Nat) /\ Len(buffer) >= 4 + frameLength
      /\ Len(buffer) >= 4
    BY DEF FlowInv, FrameComplete
<1> HIDE DEF b
<1>4. buffer \o wire = b \o rest
    BY Zenon DEF Ahead, b
<1>5. \A k \in 1 .. Len(b) : k <= Len(buffer) => buffer[k] = b[k]
    BY <1>1, <1>4, FrontBytes
<1>6. buffer[2] = b[2] /\ buffer[3] = b[3] /\ buffer[4] = b[4]
    <2>1. 2 \in 1 .. Len(b) /\ 3 \in 1 .. Len(b) /\ 4 \in 1 .. Len(b)
        <3>1. f.len \in 0 .. 3 /\ Len(b) = 4 + f.len BY <1>1
        <3> QED BY <3>1
    <2>2. Len(buffer) \in Nat /\ Len(buffer) >= 4 BY <1>3
    <2>3. 2 <= Len(buffer) /\ 3 <= Len(buffer) /\ 4 <= Len(buffer)
        BY <2>2
    <2> QED BY <1>5, <2>1, <2>3
<1>7. frameLength = f.len
    BY <1>1, <1>6 DEF frameLength, LengthBase
<1>8. SubSeq(buffer, 5, 4 + f.len) = Payload(i, f.len)
    <2> DEFINE n == f.len
               p == SubSeq(buffer, 5, 4 + n)
    <2>1. n \in 0 .. 3 /\ Len(buffer) >= 4 + n /\ Len(b) = 4 + n /\ Len(buffer) \in Nat
        BY <1>1, <1>3, <1>7
    <2>2. \A k \in 1 .. n : b[4 + k] = Payload(i, n)[k]
        BY <1>1
    <2>3. Payload(i, n) \in [1 .. n -> Nat]
        BY <1>2
    <2> HIDE DEF n
    <2>4. p \in [1 .. n -> Nat] /\ \A k \in 1 .. n : p[k] = buffer[4 + k]
        <3>1. buffer \in Seq(Nat) BY <1>3
        <3>2. p \in Seq(Nat) /\ Len(p) = n /\ \A k \in 1 .. n : p[k] = buffer[4 + k]
            BY <2>1, <3>1
        <3> HIDE DEF p
        <3> QED BY <3>2
    <2>5. ASSUME NEW k \in 1 .. n PROVE p[k] = Payload(i, n)[k]
        <3>1. 4 + k \in 1 .. Len(b) /\ 4 + k <= Len(buffer)
            BY <2>1
        <3>2. buffer[4 + k] = b[4 + k]
            BY <1>5, <3>1
        <3> QED BY <2>2, <2>4, <3>2
    <2> HIDE DEF p
    <2>6. p = Payload(i, n)
        <3>1. p \in [1 .. n -> Nat] BY <2>4
        <3> DEFINE y == Payload(i, n)
        <3>2. y \in [1 .. n -> Nat] /\ \A k \in 1 .. n : p[k] = y[k]
            BY <2>3, <2>5
        <3> HIDE DEF y
        <3>3. p = y BY <3>1, <3>2, SameFunction
        <3> QED BY <3>3 DEF y
    <2> QED BY <2>6 DEF p, n
<1>9. SubSeq(buffer, Len(b) + 1, Len(buffer)) \o wire = rest
    <2>1. Len(b) <= Len(buffer)
        <3>1. Len(b) = 4 + frameLength BY <1>1, <1>7
        <3>2. Len(buffer) >= Len(b) /\ Len(b) \in Nat /\ Len(buffer) \in Nat
            BY <1>1, <1>3, <3>1
        <3> QED BY <3>2
    <2> QED BY <1>1, <1>3, <1>4, <2>1, DropFront
<1>10. 4 + frameLength + 1 = Len(b) + 1
    BY <1>1, <1>7
<1> QED BY <1>1, <1>6, <1>7, <1>8, <1>9, <1>10

LEMMA PumpTurnStep ==
    ASSUME FlowInv, StreamInv, pumpTurn
    PROVE  StreamInv'
<1> USE DEF serverVars, mediaVars
<1>1. PICK r, h, u : Position(r, h, u)
    BY DEF StreamInv
<1>2. pc = "pump" /\ UNCHANGED <<wire, sent>>
    BY DEF pumpTurn
<1>3. /\ RestOf(sent, r) /\ MediaUpTo(sent, h)
      /\ u \in 0 .. Len(sent) /\ handled = h[u] /\ Ahead(r[u])
      /\ Answered(sent, u + 1) /\ ~Astray(sent, u + 1)
    BY <1>1, <1>2 DEF Position, PumpAt, Ahead
<1>4. CASE UNCHANGED <<buffer, handled>> /\ pc' \in {"return", "response", "readFrame"}
    <2>1. Position(r, h, u)'
        BY <1>2, <1>3, <1>4 DEF Position, PlayAt, PumpAt, Ahead
    <2> QED BY <2>1 DEF StreamInv
<1>5. ASSUME FrameComplete, pc' \in {"pump", "return"},
             buffer' = SubSeq(buffer, 4 + frameLength + 1, Len(buffer)),
             \/ buffer[2] % 2 # 0 /\ UNCHANGED handled
             \/ buffer[2] % 2 = 0
                /\ handled' = Append(handled, SubSeq(buffer, 5, 4 + frameLength))
      PROVE  StreamInv'
    <2>1. Len(buffer) > 0 /\ buffer[1] = 36
        <3>1. Len(buffer) >= 4 /\ IsPrefix(<<36>>, buffer)
            BY <1>5 DEF FrameComplete, interleavedFrameMarker
        <3> QED BY <3>1 DEF IsPrefix, FlowInv
    <2> DEFINE k == u + 1
    <2>2. /\ k \in 1 .. Len(sent) /\ r[k] \in Seq(Nat)
          /\ Ahead(Bytes(k, sent[k]) \o r[k]) /\ sent[k] \in Frames
        BY <1>3, <2>1, FrontUnit
    <2>3. k \in Nat /\ k \in 0 .. Len(sent) /\ k - 1 = u
        BY <1>3, <2>2
    <2>4. Answered(sent, k) /\ ~Astray(sent, k)
        BY <1>3
    <2> HIDE DEF k
    <2>5. /\ buffer[2] = sent[k].channel
          /\ SubSeq(buffer, 5, 4 + frameLength) = Payload(k, sent[k].len)
          /\ buffer' \o wire' = r[k]
        BY <1>2, <1>5, <2>2, <2>3, FrameCut
    <2>6. sent[k].kind = "frame" /\ sent[k].kind # "stray"
        BY <2>2, PumpAssumption
    <2>7. IsMedia(sent, k) <=> buffer[2] % 2 = 0
        BY <2>4, <2>5, <2>6 DEF IsMedia
    <2>8. handled' = h[k]
        <3>1. h[k] = IF IsMedia(sent, k) THEN Append(h[k - 1], Payload(k, sent[k].len))
                     ELSE h[k - 1]
            BY <1>3, <2>2 DEF MediaUpTo
        <3>2. h[k - 1] = handled
            BY <1>3, <2>3
        <3>3. CASE IsMedia(sent, k)
            BY <1>5, <2>5, <2>7, <3>1, <3>2, <3>3, Zenon
        <3>4. CASE ~IsMedia(sent, k)
            BY <1>5, <2>7, <3>1, <3>2, <3>4, Zenon
        <3> QED BY <3>3, <3>4
    <2>9. Answered(sent, k + 1) /\ ~Astray(sent, k + 1)
        BY <2>3, <2>4, <2>6, StillInStep
    <2>10. Position(r, h, k)'
        BY <1>2, <1>3, <1>5, <2>3, <2>5, <2>8, <2>9 DEF Position, PlayAt, PumpAt
    <2> QED BY <2>10 DEF StreamInv
<1> QED BY <1>4, <1>5 DEF pumpTurn, handle, Goto, Return

LEMMA ReadStepKeepsStream ==
    ASSUME FlowInv, StreamInv, NEW at, NEW to, readBytes(at, to),
           <<at, to>> \in { <<"readPlay", "play">>, <<"readFrame", "pump">>,
                           <<"readResponse", "response">> }
    PROVE  StreamInv'
<1> USE DEF serverVars, mediaVars
<1>1. PICK r, h, u : Position(r, h, u)
    BY DEF StreamInv
<1>2. pc = at /\ pc' = to /\ UNCHANGED <<sent, handled>>
    BY DEF readBytes, Goto
<1>3. PICK n \in 1 .. Len(wire) :
          /\ buffer' = buffer \o SubSeq(wire, 1, n)
          /\ wire' = SubSeq(wire, n + 1, Len(wire))
    BY DEF readBytes
<1>4. buffer' \o wire' = buffer \o wire
    BY <1>3, ReadKeepsStream DEF FlowInv
<1>5. (pc' \in PlayAt => pc \in PlayAt) /\ (pc' \in PumpAt => pc \in PumpAt)
    BY <1>2 DEF PlayAt, PumpAt
<1>6. Position(r, h, u)'
    BY <1>1, <1>2, <1>4, <1>5 DEF Position
<1> QED BY <1>6 DEF StreamInv

\* What the server sends is added behind all that is ahead.
LEMMA ServerSendsStep ==
    ASSUME FlowInv, StreamInv, NEW v \in Unit, serverSends(v)
    PROVE  StreamInv'
<1> USE DEF mediaVars
<1>1. PICK r, h, u : Position(r, h, u)
    BY DEF StreamInv
<1> DEFINE b == Bytes(Len(sent) + 1, v)
           n == Len(sent)
<1>2. /\ sent \in Seq(Unit) /\ n \in Nat /\ n + 1 \in Nat
      /\ buffer \in Seq(Nat) /\ wire \in Seq(Nat)
    <2>1. sent \in Seq(Unit) /\ buffer \in Seq(Nat) /\ wire \in Seq(Nat)
        BY DEF FlowInv
    <2>2. Len(sent) \in Nat /\ Len(sent) + 1 \in Nat
        BY <2>1
    <2> QED BY <2>1, <2>2, Zenon
<1>3. UNCHANGED <<pc, buffer, handled>> /\ sent' = Append(sent, v) /\ wire' = wire \o b
    BY DEF serverSends
<1>4. b \in Seq(Nat)
    <2>1. n + 1 \in Nat BY <1>2
    <2> QED BY <2>1, UnitIsBytes
<1>5. RestOf(sent, r) /\ MediaUpTo(sent, h) /\ u \in 0 .. n /\ handled = h[u]
    BY <1>1 DEF Position
<1>6. PICK q : RestOf(sent', q) /\ \A i \in 0 .. n : q[i] = r[i] \o b
    BY <1>2, <1>3, <1>5, RestGrows
<1>7. PICK g : MediaUpTo(sent', g) /\ \A i \in 0 .. n : g[i] = h[i]
    BY <1>2, <1>3, <1>5, MediaGrows
<1>8. /\ Len(sent') = n + 1 /\ sent'[n + 1] = v
      /\ \A i \in 1 .. n : sent'[i] = sent[i]
      /\ \A i \in 0 .. n + 1 : Answered(sent', i) <=> Answered(sent, i)
      /\ \A i \in 0 .. n + 1 : Astray(sent', i) <=> Astray(sent, i)
    BY <1>2, <1>3, SentGrows
<1>9. \A i \in 0 .. n : r[i] \in Seq(Nat)
    BY <1>5 DEF RestOf
<1> HIDE DEF b, n
<1>10. u \in 0 .. Len(sent') /\ handled' = g[u] /\ u + 1 \in 0 .. n + 1
    BY <1>2, <1>3, <1>5, <1>7, <1>8
<1>11. buffer' \o wire' = (buffer \o wire) \o b
    BY <1>2, <1>3, <1>4, ConcatAssoc
<1>12. CASE pc \in PumpAt
    <2>1. buffer \o wire = r[u] /\ Answered(sent, u + 1) /\ ~Astray(sent, u + 1)
        BY <1>1, <1>12 DEF Position
    <2>2. buffer' \o wire' = q[u]
        BY <1>5, <1>6, <1>11, <2>1
    <2>3. Answered(sent', u + 1) /\ ~Astray(sent', u + 1)
        BY <1>8, <1>10, <2>1
    <2>4. pc' \in PumpAt /\ pc' \notin PlayAt
        BY <1>3, <1>12 DEF PumpAt, PlayAt
    <2>5. Position(q, g, u)'
        BY <1>6, <1>7, <1>10, <2>2, <2>3, <2>4 DEF Position
    <2> QED BY <2>5 DEF StreamInv
<1>13. CASE pc \in PlayAt
    <2>1. u = 0 /\ buffer \o wire = r[0] /\ FirstMessage(sent, r)
        BY <1>1, <1>13 DEF Position
    <2>2. 0 \in 0 .. n /\ q[0] = r[0] \o b /\ r[0] \in Seq(Nat)
        BY <1>2, <1>6, <1>9
    <2>3. buffer' \o wire' = q[0]
        BY <1>11, <2>1, <2>2
    <2>4. ASSUME \E k \in 1 .. n, x \in Seq(Nat) :
                    /\ sent[k].kind = "response" /\ ~Answered(sent, k)
                    /\ NoEnd(x) /\ r[0] = x \o r[k - 1]
          PROVE  FirstMessage(sent', q)
        <3>1. PICK k \in 1 .. n, x \in Seq(Nat) :
                  /\ sent[k].kind = "response" /\ ~Answered(sent, k)
                  /\ NoEnd(x) /\ r[0] = x \o r[k - 1]
            BY <2>4
        <3>2. k - 1 \in 0 .. n /\ k \in 1 .. Len(sent') /\ k \in 0 .. n + 1
            BY <1>2, <1>8
        <3>3. r[k - 1] \in Seq(Nat) /\ q[k - 1] = r[k - 1] \o b
            BY <1>6, <1>9, <3>2
        <3>4. (x \o r[k - 1]) \o b = x \o (r[k - 1] \o b)
            BY <1>4, <3>3, ConcatAssoc
        <3>5. q[0] = x \o q[k - 1]
            BY <2>2, <3>1, <3>3, <3>4, Zenon
        <3>6. sent'[k].kind = "response" /\ ~Answered(sent', k)
            BY <1>8, <3>1, <3>2
        <3> QED BY <3>1, <3>2, <3>5, <3>6 DEF FirstMessage
    <2>5. ASSUME ~Answered(sent, n + 1), NoEnd(r[0])
          PROVE  FirstMessage(sent', q)
        <3>1. n + 1 \in 0 .. n + 1 /\ n + 1 \in 1 .. n + 1
            BY <1>2
        <3>2. ~Answered(sent', n + 1)
            BY <1>8, <2>5, <3>1
        <3>3. CASE v.kind = "response"
            <4>1. q[n] = b
                <5>1. n \in 0 .. n /\ r[n] = <<>>
                    BY <1>2, <1>5 DEF RestOf, n
                <5>2. q[n] = <<>> \o b
                    BY <1>6, <5>1
                <5>3. <<>> \o b = b
                    BY <1>4
                <5> QED BY <5>2, <5>3
            <4>2. (n + 1) - 1 = n /\ n + 1 \in 1 .. Len(sent')
                BY <1>2, <1>8
            <4>3. q[0] = r[0] \o q[(n + 1) - 1]
                BY <2>2, <4>1, <4>2, Zenon
            <4>4. sent'[n + 1].kind = "response"
                BY <1>8, <3>3
            <4> QED BY <2>2, <2>5, <3>2, <4>2, <4>3, <4>4 DEF FirstMessage
        <3>4. CASE v.kind # "response"
            <4>1. ~Answered(sent', Len(sent') + 1)
                <5>1. \A j \in 1 .. n : sent'[j].kind # "response"
                    <6>1. (n + 1) - 1 = n BY <1>2
                    <6> QED BY <3>2, <6>1 DEF Answered
                <5>2. \A j \in 1 .. n + 1 : j \in 1 .. n \/ j = n + 1
                    BY <1>2
                <5>3. (Len(sent') + 1) - 1 = n + 1
                    BY <1>2, <1>8
                <5> QED BY <1>8, <3>4, <5>1, <5>2, <5>3 DEF Answered
            <4>2. \A k \in 1 .. Len(b) : b[k] # EmptyLine
                BY <1>2, <3>4, NoEmptyLine DEF b, n
            <4>3. NoEnd(r[0] \o b)
                <5> DEFINE a == r[0]
                <5>1. a \in Seq(Nat) /\ NoEnd(a)
                    BY <2>2, <2>5
                <5> HIDE DEF a
                <5>2. \A k \in 1 .. Len(a) : a[k] # EmptyLine
                    BY <5>1 DEF NoEnd
                <5>3. \A k \in 1 .. Len(a \o b) : (a \o b)[k] # EmptyLine
                    BY <1>4, <4>2, <5>1, <5>2
                <5> QED BY <5>3 DEF NoEnd, a
            <4> QED BY <2>2, <4>1, <4>3 DEF FirstMessage
        <3> QED BY <3>3, <3>4
    <2>6. FirstMessage(sent', q)
        BY <2>1, <2>4, <2>5 DEF FirstMessage, n
    <2>7. pc' \in PlayAt /\ pc' \notin PumpAt
        BY <1>3, <1>13 DEF PumpAt, PlayAt
    <2>8. Position(q, g, u)'
        BY <1>6, <1>7, <1>10, <2>1, <2>3, <2>6, <2>7 DEF Position
    <2> QED BY <2>8 DEF StreamInv
<1>14. CASE pc \notin PlayAt /\ pc \notin PumpAt
    <2>1. pc' \notin PlayAt /\ pc' \notin PumpAt
        BY <1>3, <1>14
    <2>2. Position(q, g, u)'
        BY <1>6, <1>7, <1>10, <2>1 DEF Position
    <2> QED BY <2>2 DEF StreamInv
<1> QED BY <1>12, <1>13, <1>14

\* A step that leaves the stream alone and goes nowhere, or returns.
LEMMA StreamKept ==
    ASSUME StreamInv, UNCHANGED <<buffer, wire, sent, handled>>,
           pc' = pc \/ pc' \in {"return", "done"}
    PROVE  StreamInv'
<1>1. PICK r, h, u : Position(r, h, u)
    BY DEF StreamInv
<1>2. (pc' \in PlayAt => pc \in PlayAt) /\ (pc' \in PumpAt => pc \in PumpAt)
    BY DEF PlayAt, PumpAt
<1>3. Position(r, h, u)'
    BY <1>1, <1>2 DEF Position
<1> QED BY <1>3 DEF StreamInv

LEMMA StreamStep ==
    ASSUME FlowInv, WaitInv, StreamInv, [Next]_vars
    PROVE  StreamInv'
<1> USE DEF bufferVars, serverVars, mediaVars, outcomeVars
<1>1. ASSUME NEW v \in Unit, serverSends(v) PROVE StreamInv'
    BY <1>1, ServerSendsStep
<1>2. ASSUME NEW at, readFails(at) PROVE StreamInv'
    <2>1. UNCHANGED <<buffer, wire, sent, handled>> /\ pc' = "return"
        BY <1>2 DEF readFails, Return
    <2> QED BY <2>1, StreamKept
<1>3. ASSUME finishPlayback PROVE StreamInv'
    <2>1. UNCHANGED <<buffer, wire, sent, handled>> /\ pc' = "done"
        BY <1>3 DEF finishPlayback
    <2> QED BY <2>1, StreamKept
<1>4. ASSUME watch \/ serverCloses \/ clientLeaves \/ cancelContext \/ UNCHANGED vars
      PROVE  StreamInv'
    <2>1. UNCHANGED <<buffer, wire, sent, handled>> /\ pc' = pc
        BY <1>4 DEF watch, serverCloses, clientLeaves, cancelContext, vars
    <2> QED BY <2>1, StreamKept
<1>5. ASSUME ReadStep PROVE StreamInv'
    BY <1>5, ReadStepKeepsStream DEF ReadStep
<1> QED BY <1>1, <1>2, <1>3, <1>4, <1>5, PlayAnsweredStep, ResponseSkippedStep, PumpTurnStep
        DEF Next, LocalStep

StreamIInv == FlowInv /\ WaitInv /\ StreamInv

LEMMA StreamInit ==
    ASSUME Init
    PROVE  StreamIInv
<1>1. FlowInv /\ WaitInv
    BY PumpAssumption DEF Init, FlowInv, WaitInv
<1>2. StreamInv
    <2> DEFINE e == [i \in 0 .. 0 |-> <<>>]
    <2>1. e \in [0 .. 0 -> Seq(Nat)] /\ e \in [0 .. 0 -> Seq(Seq(Nat))] /\ e[0] = <<>>
        OBVIOUS
    <2> HIDE DEF e
    <2>2. sent = <<>> /\ Len(sent) = 0 /\ handled = <<>> /\ buffer \o wire = <<>>
          /\ pc = "play"
        BY DEF Init
    <2>3. RestOf(sent, e)
        BY <2>1, <2>2 DEF RestOf
    <2>4. MediaUpTo(sent, e)
        <3>1. \A i, m \in 0 .. 0 : i <= m => IsPrefix(e[i], e[m])
            BY <2>1 DEF IsPrefix
        <3>2. \A i \in 0 .. 0 : e[i] = <<>>
            BY <2>1
        <3> QED BY <2>1, <2>2, <3>1, <3>2 DEF MediaUpTo
    <2>5. FirstMessage(sent, e)
        <3>1. ~Answered(sent, Len(sent) + 1)
            BY <2>2 DEF Answered
        <3>2. NoEnd(e[0])
            BY <2>1 DEF NoEnd
        <3> QED BY <3>1, <3>2 DEF FirstMessage
    <2>6. Position(e, e, 0)
        BY <2>1, <2>2, <2>3, <2>4, <2>5 DEF Position, PlayAt, PumpAt
    <2> QED BY <2>6 DEF StreamInv
<1> QED BY <1>1, <1>2 DEF StreamIInv

\* Nothing is left for a pump that waits with nothing under way: the unit in
\* front would be a whole frame, a whole message or a byte out of place.
LEMMA NothingAhead ==
    ASSUME FlowInv, WaitInv, NEW r, NEW h, NEW u, Position(r, h, u),
           wire = <<>>, pc \in {"readFrame", "readResponse"}
    PROVE  h[u] = h[Len(sent)]
<1>1. /\ RestOf(sent, r) /\ MediaUpTo(sent, h) /\ u \in 0 .. Len(sent) /\ Ahead(r[u])
      /\ Answered(sent, u + 1)
    BY DEF Position, PumpAt, Ahead
<1>2. CASE u = Len(sent)
    BY <1>2
<1>3. CASE u # Len(sent)
    <2> DEFINE k == u + 1
               b == Bytes(k, sent[k])
    <2>1. /\ k \in 1 .. Len(sent) /\ k \in 0 .. Len(sent) /\ k - 1 = u /\ k \in Nat
          /\ Len(sent) \in 0 .. Len(sent) /\ k <= Len(sent)
        <3>1. Len(sent) \in Nat
            BY DEF FlowInv
        <3> QED BY <1>1, <1>3, <3>1
    <2>2. Answered(sent, k)
        BY <1>1
    <2> HIDE DEF k
    <2>3. sent[k] \in Unit
        BY <2>1 DEF FlowInv
    <2>4. b \in Seq(Nat) /\ Len(b) >= 1
        BY <2>1, <2>3, FirstByte
    <2> HIDE DEF b
    <2>5. r[k - 1] = b \o r[k] /\ r[k] \in Seq(Nat)
        BY <1>1, <2>1 DEF RestOf, b
    <2>6. Ahead(b \o r[k])
        BY <1>1, <2>1, <2>5, Zenon
    <2>7. buffer = b \o r[k]
        <3>1. buffer \o <<>> = buffer
            BY DEF FlowInv
        <3> QED BY <2>6, <3>1 DEF Ahead
    <2>8. Len(buffer) >= Len(b) /\ \A j \in 1 .. Len(b) : buffer[j] = b[j]
        BY <2>4, <2>5, <2>7
    <2>9. ASSUME sent[k] \in Frames PROVE FALSE
        <3>1. /\ sent[k].len \in 0 .. 3 /\ Len(b) = 4 + sent[k].len
              /\ b[1] = 36 /\ b[3] * 2 + b[4] = sent[k].len
            BY <2>1, <2>9, FrameBytes DEF b
        <3>2. buffer[1] = 36 /\ buffer[3] * 2 + buffer[4] = sent[k].len
              /\ Len(buffer) >= 4 + sent[k].len /\ Len(buffer) >= 4
            <4>1. 1 \in 1 .. Len(b) /\ 3 \in 1 .. Len(b) /\ 4 \in 1 .. Len(b)
                BY <3>1
            <4>2. buffer[1] = b[1] /\ buffer[3] = b[3] /\ buffer[4] = b[4]
                BY <2>8, <4>1
            <4>3. Len(buffer) \in Nat
                BY DEF FlowInv
            <4> QED BY <2>8, <3>1, <4>2, <4>3
        <3>3. IsPrefix(<<36>>, buffer)
            BY <3>2 DEF IsPrefix, FlowInv
        <3>4. FrameComplete
            BY <3>2, <3>3 DEF FrameComplete, frameLength, LengthBase, interleavedFrameMarker
        <3>5. ~StartsResponse
            BY <3>2 DEF StartsResponse, IsPrefix, Prefix, FlowInv
        <3> QED BY <3>4, <3>5 DEF WaitInv
    <2>10. ASSUME NEW hd \in HeaderKind, sent[k] = Response(hd) PROVE FALSE
        <3>1. Message(b, hd)
            BY <2>1, <2>10, MessageBytes DEF b
        <3>2. /\ Len(b) = 4 + (IF hd = "ok1" THEN 1 ELSE 0)
              /\ b[1] = 82 /\ b[2] = 47 /\ b[4] = EmptyLine
            BY <3>1 DEF Message
        <3>3. 1 \in 1 .. Len(b) /\ 2 \in 1 .. Len(b) /\ 4 \in 1 .. Len(b)
            BY <3>2
        <3>4. /\ buffer[1] = 82 /\ buffer[2] = 47 /\ buffer[4] = EmptyLine
              /\ Len(buffer) >= 4 /\ Len(buffer) \in Nat
            <4>1. Len(buffer) \in Nat /\ Len(b) \in Nat /\ Len(b) >= 4
                BY <2>4, <3>2 DEF FlowInv
            <4> QED BY <2>8, <3>2, <3>3, <4>1
        <3>5. StartsResponse
            BY <3>4 DEF StartsResponse, IsPrefix, Prefix, FlowInv
        <3>6. HeaderEnds # {}
            <4>1. 4 \in 1 .. Len(buffer) BY <3>4
            <4> QED BY <3>4, <4>1 DEF HeaderEnds
        <3>7. Ahead(<<>> \o (b \o r[k]))
            <4>1. b \o r[k] \in Seq(Nat)
                BY <2>4, <2>5
            <4>2. <<>> \o (b \o r[k]) = b \o r[k]
                BY <4>1
            <4> QED BY <2>6, <4>2, Zenon
        <3>8. NoEnd(<<>>) /\ <<>> \in Seq(Nat)
            BY DEF NoEnd
        <3>9. MessageEnd = Len(<<>>) + Len(b)
            BY <2>5, <3>1, <3>6, <3>7, <3>8, MessageCut
        <3>10. MessageEnd = Len(b) /\ Len(b) \in Nat /\ Len(buffer) \in Nat
            BY <2>4, <3>4, <3>9
        <3>11. ~ (Len(buffer) < MessageEnd)
            BY <2>8, <3>10
        <3> QED BY <3>5, <3>6, <3>11 DEF WaitInv
    <2>11. ASSUME sent[k] = Stray PROVE h[u] = h[Len(sent)]
        <3>1. sent[k].kind = "stray"
            BY <2>11 DEF Stray
        <3>2. h[Len(sent)] = h[k - 1]
            BY <1>1, <2>1, <2>2, <3>1 DEF MediaUpTo
        <3> QED BY <2>1, <3>2
    <2> QED BY <2>3, <2>9, <2>10, <2>11, KindOfUnit
<1> QED BY <1>2, <1>3

LEMMA StreamIInvImplies ==
    ASSUME StreamIInv
    PROVE  HandedOnInOrder /\ NothingHeldBack
<1> USE DEF StreamIInv
<1>1. PICK r, h, u : Position(r, h, u)
    BY DEF StreamInv
<1>2. MediaUpTo(sent, h) /\ u \in 0 .. Len(sent) /\ handled = h[u] /\ sent \in Seq(Unit)
    BY <1>1 DEF Position, FlowInv
<1>3. Media = h[Len(sent)]
    BY <1>2, MediaOfStream DEF Media
<1>4. IsPrefix(h[u], h[Len(sent)])
    <2>1. Len(sent) \in 0 .. Len(sent) /\ u <= Len(sent)
        BY <1>2
    <2> QED BY <1>2, <2>1 DEF MediaUpTo
<1>5. NothingHeldBack
    BY <1>1, <1>2, <1>3, NothingAhead DEF NothingHeldBack
<1> QED BY <1>2, <1>3, <1>4, <1>5 DEF HandedOnInOrder

LEMMA StreamIInvHolds == Spec => []StreamIInv
<1>1. Init => StreamIInv
    BY StreamInit
<1>2. StreamIInv /\ [Next]_vars => StreamIInv'
    BY FlowStep, WaitStep, StreamStep DEF StreamIInv
<1> QED BY <1>1, <1>2, PTL DEF Spec

\* For any frames, messages and stray bytes and however they fall into reads,
\* the handler has been given a prefix of what the even channels carried
\* behind the answer to PLAY: whole payloads, in order, none twice and none
\* from a control frame or a message (pumpInterleaved, readResponse, readMore).
THEOREM PayloadsHandedOnInOrder == Spec => []HandedOnInOrder
<1>1. StreamIInv => HandedOnInOrder
    BY StreamIInvImplies
<1> QED BY <1>1, StreamIInvHolds, PTL

\* Whenever the pump waits for the network with nothing under way, all media
\* that were sent have been handed on: none waits in the buffer, whichever read
\* brought it (pumpInterleaved and readResponse share one buffer).
THEOREM NoPayloadHeldBack == Spec => []NothingHeldBack
<1>1. StreamIInv => NothingHeldBack
    BY StreamIInvImplies
<1> QED BY <1>1, StreamIInvHolds, PTL
=============================================================================
