---------------------------- MODULE InterleavedPump ----------------------------
(***************************************************************************)
(* One playback over interleaved TCP, from the request for PLAY to the     *)
(* answer the HTTP client gets: readResponse, pumpInterleaved and readMore *)
(* on one buffer, the handler that streamMedia gives the pump, and what    *)
(* streamMedia and Relay make of the pump's error (internal/rtsp/relay.go).*)
(*                                                                         *)
(* The connection carries bytes, and a read returns any number of those    *)
(* that have arrived.  A byte is a small number here: the marker '$', a    *)
(* channel, the two digits of a length (in base LengthBase), payload, and  *)
(* the text of an RTSP message abbreviated to four: two for the prefix     *)
(* "RTSP/1.0", one for its headers, one for the empty line that ends them. *)
(***************************************************************************)
EXTENDS Integers, SequencesExt

CONSTANTS
    Frames,         \* the frames a server may send: [channel, len]
    Headers,        \* the headers of the RTSP messages it may send
    MaxUnits        \* bound: frames and messages sent

HeaderKind == {"ok0", "ok1", "refused", "invalid", "negative"}

ASSUME PumpAssumption ==
    /\ Frames \subseteq [kind : {"frame"}, channel : 0 .. 3, len : 0 .. 3]
    /\ Headers \subseteq HeaderKind
    /\ MaxUnits \in Nat \ {0}

\* Besides frames and RTSP messages a server may send a byte that starts
\* neither, such as the body of a message that declares none.
Response(header) == [kind |-> "response", header |-> header]
Stray == [kind |-> "stray"]
Unit == Frames \union {Response(h) : h \in Headers} \union {Stray}

LengthBase == 2
interleavedFrameMarker == 36
Prefix == <<82, 47>>
EmptyLine == 13
HeaderByte == [ok0 |-> 100, ok1 |-> 101, refused |-> 102, invalid |-> 103,
               negative |-> 104]
HeaderOf(byte) == CHOOSE h \in HeaderKind : HeaderByte[h] = byte

\* The byte that identifies the i-th unit, in a payload, a body or alone.
UnitByte(i) == 200 + i

\* The payload of the i-th unit: its last byte identifies it, the ones before
\* look like markers.
Payload(i, len) ==
    [k \in 1 .. len |-> IF k = len THEN UnitByte(i) ELSE interleavedFrameMarker]

\* The bytes of the i-th unit.
Bytes(i, u) ==
    CASE u.kind = "frame"    -> << interleavedFrameMarker, u.channel,
                                   u.len \div LengthBase, u.len % LengthBase >>
                                \o Payload(i, u.len)
      [] u.kind = "response" -> Prefix \o <<HeaderByte[u.header], EmptyLine>>
                                \o (IF u.header = "ok1" THEN <<UnitByte(i)>> ELSE <<>>)
      [] u.kind = "stray"    -> <<UnitByte(i)>>

VARIABLES
    pc,             \* where the request's goroutine is
    buffer,         \* rtspConnection.buffer
    wire,           \* bytes sent and not yet read
    sent,           \* the units the server has sent
    server,         \* open, or closed for sending
    client,         \* the HTTP client: connected or gone
    ctxDone,        \* the request's context is cancelled
    deadline,       \* Relay's watcher has let the read deadline expire
    handled,        \* payloads given to the handler
    started,        \* streamMedia's started
    result,         \* the error that ended PLAY or the pump
    response        \* what the HTTP client gets

bufferVars == <<buffer, wire>>
serverVars == <<sent, server>>
mediaVars == <<handled, started>>
outcomeVars == <<result, response>>
vars == <<pc, buffer, wire, sent, server, client, ctxDone, deadline, handled,
          started, result, response>>

Init ==
    /\ pc = "play"
    /\ buffer = <<>> /\ wire = <<>> /\ sent = <<>>
    /\ server = "open" /\ client = "connected"
    /\ ctxDone = FALSE /\ deadline = FALSE
    /\ handled = <<>> /\ started = FALSE
    /\ result = "none" /\ response = "none"

-----------------------------------------------------------------------------
(* readMore: its read, with data and without.                              *)

Goto(l) == pc' = l /\ UNCHANGED result
Return(err) == pc' = "return" /\ result' = err

\* A read returns some of the bytes under way; past its deadline it does not.
readBytes(at, to) ==
    /\ pc = at /\ ~deadline
    /\ \E n \in 1 .. Len(wire) :
          /\ buffer' = buffer \o SubSeq(wire, 1, n)
          /\ wire' = SubSeq(wire, n + 1, Len(wire))
    /\ Goto(to)
    /\ UNCHANGED <<serverVars, client, ctxDone, deadline, mediaVars, response>>

\* Only the pump's own reads end with the context; those of readResponse are
\* given context.Background().
readFails(at) ==
    /\ pc = at
    /\ \/ ~deadline /\ server = "closed" /\ wire = <<>> /\ Return("eof")
       \/ deadline /\ Return("timeout")
       \/ ctxDone /\ at = "readFrame" /\ Return("cancelled")
    /\ UNCHANGED <<bufferVars, serverVars, client, ctxDone, deadline, mediaVars, response>>

-----------------------------------------------------------------------------
(* readResponse, for PLAY and within the pump.                             *)

HeaderEnds == {i \in 1 .. Len(buffer) : buffer[i] = EmptyLine}
StartsResponse == IsPrefix(Prefix, buffer)

\* What readResponse can make of the header text before position `end': when
\* media precede the status line, it depends on their bytes whether the first
\* line has a number for its second word.
Parsed(end) ==
    LET header == HeaderOf(buffer[end - 1])
    IN  IF StartsResponse THEN {header} ELSE {header, "invalid"}

\* A plausible bug: a response ends with its headers, whatever it declares.
readResponseNoBody(at, readAt, next, accepts) ==
    /\ pc = at
    /\ \/ HeaderEnds = {} /\ Goto(readAt) /\ UNCHANGED buffer
       \/ /\ HeaderEnds # {}
          /\ buffer' = SubSeq(buffer, Min(HeaderEnds) + 1, Len(buffer))
          /\ Goto(next)
    /\ UNCHANGED <<wire, serverVars, client, ctxDone, deadline, mediaVars, response>>

\* One evaluation of its loops, from the search for the empty line to the wait
\* for the body; a repeated search finds the same line.  `accepts' are the
\* headers the caller goes on with: request refuses a status that is not 2xx.
readResponse(at, readAt, next, accepts) ==
    /\ pc = at
    /\ \/ HeaderEnds = {} /\ Goto(readAt) /\ UNCHANGED buffer
       \/ /\ HeaderEnds # {}
          /\ \E end \in {Min(HeaderEnds)} : \E header \in Parsed(end) :
                LET bodyEnd == end + (IF header = "ok1" THEN 1 ELSE 0)
                IN  \/ /\ header = "invalid"
                       /\ Return("badResponse") /\ UNCHANGED buffer
                    \/ /\ header = "negative"       \* make([]byte, -1)
                       /\ Return("panic") /\ UNCHANGED buffer
                    \/ /\ header \in HeaderKind \ {"invalid", "negative"}
                       /\ Len(buffer) < bodyEnd
                       /\ Goto(readAt) /\ UNCHANGED buffer
                    \/ /\ header \in HeaderKind \ {"invalid", "negative"}
                       /\ Len(buffer) >= bodyEnd
                       /\ buffer' = SubSeq(buffer, bodyEnd + 1, Len(buffer))
                       /\ IF header \in accepts THEN Goto(next) ELSE Return("refused")
    /\ UNCHANGED <<wire, serverVars, client, ctxDone, deadline, mediaVars, response>>

playAnswered == readResponse("play", "readPlay", "pump", {"ok0", "ok1"})
responseSkipped == readResponse("response", "readResponse", "pump",
                                {"ok0", "ok1", "refused"})

-----------------------------------------------------------------------------
(* pumpInterleaved: one turn of its loop.                                  *)

\* A plausible bug: the high byte of the length is forgotten.
frameLengthLowByte == buffer[4]

frameLength == buffer[3] * LengthBase + buffer[4]

FrameComplete ==
    /\ IsPrefix(<<interleavedFrameMarker>>, buffer)
    /\ Len(buffer) >= 4
    /\ Len(buffer) >= 4 + frameLength

\* The handler: a payload too short for an RTP header is an error, a bare
\* header no media; a write to a client that is gone fails sooner or later.
handle(payload) ==
    /\ handled' = Append(handled, payload)
    /\ started' = (started \/ Len(payload) > 1)
    /\ \/ Len(payload) > 0 /\ Goto("pump")
       \/ Len(payload) = 0 /\ Return("handlerError")
       \/ Len(payload) > 1 /\ client = "gone" /\ Return("handlerError")

pumpTurn ==
    /\ pc = "pump"
    /\ \/ /\ ctxDone
          /\ Return("cancelled")
          /\ UNCHANGED <<buffer, mediaVars>>
       \/ /\ ~ctxDone
          /\ StartsResponse
          /\ Goto("response")
          /\ UNCHANGED <<buffer, mediaVars>>
       \/ /\ ~ctxDone
          /\ ~StartsResponse
          /\ ~FrameComplete       \* no marker in front, or not all of the frame
          /\ Goto("readFrame")
          /\ UNCHANGED <<buffer, mediaVars>>
       \/ /\ ~ctxDone
          /\ FrameComplete
          /\ buffer' = SubSeq(buffer, 4 + frameLength + 1, Len(buffer))
          /\ \/ buffer[2] % 2 # 0 /\ Goto("pump") /\ UNCHANGED mediaVars
             \/ buffer[2] % 2 = 0 /\ handle(SubSeq(buffer, 5, 4 + frameLength))
    /\ UNCHANGED <<wire, serverVars, client, ctxDone, deadline, response>>

\* A plausible bug: streamMedia takes a pump that ended for a success.
finishPlaybackNoCheck ==
    /\ pc = "return"
    /\ response' = IF result = "panic" THEN "aborted" ELSE "success"
    /\ pc' = "done"
    /\ UNCHANGED <<bufferVars, serverVars, client, ctxDone, deadline, mediaVars, result>>

\* streamMedia and Relay: an error is passed on only if nothing was written.
finishPlayback ==
    /\ pc = "return"
    /\ response' = IF result = "panic" THEN "aborted"
                   ELSE IF started THEN "success" ELSE "error500"
    /\ pc' = "done"
    /\ UNCHANGED <<bufferVars, serverVars, client, ctxDone, deadline, mediaVars, result>>

-----------------------------------------------------------------------------
(* Relay's watcher, and the world outside.                                 *)

\* A plausible bug: the watcher is told to stop once PLAY has been answered.
watchHandshake ==
    /\ ctxDone /\ ~deadline /\ pc \in {"play", "readPlay"}
    /\ deadline' = TRUE
    /\ UNCHANGED <<pc, bufferVars, serverVars, client, ctxDone, mediaVars, outcomeVars>>

watch ==
    /\ ctxDone /\ ~deadline /\ pc # "done"
    /\ deadline' = TRUE
    /\ UNCHANGED <<pc, bufferVars, serverVars, client, ctxDone, mediaVars, outcomeVars>>

\* The upstream server sends what it likes, when it likes.
serverSends(u) ==
    /\ server = "open" /\ Len(sent) < MaxUnits
    /\ sent' = Append(sent, u)
    /\ wire' = wire \o Bytes(Len(sent) + 1, u)
    /\ UNCHANGED <<pc, buffer, server, client, ctxDone, deadline, mediaVars, outcomeVars>>

serverCloses ==
    /\ server = "open"
    /\ server' = "closed"
    /\ UNCHANGED <<pc, bufferVars, sent, client, ctxDone, deadline, mediaVars, outcomeVars>>

clientLeaves ==
    /\ client = "connected"
    /\ client' = "gone"
    /\ UNCHANGED <<pc, bufferVars, serverVars, ctxDone, deadline, mediaVars, outcomeVars>>

cancelContext ==
    /\ client = "gone" /\ ~ctxDone
    /\ ctxDone' = TRUE
    /\ UNCHANGED <<pc, bufferVars, serverVars, client, deadline, mediaVars, outcomeVars>>

-----------------------------------------------------------------------------
\* The steps of the request's goroutine that need nothing from the network,
\* and those that do.
LocalStep ==
    \/ playAnswered \/ pumpTurn \/ responseSkipped \/ finishPlayback
    \/ readFails("readPlay") \/ readFails("readFrame") \/ readFails("readResponse")

ReadStep ==
    \/ readBytes("readPlay", "play")
    \/ readBytes("readFrame", "pump")
    \/ readBytes("readResponse", "response")

Next ==
    \/ LocalStep \/ ReadStep \/ watch
    \/ \E u \in Unit : serverSends(u)
    \/ serverCloses \/ clientLeaves \/ cancelContext

Spec == Init /\ [][Next]_vars

\* Goroutines that can run do run, and net/http notices a client that left.
\* Nothing is assumed of the network: what was sent may never arrive, and
\* there is no read deadline before the watcher's.
FairSpec ==
    /\ Spec
    /\ WF_vars(LocalStep)
    /\ WF_vars(watch)
    /\ WF_vars(cancelContext)

-----------------------------------------------------------------------------
(* What the stream promises, told from the units `s' that the server sent. *)

\* Unit i is behind the answer to PLAY; behind a byte that is out of place.
Answered(s, i) == \E j \in 1 .. i - 1 : s[j].kind = "response"
Astray(s, i) == \E j \in 1 .. i - 1 : s[j].kind = "stray" /\ Answered(s, j)

IsMedia(s, i) ==
    /\ s[i].kind = "frame" /\ s[i].channel % 2 = 0
    /\ Answered(s, i) /\ ~Astray(s, i)

\* The payloads of the media frames, in the order they were sent.
MediaOf(s) ==
    LET upto[i \in 0 .. Len(s)] ==
            IF i = 0 THEN <<>>
            ELSE IF IsMedia(s, i) THEN Append(upto[i - 1], Payload(i, s[i].len))
            ELSE upto[i - 1]
    IN  upto[Len(s)]

Media == MediaOf(sent)

\* However the stream falls into reads, the handler gets the payloads of the
\* media channels whole, in order and without anything of the messages and
\* control frames between them (pumpInterleaved, readMore and readResponse
\* share one buffer).
HandedOnInOrder == IsPrefix(handled, Media)

\* The pump waits for the network only when it has handed on all that came:
\* no frame waits in the buffer for the next one, also when it came in the
\* read that brought the answer to PLAY or the end of a message.
NothingHeldBack ==
    wire = <<>> /\ pc \in {"readFrame", "readResponse"} => handled = Media

\* What TestHandlePlaybackReturnsErrorWhenRtspRelayEndsBeforeFirstMedia says:
\* a playback that ends before its first media, for whatever reason, is
\* answered with an error and never with an empty success.
NoEmptySuccess == response = "success" => \E i \in 1 .. Len(handled) : Len(handled[i]) > 1

\* A client that leaves ends the playback, also while it waits for the rest of
\* a message, which the context alone would not end (Relay's watcher).
CancelEndsPump == client = "gone" ~> pc = "done"
=============================================================================
