---------------------------- MODULE RtspSession ----------------------------
(***************************************************************************)
(* The RTSP side of one playback: Relay and negotiateTransport             *)
(* (internal/rtsp/relay.go) against an upstream server, from the dial to   *)
(* the last deferred call.  The relay's goroutine writes a request and     *)
(* waits for its answer; the watcher goroutine sets a read deadline in the *)
(* past when the HTTP client goes away; a reader goroutine that readMore   *)
(* abandoned on cancellation may still take bytes off the connection.      *)
(*                                                                         *)
(* The server is external: it answers any request in any way the code      *)
(* distinguishes, late or not at all, and may drop the connection.  Every  *)
(* SETUP it accepts opens a session of its own (the code never sends a     *)
(* Session header with SETUP).  An answer with a negative Content-Length   *)
(* makes readResponse panic; net/http recovers that behind Relay, whose    *)
(* deferred calls run as on a return.                                      *)
(***************************************************************************)
EXTENDS SdpTrack

CONSTANT Bodies         \* the descriptions the server may send

ASSUME BodiesAssumption == Bodies \subseteq Seq(Line)

VARIABLES
    pc,             \* where Relay is: the request it is at, or a later step
    awaiting,       \* TRUE once that request is written, until it is answered
    conn,           \* the RTSP connection: none, open or closed
    readBy, writeBy,    \* its deadlines: none, now (past) or soon
    ctxDone,        \* the HTTP request's context is cancelled
    watcher,        \* none, waiting or done
    orphanReader,   \* a reader abandoned by readMore is still in Read
    udp,            \* the UDP socket pair: none, open or closed
    track,          \* setupURL and playURL, once parseSdpTrack has found them
    described,      \* the description the relay has read
    session,        \* id parsed from the SETUP answer: NoSession, Blank or an id
    started,        \* media has been written to the HTTP response
    result,         \* what Relay returns: none yet, nil, noSession (the error of
                    \* parseSessionID), panic or error (any other)
    setups,         \* number of SETUP requests written
    played,         \* PLAY was answered with success
    tornDown,       \* session ids for which TEARDOWN was written
    server,         \* up, or gone (the connection is dead)
    inbox,          \* requests the server has not answered yet
    replies,        \* answers on their way to the relay
    sessions        \* sessions open at the server

sdp == <<track, described>>
relayState ==
    <<pc, awaiting, udp, sdp, session, started, result, setups, played, tornDown>>
socketState == <<conn, readBy, writeBy, orphanReader>>
envState == <<server, inbox, replies, sessions>>
vars == <<relayState, socketState, envState, ctxDone, watcher>>

Requests == {"DESCRIBE", "SETUP_tcp_unicast", "SETUP_tcp", "SETUP_udp", "PLAY", "TEARDOWN"}
Setups == {"SETUP_tcp_unicast", "SETUP_tcp", "SETUP_udp"}
MaxSetups == 3      \* two TCP candidates and one UDP attempt

\* A session's id is the number of the SETUP that opened it.  A Session header
\* that begins with its parameters gives an empty id, which the code accepts.
NoSession == 0
Blank == -1
SessionId == {Blank} \union (0 .. MaxSetups)

Init ==
    /\ pc = "dial"
    /\ awaiting = FALSE
    /\ conn = "none"
    /\ readBy = "none" /\ writeBy = "none"
    /\ ctxDone = FALSE
    /\ watcher = "none"
    /\ orphanReader = FALSE
    /\ udp = "none"
    /\ track = {} /\ described = <<>>
    /\ session = NoSession
    /\ started = FALSE
    /\ result = "none"
    /\ setups = 0
    /\ played = FALSE
    /\ tornDown = {}
    /\ server = "up"
    /\ inbox = <<>> /\ replies = <<>> /\ sessions = {}

-----------------------------------------------------------------------------
(* connection.request: write, then wait for the answer.                    *)

\* The url of the request: the stream's, the track's, or the aggregate's.
RequestURL ==
    IF track = {} THEN StreamURL
    ELSE LET t == CHOOSE t \in track : TRUE
         IN  IF pc \in Setups THEN t.setupURL ELSE t.playURL

\* A write to a dead peer may succeed or fail; past its deadline it fails.
writeRequest ==
    /\ pc \in Requests /\ ~awaiting
    /\ writeBy # "now"
    /\ awaiting' = TRUE
    /\ setups' = IF pc \in Setups THEN setups + 1 ELSE setups
    /\ tornDown' = IF pc = "TEARDOWN" THEN tornDown \union {session} ELSE tornDown
    /\ inbox' = Append(inbox, [method |-> pc, url |-> RequestURL, session |-> session,
                               setup |-> setups'])
    /\ UNCHANGED <<pc, udp, sdp, session, started, result, played, socketState,
                   server, replies, sessions, ctxDone, watcher>>

\* An abstract answer: ok is a 2xx status.
Took(reply) ==
    /\ awaiting
    /\ readBy # "now"
    /\ replies # <<>>
    /\ reply = Head(replies)
    /\ replies' = Tail(replies)

\* request returns an error: the write or the read fails.
RequestFails ==
    \/ ~awaiting /\ (writeBy = "now" \/ server = "gone")
    \/ awaiting /\ (readBy \in {"now", "soon"} \/ server = "gone")

\* Answers of either status whose Content-Length is negative, or so large that
\* the sum with bodyStart overflows, which ends alike.
NegativeLength == [ok : BOOLEAN, length : {"negative"}]

\* make([]byte, contentLength) panics, whatever the status, and the deferred
\* calls from next on run.
ReadPanics(next) ==
    /\ \E reply \in NegativeLength : Took(reply)
    /\ pc' = next
    /\ awaiting' = FALSE
    /\ result' = "panic"

\* The error returns of Relay: each leaves through the deferred calls that
\* were already in place.
ReturnError(next) ==
    /\ pc' = next
    /\ awaiting' = FALSE
    /\ result' = "error"

-----------------------------------------------------------------------------
(* Relay, step by step.                                                    *)

connectRtspSocket ==
    /\ pc = "dial"
    /\ \/ pc' = "DESCRIBE" /\ conn' = "open" /\ watcher' = "waiting"
                           /\ UNCHANGED result
       \/ pc' = "returned" /\ result' = "error" /\ UNCHANGED <<conn, watcher>>
    /\ UNCHANGED <<sdp, awaiting, readBy, writeBy, ctxDone, orphanReader, udp, session,
                   started, setups, played, tornDown, envState>>

\* parseSdpTrack on every body: constants, so TLC works them out once.
TrackOf == [body \in Bodies |-> parseSdpTrack(body)]
Panicking == {body \in Bodies : parseSdpPanics(body)}

\* DESCRIBE answered; parseSdpTrack finds a track in the body or not.
describeAnswered ==
    /\ pc = "DESCRIBE"
    /\ \/ \E body \in Bodies :
            /\ Took([ok |-> TRUE, sdp |-> body])
            /\ described' = body
            /\ track' = TrackOf[body]
            /\ awaiting' = FALSE
            /\ \/ track' # {} /\ pc' = "SETUP_tcp_unicast" /\ UNCHANGED result
               \/ track' = {} /\ pc' = "closeConn"
                              /\ result' = IF body \in Panicking THEN "panic" ELSE "error"
       \/ /\ \/ \E body \in Bodies : Took([ok |-> FALSE, sdp |-> body])
             \/ RequestFails /\ UNCHANGED replies
          /\ ReturnError("closeConn")
          /\ UNCHANGED sdp
       \/ ReadPanics("closeConn") /\ UNCHANGED sdp
    /\ UNCHANGED <<udp, session, started, setups, played, tornDown, socketState,
                   server, inbox, sessions, ctxDone, watcher>>

SetupReply == [ok : BOOLEAN, transport : {"tcp", "udp", "unusable"},
               session : SessionId]

\* parseSessionID on an accepted answer: UDP sockets are closed by a deferred
\* call only from here on, so an answer without a Session header leaves them.
takeSession(reply) ==
    /\ session' = reply.session
    /\ awaiting' = FALSE
    /\ \/ session' = NoSession /\ pc' = "closeConn" /\ result' = "noSession"
       \/ session' # NoSession /\ pc' = "PLAY" /\ UNCHANGED result

\* A plausible bug: after the last TCP candidate the first is tried again.
setupTcpAnsweredRetries ==
    /\ pc \in {"SETUP_tcp_unicast", "SETUP_tcp"}
    /\ \/ \E reply \in SetupReply :
            /\ Took(reply)
            /\ reply.ok /\ reply.transport = "tcp"
            /\ takeSession(reply)
       \/ /\ \/ \E reply \in SetupReply :
                  Took(reply) /\ ~(reply.ok /\ reply.transport = "tcp")
             \/ RequestFails /\ UNCHANGED replies
          /\ pc' = IF pc = "SETUP_tcp" THEN "SETUP_tcp_unicast" ELSE "SETUP_tcp"
          /\ awaiting' = FALSE
          /\ UNCHANGED <<session, result>>
       \/ ReadPanics("closeConn") /\ UNCHANGED session
    /\ UNCHANGED <<sdp, udp, started, setups, played, tornDown, socketState, server,
                   inbox, sessions, ctxDone, watcher>>

\* A TCP candidate: taken if the answer says TCP, else the next one is tried,
\* and after the last one UDP.
setupTcpAnswered ==
    /\ pc \in {"SETUP_tcp_unicast", "SETUP_tcp"}
    /\ \/ \E reply \in SetupReply :
            /\ Took(reply)
            /\ reply.ok /\ reply.transport = "tcp"
            /\ takeSession(reply)
       \/ /\ \/ \E reply \in SetupReply :
                  Took(reply) /\ ~(reply.ok /\ reply.transport = "tcp")
             \/ RequestFails /\ UNCHANGED replies
          /\ pc' = IF pc = "SETUP_tcp" THEN "bind" ELSE "SETUP_tcp"
          /\ awaiting' = FALSE
          /\ UNCHANGED <<session, result>>
       \/ ReadPanics("closeConn") /\ UNCHANGED session
    /\ UNCHANGED <<sdp, udp, started, setups, played, tornDown, socketState, server,
                   inbox, sessions, ctxDone, watcher>>

\* Up to ten tries for an even port and its neighbour.
createUdpTransport ==
    /\ pc = "bind"
    /\ \/ udp' = "open" /\ pc' = "SETUP_udp" /\ UNCHANGED <<awaiting, result>>
       \/ ReturnError("closeConn") /\ UNCHANGED udp
    /\ UNCHANGED <<sdp, session, started, setups, played, tornDown, socketState,
                   envState, ctxDone, watcher>>

\* A plausible bug: an unusable answer to the UDP SETUP keeps the port pair.
setupUdpAnsweredLeaks ==
    /\ pc = "SETUP_udp"
    /\ \/ \E reply \in SetupReply :
            /\ Took(reply)
            /\ reply.ok /\ reply.transport # "unusable"
            /\ udp' = IF reply.transport = "tcp" THEN "closed" ELSE udp
            /\ takeSession(reply)
       \/ /\ \/ \E reply \in SetupReply :
                  Took(reply) /\ ~(reply.ok /\ reply.transport # "unusable")
             \/ RequestFails /\ UNCHANGED replies
          /\ ReturnError("closeConn")
          /\ UNCHANGED <<udp, session>>
       \/ ReadPanics("closeConn") /\ UNCHANGED <<udp, session>>
    /\ UNCHANGED <<sdp, started, setups, played, tornDown, socketState, server,
                   inbox, sessions, ctxDone, watcher>>

\* Nobody closes the port pair when the read of the answer panics: the
\* deferred transport.close() is not in place yet.
setupUdpAnswered ==
    /\ pc = "SETUP_udp"
    /\ \/ \E reply \in SetupReply :
            /\ Took(reply)
            /\ reply.ok /\ reply.transport # "unusable"
            /\ udp' = IF reply.transport = "tcp" THEN "closed" ELSE udp
            /\ takeSession(reply)
       \/ /\ \/ \E reply \in SetupReply :
                  Took(reply) /\ ~(reply.ok /\ reply.transport # "unusable")
             \/ RequestFails /\ UNCHANGED replies
          /\ udp' = "closed"
          /\ ReturnError("closeConn")
          /\ UNCHANGED session
       \/ ReadPanics("closeConn") /\ UNCHANGED <<udp, session>>
    /\ UNCHANGED <<sdp, started, setups, played, tornDown, socketState, server,
                   inbox, sessions, ctxDone, watcher>>

\* With PLAY answered, bestEffortTeardown is deferred; before, it is not.
playAnswered ==
    /\ pc = "PLAY"
    /\ \/ /\ \E reply \in [ok : {TRUE}] : Took(reply)
          /\ pc' = "stream" /\ awaiting' = FALSE /\ played' = TRUE /\ UNCHANGED result
       \/ /\ \/ \E reply \in [ok : {FALSE}] : Took(reply)
             \/ RequestFails /\ UNCHANGED replies
          /\ ReturnError("closeUdp")
          /\ UNCHANGED played
       \/ ReadPanics("closeUdp") /\ UNCHANGED played
    /\ UNCHANGED <<sdp, udp, session, started, setups, tornDown, socketState, server,
                   inbox, sessions, ctxDone, watcher>>

\* streamMedia hands a payload to the HTTP response.
mediaWritten ==
    /\ pc = "stream"
    /\ ~started
    /\ started' = TRUE
    /\ UNCHANGED <<sdp, pc, awaiting, udp, session, result, setups, played, tornDown,
                   socketState, envState, ctxDone, watcher>>

\* streamMedia returns: the context ended, the connection failed, the handler
\* failed or, over UDP only, the sender fell silent (nil).  Leaving readMore
\* on cancellation leaves its reader behind.  A runt datagram (UDP) or a message
\* with a negative length between frames (TCP) makes it panic.
streamEnds ==
    /\ pc = "stream"
    /\ \/ result' = IF started THEN "nil" ELSE "error"
       \/ udp = "open" /\ result' = "nil"
       \/ result' = "panic"
    /\ orphanReader' \in {FALSE} \union {ctxDone /\ udp # "open" /\ result' # "panic"}
    /\ pc' = "armTeardown"
    /\ UNCHANGED <<sdp, awaiting, udp, session, started, setups, played, tornDown,
                   conn, readBy, writeBy, envState, ctxDone, watcher>>

\* A plausible bug: the expired deadline is cleared and no new one is set.
armTeardownNoDeadline ==
    /\ pc = "armTeardown"
    /\ \/ session # Blank /\ readBy' = "none" /\ writeBy' = "none" /\ pc' = "TEARDOWN"
       \/ session = Blank /\ pc' = "closeUdp" /\ UNCHANGED <<readBy, writeBy>>
    /\ UNCHANGED <<sdp, awaiting, udp, session, started, result, setups, played, tornDown,
                   conn, orphanReader, envState, ctxDone, watcher>>

\* bestEffortTeardown: a deadline for both directions, the request, and the
\* deadlines cleared again.  A failure of the request is ignored.  Without an
\* id there is nothing to tear down with.
armTeardown ==
    /\ pc = "armTeardown"
    /\ \/ session # Blank /\ readBy' = "soon" /\ writeBy' = "soon" /\ pc' = "TEARDOWN"
       \/ session = Blank /\ pc' = "closeUdp" /\ UNCHANGED <<readBy, writeBy>>
    /\ UNCHANGED <<sdp, awaiting, udp, session, started, result, setups, played, tornDown,
                   conn, orphanReader, envState, ctxDone, watcher>>

\* The message over which the interleaved pump panicked is first in c.buffer
\* still: the TEARDOWN's readResponse meets it before any answer.
Unread == awaiting /\ result = "panic" /\ udp # "open"

teardownEnds ==
    /\ pc = "TEARDOWN"
    /\ \/ /\ \/ ~Unread /\ \E reply \in [ok : BOOLEAN] : Took(reply)
             \/ ~Unread /\ RequestFails /\ UNCHANGED replies
             \/ Unread /\ UNCHANGED replies
          /\ pc' = "closeUdp" /\ awaiting' = FALSE
          /\ UNCHANGED result
       \/ ~Unread /\ ReadPanics("closeUdp")
    /\ readBy' = "none" /\ writeBy' = "none"
    /\ UNCHANGED <<sdp, udp, session, started, setups, played, tornDown, conn,
                   orphanReader, server, inbox, sessions, ctxDone, watcher>>

\* The deferred transport.close(), in place when the transport is UDP.
closeUdp ==
    /\ pc = "closeUdp"
    /\ udp' = IF udp = "open" THEN "closed" ELSE udp
    /\ pc' = "closeConn"
    /\ UNCHANGED <<sdp, awaiting, session, started, result, setups, played, tornDown,
                   socketState, envState, ctxDone, watcher>>

\* The first two deferred calls, last: close(closed) and socket.Close().
closeConn ==
    /\ pc = "closeConn"
    /\ conn' = "closed"
    /\ orphanReader' = FALSE
    /\ pc' = "returned"
    /\ UNCHANGED <<sdp, awaiting, udp, session, started, result, setups, played, tornDown,
                   readBy, writeBy, envState, ctxDone, watcher>>

-----------------------------------------------------------------------------
(* The other goroutines.                                                   *)

\* A plausible bug: the watcher expires writes as well as reads.
watchSetDeadline ==
    /\ watcher = "waiting"
    /\ watcher' = "done"
    /\ \/ ctxDone /\ readBy' = "now" /\ writeBy' = "now"
       \/ pc = "returned" /\ UNCHANGED <<readBy, writeBy>>
    /\ UNCHANGED <<relayState, conn, orphanReader, envState, ctxDone>>

\* select { case <-ctx.Done(): SetReadDeadline(now); case <-closed: }
watch ==
    /\ watcher = "waiting"
    /\ watcher' = "done"
    /\ \/ ctxDone /\ readBy' = "now"
       \/ pc = "returned" /\ UNCHANGED readBy
    /\ UNCHANGED <<relayState, conn, writeBy, orphanReader, envState, ctxDone>>

\* The abandoned reader gets the next answer, or its read fails.
orphanReads ==
    /\ orphanReader
    /\ orphanReader' = FALSE
    /\ \/ replies # <<>> /\ readBy # "now" /\ replies' = Tail(replies)
       \/ readBy # "none" /\ UNCHANGED replies
    /\ UNCHANGED <<relayState, conn, readBy, writeBy, server, inbox, sessions,
                   ctxDone, watcher>>

clientLeaves ==
    /\ ~ctxDone
    /\ ctxDone' = TRUE
    /\ UNCHANGED <<relayState, socketState, envState, watcher>>

-----------------------------------------------------------------------------
(* The upstream server (external).                                         *)

\* The answers the server may give to request r, and what each does to its
\* sessions.
Answers(r) ==
    NegativeLength \union
    CASE r.method = "DESCRIBE" -> [ok : {TRUE}, sdp : Bodies]
                                  \union [ok : {FALSE}, sdp : {<<>>}]
      [] r.method \in Setups ->
           [ok : {FALSE}, transport : {"unusable"}, session : {NoSession}]
             \union [ok : {TRUE}, transport : {"tcp", "udp", "unusable"},
                     session : {NoSession, Blank, r.setup}]
      [] r.method \in {"PLAY", "TEARDOWN"} -> [ok : BOOLEAN]

serverAnswers ==
    /\ server = "up"
    /\ inbox # <<>>
    /\ LET r == Head(inbox)
       IN  \E a \in Answers(r) :
             /\ replies' = Append(replies, a)
             /\ sessions' =
                  CASE r.method \in Setups /\ a.ok -> sessions \union {r.setup}
                    [] r.method = "TEARDOWN" -> sessions \ {r.session}
                    [] OTHER -> sessions
    /\ inbox' = Tail(inbox)
    /\ UNCHANGED <<relayState, socketState, server, ctxDone, watcher>>

\* The connection ends: what was already on its way may still be read or not.
\* An answer readResponse cannot parse is the same to the relay: it stays in
\* c.buffer and fails every later request as well.
serverDrops ==
    /\ server = "up"
    /\ server' = "gone"
    /\ replies' \in {replies, <<>>}
    /\ UNCHANGED <<relayState, socketState, inbox, sessions, ctxDone, watcher>>

-----------------------------------------------------------------------------
RelayStep ==
    \/ connectRtspSocket \/ writeRequest \/ describeAnswered \/ setupTcpAnswered
    \/ createUdpTransport \/ setupUdpAnswered \/ playAnswered
    \/ armTeardown \/ teardownEnds \/ closeUdp \/ closeConn

Next ==
    \/ RelayStep \/ mediaWritten \/ streamEnds
    \/ watch \/ orphanReads \/ clientLeaves
    \/ serverAnswers \/ serverDrops

Spec == Init /\ [][Next]_vars

\* Once connected, the relay's goroutine and the watcher run when they can; the
\* 500 ms teardown deadline passes; streamMedia returns once the context is done
\* (UdpRelay shows it for UDP, readMore selects on it for TCP).  Nothing is
\* assumed of the server, and nothing of the dial: tls.Dial takes no context and
\* has no handshake timeout, so a server that accepts and is silent holds it.
Fairness ==
    /\ WF_vars(pc # "dial" /\ RelayStep)
    /\ WF_vars(watch)
    /\ WF_vars(ctxDone /\ streamEnds)

FairSpec == Spec /\ Fairness

-----------------------------------------------------------------------------
\* Types; a playback never sends more than MaxSetups SETUP requests.
TypeOK ==
    /\ pc \in Requests \union {"dial", "bind", "stream", "armTeardown", "closeUdp",
                               "closeConn", "returned"}
    /\ awaiting \in BOOLEAN /\ ctxDone \in BOOLEAN /\ orphanReader \in BOOLEAN
    /\ started \in BOOLEAN /\ played \in BOOLEAN
    /\ conn \in {"none", "open", "closed"}
    /\ readBy \in {"none", "now", "soon"} /\ writeBy \in {"none", "now", "soon"}
    /\ watcher \in {"none", "waiting", "done"}
    /\ udp \in {"none", "open", "closed"}
    /\ session \in SessionId /\ setups \in 0 .. MaxSetups
    /\ result \in {"none", "nil", "noSession", "panic", "error"}
    /\ tornDown \subseteq 1 .. MaxSetups
    /\ server \in {"up", "gone"}
    /\ sessions \subseteq 1 .. MaxSetups

\* Whenever PLAY succeeded and the server is still there, TEARDOWN for that
\* very session was written before the connection was closed, however the
\* cancellation's read deadline races with the teardown's own and also when the
\* stream or a message in it made Relay panic.  The exception is a session whose
\* id the server left empty: bestEffortTeardown has nothing to name it by.
PlayedIsTornDown ==
    conn = "closed" /\ played /\ server = "up" => session \in tornDown \union {Blank}

\* Request r addresses what a server that sent this description means.
Addressed(body, r) ==
    LET media == {i \in 1 .. Len(body) : CarriesMpegTs(body, i)}
        controls == ControlOf(body, Min(media))
        aggregate == ControlOf(body, 0) \ {""}
    IN  CASE r.method = "DESCRIBE" -> r.url = StreamURL
          [] r.method \in Setups -> \E c \in controls : Means(c, r.url)
          [] r.method \in {"PLAY", "TEARDOWN"} ->
                \E c \in (IF aggregate = {} THEN controls ELSE aggregate) : Means(c, r.url)

\* Every SETUP addresses the MPEG-TS media of the description, and PLAY and
\* TEARDOWN the whole presentation or, if it has no control, that media; what is
\* given relative to the stream keeps the query that tunes the receiver
\* (parseSdpTrack, resolveControlURL).
RequestsAddressMpegTs == \A k \in 1 .. Len(inbox) : Addressed(described, inbox[k])

\* The UDP port pair is released by the time Relay returns, whatever happens
\* from PLAY on, a panic included.  Only the answer to the UDP SETUP itself can
\* leave it open: one accepted without a Session header, or one with a negative
\* Content-Length, ends Relay before the deferred close is in place.
UdpPairReleased ==
    pc = "returned" /\ udp = "open" =>
        session = NoSession /\ result \in {"noSession", "panic"}

\* Once the connection is up, Relay returns when the HTTP client is gone, even
\* against a server that never answers a request.  The dial itself is not covered:
\* connectRtspSocket does not look at the context.
CancelEndsRelay == ctxDone /\ pc # "dial" ~> pc = "returned"

\* The teardown plan's goal: when Plex stops the HTTP playback request, the
\* session Relay has negotiated is torn down before Relay returns.
SessionTornDownOnStop ==
    pc = "returned" /\ ctxDone /\ server = "up" /\ session \in 1 .. MaxSetups
        => session \in tornDown
=============================================================================
