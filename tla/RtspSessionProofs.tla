-------------------------- MODULE RtspSessionProofs --------------------------
(***************************************************************************)
(* Proofs about RtspSession, for every set of descriptions a server may    *)
(* send and every behaviour of the server.  The inductive invariant says   *)
(* at each place of Relay what has been asked for, what is open and which  *)
(* deferred calls are still to come.                                       *)
(***************************************************************************)
EXTENDS RtspSession, NaturalsInduction, WellFoundedInduction, TLAPS

-----------------------------------------------------------------------------
(* The inductive invariant, part by part.                                  *)

\* Requests that are on their way: a SETUP carries its number.
Url ==
    LET tracks == UNION {TrackOf[body] : body \in Bodies}
    IN  {StreamURL} \union {t.setupURL : t \in tracks} \union {t.playURL : t \in tracks}

Pending == [method : Requests, url : Url, session : SessionId, setup : 0 .. MaxSetups]

InboxInv ==
    /\ track = {} \/ \E body \in Bodies : track = TrackOf[body]
    /\ inbox \in Seq(Pending)
    /\ \A i \in 1 .. Len(inbox) : inbox[i].method \in Setups => inbox[i].setup # 0

\* The SETUPs written so far: at most one for each candidate behind Relay.
BeforeSetup == {"dial", "DESCRIBE"}
SetupsInv ==
    /\ awaiting => pc \in Requests
    /\ pc \in BeforeSetup => setups = 0
    /\ pc = "SETUP_tcp_unicast" => setups < 2 /\ (~awaiting => setups < 1)
    /\ pc = "SETUP_tcp" => setups < 3 /\ (~awaiting => setups < 2)
    /\ pc = "bind" => setups < 3
    /\ pc = "SETUP_udp" /\ ~awaiting => setups < 3

\* Relay gets to PLAY only with a session id, perhaps an empty one, past PLAY's
\* answer only when that succeeded, and to TEARDOWN only with an id to name.
WithSession == {"PLAY", "stream", "armTeardown", "TEARDOWN"}
SessionInv ==
    /\ pc \in WithSession => session # NoSession
    /\ pc = "TEARDOWN" => session # Blank
    /\ pc \in {"stream", "armTeardown", "TEARDOWN"} => played
    /\ played => pc \in {"stream", "armTeardown", "TEARDOWN", "closeUdp", "closeConn",
                         "returned"}

\* The write deadline never lies in the past, so with the server there the
\* TEARDOWN is written before Relay goes on to its other deferred calls.
TeardownInv ==
    /\ writeBy # "now"
    /\ conn = "closed" => pc = "returned"
    /\ pc = "TEARDOWN" /\ awaiting => session \in tornDown
    /\ played /\ pc \in {"closeUdp", "closeConn", "returned"} /\ server = "up"
          => session \in tornDown \union {Blank}

\* While the UDP pair is open its close is still to come, except after an answer
\* to the UDP SETUP that has no Session header or makes the read panic: both end
\* Relay while it still has no session.
UdpInv ==
    /\ pc \in BeforeSetup \union Setups \union {"bind"} => session = NoSession
    /\ udp = "open" =>
        \/ pc \in {"SETUP_udp", "closeUdp"} \union WithSession
        \/ /\ pc \in {"closeConn", "returned"}
           /\ session = NoSession /\ result \in {"noSession", "panic"}

IInv == TypeOK /\ InboxInv /\ SetupsInv /\ SessionInv /\ TeardownInv /\ UdpInv

-----------------------------------------------------------------------------
(* Requests and answers.                                                   *)

\* What request writes is typed: its url is the stream's or one of the track's.
LEMMA RequestTyped ==
    ASSUME TypeOK, InboxInv, pc \in Requests,
           NEW n \in 0 .. MaxSetups
    PROVE  [method |-> pc, url |-> RequestURL, session |-> session, setup |-> n] \in Pending
<1>1. RequestURL \in Url
    <2>1. CASE track = {}
        BY <2>1 DEF RequestURL, Url
    <2>2. CASE track # {}
        <3>1. PICK body \in Bodies : track = TrackOf[body]
            BY <2>2 DEF InboxInv
        <3>2. (CHOOSE t \in track : TRUE) \in UNION {TrackOf[b] : b \in Bodies}
            BY <2>2, <3>1
        <3> QED BY <2>2, <3>2 DEF RequestURL, Url
    <2> QED BY <2>1, <2>2
<1> QED BY <1>1 DEF Pending, TypeOK

\* Between two steps of Relay only the server takes requests off the inbox.
LEMMA InboxStep ==
    TypeOK /\ InboxInv /\ SetupsInv /\ [Next]_vars => InboxInv' /\ setups' \in 0 .. MaxSetups
<1> SUFFICES ASSUME TypeOK, InboxInv, SetupsInv, [Next]_vars
             PROVE  InboxInv' /\ setups' \in 0 .. MaxSetups
    OBVIOUS
<1>1. CASE writeRequest
    <2> DEFINE r == [method |-> pc, url |-> RequestURL, session |-> session,
                     setup |-> setups']
    <2>1. setups' \in 0 .. MaxSetups /\ (pc \in Setups => setups' # 0)
        BY <1>1 DEF writeRequest, TypeOK, SetupsInv, Setups, Requests, MaxSetups
    <2>2. r \in Pending
        BY <1>1, <2>1, RequestTyped DEF writeRequest
    <2>3. inbox' = Append(inbox, r) /\ UNCHANGED track
        BY <1>1 DEF writeRequest, sdp
    <2>4. r.method \in Setups => r.setup # 0
        BY <2>1
    <2> HIDE DEF r
    <2> QED BY <2>1, <2>2, <2>3, <2>4 DEF InboxInv
<1>2. CASE serverAnswers
    <2>1. inbox # <<>> /\ inbox' = Tail(inbox) /\ UNCHANGED <<track, setups>>
        BY <1>2 DEF serverAnswers, relayState, sdp
    <2> QED BY <2>1 DEF InboxInv, TypeOK
<1>3. CASE describeAnswered
    <2>1. /\ UNCHANGED <<inbox, setups>>
          /\ UNCHANGED track \/ \E body \in Bodies : track' = TrackOf[body]
        BY <1>3 DEF describeAnswered, sdp
    <2> QED BY <2>1 DEF InboxInv, TypeOK
<1>4. ASSUME UNCHANGED <<inbox, setups, track>> PROVE InboxInv' /\ setups' \in 0 .. MaxSetups
    BY <1>4 DEF InboxInv, TypeOK
<1>5. CASE connectRtspSocket \/ setupTcpAnswered \/ createUdpTransport \/ setupUdpAnswered
           \/ playAnswered \/ armTeardown \/ teardownEnds \/ closeUdp \/ closeConn
    BY <1>4, <1>5
       DEF connectRtspSocket, setupTcpAnswered, createUdpTransport, setupUdpAnswered,
           playAnswered, armTeardown, teardownEnds, closeUdp, closeConn, sdp, envState
<1>6. CASE mediaWritten \/ streamEnds \/ watch \/ orphanReads \/ clientLeaves \/ serverDrops
    BY <1>4, <1>6
       DEF mediaWritten, streamEnds, watch, orphanReads, clientLeaves, serverDrops, sdp,
           envState, relayState
<1>7. CASE UNCHANGED vars
    BY <1>4, <1>7 DEF vars, relayState, sdp, envState
<1> QED BY <1>1, <1>2, <1>3, <1>5, <1>6, <1>7 DEF Next, RelayStep

\* What a server answers touches no session but those of the requests it has.
LEMMA ServerSessions ==
    ASSUME TypeOK, InboxInv, serverAnswers
    PROVE  sessions' \subseteq 1 .. MaxSetups
<1> DEFINE r == Head(inbox)
<1>1. r \in Pending /\ (r.method \in Setups => r.setup # 0)
    BY DEF serverAnswers, InboxInv
<1>3. \/ r.method \in Setups /\ sessions' = sessions \union {r.setup}
      \/ sessions' = sessions \ {r.session}
      \/ sessions' = sessions
    BY Zenon DEF serverAnswers
<1>4. r.method \in Setups => r.setup \in 1 .. MaxSetups
    BY <1>1 DEF Pending, MaxSetups
<1> QED BY <1>3, <1>4 DEF TypeOK

-----------------------------------------------------------------------------
(* The invariant is inductive: one step per action.  The flags come first: *)
(* that they stay Boolean is logic, the rest is sets and numbers.          *)

Flags ==
    /\ awaiting \in BOOLEAN /\ ctxDone \in BOOLEAN /\ orphanReader \in BOOLEAN
    /\ started \in BOOLEAN /\ played \in BOOLEAN

LEMMA FlagsInit == Init => Flags
BY Zenon DEF Init, Flags

LEMMA FlagsStep == Flags /\ [Next]_vars => Flags'
<1> SUFFICES ASSUME Flags, [Next]_vars PROVE Flags'
    OBVIOUS
<1> USE DEF Flags, sdp, relayState, socketState, envState, ReturnError, ReadPanics
<1>1. CASE connectRtspSocket
    BY <1>1, Zenon DEF connectRtspSocket
<1>2. CASE writeRequest
    BY <1>2, Zenon DEF writeRequest
<1>3. CASE describeAnswered
    BY <1>3, Zenon DEF describeAnswered
<1>4. CASE setupTcpAnswered
    BY <1>4, Zenon DEF setupTcpAnswered, takeSession
<1>5. CASE createUdpTransport
    BY <1>5, Zenon DEF createUdpTransport
<1>6. CASE setupUdpAnswered
    BY <1>6, Zenon DEF setupUdpAnswered, takeSession
<1>7. CASE playAnswered
    BY <1>7, Zenon DEF playAnswered
<1>8. CASE mediaWritten
    BY <1>8, Zenon DEF mediaWritten
<1>9. CASE streamEnds
    <2>1. orphanReader' = FALSE
          \/ orphanReader' = (ctxDone /\ udp # "open" /\ result' # "panic")
        BY <1>9, Zenon DEF streamEnds
    <2> QED BY <1>9, <2>1, Zenon DEF streamEnds
<1>10. CASE armTeardown
    BY <1>10, Zenon DEF armTeardown
<1>11. CASE teardownEnds
    BY <1>11, Zenon DEF teardownEnds
<1>12. CASE closeUdp
    BY <1>12, Zenon DEF closeUdp
<1>13. CASE closeConn
    BY <1>13, Zenon DEF closeConn
<1>14. CASE watch
    BY <1>14, Zenon DEF watch
<1>15. CASE orphanReads
    BY <1>15, Zenon DEF orphanReads
<1>16. CASE clientLeaves
    BY <1>16, Zenon DEF clientLeaves
<1>17. CASE serverAnswers
    BY <1>17, Zenon DEF serverAnswers
<1>18. CASE serverDrops
    BY <1>18, Zenon DEF serverDrops
<1>19. CASE UNCHANGED vars
    BY <1>19, Zenon DEF vars
<1> QED
    BY <1>1, <1>2, <1>3, <1>4, <1>5, <1>6, <1>7, <1>8, <1>9, <1>10, <1>11, <1>12,
       <1>13, <1>14, <1>15, <1>16, <1>17, <1>18, <1>19 DEF Next, RelayStep

RelayInv == SetupsInv /\ SessionInv /\ TeardownInv /\ UdpInv

LEMMA IInvInit == Init => IInv
<1> SUFFICES ASSUME Init PROVE IInv
    OBVIOUS
<1>1. TypeOK
    BY FlagsInit DEF Init, TypeOK, Flags, MaxSetups, Requests, SessionId, NoSession
<1>2. InboxInv
    BY DEF Init, InboxInv
<1>3. SetupsInv /\ SessionInv /\ TeardownInv /\ UdpInv
    BY DEF Init, SetupsInv, SessionInv, TeardownInv, UdpInv, BeforeSetup, WithSession, NoSession
<1> QED BY <1>1, <1>2, <1>3 DEF IInv

LEMMA IInvStep == IInv /\ [Next]_vars => IInv'
<1> SUFFICES ASSUME TypeOK, InboxInv, RelayInv, [Next]_vars PROVE TypeOK' /\ RelayInv'
    BY InboxStep DEF IInv, RelayInv
<1>0. setups' \in 0 .. MaxSetups /\ Flags'
    BY InboxStep, FlagsStep DEF RelayInv, TypeOK, Flags
<1> USE <1>0
    DEF TypeOK, RelayInv, SetupsInv, SessionInv, TeardownInv, UdpInv, BeforeSetup, WithSession,
        Requests, Setups, MaxSetups, Flags, SessionId, NoSession, Blank
<1>1. CASE connectRtspSocket
    BY <1>1 DEF connectRtspSocket, sdp, envState
<1>2. CASE writeRequest
    BY <1>2 DEF writeRequest, sdp, socketState
<1>3. CASE describeAnswered
    <2>1. /\ pc = "DESCRIBE" /\ pc' \in {"SETUP_tcp_unicast", "closeConn"}
          /\ awaiting' = FALSE
          /\ result' \in {result, "panic", "error"}
        BY <1>3 DEF describeAnswered, ReturnError, ReadPanics
    <2>2. UNCHANGED <<udp, session, started, setups, played, tornDown, conn, readBy, writeBy,
                      orphanReader, server, sessions, ctxDone, watcher>>
        BY <1>3 DEF describeAnswered, socketState
    <2>3. TypeOK'
        BY <2>1, <2>2
    <2>4. UdpInv'
        BY <2>1, <2>2
    <2>5. SessionInv' /\ TeardownInv'
        BY <2>1, <2>2
    <2>6. SetupsInv'
        BY <2>1, <2>2
    <2> QED BY <2>3, <2>4, <2>5, <2>6
<1>4. CASE setupTcpAnswered
    <2>1. /\ pc \in {"SETUP_tcp_unicast", "SETUP_tcp"} /\ awaiting' = FALSE
          /\ \/ /\ pc' = IF pc = "SETUP_tcp" THEN "bind" ELSE "SETUP_tcp"
                /\ UNCHANGED <<session, result>>
             \/ session' = NoSession /\ pc' = "closeConn" /\ result' = "noSession"
             \/ session' \in SessionId \ {NoSession} /\ pc' = "PLAY" /\ UNCHANGED result
             \/ UNCHANGED session /\ pc' = "closeConn" /\ result' = "panic"
        BY <1>4 DEF setupTcpAnswered, takeSession, SetupReply, ReadPanics
    <2>2. UNCHANGED <<udp, started, setups, played, tornDown, conn, readBy, writeBy,
                      orphanReader, server, sessions, ctxDone, watcher>>
        BY <1>4 DEF setupTcpAnswered, socketState
    <2>3. TypeOK'
        BY <2>1, <2>2
    <2>4. UdpInv'
        BY <2>1, <2>2
    <2>5. SessionInv' /\ TeardownInv'
        BY <2>1, <2>2
    <2>6. SetupsInv'
        BY <2>1, <2>2
    <2> QED BY <2>3, <2>4, <2>5, <2>6
<1>5. CASE createUdpTransport
    <2>1. /\ pc = "bind"
          /\ \/ udp' = "open" /\ pc' = "SETUP_udp" /\ UNCHANGED <<awaiting, result>>
             \/ pc' = "closeConn" /\ awaiting' = FALSE /\ result' = "error" /\ UNCHANGED udp
        BY <1>5 DEF createUdpTransport, ReturnError
    <2>2. UNCHANGED <<session, started, setups, played, tornDown, conn, readBy, writeBy,
                      orphanReader, server, sessions, ctxDone, watcher>>
        BY <1>5 DEF createUdpTransport, socketState, envState
    <2>3. TypeOK'
        BY <2>1, <2>2
    <2>4. UdpInv'
        BY <2>1, <2>2
    <2>5. SessionInv' /\ TeardownInv'
        BY <2>1, <2>2
    <2>6. SetupsInv'
        BY <2>1, <2>2
    <2> QED BY <2>3, <2>4, <2>5, <2>6
<1>6. CASE setupUdpAnswered
    <2>1. /\ pc = "SETUP_udp" /\ awaiting' = FALSE /\ udp' \in {udp, "closed"}
          /\ \/ /\ pc' = "closeConn" /\ udp' = "closed" /\ result' = "error"
                /\ UNCHANGED session
             \/ session' = NoSession /\ pc' = "closeConn" /\ result' = "noSession"
             \/ session' \in SessionId \ {NoSession} /\ pc' = "PLAY" /\ UNCHANGED result
             \/ UNCHANGED <<session, udp>> /\ pc' = "closeConn" /\ result' = "panic"
        BY <1>6 DEF setupUdpAnswered, takeSession, SetupReply, ReturnError, ReadPanics
    <2>2. UNCHANGED <<started, setups, played, tornDown, conn, readBy, writeBy,
                      orphanReader, server, sessions, ctxDone, watcher>>
        BY <1>6 DEF setupUdpAnswered, socketState
    <2> QED BY <2>1, <2>2
<1>7. CASE playAnswered
    <2>1. /\ pc = "PLAY" /\ awaiting' = FALSE
          /\ \/ pc' = "stream" /\ played' = TRUE /\ UNCHANGED result
             \/ pc' = "closeUdp" /\ result' \in {"error", "panic"} /\ UNCHANGED played
        BY <1>7 DEF playAnswered, ReturnError, ReadPanics
    <2>2. UNCHANGED <<udp, session, started, setups, tornDown, conn, readBy, writeBy,
                      orphanReader, server, sessions, ctxDone, watcher>>
        BY <1>7 DEF playAnswered, socketState
    <2> QED BY <2>1, <2>2
<1>8. CASE mediaWritten
    BY <1>8 DEF mediaWritten, sdp, socketState, envState
<1>9. CASE streamEnds
    <2>1. /\ pc = "stream" /\ pc' = "armTeardown"
          /\ result' \in {"nil", "error", "panic"} /\ orphanReader' \in BOOLEAN
        BY <1>9 DEF streamEnds
    <2>2. UNCHANGED <<awaiting, udp, session, started, setups, played, tornDown, conn, readBy,
                      writeBy, server, sessions, ctxDone, watcher>>
        BY <1>9 DEF streamEnds, envState
    <2> QED BY <2>1, <2>2
<1>10. CASE armTeardown
    <2>1. /\ pc = "armTeardown"
          /\ \/ session # Blank /\ readBy' = "soon" /\ writeBy' = "soon" /\ pc' = "TEARDOWN"
             \/ session = Blank /\ pc' = "closeUdp" /\ UNCHANGED <<readBy, writeBy>>
          /\ UNCHANGED <<awaiting, udp, session, started, result, setups, played, tornDown,
                         conn, orphanReader, server, sessions, ctxDone, watcher>>
        BY <1>10 DEF armTeardown, envState
    <2> QED BY <2>1
<1>11. CASE teardownEnds
    <2>1. /\ pc = "TEARDOWN" /\ pc' = "closeUdp"
          /\ awaiting' = FALSE /\ readBy' = "none" /\ writeBy' = "none"
          /\ result' \in {result, "panic"}
          /\ UNCHANGED <<udp, session, started, setups, played, tornDown, conn,
                         orphanReader, server, sessions, ctxDone, watcher>>
        BY <1>11 DEF teardownEnds, ReadPanics
    <2>2. awaiting \/ server = "gone"
        BY <1>11 DEF teardownEnds, Took, RequestFails, Unread, ReadPanics
    <2> QED BY <2>1, <2>2
<1>12. CASE closeUdp
    BY <1>12 DEF closeUdp, sdp, socketState, envState
<1>13. CASE closeConn
    BY <1>13 DEF closeConn, sdp, envState
<1>14. CASE watch
    BY <1>14 DEF watch, relayState, sdp, envState
<1>15. CASE orphanReads
    <2>1. orphanReader' = FALSE
          /\ UNCHANGED <<relayState, conn, readBy, writeBy, server, sessions, ctxDone, watcher>>
        BY <1>15 DEF orphanReads
    <2> QED BY <2>1 DEF relayState
<1>16. CASE clientLeaves
    BY <1>16 DEF clientLeaves, relayState, sdp, socketState, envState
<1>17. CASE serverAnswers
    <2>1. UNCHANGED <<relayState, socketState, server, ctxDone, watcher>>
        BY <1>17 DEF serverAnswers
    <2> QED BY <1>17, <2>1, ServerSessions DEF relayState, socketState
<1>18. CASE serverDrops
    <2>1. server' = "gone"
          /\ UNCHANGED <<relayState, socketState, sessions, ctxDone, watcher>>
        BY <1>18 DEF serverDrops
    <2> QED BY <2>1 DEF relayState, socketState
<1>19. CASE UNCHANGED vars
    BY <1>19 DEF vars, relayState, socketState, envState
<1> QED
    BY <1>1, <1>2, <1>3, <1>4, <1>5, <1>6, <1>7, <1>8, <1>9, <1>10, <1>11, <1>12,
       <1>13, <1>14, <1>15, <1>16, <1>17, <1>18, <1>19 DEF Next, RelayStep

LEMMA IInvAlways == Spec => []IInv
BY IInvInit, IInvStep, PTL DEF Spec

-----------------------------------------------------------------------------
(* What the invariant gives.                                               *)

\* Every state is well typed: in particular Relay never writes a fourth SETUP,
\* whatever the server answers, and tears down only sessions it was given.
THEOREM TypesHold == Spec => []TypeOK
<1>1. IInv => TypeOK
    BY DEF IInv
<1> QED BY <1>1, IInvAlways, PTL

\* A played session that has an id is torn down: with the server still there, the
\* TEARDOWN for the session of the PLAY has been written by the time the connection
\* is closed, although cancellation puts a read deadline in the past at any moment
\* and the stream may end in a panic.
THEOREM PlayedSessionEnds == Spec => []PlayedIsTornDown
<1>1. IInv => PlayedIsTornDown
    BY DEF IInv, TeardownInv, PlayedIsTornDown
<1> QED BY <1>1, IInvAlways, PTL

\* Whichever way Relay ends, the UDP port pair has been closed, unless the UDP
\* SETUP's own answer ended it: one without a Session header, or one with a
\* negative Content-Length.
THEOREM PortsReleased == Spec => []UdpPairReleased
<1>1. IInv => UdpPairReleased
    BY DEF IInv, UdpInv, UdpPairReleased, WithSession
<1> QED BY <1>1, IInvAlways, PTL

-----------------------------------------------------------------------------
(* Reading a description.  parseSdpTrack goes through it line by line and  *)
(* keeps one section per media line; after n lines, that section holds the *)
(* last control and the last rtpmap of each type among the lines from the  *)
(* media line up to the next one.                                          *)

Text == STRING \union {"", "none"}
SectionType == [types : SUBSET PayloadType, control : Text, rtpmap : [PayloadType -> Text]]
Gathered == [sections : Seq(SectionType), aggregateControl : Text]

\* What a line makes of what has been gathered, kind by kind.
LEMMA ReadMedia ==
    ASSUME NEW s, NEW line, line.kind = "media"
    PROVE  readLine(s, line) = [s EXCEPT !.sections = Append(s.sections, Section(line.types))]
BY Zenon DEF readLine

LEMMA ReadControl ==
    ASSUME NEW s, NEW line, line.kind = "control"
    PROVE  readLine(s, line) = readControl(s, line.control)
BY Zenon DEF readLine

LEMMA ReadRtpmap ==
    ASSUME NEW s, NEW line, line.kind = "rtpmap"
    PROVE  readLine(s, line) = readRtpmap(s, line.type, line.encoding)
BY Zenon DEF readLine

LEMMA ReadShort ==
    ASSUME NEW s, NEW line, line.kind = "short"
    PROVE  readLine(s, line) = s
BY Zenon DEF readLine

\* The fields a line of each kind has.
LEMMA LineFields ==
    ASSUME NEW line \in Line
    PROVE  /\ line.kind \in {"media", "short", "control", "rtpmap"}
           /\ line.kind = "media" => line.types \in SUBSET PayloadType
           /\ line.kind = "control" => line.control \in Text
           /\ line.kind = "rtpmap" =>
                 /\ line.type \in PayloadType /\ line.encoding \in Text
                 /\ line = RtpmapLine(line.type, line.encoding)
BY DEF Line, RtpmapLine, Text

\* A change of the section begun last leaves the others and the rest alone.
LEMMA LastChanged ==
    ASSUME NEW s \in Gathered, s.sections # <<>>, NEW section \in SectionType
    PROVE  /\ changeLast(s, section) \in Gathered
           /\ changeLast(s, section).aggregateControl = s.aggregateControl
           /\ Len(changeLast(s, section).sections) = Len(s.sections)
           /\ \A x \in 1 .. Len(s.sections) :
                 changeLast(s, section).sections[x] =
                    IF x = Len(s.sections) THEN section ELSE s.sections[x]
<1> DEFINE q == [i \in 1 .. Len(s.sections) |->
                    IF i = Len(s.sections) THEN section ELSE s.sections[i]]
<1>1. s.sections \in Seq(SectionType) /\ s.aggregateControl \in Text
    BY DEF Gathered
<1>2. \A i \in 1 .. Len(s.sections) : s.sections[i] \in SectionType
    BY <1>1
<1>3. q \in Seq(SectionType) /\ Len(q) = Len(s.sections)
    BY <1>1, <1>2
<1>4. changeLast(s, section) = [s EXCEPT !.sections = q]
    BY DEF changeLast
<1>5. \A x \in 1 .. Len(s.sections) : q[x] = IF x = Len(s.sections) THEN section ELSE s.sections[x]
    OBVIOUS
<1> HIDE DEF q
<1>6. /\ [s EXCEPT !.sections = q] \in Gathered
      /\ [s EXCEPT !.sections = q].sections = q
      /\ [s EXCEPT !.sections = q].aggregateControl = s.aggregateControl
    BY <1>1, <1>3 DEF Gathered
<1> QED BY <1>3, <1>4, <1>5, <1>6

\* The section begun last, if there is one, is a section.
LEMMA LastSection ==
    ASSUME NEW s \in Gathered, s.sections # <<>>
    PROVE  Len(s.sections) \in 1 .. Len(s.sections) /\ s.sections[Len(s.sections)] \in SectionType
BY DEF Gathered

LEMMA ControlSet ==
    ASSUME NEW sec \in SectionType, NEW c \in Text
    PROVE  /\ [sec EXCEPT !.control = c] \in SectionType
           /\ [sec EXCEPT !.control = c].types = sec.types
           /\ [sec EXCEPT !.control = c].control = c
           /\ [sec EXCEPT !.control = c].rtpmap = sec.rtpmap
BY DEF SectionType

LEMMA RtpmapSet ==
    ASSUME NEW sec \in SectionType, NEW t \in PayloadType, NEW e \in Text
    PROVE  /\ [sec EXCEPT !.rtpmap[t] = e] \in SectionType
           /\ [sec EXCEPT !.rtpmap[t] = e].types = sec.types
           /\ [sec EXCEPT !.rtpmap[t] = e].control = sec.control
           /\ [sec EXCEPT !.rtpmap[t] = e].rtpmap = [sec.rtpmap EXCEPT ![t] = e]
BY DEF SectionType

LEMMA SectionBegun ==
    ASSUME NEW types \in SUBSET PayloadType
    PROVE  Section(types) \in SectionType
<1>1. [t \in PayloadType |-> "none"] \in [PayloadType -> Text]
    BY DEF Text
<1> QED BY <1>1 DEF Section, SectionType, Text

\* Reading keeps what has been gathered well formed.
LEMMA ReadLineTyped ==
    ASSUME NEW s \in Gathered, NEW line \in Line
    PROVE  readLine(s, line) \in Gathered
<1>1. CASE line.kind = "media"
    <2>1. Section(line.types) \in SectionType
        BY <1>1, LineFields, SectionBegun
    <2>2. s.sections \in Seq(SectionType) /\ s.aggregateControl \in Text
        BY DEF Gathered
    <2>3. Append(s.sections, Section(line.types)) \in Seq(SectionType)
        BY <2>1, <2>2
    <2>4. \A q \in Seq(SectionType) : [s EXCEPT !.sections = q] \in Gathered
        BY <2>2 DEF Gathered
    <2>5. readLine(s, line) = [s EXCEPT !.sections = Append(s.sections, Section(line.types))]
        BY <1>1, ReadMedia
    <2> QED BY <2>3, <2>4, <2>5, Zenon
<1>2. CASE line.kind = "control"
    <2>1. line.control \in Text
        BY <1>2, LineFields
    <2>2. CASE s.sections = <<>>
        <3>1. [s EXCEPT !.aggregateControl = line.control] \in Gathered
            BY <2>1 DEF Gathered
        <3> QED BY <1>2, <2>2, <3>1, ReadControl DEF readControl
    <2>3. CASE s.sections # <<>>
        <3>1. [s.sections[Len(s.sections)] EXCEPT !.control = line.control] \in SectionType
            BY <2>1, <2>3, LastSection, ControlSet
        <3> QED BY <1>2, <2>3, <3>1, ReadControl, LastChanged DEF readControl
    <2> QED BY <2>2, <2>3
<1>3. CASE line.kind = "rtpmap"
    <2>1. line.type \in PayloadType /\ line.encoding \in Text
        BY <1>3, LineFields
    <2>2. CASE s.sections = <<>>
        BY <1>3, <2>2, ReadRtpmap DEF readRtpmap
    <2>3. CASE s.sections # <<>>
        <3>1. [s.sections[Len(s.sections)] EXCEPT !.rtpmap[line.type] = line.encoding] \in SectionType
            BY <2>1, <2>3, LastSection, RtpmapSet
        <3> QED BY <1>3, <2>3, <3>1, ReadRtpmap, LastChanged DEF readRtpmap
    <2> QED BY <2>2, <2>3
<1>4. CASE line.kind = "short"
    BY <1>4, ReadShort
<1> QED BY <1>1, <1>2, <1>3, <1>4, LineFields

-----------------------------------------------------------------------------
(* The lines that speak of a section, among the first n of a description,  *)
(* and what has been read of them.                                         *)

\* The lines behind line p that no media line comes before; InSection looks at
\* the whole description.
SectionLines(body, p, n) == {k \in p + 1 .. n : \A j \in p + 1 .. k : body[j].kind # "media"}

Controls(body, L) == {k \in L : body[k].kind = "control"}
Rtpmaps(body, L, t) == {k \in L : body[k].kind = "rtpmap" /\ body[k].type = t}

\* The last control, and the last rtpmap of payload type t, of the lines L.
ControlRead(body, L, v) ==
    \/ Controls(body, L) = {} /\ v = ""
    \/ \E k \in Controls(body, L) :
          (\A j \in Controls(body, L) : j <= k) /\ v = body[k].control

RtpmapRead(body, L, t, v) ==
    \/ Rtpmaps(body, L, t) = {} /\ v = "none"
    \/ \E k \in Rtpmaps(body, L, t) :
          (\A j \in Rtpmaps(body, L, t) : j <= k) /\ v = body[k].encoding

\* Section sec holds what the lines L, those of the media line p, say.
SectionRead(body, p, L, sec) ==
    /\ sec.types = body[p].types
    /\ ControlRead(body, L, sec.control)
    /\ \A t \in PayloadType : RtpmapRead(body, L, t, sec.rtpmap[t])

\* A line that is not a media line belongs to the section begun last, a media
\* line and the lines behind it to none of the sections before.
LEMMA SectionEnded ==
    ASSUME NEW body, NEW n \in Nat, NEW p \in 0 .. n,
           \E j \in p + 1 .. n + 1 : body[j].kind = "media"
    PROVE  SectionLines(body, p, n + 1) = SectionLines(body, p, n)
<1>1. ASSUME NEW k \in SectionLines(body, p, n + 1) PROVE k \in SectionLines(body, p, n)
    <2>1. k \in p + 1 .. n + 1 /\ \A j \in p + 1 .. k : body[j].kind # "media"
        BY DEF SectionLines
    <2>2. k # n + 1
        BY <2>1
    <2>3. k \in p + 1 .. n
        BY <2>1, <2>2
    <2> QED BY <2>1, <2>3 DEF SectionLines
<1>2. ASSUME NEW k \in SectionLines(body, p, n) PROVE k \in SectionLines(body, p, n + 1)
    BY <1>2 DEF SectionLines
<1> QED BY <1>1, <1>2

LEMMA SectionGrows ==
    ASSUME NEW body, NEW n \in Nat, NEW p \in 0 .. n,
           \A j \in p + 1 .. n + 1 : body[j].kind # "media"
    PROVE  SectionLines(body, p, n + 1) = SectionLines(body, p, n) \union {n + 1}
<1>1. ASSUME NEW k \in SectionLines(body, p, n + 1)
      PROVE  k \in SectionLines(body, p, n) \union {n + 1}
    <2>1. k \in p + 1 .. n + 1 /\ \A j \in p + 1 .. k : body[j].kind # "media"
        BY DEF SectionLines
    <2>2. k = n + 1 \/ k \in p + 1 .. n
        BY <2>1
    <2> QED BY <2>1, <2>2 DEF SectionLines
<1>2. ASSUME NEW k \in SectionLines(body, p, n) PROVE k \in SectionLines(body, p, n + 1)
    BY <1>2 DEF SectionLines
<1>3. n + 1 \in SectionLines(body, p, n + 1)
    BY DEF SectionLines
<1> QED BY <1>1, <1>2, <1>3

LEMMA SectionLinesBehind ==
    ASSUME NEW body, NEW n \in Nat, NEW p \in Nat
    PROVE  SectionLines(body, p, n) \subseteq p + 1 .. n
BY DEF SectionLines

\* What has been read of L stays when the next line says nothing about it.
LEMMA ControlKept ==
    ASSUME NEW body, NEW L, NEW n, NEW v, ControlRead(body, L, v), body[n].kind # "control"
    PROVE  ControlRead(body, L \union {n}, v)
<1>1. Controls(body, L \union {n}) = Controls(body, L)
    BY DEF Controls
<1> QED BY <1>1 DEF ControlRead

LEMMA RtpmapKept ==
    ASSUME NEW body, NEW L, NEW n, NEW t, NEW v, RtpmapRead(body, L, t, v),
           ~(body[n].kind = "rtpmap" /\ body[n].type = t)
    PROVE  RtpmapRead(body, L \union {n}, t, v)
<1>1. Rtpmaps(body, L \union {n}, t) = Rtpmaps(body, L, t)
    BY DEF Rtpmaps
<1> QED BY <1>1 DEF RtpmapRead

\* The next line is the last one, so what it says is what has been read.
LEMMA ControlNew ==
    ASSUME NEW body, NEW n \in Nat, NEW L \in SUBSET (1 .. n), body[n + 1].kind = "control"
    PROVE  ControlRead(body, L \union {n + 1}, body[n + 1].control)
<1>1. n + 1 \in Controls(body, L \union {n + 1})
    BY Zenon DEF Controls
<1>2. ASSUME NEW j \in Controls(body, L \union {n + 1}) PROVE j <= n + 1
    <2>1. j \in 1 .. n \/ j = n + 1
        BY Zenon DEF Controls
    <2> QED BY <2>1
<1> QED BY <1>1, <1>2, Zenon DEF ControlRead

LEMMA RtpmapNew ==
    ASSUME NEW body, NEW n \in Nat, NEW L \in SUBSET (1 .. n), body[n + 1].kind = "rtpmap"
    PROVE  RtpmapRead(body, L \union {n + 1}, body[n + 1].type, body[n + 1].encoding)
<1>1. n + 1 \in Rtpmaps(body, L \union {n + 1}, body[n + 1].type)
    BY Zenon DEF Rtpmaps
<1>2. ASSUME NEW j \in Rtpmaps(body, L \union {n + 1}, body[n + 1].type) PROVE j <= n + 1
    <2>1. j \in 1 .. n \/ j = n + 1
        BY Zenon DEF Rtpmaps
    <2> QED BY <2>1
<1> QED BY <1>1, <1>2, Zenon DEF RtpmapRead

\* A section that has just begun has read nothing.
LEMMA NothingRead ==
    ASSUME NEW body, NEW p, body[p].types \in SUBSET PayloadType
    PROVE  SectionRead(body, p, {}, Section(body[p].types))
BY DEF SectionRead, ControlRead, RtpmapRead, Controls, Rtpmaps, Section

\* What the lines of the other kinds do to the section begun last.
LEMMA SectionReadsControl ==
    ASSUME NEW body, NEW n \in Nat, NEW L \in SUBSET (1 .. n), NEW p, NEW sec \in SectionType,
           SectionRead(body, p, L, sec), body[n + 1].kind = "control",
           body[n + 1].control \in Text
    PROVE  SectionRead(body, p, L \union {n + 1}, [sec EXCEPT !.control = body[n + 1].control])
<1> DEFINE new == [sec EXCEPT !.control = body[n + 1].control]
<1>1. new.types = sec.types /\ new.control = body[n + 1].control /\ new.rtpmap = sec.rtpmap
    BY ControlSet
<1>2. ControlRead(body, L \union {n + 1}, body[n + 1].control)
    BY ControlNew
<1>3. \A t \in PayloadType : RtpmapRead(body, L \union {n + 1}, t, sec.rtpmap[t])
    BY RtpmapKept DEF SectionRead
<1> HIDE DEF new
<1>4. SectionRead(body, p, L \union {n + 1}, new)
    BY <1>1, <1>2, <1>3 DEF SectionRead
<1> QED BY <1>4 DEF new

LEMMA SectionReadsRtpmap ==
    ASSUME NEW body, NEW n \in Nat, NEW L \in SUBSET (1 .. n), NEW p, NEW sec \in SectionType,
           SectionRead(body, p, L, sec), body[n + 1].kind = "rtpmap",
           body[n + 1].type \in PayloadType, body[n + 1].encoding \in Text
    PROVE  SectionRead(body, p, L \union {n + 1},
                       [sec EXCEPT !.rtpmap[body[n + 1].type] = body[n + 1].encoding])
<1> DEFINE type == body[n + 1].type
           encoding == body[n + 1].encoding
           new == [sec EXCEPT !.rtpmap[type] = encoding]
<1>1. /\ new.types = sec.types /\ new.control = sec.control
      /\ new.rtpmap = [sec.rtpmap EXCEPT ![type] = encoding]
    BY RtpmapSet
<1>2. ControlRead(body, L \union {n + 1}, sec.control)
    BY ControlKept DEF SectionRead
<1>3. RtpmapRead(body, L \union {n + 1}, type, encoding)
    BY RtpmapNew
<1>4. \A t \in PayloadType : t # type => RtpmapRead(body, L \union {n + 1}, t, sec.rtpmap[t])
    BY RtpmapKept DEF SectionRead
<1>5. sec.rtpmap \in [PayloadType -> Text]
    BY DEF SectionType
<1> HIDE DEF new
<1>6. \A t \in PayloadType : new.rtpmap[t] = IF t = type THEN encoding ELSE sec.rtpmap[t]
    BY <1>1, <1>5
<1>7. \A t \in PayloadType : RtpmapRead(body, L \union {n + 1}, t, new.rtpmap[t])
    BY <1>3, <1>4, <1>6
<1>8. SectionRead(body, p, L \union {n + 1}, new)
    BY <1>1, <1>2, <1>7 DEF SectionRead
<1> QED BY <1>8 DEF new

LEMMA SectionReadsShort ==
    ASSUME NEW body, NEW n, NEW L, NEW p, NEW sec,
           SectionRead(body, p, L, sec), body[n].kind = "short"
    PROVE  SectionRead(body, p, L \union {n}, sec)
BY ControlKept, RtpmapKept DEF SectionRead

-----------------------------------------------------------------------------
(* The state of parseSdpTrack after n lines.                               *)

\* The m sections belong to the media lines among the first n, in their order.
Positions(body, n, m, pos) ==
    /\ pos \in [1 .. m -> 1 .. n]
    /\ \A x, y \in 1 .. m : x < y => pos[x] < pos[y]
    /\ \A x \in 1 .. m : body[pos[x]].kind = "media"
    /\ \A j \in 1 .. n : body[j].kind = "media" => \E x \in 1 .. m : pos[x] = j

LinesRead(body, n, s, pos) ==
    /\ s \in Gathered
    /\ Positions(body, n, Len(s.sections), pos)
    /\ \A x \in 1 .. Len(s.sections) :
          SectionRead(body, pos[x], SectionLines(body, pos[x], n), s.sections[x])
    /\ ControlRead(body, SectionLines(body, 0, n), s.aggregateControl)

\* A line that is not a media line is one of the section begun last, or of the
\* description as a whole if there is none.
LEMMA PositionsStay ==
    ASSUME NEW body, NEW n \in Nat, NEW m \in Nat, NEW pos, Positions(body, n, m, pos),
           body[n + 1].kind # "media"
    PROVE  /\ Positions(body, n + 1, m, pos)
           /\ m = 0 => SectionLines(body, 0, n + 1) = SectionLines(body, 0, n) \union {n + 1}
           /\ m # 0 => SectionLines(body, 0, n + 1) = SectionLines(body, 0, n)
           /\ \A x \in 1 .. m : x # m =>
                 SectionLines(body, pos[x], n + 1) = SectionLines(body, pos[x], n)
<1>1. \A x \in 1 .. m : pos[x] \in 1 .. n /\ body[pos[x]].kind = "media"
    BY DEF Positions
<1>2. Positions(body, n + 1, m, pos)
    <2>1. pos \in [1 .. m -> 1 .. n + 1]
        BY DEF Positions
    <2>2. ASSUME NEW j \in 1 .. n + 1, body[j].kind = "media" PROVE \E x \in 1 .. m : pos[x] = j
        <3>1. j \in 1 .. n
            BY <2>2
        <3> QED BY <2>2, <3>1 DEF Positions
    <2> QED BY <2>1, <2>2 DEF Positions
<1>3. ASSUME m = 0
      PROVE  SectionLines(body, 0, n + 1) = SectionLines(body, 0, n) \union {n + 1}
    <2>1. ASSUME NEW j \in 0 + 1 .. n + 1 PROVE body[j].kind # "media"
        BY <1>2, <1>3 DEF Positions
    <2>2. 0 \in 0 .. n
        OBVIOUS
    <2> QED BY <2>1, <2>2, SectionGrows, Zenon
<1>4. ASSUME m # 0 PROVE SectionLines(body, 0, n + 1) = SectionLines(body, 0, n)
    <2>1. m \in 1 .. m
        BY <1>4
    <2>2. pos[m] \in 1 .. n /\ body[pos[m]].kind = "media"
        BY <1>1, <2>1
    <2>3. \E j \in 0 + 1 .. n + 1 : body[j].kind = "media"
        BY <2>2
    <2> QED BY <2>3, SectionEnded
<1>5. ASSUME NEW x \in 1 .. m, x # m
      PROVE  SectionLines(body, pos[x], n + 1) = SectionLines(body, pos[x], n)
    <2>1. m \in 1 .. m /\ x < m
        BY <1>5
    <2>2. pos[m] \in 1 .. n /\ body[pos[m]].kind = "media" /\ pos[x] < pos[m] /\ pos[x] \in 0 .. n
        BY <1>1, <2>1 DEF Positions
    <2>3. \E j \in pos[x] + 1 .. n + 1 : body[j].kind = "media"
        BY <2>2
    <2> QED BY <2>2, <2>3, SectionEnded
<1> QED BY <1>2, <1>3, <1>4, <1>5

With(L, k) == L \union {k}

LEMMA LastGrows ==
    ASSUME NEW body, NEW n \in Nat, NEW m \in Nat, NEW pos, Positions(body, n, m, pos),
           body[n + 1].kind # "media", m # 0
    PROVE  SectionLines(body, pos[m], n + 1) = With(SectionLines(body, pos[m], n), n + 1)
<1>1. m \in 1 .. m /\ pos[m] \in 0 .. n
    BY DEF Positions
<1>2. Positions(body, n + 1, m, pos)
    BY PositionsStay
<1>3. ASSUME NEW j \in pos[m] + 1 .. n + 1 PROVE body[j].kind # "media"
    <2>1. SUFFICES ASSUME body[j].kind = "media" PROVE FALSE
        OBVIOUS
    <2>2. j \in 1 .. n + 1
        BY <1>1
    <2>3. PICK x \in 1 .. m : pos[x] = j
        BY <1>2, <2>1, <2>2 DEF Positions
    <2>4. x = m \/ pos[x] < pos[m]
        <3>1. CASE x = m
            BY <3>1
        <3>2. CASE x < m
            BY <1>1, <3>2 DEF Positions
        <3> QED BY <3>1, <3>2
    <2> QED BY <1>1, <2>3, <2>4
<1> QED BY <1>1, <1>3, SectionGrows DEF With

\* A media line begins a section of its own and ends the one before.
LEMMA PositionsGrow ==
    ASSUME NEW body, NEW n \in Nat, NEW m \in Nat, NEW pos, Positions(body, n, m, pos),
           body[n + 1].kind = "media"
    PROVE  /\ Positions(body, n + 1, m + 1,
                        [x \in 1 .. m + 1 |-> IF x = m + 1 THEN n + 1 ELSE pos[x]])
           /\ \A p \in 0 .. n : SectionLines(body, p, n + 1) = SectionLines(body, p, n)
           /\ SectionLines(body, n + 1, n + 1) = {}
<1> DEFINE new == [x \in 1 .. m + 1 |-> IF x = m + 1 THEN n + 1 ELSE pos[x]]
<1>1. \A x \in 1 .. m : pos[x] \in 1 .. n /\ body[pos[x]].kind = "media"
    BY DEF Positions
<1>2. \A x \in 1 .. m + 1 : x = m + 1 \/ x \in 1 .. m
    OBVIOUS
<1>3. new[m + 1] = n + 1 /\ \A x \in 1 .. m : x \in 1 .. m + 1 /\ new[x] = pos[x]
    OBVIOUS
<1>4. new \in [1 .. m + 1 -> 1 .. n + 1]
    BY <1>1, <1>2
<1> HIDE DEF new
<1>5. ASSUME NEW x \in 1 .. m + 1, NEW y \in 1 .. m + 1, x < y PROVE new[x] < new[y]
    <2>1. x \in 1 .. m
        BY <1>5
    <2>2. CASE y = m + 1
        BY <1>1, <1>3, <2>1, <2>2
    <2>3. CASE y \in 1 .. m
        BY <1>3, <1>5, <2>1, <2>3 DEF Positions
    <2> QED BY <1>2, <2>2, <2>3
<1>6. \A x \in 1 .. m + 1 : body[new[x]].kind = "media"
    BY <1>1, <1>2, <1>3
<1>7. ASSUME NEW j \in 1 .. n + 1, body[j].kind = "media" PROVE \E x \in 1 .. m + 1 : new[x] = j
    <2>1. CASE j = n + 1
        BY <1>3, <2>1
    <2>2. CASE j \in 1 .. n
        <3>1. PICK x \in 1 .. m : pos[x] = j
            BY <1>7, <2>2 DEF Positions
        <3> QED BY <1>3, <3>1
    <2> QED BY <2>1, <2>2
<1>8. Positions(body, n + 1, m + 1, new)
    BY <1>4, <1>5, <1>6, <1>7 DEF Positions
<1>9. ASSUME NEW p \in 0 .. n PROVE SectionLines(body, p, n + 1) = SectionLines(body, p, n)
    <2>1. n + 1 \in p + 1 .. n + 1
        OBVIOUS
    <2> QED BY <2>1, SectionEnded
<1>10. SectionLines(body, n + 1, n + 1) = {}
    BY DEF SectionLines
<1> QED BY <1>8, <1>9, <1>10 DEF new

\* One more line: parseSdpTrack's state still says what the lines say.
LEMMA LineRead ==
    ASSUME NEW body, NEW n \in Nat, NEW s, NEW pos, LinesRead(body, n, s, pos),
           body[n + 1] \in Line
    PROVE  \E new : LinesRead(body, n + 1, readLine(s, body[n + 1]), new)
<1> DEFINE line == body[n + 1]
           m == Len(s.sections)
           s2 == readLine(s, line)
           L(p) == SectionLines(body, p, n)
<1>1. /\ s \in Gathered /\ m \in Nat /\ Positions(body, n, m, pos)
      /\ \A x \in 1 .. m : s.sections[x] \in SectionType
      /\ \A x \in 1 .. m : pos[x] \in 1 .. n
    BY DEF LinesRead, Gathered, Positions
<1>2. s2 \in Gathered
    BY <1>1, ReadLineTyped
<1>3. \A x \in 1 .. m : SectionRead(body, pos[x], L(pos[x]), s.sections[x])
    BY DEF LinesRead
<1>4. ControlRead(body, L(0), s.aggregateControl)
    BY DEF LinesRead
<1>5. \A p \in Nat : L(p) \in SUBSET (1 .. n)
    BY SectionLinesBehind
<1>6. CASE line.kind = "media"
    <2> DEFINE new == [x \in 1 .. m + 1 |-> IF x = m + 1 THEN n + 1 ELSE pos[x]]
               section == Section(line.types)
    <2>1. line.types \in SUBSET PayloadType
        BY <1>6, LineFields
    <2>2. s.sections \in Seq(SectionType) /\ section \in SectionType
        BY <1>1, <2>1, SectionBegun DEF Gathered
    <2>3. s2 = [s EXCEPT !.sections = Append(s.sections, section)]
        BY <1>6, ReadMedia
    <2>4. s2.sections = Append(s.sections, section) /\ s2.aggregateControl = s.aggregateControl
        <3> HIDE DEF section, s2
        <3> QED BY <1>1, <2>3 DEF Gathered
    <2>5. /\ Len(s2.sections) = m + 1 /\ s2.sections[m + 1] = section
          /\ \A x \in 1 .. m : s2.sections[x] = s.sections[x]
        <3> HIDE DEF section, s2
        <3> QED BY <2>2, <2>4
    <2>6. /\ Positions(body, n + 1, m + 1, new)
          /\ \A p \in 0 .. n : SectionLines(body, p, n + 1) = L(p)
          /\ SectionLines(body, n + 1, n + 1) = {}
        BY <1>1, <1>6, PositionsGrow
    <2>7. new[m + 1] = n + 1 /\ \A x \in 1 .. m : new[x] = pos[x]
        BY <1>1
    <2> HIDE DEF new, s2, L, m
    <2>8. ASSUME NEW x \in 1 .. m + 1
          PROVE  SectionRead(body, new[x], SectionLines(body, new[x], n + 1), s2.sections[x])
        <3>1. CASE x = m + 1
            <4>1. SectionRead(body, n + 1, {}, section)
                BY <2>1, NothingRead
            <4> QED BY <2>5, <2>6, <2>7, <3>1, <4>1
        <3>2. CASE x \in 1 .. m
            <4>1. pos[x] \in 0 .. n
                BY <1>1, <3>2
            <4>2. SectionLines(body, pos[x], n + 1) = L(pos[x])
                BY <2>6, <4>1
            <4>3. SectionRead(body, pos[x], L(pos[x]), s.sections[x])
                BY <1>3, <3>2
            <4> QED BY <2>5, <2>7, <3>2, <4>2, <4>3
        <3> QED BY <1>1, <3>1, <3>2
    <2>9. ControlRead(body, SectionLines(body, 0, n + 1), s2.aggregateControl)
        BY <1>4, <2>4, <2>6
    <2>10. LinesRead(body, n + 1, s2, new)
        BY <1>2, <2>5, <2>6, <2>8, <2>9 DEF LinesRead
    <2> QED BY <2>10 DEF s2
<1>7. ASSUME line.kind # "media", m = 0, s2.sections = s.sections,
             ControlRead(body, L(0) \union {n + 1}, s2.aggregateControl)
      PROVE  LinesRead(body, n + 1, s2, pos)
    <2>1. /\ Positions(body, n + 1, m, pos)
          /\ SectionLines(body, 0, n + 1) = L(0) \union {n + 1}
        BY <1>1, <1>7, PositionsStay
    <2>2. Len(s2.sections) = m /\ \A x \in 1 .. m : FALSE
        BY <1>7
    <2> HIDE DEF s2, L, m
    <2>3. ControlRead(body, SectionLines(body, 0, n + 1), s2.aggregateControl)
        BY <1>7, <2>1
    <2> QED BY <1>2, <2>1, <2>2, <2>3, Zenon DEF LinesRead
<1>8. ASSUME line.kind # "media", m # 0, Len(s2.sections) = m,
             \A x \in 1 .. m : x # m => s2.sections[x] = s.sections[x],
             SectionRead(body, pos[m], L(pos[m]) \union {n + 1}, s2.sections[m]),
             s2.aggregateControl = s.aggregateControl
      PROVE  LinesRead(body, n + 1, s2, pos)
    <2>1. /\ Positions(body, n + 1, m, pos)
          /\ SectionLines(body, 0, n + 1) = L(0)
          /\ \A x \in 1 .. m : x # m => SectionLines(body, pos[x], n + 1) = L(pos[x])
          /\ SectionLines(body, pos[m], n + 1) = L(pos[m]) \union {n + 1}
        <3>1. m \in Nat /\ m # 0 /\ Positions(body, n, m, pos) /\ body[n + 1].kind # "media"
            BY <1>1, <1>8
        <3> HIDE DEF m
        <3>2. Positions(body, n + 1, m, pos)
            BY <3>1, PositionsStay, Zenon
        <3>3. SectionLines(body, 0, n + 1) = L(0)
            BY <3>1, PositionsStay
        <3>4. ASSUME NEW x \in 1 .. m, x # m PROVE SectionLines(body, pos[x], n + 1) = L(pos[x])
            BY <3>1, <3>4, PositionsStay
        <3>5. SectionLines(body, pos[m], n + 1) = L(pos[m]) \union {n + 1}
            <4>1. SectionLines(body, pos[m], n + 1) = With(SectionLines(body, pos[m], n), n + 1)
                BY <3>1, LastGrows
            <4> QED BY <4>1 DEF With
        <3> QED BY <3>2, <3>3, <3>4, <3>5, Zenon
    <2> HIDE DEF s2, L, m
    <2>2. ASSUME NEW x \in 1 .. m
          PROVE  SectionRead(body, pos[x], SectionLines(body, pos[x], n + 1), s2.sections[x])
        BY <1>3, <1>8, <2>1
    <2>3. ControlRead(body, SectionLines(body, 0, n + 1), s2.aggregateControl)
        BY <1>4, <1>8, <2>1
    <2> QED BY <1>2, <1>8, <2>1, <2>2, <2>3 DEF LinesRead
<1>9. m # 0 => m \in 1 .. m /\ s.sections # <<>> /\ pos[m] \in Nat /\ L(pos[m]) \in SUBSET (1 .. n)
    BY <1>1, <1>5
<1>10. m = 0 <=> s.sections = <<>>
    BY <1>1 DEF Gathered
<1>11. CASE line.kind = "control"
    <2>1. line.control \in Text
        BY <1>11, LineFields
    <2>2. s2 = readControl(s, line.control)
        BY <1>11, ReadControl
    <2>3. CASE m = 0
        <3>1. s2 = [s EXCEPT !.aggregateControl = line.control]
            BY <1>10, <2>2, <2>3 DEF readControl
        <3>2. s2.sections = s.sections /\ s2.aggregateControl = line.control
            <4> HIDE DEF s2, line
            <4> QED BY <1>1, <3>1 DEF Gathered
        <3>3. ControlRead(body, L(0) \union {n + 1}, line.control)
            BY <1>5, <1>11, ControlNew
        <3> QED BY <1>7, <1>11, <2>3, <3>2, <3>3
    <2>4. CASE m # 0
        <3> DEFINE section == [s.sections[m] EXCEPT !.control = line.control]
        <3>1. s2 = changeLast(s, section)
            BY <1>10, <2>2, <2>4 DEF readControl
        <3>2. section \in SectionType
            BY <1>1, <1>9, <2>1, <2>4, ControlSet
        <3>3. SectionRead(body, pos[m], L(pos[m]) \union {n + 1}, section)
            BY <1>1, <1>3, <1>9, <1>11, <2>1, <2>4, SectionReadsControl
        <3>4. /\ s2.aggregateControl = s.aggregateControl /\ Len(s2.sections) = m
              /\ \A x \in 1 .. m : s2.sections[x] = IF x = m THEN section ELSE s.sections[x]
            <4> HIDE DEF section, s2
            <4> QED BY <1>1, <1>9, <2>4, <3>1, <3>2, LastChanged
        <3> HIDE DEF section
        <3> QED BY <1>8, <1>9, <1>11, <2>4, <3>3, <3>4
    <2> QED BY <2>3, <2>4
<1>12. CASE line.kind = "rtpmap"
    <2>1. line.type \in PayloadType /\ line.encoding \in Text
        BY <1>12, LineFields
    <2>2. s2 = readRtpmap(s, line.type, line.encoding)
        BY <1>12, ReadRtpmap
    <2>3. CASE m = 0
        <3>1. s2 = s
            BY <1>10, <2>2, <2>3 DEF readRtpmap
        <3>2. ControlRead(body, L(0) \union {n + 1}, s.aggregateControl)
            BY <1>4, <1>12, ControlKept
        <3> QED BY <1>7, <1>12, <2>3, <3>1, <3>2
    <2>4. CASE m # 0
        <3> DEFINE section == [s.sections[m] EXCEPT !.rtpmap[line.type] = line.encoding]
        <3>1. s2 = changeLast(s, section)
            BY <1>10, <2>2, <2>4 DEF readRtpmap
        <3>2. section \in SectionType
            BY <1>1, <1>9, <2>1, <2>4, RtpmapSet
        <3>3. SectionRead(body, pos[m], L(pos[m]) \union {n + 1}, section)
            BY <1>1, <1>3, <1>9, <1>12, <2>1, <2>4, SectionReadsRtpmap
        <3>4. /\ s2.aggregateControl = s.aggregateControl /\ Len(s2.sections) = m
              /\ \A x \in 1 .. m : s2.sections[x] = IF x = m THEN section ELSE s.sections[x]
            <4> HIDE DEF section, s2
            <4> QED BY <1>1, <1>9, <2>4, <3>1, <3>2, LastChanged
        <3> HIDE DEF section
        <3> QED BY <1>8, <1>9, <1>12, <2>4, <3>3, <3>4
    <2> QED BY <2>3, <2>4
<1>13. CASE line.kind = "short"
    <2>1. s2 = s
        BY <1>13, ReadShort
    <2>2. CASE m = 0
        <3>1. ControlRead(body, L(0) \union {n + 1}, s.aggregateControl)
            BY <1>4, <1>13, ControlKept
        <3> QED BY <1>7, <1>13, <2>1, <2>2, <3>1
    <2>3. CASE m # 0
        <3>1. SectionRead(body, pos[m], L(pos[m]) \union {n + 1}, s.sections[m])
            BY <1>3, <1>9, <1>13, <2>3, SectionReadsShort
        <3> QED BY <1>8, <1>13, <2>1, <2>3, <3>1
    <2> QED BY <2>2, <2>3
<1> QED BY <1>6, <1>11, <1>12, <1>13, LineFields

-----------------------------------------------------------------------------
(* The loop over the lines.                                                *)

\* Every nonempty set of natural numbers has a least element.
LEMMA LeastNatural ==
    ASSUME NEW T, T \subseteq Nat, T # {}
    PROVE  \E k \in T : \A j \in T : k <= j
<1> DEFINE R == {ss \in Nat \X Nat : ss[1] < ss[2]}
<1>1. IsWellFoundedOn(R, Nat)
    BY NatLessThanWellFounded DEF OpToRel
<1>2. PICK x \in T : \A y \in T : ~ (<<y, x>> \in R)
    <2> HIDE DEF R
    <2> QED BY <1>1, WFMin
<1>3. ASSUME NEW y \in T PROVE x <= y
    <2>1. ~ (<<y, x>> \in R) BY <1>2
    <2>2. <<y, x>> \in Nat \X Nat OBVIOUS
    <2> QED BY <2>1, <2>2
<1> QED BY <1>3

\* Induction over the steps of a bounded loop.
LEMMA UptoInduction ==
    ASSUME NEW n \in Nat, NEW S, 0 \in S, \A i \in 0 .. n - 1 : i \in S => i + 1 \in S
    PROVE  \A i \in 0 .. n : i \in S
<1> DEFINE T == {i \in 0 .. n : i \notin S}
<1>1. ASSUME T # {} PROVE FALSE
    <2>1. T \subseteq Nat
        OBVIOUS
    <2>2. PICK k \in T : \A j \in T : k <= j
        <3> HIDE DEF T
        <3> QED BY <1>1, <2>1, LeastNatural
    <2>3. k \in 0 .. n /\ k \notin S
        OBVIOUS
    <2>4. k # 0
        BY <2>3
    <2>5. k - 1 \in 0 .. n - 1 /\ k - 1 \in 0 .. n /\ k - 1 \notin T
        BY <2>2, <2>3, <2>4
    <2>6. k - 1 \in S
        BY <2>5
    <2>7. (k - 1) + 1 \in S
        BY <2>5, <2>6
    <2>8. (k - 1) + 1 = k
        BY <2>3
    <2> QED BY <2>3, <2>7, <2>8
<1> QED BY <1>1

\* A loop of n steps has a value after each of them.
LEMMA RecursionExists ==
    ASSUME NEW d \in Gathered, NEW n \in Nat,
           NEW G \in [Gathered \X (1 .. n) -> Gathered]
    PROVE  \E h \in [0 .. n -> Gathered] :
              h[0] = d /\ \A i \in 1 .. n : h[i] = G[<<h[i - 1], i>>]
<1> DEFINE Upto(k, h) == h[0] = d /\ \A i \in 1 .. k : h[i] = G[<<h[i - 1], i>>]
           T == {k \in 0 .. n : ~\E h \in [0 .. k -> Gathered] : Upto(k, h)}
<1>1. ASSUME T # {} PROVE FALSE
    <2>1. T \subseteq Nat
        OBVIOUS
    <2>2. PICK k \in T : \A j \in T : k <= j
        <3> HIDE DEF T
        <3> QED BY <1>1, <2>1, LeastNatural
    <2>3. k \in 0 .. n
        OBVIOUS
    <2>4. k # 0
        <3>1. [i \in 0 .. 0 |-> d] \in [0 .. 0 -> Gathered] /\ Upto(0, [i \in 0 .. 0 |-> d])
            OBVIOUS
        <3> QED BY <3>1
    <2>5. k - 1 \in 0 .. n /\ k - 1 \notin T
        BY <2>2, <2>3, <2>4
    <2>6. PICK h \in [0 .. k - 1 -> Gathered] : Upto(k - 1, h)
        BY <2>5
    <2> DEFINE h2 == [i \in 0 .. k |-> IF i = k THEN G[<<h[k - 1], k>>] ELSE h[i]]
    <2>7. h[k - 1] \in Gathered /\ k \in 1 .. n
        BY <2>3, <2>4, <2>6
    <2>8. <<h[k - 1], k>> \in Gathered \X (1 .. n)
        BY <2>7
    <2>9. G[<<h[k - 1], k>>] \in Gathered
        BY <2>8
    <2>10. h2 \in [0 .. k -> Gathered]
        BY <2>6, <2>7, <2>9
    <2>11. /\ h2[k] = G[<<h[k - 1], k>>]
           /\ \A i \in 0 .. k - 1 : h2[i] = h[i]
        BY <2>7
    <2>12. Upto(k, h2)
        <3> HIDE DEF h2
        <3>1. h2[0] = d
            BY <2>6, <2>7, <2>11
        <3>2. ASSUME NEW i \in 1 .. k PROVE h2[i] = G[<<h2[i - 1], i>>]
            <4>1. i - 1 \in 0 .. k - 1 BY <2>7
            <4>2. CASE i = k BY <2>11, <4>1, <4>2
            <4>3. CASE i # k
                <5>1. i \in 1 .. k - 1 /\ i \in 0 .. k - 1 BY <2>7, <4>3
                <5> QED BY <2>6, <2>11, <4>1, <5>1
            <4> QED BY <4>2, <4>3
        <3> QED BY <3>1, <3>2
    <2> HIDE DEF h2
    <2>13. k \notin T
        BY <2>10, <2>12
    <2> QED BY <2>2, <2>13
<1>2. n \notin T
    <2> HIDE DEF T
    <2> QED BY <1>1
<1>3. PICK h \in [0 .. n -> Gathered] : Upto(n, h)
    BY <1>2
<1> QED BY <1>3

\* Having read the description, parseSdpTrack holds what its lines say.
LEMMA DescriptionRead ==
    ASSUME NEW body \in Seq(Line)
    PROVE  \E pos : LinesRead(body, Len(body), readLines(body), pos)
<1> DEFINE n == Len(body)
           after[i \in 0 .. n] == IF i = 0 THEN NoLines ELSE readLine(after[i - 1], body[i])
           G == [x \in Gathered \X (1 .. n) |-> readLine(x[1], body[x[2]])]
           good == {i \in 0 .. n : \E pos : LinesRead(body, i, after[i], pos)}
<1>1. n \in Nat /\ \A i \in 1 .. n : body[i] \in Line
    OBVIOUS
<1>2. G \in [Gathered \X (1 .. n) -> Gathered]
    <2> SUFFICES ASSUME NEW x \in Gathered \X (1 .. n)
                 PROVE  readLine(x[1], body[x[2]]) \in Gathered
        OBVIOUS
    <2>1. x[1] \in Gathered /\ body[x[2]] \in Line
        BY <1>1
    <2> QED BY <2>1, ReadLineTyped
<1>3. NoLines \in Gathered
    BY DEF NoLines, Gathered, Text
<1>4. PICK h \in [0 .. n -> Gathered] :
          h[0] = NoLines /\ \A i \in 1 .. n : h[i] = G[<<h[i - 1], i>>]
    <2> HIDE DEF n, G
    <2>1. n \in Nat
        BY <1>1
    <2> QED BY <1>2, <1>3, <2>1, RecursionExists, Zenon
<1>5. h = [i \in 0 .. n |-> IF i = 0 THEN NoLines ELSE readLine(h[i - 1], body[i])]
    <2>1. ASSUME NEW i \in 0 .. n, i # 0 PROVE h[i] = readLine(h[i - 1], body[i])
        <3>1. i - 1 \in 0 .. n /\ i \in 1 .. n
            BY <1>1, <2>1
        <3>2. h[i - 1] \in Gathered /\ h[i] = G[<<h[i - 1], i>>]
            BY <1>4, <3>1
        <3> QED BY <3>1, <3>2
    <2> HIDE DEF G
    <2> QED BY <1>4, <2>1
<1>6. after = [i \in 0 .. n |-> IF i = 0 THEN NoLines ELSE readLine(after[i - 1], body[i])]
    BY <1>5
<1>7. readLines(body) = after[n]
    BY DEF readLines
<1> HIDE DEF after
<1>8. 0 \in good
    <2>1. after[0] = NoLines
        BY <1>1, <1>6
    <2>2. NoLines.sections = <<>> /\ NoLines.aggregateControl = ""
        BY DEF NoLines
    <2>3. SectionLines(body, 0, 0) = {}
        BY DEF SectionLines
    <2>4. ControlRead(body, {}, "")
        BY DEF ControlRead, Controls
    <2>5. Positions(body, 0, 0, <<>>)
        BY DEF Positions
    <2>6. ControlRead(body, SectionLines(body, 0, 0), NoLines.aggregateControl)
        BY <2>2, <2>3, <2>4, Zenon
    <2>7. Len(NoLines.sections) = 0 /\ \A x \in 1 .. 0 : FALSE
        BY DEF NoLines
    <2>8. LinesRead(body, 0, NoLines, <<>>)
        BY <1>3, <2>5, <2>6, <2>7, Zenon DEF LinesRead
    <2> QED BY <1>1, <2>1, <2>8
<1>9. ASSUME NEW i \in 0 .. n - 1, i \in good PROVE i + 1 \in good
    <2>1. i \in Nat /\ i + 1 \in 0 .. n /\ i + 1 # 0 /\ (i + 1) - 1 = i /\ i + 1 \in 1 .. n
        BY <1>1
    <2>2. after[i + 1] = readLine(after[i], body[i + 1])
        <3> HIDE DEF n
        <3> QED BY <1>6, <2>1
    <2>3. PICK pos : LinesRead(body, i, after[i], pos)
        BY <1>9
    <2>4. body[i + 1] \in Line
        BY <1>1, <2>1
    <2>5. \E new : LinesRead(body, i + 1, readLine(after[i], body[i + 1]), new)
        BY <2>1, <2>3, <2>4, LineRead
    <2> QED BY <2>1, <2>2, <2>5
<1> HIDE DEF good
<1>10. n \in good
    <2>1. \A i \in 0 .. n : i \in good
        <3> HIDE DEF n
        <3>1. n \in Nat /\ \A i \in 0 .. n - 1 : i \in good => i + 1 \in good
            BY <1>1, <1>9
        <3> QED BY <1>8, <3>1, UptoInduction, Zenon
    <2> QED BY <1>1, <2>1
<1> QED BY <1>7, <1>10 DEF good

-----------------------------------------------------------------------------
(* The track parseSdpTrack returns and what the description says of it.    *)

\* A payload type is mapped to MP2T exactly when the last rtpmap says so.
LEMMA RtpmapMeans ==
    ASSUME NEW body \in Seq(Line), NEW L \in SUBSET (1 .. Len(body)), NEW t \in PayloadType,
           NEW v, RtpmapRead(body, L, t, v)
    PROVE  v = "MP2T" <=> RtpmapLine(t, "MP2T") \in LastOf(body, Rtpmaps(body, L, t))
<1> DEFINE K == Rtpmaps(body, L, t)
<1>1. ASSUME NEW k \in K
      PROVE  /\ k \in Int /\ body[k] = RtpmapLine(t, body[k].encoding)
    <2>1. k \in 1 .. Len(body) /\ body[k].kind = "rtpmap" /\ body[k].type = t
        BY DEF Rtpmaps
    <2>2. body[k] \in Line
        BY <2>1
    <2> QED BY <2>1, <2>2, LineFields
<1>2. CASE K = {} /\ v = "none"
    BY <1>2 DEF LastOf
<1>3. CASE \E k \in K : (\A j \in K : j <= k) /\ v = body[k].encoding
    <2>1. PICK k \in K : (\A j \in K : j <= k) /\ v = body[k].encoding
        BY <1>3
    <2>2. \A l \in K : (\A j \in K : j <= l) => l = k
        <3> HIDE DEF K
        <3> QED BY <1>1, <2>1
    <2> HIDE DEF K
    <2>3. LastOf(body, K) = {body[k]}
        BY <2>1, <2>2, Zenon DEF LastOf
    <2>4. body[k] = RtpmapLine(t, v)
        BY <1>1, <2>1
    <2>5. RtpmapLine(t, "MP2T") = RtpmapLine(t, v) <=> v = "MP2T"
        BY DEF RtpmapLine
    <2>6. v = "MP2T" <=> RtpmapLine(t, "MP2T") \in LastOf(body, K)
        BY <2>3, <2>4, <2>5
    <2> QED BY <2>6 DEF K
<1> QED BY <1>2, <1>3 DEF RtpmapRead

\* The control that has been read is the one the lines give, if they give one.
LEMMA ControlMeans ==
    ASSUME NEW body, NEW L, L \subseteq Int, NEW v, ControlRead(body, L, v)
    PROVE  LET said == {l.control : l \in LastOf(body, Controls(body, L))}
           IN  said = {v} \/ (said = {} /\ v = "")
<1> DEFINE K == Controls(body, L)
           said == {l.control : l \in LastOf(body, K)}
<1>1. K \subseteq Int
    BY DEF Controls
<1>2. CASE K = {} /\ v = ""
    BY <1>2 DEF LastOf
<1>3. CASE \E k \in K : (\A j \in K : j <= k) /\ v = body[k].control
    <2>1. PICK k \in K : (\A j \in K : j <= k) /\ v = body[k].control
        BY <1>3
    <2> HIDE DEF K
    <2>2. \A l \in K : (\A j \in K : j <= l) => l = k
        BY <1>1, <2>1
    <2>3. LastOf(body, K) = {body[k]}
        BY <2>1, <2>2, Zenon DEF LastOf
    <2>4. said = {v}
        BY <2>1, <2>3, Zenon
    <2> QED BY <2>4 DEF K
<1> QED BY <1>2, <1>3 DEF ControlRead

LEMMA PathSet ==
    ASSUME NEW c
    PROVE  /\ [path |-> c, query |-> "none"].path = c
           /\ [StreamURL EXCEPT !.path = c] = [path |-> c, query |-> StreamURL.query]
BY DEF StreamURL

\* A control resolves to the url it means.
LEMMA ControlResolves ==
    ASSUME NEW c, c # ""
    PROVE  Means(c, resolveControlURL(c))
<1>1. CASE c = "*"
    <2>1. resolveControlURL(c) = StreamURL
        BY <1>1, AbsoluteAssumption, Zenon DEF resolveControlURL
    <2> QED BY <1>1, <2>1, Zenon DEF Means
<1>2. CASE c # "*" /\ c \in Absolute
    <2>1. resolveControlURL(c) = [path |-> c, query |-> "none"]
        BY <1>2, Zenon DEF resolveControlURL
    <2>2. resolveControlURL(c).path = c
        BY <2>1, PathSet, Zenon
    <2> QED BY <1>2, <2>2, Zenon DEF Means
<1>3. CASE c # "*" /\ c \notin Absolute
    <2>1. resolveControlURL(c) = [path |-> c, query |-> StreamURL.query]
        BY <1>3, Zenon DEF resolveControlURL
    <2>2. resolveControlURL(c) = [StreamURL EXCEPT !.path = c]
        BY <2>1, PathSet, Zenon
    <2> QED BY <1>3, <2>2, Zenon DEF Means
<1> QED BY <1>1, <1>2, <1>3, Zenon

\* A section is taken for MPEG-TS exactly when its media line carries it.
LEMMA MatchesMeans ==
    ASSUME NEW body \in Seq(Line), NEW s, NEW pos, LinesRead(body, Len(body), s, pos),
           NEW x \in 1 .. Len(s.sections)
    PROVE  Matches(s.sections[x]) <=> CarriesMpegTs(body, pos[x])
<1> DEFINE sec == s.sections[x]
           L == InSection(body, pos[x])
<1>1. Len(body) \in Nat /\ pos[x] \in 1 .. Len(body) /\ body[pos[x]].kind = "media"
    BY DEF LinesRead, Positions
<1>2. SectionRead(body, pos[x], SectionLines(body, pos[x], Len(body)), sec)
    BY DEF LinesRead
<1>3. SectionLines(body, pos[x], Len(body)) = L
    BY Zenon DEF SectionLines, InSection
<1>4. SectionRead(body, pos[x], L, sec)
    BY <1>2, <1>3, Zenon
<1>5. L \in SUBSET (1 .. Len(body))
    BY <1>1 DEF InSection
<1>6. sec \in SectionType
    BY DEF LinesRead, Gathered
<1>7. sec.types = body[pos[x]].types /\ sec.types \subseteq PayloadType
    BY <1>4, <1>6 DEF SectionRead, SectionType
<1> HIDE DEF L, sec
<1>8. ASSUME NEW t \in sec.types
      PROVE  sec.rtpmap[t] = "MP2T" <=> RtpmapLine(t, "MP2T") \in LastOf(body, Rtpmaps(body, L, t))
    <2>1. t \in PayloadType
        BY <1>7
    <2>2. RtpmapRead(body, L, t, sec.rtpmap[t])
        BY <1>4, <2>1, Zenon DEF SectionRead
    <2> QED BY <1>5, <2>1, <2>2, RtpmapMeans
<1>9. CarriesMpegTs(body, pos[x]) <=>
        MpegTs \in sec.types
          \/ \E t \in sec.types : RtpmapLine(t, "MP2T") \in LastOf(body, Rtpmaps(body, L, t))
    BY <1>1, <1>7, Zenon DEF CarriesMpegTs, Rtpmaps, L
<1>10. Matches(sec) <=> MpegTs \in sec.types \/ \E t \in sec.types : sec.rtpmap[t] = "MP2T"
    BY Zenon DEF Matches
<1>11. Matches(sec) <=> CarriesMpegTs(body, pos[x])
    BY <1>8, <1>9, <1>10, Zenon
<1> QED BY <1>11 DEF sec

\* The controls a section, or the description, gives.
LEMMA ControlsGiven ==
    ASSUME NEW body \in Seq(Line), NEW p \in 0 .. Len(body), NEW v,
           ControlRead(body, SectionLines(body, p, Len(body)), v)
    PROVE  ControlOf(body, p) = {v} \/ (ControlOf(body, p) = {} /\ v = "")
<1> DEFINE L == SectionLines(body, p, Len(body))
           said == {l.control : l \in LastOf(body, Controls(body, L))}
<1>1. L \subseteq Int
    BY DEF SectionLines
<1>2. ControlOf(body, p) = said
    BY Zenon DEF ControlOf, InSection, SectionLines, Controls
<1>3. said = {v} \/ (said = {} /\ v = "")
    <2> HIDE DEF L
    <2>1. ControlRead(body, L, v)
        BY Zenon DEF L
    <2> QED BY <1>1, <2>1, ControlMeans, Zenon
<1> QED BY <1>2, <1>3, Zenon

LEMMA LeastIsMin ==
    ASSUME NEW T, T \subseteq Int, NEW f \in T, \A i \in T : f <= i
    PROVE  Min(T) = f
<1>1. ASSUME NEW i \in T, \A j \in T : i <= j PROVE i = f
    <2>1. i \in Int /\ f \in Int /\ i <= f /\ f <= i
        BY <1>1
    <2> QED BY <2>1
<1> QED BY <1>1, Zenon DEF Min

\* The first section that matches belongs to the first media line that carries
\* MPEG-TS.
LEMMA FirstMatch ==
    ASSUME NEW body \in Seq(Line), NEW s, NEW pos, LinesRead(body, Len(body), s, pos),
           {i \in 1 .. Len(s.sections) : Matches(s.sections[i])} # {}
    PROVE  LET matched == {i \in 1 .. Len(s.sections) : Matches(s.sections[i])}
               media == {i \in 1 .. Len(body) : CarriesMpegTs(body, i)}
           IN  Min(matched) \in 1 .. Len(s.sections) /\ Min(media) = pos[Min(matched)]
<1> DEFINE m == Len(s.sections)
           matched == {i \in 1 .. m : Matches(s.sections[i])}
           media == {i \in 1 .. Len(body) : CarriesMpegTs(body, i)}
<1>1. m \in Nat /\ Len(body) \in Nat /\ Positions(body, Len(body), m, pos)
    BY DEF LinesRead, Gathered
<1>2. PICK f \in matched : \A i \in matched : f <= i
    <2>1. matched \subseteq Nat
        BY <1>1
    <2> HIDE DEF matched
    <2> QED BY <2>1, LeastNatural DEF matched
<1>3. f \in 1 .. m /\ Matches(s.sections[f])
    BY <1>2
<1>4. Min(matched) = f
    <2>1. matched \subseteq Int
        BY <1>1
    <2> HIDE DEF matched
    <2> QED BY <1>2, <2>1, LeastIsMin, Zenon
<1>5. pos[f] \in 1 .. Len(body)
    BY <1>1, <1>3 DEF Positions
<1>6. pos[f] \in media
    BY <1>3, <1>5, MatchesMeans
<1>7. ASSUME NEW i \in media PROVE pos[f] <= i
    <2>1. i \in 1 .. Len(body) /\ CarriesMpegTs(body, i)
        OBVIOUS
    <2>2. body[i].kind = "media"
        BY <2>1, Zenon DEF CarriesMpegTs
    <2>3. PICK x \in 1 .. m : pos[x] = i
        BY <1>1, <2>1, <2>2 DEF Positions
    <2>4. x \in matched
        BY <2>1, <2>3, MatchesMeans
    <2>5. f <= x
        BY <1>2, <2>4
    <2>6. CASE f = x
        BY <1>5, <2>3, <2>6
    <2>7. CASE f < x
        <3>1. pos[f] < pos[x]
            BY <1>1, <1>3, <2>7 DEF Positions
        <3> QED BY <1>5, <2>1, <2>3, <3>1
    <2> QED BY <1>3, <2>5, <2>6, <2>7
<1>8. Min(media) = pos[f]
    <2>1. media \subseteq Int
        BY <1>1
    <2> HIDE DEF media
    <2> QED BY <1>6, <1>7, <2>1, LeastIsMin, Zenon
<1> QED BY <1>3, <1>4, <1>8

\* The urls of a track address the media and the presentation described.
LEMMA TrackAddresses ==
    ASSUME NEW body \in Seq(Line), NEW t \in parseSdpTrack(body)
    PROVE  LET media == {i \in 1 .. Len(body) : CarriesMpegTs(body, i)}
               controls == ControlOf(body, Min(media))
               aggregate == ControlOf(body, 0) \ {""}
           IN  /\ \E c \in controls : Means(c, t.setupURL)
               /\ \E c \in (IF aggregate = {} THEN controls ELSE aggregate) : Means(c, t.playURL)
<1> DEFINE s == readLines(body)
           matched == {i \in 1 .. Len(s.sections) : Matches(s.sections[i])}
           media == {i \in 1 .. Len(body) : CarriesMpegTs(body, i)}
           controls == ControlOf(body, Min(media))
           aggregate == ControlOf(body, 0) \ {""}
           control == s.sections[Min(matched)].control
           play == IF s.aggregateControl # "" THEN s.aggregateControl ELSE control
<1>1. PICK pos : LinesRead(body, Len(body), s, pos)
    BY DescriptionRead
<1>2. /\ matched # {} /\ control # ""
      /\ t = [setupURL |-> resolveControlURL(control), playURL |-> resolveControlURL(play)]
    BY Zenon DEF parseSdpTrack
<1>3. t.setupURL = resolveControlURL(control) /\ t.playURL = resolveControlURL(play)
    <2>1. ASSUME NEW a, NEW b, t = [setupURL |-> a, playURL |-> b]
          PROVE  t.setupURL = a /\ t.playURL = b
        BY <2>1
    <2> HIDE DEF control, play
    <2> QED BY <1>2, <2>1, Zenon
<1>4. Min(matched) \in 1 .. Len(s.sections) /\ Min(media) = pos[Min(matched)]
    <2> HIDE DEF s
    <2> QED BY <1>1, <1>2, FirstMatch, Zenon
<1>5. Min(media) \in 0 .. Len(body)
      /\ SectionRead(body, Min(media), SectionLines(body, Min(media), Len(body)),
                     s.sections[Min(matched)])
    <2>1. pos[Min(matched)] \in 0 .. Len(body)
        <3> HIDE DEF s, matched
        <3> QED BY <1>1, <1>4 DEF LinesRead, Positions
    <2> HIDE DEF s, matched, media
    <2> QED BY <1>1, <1>4, <2>1, Zenon DEF LinesRead
<1> HIDE DEF s, matched, media
<1>6. ControlRead(body, SectionLines(body, Min(media), Len(body)), control)
    BY <1>5, Zenon DEF SectionRead
<1>7. controls = {control}
    <2> HIDE DEF control
    <2> QED BY <1>2, <1>5, <1>6, ControlsGiven, Zenon
<1>8. ControlOf(body, 0) = {s.aggregateControl}
        \/ (ControlOf(body, 0) = {} /\ s.aggregateControl = "")
    <2>1. 0 \in 0 .. Len(body)
        OBVIOUS
    <2>2. ControlRead(body, SectionLines(body, 0, Len(body)), s.aggregateControl)
        BY <1>1, Zenon DEF LinesRead
    <2> QED BY <2>1, <2>2, ControlsGiven, Zenon
<1> HIDE DEF controls, control
<1>9. \E c \in controls : Means(c, t.setupURL)
    BY <1>2, <1>3, <1>7, ControlResolves, Zenon
<1>10. \E c \in (IF aggregate = {} THEN controls ELSE aggregate) : Means(c, t.playURL)
    <2>1. CASE s.aggregateControl = ""
        <3>1. aggregate = {} /\ play = control
            BY <1>8, <2>1, Zenon
        <3> HIDE DEF aggregate, play
        <3> QED BY <1>2, <1>3, <1>7, <3>1, ControlResolves, Zenon
    <2>2. CASE s.aggregateControl # ""
        <3>1. s.aggregateControl \in aggregate /\ play = s.aggregateControl
            BY <1>8, <2>2, Zenon
        <3>2. aggregate # {}
            BY <3>1, Zenon
        <3>3. Means(play, t.playURL)
            BY <1>3, <2>2, <3>1, ControlResolves, Zenon
        <3> HIDE DEF aggregate, play
        <3> QED BY <3>1, <3>2, <3>3, Zenon
    <2> QED BY <2>1, <2>2, Zenon
<1> QED BY <1>9, <1>10, Zenon DEF controls, media

-----------------------------------------------------------------------------
(* Requests address the media described.  The track is the one of the      *)
(* description that has been read, and there is none before; what was sent *)
(* before the description was read is a DESCRIBE.                          *)

NeedsTrack == (Requests \ {"DESCRIBE"}) \union {"bind", "stream", "armTeardown"}

TrackInv ==
    /\ track # {} => described \in Bodies /\ track = TrackOf[described]
    /\ pc \in BeforeSetup =>
          track = {} /\ \A k \in 1 .. Len(inbox) : inbox[k].method = "DESCRIBE"
    /\ pc \in NeedsTrack => track # {}

AddressInv == TrackInv /\ RequestsAddressMpegTs

\* What Addressed asks of each kind of request.
LEMMA DescribeAddressed ==
    ASSUME NEW body, NEW r, r.method = "DESCRIBE"
    PROVE  Addressed(body, r) <=> r.url = StreamURL
BY Zenon DEF Addressed, Setups

LEMMA SetupAddressed ==
    ASSUME NEW body, NEW t, NEW r, r.method \in Setups, r.url = t.setupURL,
           body \in Seq(Line), t \in parseSdpTrack(body)
    PROVE  Addressed(body, r)
<1>1. \E c \in ControlOf(body, Min({i \in 1 .. Len(body) : CarriesMpegTs(body, i)})) :
         Means(c, r.url)
    BY TrackAddresses, Zenon
<1>2. r.method # "DESCRIBE" /\ r.method \notin {"PLAY", "TEARDOWN"}
    BY DEF Setups
<1> QED BY <1>1, <1>2, Zenon DEF Addressed

AfterSetup == {"PLAY", "TEARDOWN"}

LEMMA PlayAddressed ==
    ASSUME NEW body, NEW t, NEW r, r.method \in AfterSetup, r.url = t.playURL,
           body \in Seq(Line), t \in parseSdpTrack(body)
    PROVE  Addressed(body, r)
<1> DEFINE controls == ControlOf(body, Min({i \in 1 .. Len(body) : CarriesMpegTs(body, i)}))
           aggregate == ControlOf(body, 0) \ {""}
<1>1. \E c \in (IF aggregate = {} THEN controls ELSE aggregate) : Means(c, r.url)
    BY TrackAddresses, Zenon
<1>2. r.method # "DESCRIBE" /\ r.method \notin Setups /\ r.method \in {"PLAY", "TEARDOWN"}
    BY DEF Setups, AfterSetup
<1> QED BY <1>1, <1>2, Zenon DEF Addressed

\* What request writes addresses what the description says.
LEMMA WrittenAddressed ==
    ASSUME TrackInv, pc \in Requests, NEW r, r.method = pc, r.url = RequestURL
    PROVE  Addressed(described, r)
<1>1. CASE pc = "DESCRIBE"
    <2>1. track = {}
        BY <1>1 DEF TrackInv, BeforeSetup
    <2>2. r.url = StreamURL
        BY <2>1 DEF RequestURL
    <2> QED BY <1>1, <2>2, DescribeAddressed
<1>2. CASE pc # "DESCRIBE"
    <2>1. track # {}
        BY <1>2 DEF TrackInv, NeedsTrack
    <2>2. described \in Bodies /\ track = parseSdpTrack(described)
        BY <2>1 DEF TrackInv, TrackOf
    <2>3. described \in Seq(Line)
        BY <2>2, BodiesAssumption, Zenon
    <2> DEFINE t == CHOOSE t \in track : TRUE
    <2>4. t \in parseSdpTrack(described)
        BY <2>1, <2>2, Zenon
    <2>5. r.url = IF pc \in Setups THEN t.setupURL ELSE t.playURL
        BY <2>1, Zenon DEF RequestURL
    <2> HIDE DEF t
    <2>6. CASE pc \in Setups
        BY <2>3, <2>4, <2>5, <2>6, SetupAddressed, Zenon
    <2>7. CASE pc \notin Setups
        <3>1. r.method \in AfterSetup /\ r.url = t.playURL
            BY <1>2, <2>5, <2>7, Zenon DEF Setups, Requests, AfterSetup
        <3> QED BY <2>3, <2>4, <3>1, PlayAddressed, Zenon
    <2> QED BY <2>6, <2>7
<1> QED BY <1>1, <1>2

LEMMA AddressInit == Init => AddressInv
<1> SUFFICES ASSUME Init PROVE AddressInv
    OBVIOUS
<1>1. pc = "dial" /\ track = {} /\ inbox = <<>>
    BY DEF Init
<1> QED BY <1>1 DEF AddressInv, TrackInv, BeforeSetup, NeedsTrack, Requests,
                    RequestsAddressMpegTs

LEMMA AddressStep == IInv /\ AddressInv /\ [Next]_vars => AddressInv'
<1> SUFFICES ASSUME IInv, AddressInv, [Next]_vars PROVE AddressInv'
    OBVIOUS
<1>0. inbox \in Seq(Pending) /\ Len(inbox) \in Nat
    BY DEF IInv, InboxInv
<1>1. CASE writeRequest
    <2> DEFINE r == [method |-> pc, url |-> RequestURL, session |-> session,
                     setup |-> setups']
    <2>1. inbox' = Append(inbox, r) /\ UNCHANGED <<pc, track, described>> /\ pc \in Requests
        BY <1>1 DEF writeRequest, sdp
    <2>2. r.method = pc /\ r.url = RequestURL
        OBVIOUS
    <2>3. r \in Pending
        <3>1. setups' \in 0 .. MaxSetups
            BY InboxStep DEF IInv
        <3> QED BY <2>1, <3>1, RequestTyped DEF IInv
    <2> HIDE DEF r
    <2>4. Addressed(described, r)
        BY <2>1, <2>2, WrittenAddressed DEF AddressInv
    <2>5. \A k \in 1 .. Len(inbox') : inbox'[k] = r \/ (k \in 1 .. Len(inbox) /\ inbox'[k] = inbox[k])
        BY <1>0, <2>1, <2>3
    <2>6. TrackInv'
        BY <2>1, <2>2, <2>5 DEF AddressInv, TrackInv, BeforeSetup, Requests
    <2>7. RequestsAddressMpegTs'
        BY <2>1, <2>4, <2>5 DEF AddressInv, RequestsAddressMpegTs
    <2> QED BY <2>6, <2>7 DEF AddressInv
<1>2. CASE serverAnswers
    <2>1. inbox # <<>> /\ inbox' = Tail(inbox) /\ UNCHANGED <<pc, track, described>>
        BY <1>2 DEF serverAnswers, relayState, sdp
    <2>2. \A k \in 1 .. Len(inbox') : k + 1 \in 1 .. Len(inbox) /\ inbox'[k] = inbox[k + 1]
        BY <1>0, <2>1
    <2>3. TrackInv'
        BY <2>1, <2>2 DEF AddressInv, TrackInv
    <2>4. RequestsAddressMpegTs'
        BY <2>1, <2>2 DEF AddressInv, RequestsAddressMpegTs
    <2> QED BY <2>3, <2>4 DEF AddressInv
<1>3. CASE describeAnswered
    <2>1. /\ UNCHANGED inbox /\ pc = "DESCRIBE"
          /\ \/ described' \in Bodies /\ track' = TrackOf[described']
             \/ UNCHANGED <<track, described>>
          /\ pc' = "closeConn" \/ (pc' = "SETUP_tcp_unicast" /\ track' # {})
        BY <1>3 DEF describeAnswered, ReturnError, ReadPanics, sdp
    <2>2. track = {} /\ \A k \in 1 .. Len(inbox) : inbox[k].method = "DESCRIBE"
        BY <2>1 DEF AddressInv, TrackInv, BeforeSetup
    <2>3. TrackInv'
        BY <2>1, <2>2 DEF TrackInv, BeforeSetup, NeedsTrack, Requests
    <2>4. \A k \in 1 .. Len(inbox) : inbox[k].url = StreamURL
        BY <2>2, DescribeAddressed DEF AddressInv, RequestsAddressMpegTs
    <2>5. \A k \in 1 .. Len(inbox) : Addressed(described', inbox[k])
        BY <2>2, <2>4, DescribeAddressed
    <2>6. RequestsAddressMpegTs'
        BY <2>1, <2>5 DEF RequestsAddressMpegTs
    <2> QED BY <2>3, <2>6 DEF AddressInv
<1>4. ASSUME UNCHANGED <<inbox, track, described>>,
             pc' \in BeforeSetup => pc \in BeforeSetup,
             pc' \in NeedsTrack => pc \in NeedsTrack
      PROVE  AddressInv'
    <2>1. TrackInv'
        BY <1>4 DEF AddressInv, TrackInv
    <2>2. RequestsAddressMpegTs'
        BY <1>4 DEF AddressInv, RequestsAddressMpegTs
    <2> QED BY <2>1, <2>2 DEF AddressInv
<1>5. CASE connectRtspSocket \/ setupTcpAnswered \/ createUdpTransport \/ setupUdpAnswered
           \/ playAnswered \/ armTeardown \/ teardownEnds \/ closeUdp \/ closeConn
    <2>1. UNCHANGED <<inbox, track, described>>
        BY <1>5
           DEF connectRtspSocket, setupTcpAnswered, createUdpTransport, setupUdpAnswered,
               playAnswered, armTeardown, teardownEnds, closeUdp, closeConn, sdp, envState
    <2>2. /\ pc' \in BeforeSetup => pc \in BeforeSetup
          /\ pc' \in NeedsTrack => pc \in NeedsTrack
        BY <1>5
           DEF connectRtspSocket, setupTcpAnswered, createUdpTransport, setupUdpAnswered,
               playAnswered, armTeardown, teardownEnds, closeUdp, closeConn, takeSession,
               ReturnError, ReadPanics, BeforeSetup, NeedsTrack, Requests
    <2> QED BY <1>4, <2>1, <2>2
<1>6. CASE mediaWritten \/ streamEnds \/ watch \/ orphanReads \/ clientLeaves \/ serverDrops
    <2>1. UNCHANGED <<inbox, track, described>>
        BY <1>6
           DEF mediaWritten, streamEnds, watch, orphanReads, clientLeaves, serverDrops, sdp,
               envState, relayState
    <2>2. pc' = pc \/ (pc = "stream" /\ pc' = "armTeardown")
        BY <1>6
           DEF mediaWritten, streamEnds, watch, orphanReads, clientLeaves, serverDrops,
               relayState
    <2> QED BY <1>4, <2>1, <2>2 DEF BeforeSetup, NeedsTrack
<1>7. CASE UNCHANGED vars
    BY <1>4, <1>7 DEF vars, relayState, sdp, envState
<1> QED BY <1>1, <1>2, <1>3, <1>5, <1>6, <1>7 DEF Next, RelayStep

\* Whatever description the server sends, of any length and with any number of
\* media sections, every SETUP addresses its first MPEG-TS media and PLAY and
\* TEARDOWN the presentation, with the query that tunes the receiver kept
\* (parseSdpTrack, resolveControlURL, Relay).
THEOREM RequestsAddressed == Spec => []RequestsAddressMpegTs
<1>1. AddressInv => RequestsAddressMpegTs
    BY DEF AddressInv
<1> QED BY <1>1, IInvAlways, AddressInit, AddressStep, PTL DEF Spec
=============================================================================
