------------------------------ MODULE SdpTrack ------------------------------
(***************************************************************************)
(* parseSdpTrack and resolveControlURL (internal/rtsp/relay.go): which     *)
(* media section of a description the relay sets up, and the urls it uses. *)
(*                                                                         *)
(* A line is known by what the parser makes of it; lines it passes over    *)
(* are left out.  A url is its path and its query; the stream's query is   *)
(* what tunes the receiver.                                                *)
(***************************************************************************)
EXTENDS Integers, SequencesExt

CONSTANTS
    PayloadType,        \* numbers of payload types, with 33
    Absolute            \* controls that are complete urls

MpegTs == 33

ASSUME PayloadTypeAssumption == MpegTs \in PayloadType
ASSUME AbsoluteAssumption == "*" \notin Absolute    \* it has no scheme

MediaLine(types) == [kind |-> "media", types |-> types]
ShortMediaLine == [kind |-> "short"]            \* fewer than three fields
ControlLine(c) == [kind |-> "control", control |-> c]
RtpmapLine(t, encoding) == [kind |-> "rtpmap", type |-> t, encoding |-> encoding]

Line ==
    [kind : {"media"}, types : SUBSET PayloadType] \union [kind : {"short"}]
      \union [kind : {"control"}, control : STRING]
      \union [kind : {"rtpmap"}, type : PayloadType, encoding : STRING]

StreamURL == [path |-> "stream", query |-> "tuning"]

\* A plausible bug: a relative control loses the query of the stream.
resolveControlURLNoQuery(control) ==
    CASE control = "*"        -> StreamURL
      [] OTHER                -> [path |-> control, query |-> "none"]

resolveControlURL(control) ==
    CASE control = "*"        -> StreamURL
      [] control \in Absolute -> [path |-> control, query |-> "none"]
      [] OTHER                -> [path |-> control, query |-> StreamURL.query]

-----------------------------------------------------------------------------
\* What parseSdpTrack has gathered: the media sections so far, each with its
\* types, its control and its rtpmap, and the control before the first one.
NoLines == [sections |-> <<>>, aggregateControl |-> ""]

Section(types) ==
    [types |-> types, control |-> "", rtpmap |-> [t \in PayloadType |-> "none"]]

\* The section begun last, after a line that speaks of it.
changeLast(s, section) ==
    [s EXCEPT !.sections = [i \in 1 .. Len(s.sections) |->
                               IF i = Len(s.sections) THEN section ELSE s.sections[i]]]

readControl(s, control) ==
    IF s.sections = <<>> THEN [s EXCEPT !.aggregateControl = control]
    ELSE changeLast(s, [s.sections[Len(s.sections)] EXCEPT !.control = control])

readRtpmap(s, t, encoding) ==
    IF s.sections = <<>> THEN s
    ELSE changeLast(s, [s.sections[Len(s.sections)] EXCEPT !.rtpmap[t] = encoding])

readLine(s, line) ==
    CASE line.kind = "media"   -> [s EXCEPT !.sections = Append(@, Section(line.types))]
      [] line.kind = "control" -> readControl(s, line.control)
      [] line.kind = "rtpmap"  -> readRtpmap(s, line.type, line.encoding)
      [] line.kind = "short"   -> s

readLines(body) ==
    LET after[i \in 0 .. Len(body)] ==
            IF i = 0 THEN NoLines ELSE readLine(after[i - 1], body[i])
    IN  after[Len(body)]

\* strings.Fields(line[2:])[3:] is out of range: no line is read after that.
parseSdpPanics(body) == \E k \in 1 .. Len(body) : body[k].kind = "short"

Matches(section) ==
    MpegTs \in section.types \/ \E t \in section.types : section.rtpmap[t] = "MP2T"

\* The track: the first MPEG-TS section, if it has a control.
parseSdpTrack(body) ==
    LET s == readLines(body)
        matched == {i \in 1 .. Len(s.sections) : Matches(s.sections[i])}
        control == s.sections[Min(matched)].control
        play == IF s.aggregateControl # "" THEN s.aggregateControl ELSE control
    IN  IF parseSdpPanics(body) \/ matched = {} THEN {}
        ELSE IF control = "" THEN {}
        ELSE {[setupURL |-> resolveControlURL(control), playURL |-> resolveControlURL(play)]}

-----------------------------------------------------------------------------
(* The description itself: what its lines say about the media line i.      *)

InSection(body, i) ==
    {k \in i + 1 .. Len(body) : \A j \in i + 1 .. k : body[j].kind # "media"}

LastOf(body, K) == {body[k] : k \in {k \in K : \A j \in K : j <= k}}

CarriesMpegTs(body, i) ==
    /\ body[i].kind = "media"
    /\ \/ MpegTs \in body[i].types
       \/ \E t \in body[i].types : RtpmapLine(t, "MP2T") \in
             LastOf(body, {k \in InSection(body, i) :
                              body[k].kind = "rtpmap" /\ body[k].type = t})

\* The controls of a section, or with i = 0 of the whole description.
ControlOf(body, i) ==
    {l.control : l \in LastOf(body, {k \in InSection(body, i) : body[k].kind = "control"})}

\* The urls a server that sent this description expects for its MPEG-TS media:
\* relative ones extend the url of the stream and keep its tuning.
Means(control, url) ==
    \/ control = "*" /\ url = StreamURL
    \/ control \in Absolute /\ url.path = control
    \/ control \notin Absolute \union {"*", ""} /\ url = [StreamURL EXCEPT !.path = control]
=============================================================================
