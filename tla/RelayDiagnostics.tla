-------------------------- MODULE RelayDiagnostics --------------------------
(***************************************************************************)
(* The counters a relay keeps on what it hands to the client               *)
(* (relayDiagnostics in internal/rtsp/diagnostics.go): RTP packets missing *)
(* between two that were handed on, and MPEG-TS packets that lost their    *)
(* sync byte or continue their program's counter at the wrong number.      *)
(***************************************************************************)
EXTENDS RtpSequence, SequencesExt

CONSTANTS Pid, NullPid,
          CounterSpace      \* values of a continuity counter: 16

\* A TS packet: cc is its continuity counter.
TsPacket == [sync : BOOLEAN, pid : Pid, hasPayload : BOOLEAN,
             hasDiscontinuity : BOOLEAN, cc : 0 .. CounterSpace - 1]

Unset == -1         \* a nil lastRtpSeq, a pid without an entry

createRelayDiagnostics ==
    [ lastRtpSeq |-> Unset, rtpPacketCount |-> 0, rtpMissingCount |-> 0,
      tsPacketCount |-> 0, tsSyncLossCount |-> 0, tsContinuityErr |-> 0,
      expectedByPID |-> [p \in Pid |-> Unset] ]

\* A plausible bug: the gap is computed without regard to the wrap.
recordRtpPacketLinear(d, sequence) ==
    LET expected == Plus(d.lastRtpSeq, 1)
    IN  IF d.lastRtpSeq # Unset /\ isStaleSequence(sequence, expected) THEN d
        ELSE [d EXCEPT !.lastRtpSeq = sequence,
                       !.rtpPacketCount = @ + 1,
                       !.rtpMissingCount = @ + IF d.lastRtpSeq = Unset THEN 0
                                               ELSE sequence - expected]

\* A packet behind the newest one counts for nothing.
recordRtpPacket(d, sequence) ==
    LET expected == Plus(d.lastRtpSeq, 1)
    IN  IF d.lastRtpSeq # Unset /\ isStaleSequence(sequence, expected) THEN d
        ELSE [d EXCEPT !.lastRtpSeq = sequence,
                       !.rtpPacketCount = @ + 1,
                       !.rtpMissingCount = @ + IF d.lastRtpSeq = Unset THEN 0
                                               ELSE sequenceDistance(expected, sequence)]

\* A plausible bug: packets without payload are expected to count as well.
recordTsPacketAnyPayload(d, ts) ==
    LET mismatch == /\ d.expectedByPID[ts.pid] \notin {Unset, ts.cc}
                    /\ ~ts.hasDiscontinuity
    IN  IF ~ts.sync \/ ts.pid = NullPid
        THEN [d EXCEPT !.tsPacketCount = @ + 1,
                       !.tsSyncLossCount = @ + IF ts.sync THEN 0 ELSE 1]
        ELSE [d EXCEPT !.tsPacketCount = @ + 1,
                       !.tsContinuityErr = @ + IF mismatch THEN 1 ELSE 0,
                       !.expectedByPID[ts.pid] = (ts.cc + 1) % CounterSpace]

\* One turn of recordTsPayload's loop.
recordTsPacket(d, ts) ==
    LET mismatch == /\ d.expectedByPID[ts.pid] \notin {Unset, ts.cc}
                    /\ ~ts.hasDiscontinuity
    IN  IF ~ts.sync
        THEN [d EXCEPT !.tsPacketCount = @ + 1, !.tsSyncLossCount = @ + 1]
        ELSE IF ~ts.hasPayload \/ ts.pid = NullPid
        THEN [d EXCEPT !.tsPacketCount = @ + 1,
                       !.expectedByPID[ts.pid] =
                          IF ts.hasDiscontinuity /\ ~ts.hasPayload THEN Unset ELSE @]
        ELSE [d EXCEPT !.tsPacketCount = @ + 1,
                       !.tsContinuityErr = @ + IF mismatch THEN 1 ELSE 0,
                       !.expectedByPID[ts.pid] = (ts.cc + 1) % CounterSpace]

recordTsPayload(d, payload) ==
    LET after[i \in 0 .. Len(payload)] ==
            IF i = 0 THEN d ELSE recordTsPacket(after[i - 1], payload[i])
    IN  after[Len(payload)]

\* What the handler records of one RTP packet.
recordPacket(d, sequence, payload) == recordTsPayload(recordRtpPacket(d, sequence), payload)
=============================================================================
