---------------------------- MODULE MCRtpStream ----------------------------
(***************************************************************************)
(* RtpStream on a circle of twelve numbers: a stream of fifteen packets    *)
(* wraps, and a burst, a duplicate and a late packet all fit in it.  Each  *)
(* packet carries one or two TS packets: two programs, stuffing, null      *)
(* packets, a damaged packet, and a discontinuity with and without a       *)
(* payload.                                                                *)
(***************************************************************************)
EXTENDS RtpStream

\* bound: the length of the stream
MCPacket == 0 .. 14
MCparseRtpSequence(n) == n % SeqSpace

MCPid == {"video", "audio", "null"}

\* TS packets 2 * n and 2 * n + 1 are in RTP packet n; every fourth one is
\* half full.
Sent == {t \in 0 .. 29 : t % 8 # 7}

\* pid and kind of each TS packet, by turns of five: 3, 8, ... are stuffing, 11
\* and 12 announce a discontinuity, 20 is damaged
PidAt(t) == <<"video", "audio", "video", "video", "null">>[(t % 5) + 1]
HasPayload(t) == (t % 5) # 3 /\ t # 11
Announced(t) == t \in {11, 12}

\* Counters go up by one for each payload of their pid, and start anew where a
\* discontinuity is announced.
Counter(t) ==
    LET starts == {u \in Sent : u <= t /\ PidAt(u) = PidAt(t) /\ Announced(u)}
        counted == {u \in Sent : /\ u < t /\ PidAt(u) = PidAt(t) /\ HasPayload(u)
                                 /\ \A v \in starts : u >= v}
    IN  (Cardinality(counted) + (IF starts = {} THEN 0 ELSE 2)) % CounterSpace

Ts(t) == [ sync |-> t # 20, pid |-> PidAt(t), hasPayload |-> HasPayload(t),
           hasDiscontinuity |-> Announced(t), cc |-> Counter(t) ]

Payload == [n \in MCPacket |-> IF 2 * n + 1 \in Sent THEN <<Ts(2 * n), Ts(2 * n + 1)>>
                               ELSE <<Ts(2 * n)>>]
MCpayloadOf(n) == Payload[n]

ASSUME SenderAssumption == SenderCounts
=============================================================================
