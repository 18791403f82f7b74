----------------------------- MODULE RtpStream -----------------------------
(***************************************************************************)
(* The reorder buffer fed by a real stream: the sender numbers its packets *)
(* 0, 1, 2, ... but a packet carries only its number modulo SeqSpace, and  *)
(* UDP may lose, duplicate and reorder packets.  The question is when the  *)
(* circular comparison of the buffer agrees with the stream's own order.   *)
(*                                                                         *)
(* The network is bounded by two constants: it loses at most MaxBurst      *)
(* packets in a row beyond the newest one received, and delivers nothing   *)
(* that trails the newest by Window positions or more.                     *)
(***************************************************************************)
EXTENDS ReorderBuffer, SequencesExt

CONSTANTS MaxBurst, Window,
          Pid, NullPid, CounterSpace,
          payloadOf(_),     \* the TS packets a packet carries
          TsPerPacket       \* at most so many: 10 in pumpUdp's 2048 bytes

VARIABLES diagnostics,      \* the relay's counters
          newest,           \* highest position received, -1 at first
          arrived,          \* positions received ahead of all delivered ones
          delivered         \* everything emitted so far

Diagnostics == INSTANCE RelayDiagnostics

\* A packet is its position in the stream, and carries the low 16 bits of it.
ASSUME StreamAssumption ==
    /\ Packet \subseteq Nat
    /\ \A n \in Packet : parseRtpSequence(n) = n % SeqSpace

ASSUME PayloadAssumption ==
    /\ CounterSpace \in Nat \ {0} /\ TsPerPacket \in Nat
    /\ \A n \in Packet : /\ payloadOf(n) \in Seq(Diagnostics!TsPacket)
                         /\ Len(payloadOf(n)) <= TsPerPacket

Abstract == INSTANCE OrderedDelivery WITH Position <- Packet

streamVars == <<expectedSeq, pending, flushTimer, timers, owner, emitted,
                diagnostics, newest, arrived, delivered>>

\* The sizes for which 16-bit comparison is safe: the buffer can fall behind
\* the newest packet by one burst for each packet it holds.
ASSUME NetworkAssumption ==
    /\ MaxBurst \in Nat /\ Window \in Nat
    /\ (MaxPending + 1) * (MaxBurst + 1) <= HalfSpace
    /\ Window <= HalfSpace

StreamInit ==
    /\ BufferInit
    /\ diagnostics = Diagnostics!createRelayDiagnostics
    /\ newest = -1
    /\ arrived = {}
    /\ delivered = <<>>

\* The counters d after the packets of a batch.
recordBatch(d, batch) ==
    LET after[i \in 0 .. Len(batch)] ==
            IF i = 0 THEN d
            ELSE Diagnostics!recordPacket(after[i - 1], parseRtpSequence(batch[i]),
                                          payloadOf(batch[i]))
    IN  after[Len(batch)]

\* What the handler notes of the packets a step emits.
Record ==
    /\ delivered' = delivered \o emitted'
    /\ diagnostics' = recordBatch(diagnostics, emitted')

\* A datagram reaches the socket and pumpUdp pushes it.
Receive(n) ==
    /\ n > newest - Window
    /\ n <= newest + MaxBurst + 1
    /\ push(n)
    /\ newest' = IF n > newest THEN n ELSE newest
    /\ arrived' = IF n > Abstract!LastDelivered THEN arrived \union {n} ELSE arrived
    /\ Record

\* Everything that is not a packet's arrival.
BufferStep ==
    /\ \/ stop
       \/ closeStop
       \/ flushRemaining
       \/ \E t \in Timer : timerFires(t) \/ flushCallback(t)
    /\ Record
    /\ UNCHANGED <<newest, arrived>>

StreamNext == (\E n \in Packet : Receive(n)) \/ BufferStep

StreamSpec == StreamInit /\ [][StreamNext]_streamVars

-----------------------------------------------------------------------------
\* A packet that arrived in time is never dropped as stale or overwritten:
\* until the owner abandons the buffer it is either delivered or buffered
\* under its own number.
NothingDropped ==
    \A n \in arrived :
        n \in ToSet(delivered) \/ pending[parseRtpSequence(n)] = n

\* What the log says was lost is what the client did not get: the counters
\* know only 16-bit numbers, but they count every packet handed on, and between
\* the first and the last one every position that was not (recordRtpPacket).
LossIsCounted ==
    /\ diagnostics.rtpPacketCount = Len(delivered)
    /\ diagnostics.rtpMissingCount =
          IF delivered = <<>> THEN 0
          ELSE Last(delivered) - Head(delivered) + 1 - Len(delivered)

\* The places of TS packets in the stream: the i-th in RTP packet n.
TsPlace == {p \in Packet \X (1 .. TsPerPacket) : p[2] <= Len(payloadOf(p[1]))}
Before(p, q) == p[1] < q[1] \/ (p[1] = q[1] /\ p[2] < q[2])
TsAt(p) == payloadOf(p[1])[p[2]]

\* What a place does to the counter of its program.
Counts(p) == TsAt(p).hasPayload /\ TsAt(p).pid # NullPid
Resets(p) == TsAt(p).hasDiscontinuity /\ ~TsAt(p).hasPayload
Concerns(p, pid) == TsAt(p).pid = pid /\ (Counts(p) \/ Resets(p))

\* A sender that keeps its counters: each payload has the number behind the one
\* before it in its program, in the same RTP packet or an earlier one, unless it
\* announces a discontinuity or a TS packet without payload has done so.
SenderCounts ==
    \A p, q \in TsPlace :
        /\ Before(p, q) /\ Counts(p) /\ Counts(q) /\ TsAt(p).pid = TsAt(q).pid
        /\ ~TsAt(q).hasDiscontinuity
        /\ \A r \in TsPlace : Before(p, r) /\ Before(r, q) => ~Concerns(r, TsAt(q).pid)
        => TsAt(q).cc = (TsAt(p).cc + 1) % CounterSpace

\* If the sender keeps its counters, every continuity error is the trace of a
\* packet that was lost or came damaged: a damaged TS packet accounts for one, a
\* lost RTP packet for as many as it has TS packets, since each may be of another
\* program.  Neither reordering, stuffing and null packets nor announced
\* discontinuities make recordTsPayload report one.
ContinuityErrorsExplained ==
    diagnostics.tsContinuityErr
        <= TsPerPacket * diagnostics.rtpMissingCount + diagnostics.tsSyncLossCount

\* The relay's reorder buffer implements ordered delivery: no push, timer
\* callback or close does anything the abstract specification forbids.
ImplementsOrderedDelivery == Abstract!DeliverySpec
=============================================================================
