--------------------------- MODULE ReorderBuffer ---------------------------
(***************************************************************************)
(* udpRtpReorderBuffer (internal/rtsp/diagnostics.go): the jitter buffer   *)
(* between the UDP socket and the HTTP response.  Every method body runs   *)
(* under the buffer's mutex, so each critical section is one action; what  *)
(* interleaves is the goroutine that owns the buffer (pumpUdp: push, stop, *)
(* close) and the goroutines time.AfterFunc starts when a flush timer      *)
(* fires.  time.Timer.Stop never waits for such a goroutine: a callback    *)
(* that has fired but not yet taken the mutex runs later, whatever stop    *)
(* and flushTimer say by then.                                             *)
(***************************************************************************)
EXTENDS RtpSequence, FiniteSets, Sequences

CONSTANTS
    Packet,                 \* RTP packets
    parseRtpSequence(_),    \* bytes 2 and 3 of a packet
    MaxPending,             \* maxPending: 64 in the code
    Timer,                  \* identities of time.Timer objects
    NoPacket, NoTimer

ASSUME MaxPendingAssumption == MaxPending \in Nat

ASSUME PacketAssumption ==
    /\ \A p \in Packet : parseRtpSequence(p) \in Seq16
    /\ NoPacket \notin Packet
    /\ NoTimer \notin Timer

VARIABLES
    expectedSeq,    \* next sequence number to emit, NoSeq before the first
    pending,        \* sequence number -> buffered packet or NoPacket
    flushTimer,     \* the timer the buffer knows of: a Timer or NoTimer (nil)
    timers,         \* Timer -> idle, armed (running) or fired (its goroutine
                    \* waits for the mutex)
    owner,          \* where the owning goroutine is
    emitted         \* the packets the last step handed to emitPacket

bufferVars == <<expectedSeq, pending, flushTimer, timers, owner, emitted>>

NoSeq == -1

\* open: the owner calls push.  closing, flushing, flushed: inside close,
\* between its two halves, in flushRemaining with the mutex held, and done.
\* stopped: stop was called without close; closed: stop after close.
OwnerState == {"open", "closing", "flushing", "flushed", "stopped", "closed"}

EmptyPending == [s \in Seq16 |-> NoPacket]
Keys(pend) == {s \in Seq16 : pend[s] # NoPacket}
hasPending(pend, seq) == pend[seq] # NoPacket

newUdpRtpReorderBuffer ==
    /\ expectedSeq = NoSeq
    /\ pending = EmptyPending
    /\ flushTimer = NoTimer
    /\ timers = [t \in Timer |-> "idle"]
    /\ owner = "open"
    /\ emitted = <<>>

-----------------------------------------------------------------------------
(* Operations on the contents: each returns the new expectedSeq, the new   *)
(* pending map and the packets emitted, in order.                          *)

\* Emit the unbroken run that starts at exp.
flushAvailableLocked(exp, pend) ==
    LET next == Closest(exp, Seq16 \ Keys(pend))
        run  == sequenceDistance(exp, next)
    IN  [ expected |-> next,
          pending  |-> [s \in Seq16 |-> IF sequenceDistance(exp, s) < run
                                        THEN NoPacket ELSE pend[s]],
          batch    |-> [i \in 1 .. run |-> pend[Plus(exp, i - 1)]] ]

\* A plausible bug: the smallest number instead of the nearest one.
findNearestPendingSequenceLinear(exp, pend) ==
    CHOOSE s \in Keys(pend) : \A t \in Keys(pend) : s <= t

\* Only called with a non-empty map, and then exp is never nil (PendingAhead).
findNearestPendingSequence(exp, pend) == Closest(exp, Keys(pend))

\* Give up on a gap: jump to the nearest buffered number and flush from it.
SkipGap(exp, pend) ==
    flushAvailableLocked(
        IF hasPending(pend, exp) THEN exp
        ELSE findNearestPendingSequence(exp, pend),
        pend)

\* A plausible bug: the limit compared with >= on the wrong side.
OverLimitOffByOne(pend) == Cardinality(Keys(pend)) > MaxPending + 1

OverLimit(pend) == Cardinality(Keys(pend)) > MaxPending

\* The contents after push has stored a packet that is not stale.
Pushed(p) ==
    LET seq   == parseRtpSequence(p)
        exp   == IF expectedSeq = NoSeq THEN seq ELSE expectedSeq
        pend  == IF hasPending(pending, seq) THEN pending
                 ELSE [pending EXCEPT ![seq] = p]
        first == flushAvailableLocked(exp, pend)
        jump  == SkipGap(first.expected, first.pending)
    IN  IF OverLimit(first.pending) /\ ~hasPending(first.pending, first.expected)
        THEN [jump EXCEPT !.batch = first.batch \o jump.batch]
        ELSE first

-----------------------------------------------------------------------------
(* The flush timer.  cur and ts are flushTimer and timers as the caller    *)
(* has left them.                                                          *)

\* flushTimer.Stop(): an armed timer is cancelled, a fired one is not.
Cancelled(cur, ts) ==
    [t \in Timer |-> IF t = cur /\ ts[t] = "armed" THEN "idle" ELSE ts[t]]

StopTimer(cur, ts) ==
    /\ flushTimer' = NoTimer
    /\ timers' = Cancelled(cur, ts)

KeepTimer(cur, ts) ==
    /\ flushTimer' = cur
    /\ timers' = ts

\* time.AfterFunc creates a new timer; Timer bounds how many can be alive.
armFlushTimerLocked(cur, ts) ==
    \/ /\ cur # NoTimer
       /\ KeepTimer(cur, ts)
    \/ /\ cur = NoTimer
       /\ \E t \in Timer :
             /\ ts[t] = "idle"
             /\ flushTimer' = t
             /\ timers' = [ts EXCEPT ![t] = "armed"]

\* What push and the callback do to the timer once res holds the contents:
\* flushAvailableLocked stops it when nothing is left, a gap arms it.  After a
\* flush the expected number is never buffered, so there is no third case.
SettleTimer(cur, ts, res) ==
    \/ /\ Keys(res.pending) = {}
       /\ StopTimer(cur, ts)
    \/ /\ Keys(res.pending) # {}
       /\ ~hasPending(res.pending, res.expected)
       /\ armFlushTimerLocked(cur, ts)

SetContents(res) ==
    /\ expectedSeq' = res.expected
    /\ pending' = res.pending
    /\ emitted' = res.batch

-----------------------------------------------------------------------------
(* The owner's calls.                                                      *)

pushStale(p) ==
    /\ owner = "open"
    /\ expectedSeq # NoSeq
    /\ isStaleSequence(parseRtpSequence(p), expectedSeq)
    /\ emitted' = <<>>
    /\ UNCHANGED <<expectedSeq, pending, flushTimer, timers, owner>>

pushFresh(p) ==
    /\ owner = "open"
    /\ expectedSeq = NoSeq \/ ~isStaleSequence(parseRtpSequence(p), expectedSeq)
    /\ \E res \in {Pushed(p)} :
          SetContents(res) /\ SettleTimer(flushTimer, timers, res)
    /\ UNCHANGED owner

push(p) == pushStale(p) \/ pushFresh(p)

\* stop(), on its own or as the deferred call after close.
stop ==
    /\ \/ owner = "open" /\ owner' = "stopped"
       \/ owner = "flushed" /\ owner' = "closed"
    /\ StopTimer(flushTimer, timers)
    /\ emitted' = <<>>
    /\ UNCHANGED <<expectedSeq, pending>>

\* close(), first half: its call of stop().
closeStop ==
    /\ owner = "open"
    /\ owner' = "closing"
    /\ StopTimer(flushTimer, timers)
    /\ emitted' = <<>>
    /\ UNCHANGED <<expectedSeq, pending>>

\* A plausible bug: close flushes one run and returns.
flushRemainingOnce ==
    /\ owner = "closing"
    /\ owner' = "flushed"
    /\ \/ /\ Keys(pending) # {}
          /\ SetContents(SkipGap(expectedSeq, pending))
          /\ KeepTimer(flushTimer, timers)
       \/ /\ Keys(pending) = {}
          /\ emitted' = <<>>
          /\ UNCHANGED <<expectedSeq, pending, flushTimer, timers>>

\* close(), second half, one iteration of flushRemaining's loop; the mutex
\* is taken by the first and released by the last.
flushRemaining ==
    /\ owner \in {"closing", "flushing"}
    /\ \/ /\ Keys(pending) # {}
          /\ owner' = "flushing"
          /\ \E res \in {SkipGap(expectedSeq, pending)} :
                 /\ SetContents(res)
                 /\ IF Keys(res.pending) = {}
                    THEN StopTimer(flushTimer, timers)
                    ELSE KeepTimer(flushTimer, timers)
       \/ /\ Keys(pending) = {}
          /\ owner' = "flushed"
          /\ emitted' = <<>>
          /\ UNCHANGED <<expectedSeq, pending, flushTimer, timers>>

-----------------------------------------------------------------------------
(* The timer goroutines.                                                   *)

\* reorderDelay has passed: the runtime starts the callback's goroutine.
timerFires(t) ==
    /\ timers[t] = "armed"
    /\ timers' = [timers EXCEPT ![t] = "fired"]
    /\ emitted' = <<>>
    /\ UNCHANGED <<expectedSeq, pending, flushTimer, owner>>

\* A plausible bug: the callback flushes but does not arm the next timer.
flushCallbackNoRearm(t) ==
    /\ timers[t] = "fired"
    /\ owner # "flushing"
    /\ \/ /\ Keys(pending) = {}
          /\ emitted' = <<>>
          /\ UNCHANGED <<expectedSeq, pending>>
       \/ /\ Keys(pending) # {}
          /\ SetContents(SkipGap(expectedSeq, pending))
    /\ flushTimer' = NoTimer
    /\ timers' = [timers EXCEPT ![t] = "idle"]
    /\ UNCHANGED owner

\* A plausible bug: flushTimer is not reset, so nothing is armed again.
flushCallbackKeepsTimer(t) ==
    /\ timers[t] = "fired"
    /\ owner # "flushing"
    /\ LET ts == [timers EXCEPT ![t] = "idle"]
       IN  \/ /\ Keys(pending) = {}
              /\ emitted' = <<>>
              /\ KeepTimer(flushTimer, ts)
              /\ UNCHANGED <<expectedSeq, pending>>
           \/ /\ Keys(pending) # {}
              /\ \E res \in {SkipGap(expectedSeq, pending)} :
                     SetContents(res) /\ SettleTimer(flushTimer, ts, res)
    /\ UNCHANGED owner

\* A plausible bug: the callback arms the next timer with nothing to flush.
flushCallbackRearms(t) ==
    /\ timers[t] = "fired"
    /\ owner # "flushing"
    /\ LET ts == [timers EXCEPT ![t] = "idle"]
       IN  \/ /\ Keys(pending) = {}
              /\ armFlushTimerLocked(NoTimer, ts)
              /\ emitted' = <<>>
              /\ UNCHANGED <<expectedSeq, pending>>
           \/ /\ Keys(pending) # {}
              /\ \E res \in {SkipGap(expectedSeq, pending)} :
                     SetContents(res) /\ SettleTimer(NoTimer, ts, res)
    /\ UNCHANGED owner

\* The function given to time.AfterFunc, once it has the mutex.
flushCallback(t) ==
    /\ timers[t] = "fired"
    /\ owner # "flushing"
    /\ LET ts == [timers EXCEPT ![t] = "idle"]
       IN  \/ /\ Keys(pending) = {}
              /\ KeepTimer(NoTimer, ts)
              /\ emitted' = <<>>
              /\ UNCHANGED <<expectedSeq, pending>>
           \/ /\ Keys(pending) # {}
              /\ \E res \in {SkipGap(expectedSeq, pending)} :
                     SetContents(res) /\ SettleTimer(NoTimer, ts, res)
    /\ UNCHANGED owner

-----------------------------------------------------------------------------
BufferInit == newUdpRtpReorderBuffer

BufferNext ==
    \/ \E p \in Packet : push(p)
    \/ stop
    \/ closeStop
    \/ flushRemaining
    \/ \E t \in Timer : timerFires(t) \/ flushCallback(t)

BufferSpec == BufferInit /\ [][BufferNext]_bufferVars

\* Timers fire, a callback gets the mutex (Go's mutex is starvation-free),
\* and close runs to its end once begun.
BufferFairness ==
    /\ \A t \in Timer : WF_bufferVars(timerFires(t))
    /\ \A t \in Timer : WF_bufferVars(flushCallback(t))
    /\ WF_bufferVars(flushRemaining)

FairBufferSpec == BufferSpec /\ BufferFairness

-----------------------------------------------------------------------------
\* Types, with the map's own: a packet is stored under the number it carries,
\* and expectedSeq stays a 16-bit number across the wrap.
BufferTypeOK ==
    /\ expectedSeq \in Seq16 \union {NoSeq}
    /\ pending \in [Seq16 -> Packet \union {NoPacket}]
    /\ \A s \in Keys(pending) : parseRtpSequence(pending[s]) = s
    /\ flushTimer \in Timer \union {NoTimer}
    /\ timers \in [Timer -> {"idle", "armed", "fired"}]
    /\ owner \in OwnerState
    /\ emitted \in Seq(Packet)

\* Whenever the mutex is free, every buffered number lies strictly ahead of
\* the expected one, within the half of the circle that isStaleSequence calls
\* new, so nearest-first flushing can never go backwards.
PendingAhead ==
    \A s \in Keys(pending) :
        /\ expectedSeq # NoSeq
        /\ sequenceDistance(expectedSeq, s) \in 1 .. HalfSpace - 1

\* The map never holds more than maxPending packets between two calls: the
\* packet that would exceed it makes push give up on the gap instead.
PendingBounded == Cardinality(Keys(pending)) <= MaxPending

\* While the owner is reading packets, a gap is never left without a running
\* or a fired timer that flushTimer refers to, whatever stale callbacks of
\* earlier timers did in between: what is buffered is not stuck.
GapHasTimer ==
    owner = "open" /\ Keys(pending) # {} =>
        /\ flushTimer # NoTimer
        /\ timers[flushTimer] \in {"armed", "fired"}

\* batch ascends on the circle as seen from exp, stays in the new half, and
\* next is the number after its last packet (or exp, if it is empty).
EmitsFrom(exp, batch, next) ==
    LET seq(i) == parseRtpSequence(batch[i])
    IN  /\ \A i, j \in 1 .. Len(batch) : i < j =>
              sequenceDistance(exp, seq(i)) < sequenceDistance(exp, seq(j))
        /\ \A i \in 1 .. Len(batch) : sequenceDistance(exp, seq(i)) < HalfSpace
        /\ next = IF batch = <<>> THEN exp ELSE Plus(seq(Len(batch)), 1)

\* One step emits packets in ascending circular order, none of them behind
\* the expected number, and leaves expectedSeq just past the last of them:
\* a packet is never written after one that follows it in the stream, whether
\* push, a timer callback or close is doing the writing.
EmitsForward ==
    [][expectedSeq # NoSeq =>
          EmitsFrom(expectedSeq, emitted', expectedSeq')]_bufferVars

\* close() leaves nothing behind: no timer callback still on its way emits
\* anything once close has returned.
NothingAfterClose ==
    [][(owner \in {"flushed", "closed"}) => emitted' = <<>>]_bufferVars

\* A buffered packet is handed on within finitely many timer periods, or the
\* owner has stopped the buffer: a lost packet delays its successors, it does
\* not hold them for ever.
PendingDrained ==
    \A s \in Seq16 : hasPending(pending, s) ~>
        (~hasPending(pending, s) \/ owner = "stopped")
=============================================================================
