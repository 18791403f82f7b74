---------------------------- MODULE RtpSequence ----------------------------
(***************************************************************************)
(* RTP sequence numbers and the circular comparison the relay uses on      *)
(* them (internal/rtsp/diagnostics.go).  The code works on uint16:         *)
(* HalfSpace is 0x8000 there and SeqSpace 0x10000; a model uses a smaller  *)
(* power of two so that the wrap-around happens within a few packets.      *)
(***************************************************************************)
EXTENDS Integers

CONSTANT HalfSpace

ASSUME HalfSpaceAssumption == HalfSpace \in Nat \ {0}

SeqSpace == 2 * HalfSpace

\* The values of a uint16.
Seq16 == 0 .. SeqSpace - 1

\* uint16 addition.
Plus(seq, n) == (seq + n) % SeqSpace

\* How far `to' lies ahead of `from' on the circle.
sequenceDistance(from, to) == (to - from + SeqSpace) % SeqSpace

\* A plausible bug: the half-space boundary taken one too far.
isStaleSequenceOffByOne(seq, expected) ==
    sequenceDistance(expected, seq) > HalfSpace

\* A plausible bug: comparing the numbers themselves, blind to wrap-around.
isStaleSequenceLinear(seq, expected) == seq < expected

\* A number in the half of the circle behind the expected one is old.
isStaleSequence(seq, expected) ==
    sequenceDistance(expected, seq) > HalfSpace - 1

\* Of a non-empty set of sequence numbers, the one met first going up
\* from `from'.
Closest(from, S) ==
    CHOOSE s \in S : \A t \in S :
        sequenceDistance(from, s) <= sequenceDistance(from, t)
=============================================================================
