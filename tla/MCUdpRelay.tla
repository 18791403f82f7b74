---------------------------- MODULE MCUdpRelay ----------------------------
(***************************************************************************)
(* UdpRelay on a circle of eight numbers.  A packet is its number, and its *)
(* kind goes with that.  Two numbers are lost for good, any other may come *)
(* at any time or not at all: gaps of one and two numbers, and a second    *)
(* gap behind the first.                                                   *)
(***************************************************************************)
EXTENDS UdpRelay

MCPacket == Seq16 \ {3, 6}
MCparseRtpSequence(p) == p
MCkindOf(p) == IF p % 3 = 0 THEN "bad" ELSE IF p % 3 = 1 THEN "media" ELSE "empty"
=============================================================================
