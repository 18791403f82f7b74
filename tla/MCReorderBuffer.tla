-------------------------- MODULE MCReorderBuffer --------------------------
(***************************************************************************)
(* Instance of ReorderBuffer: a sequence space of eight numbers, two       *)
(* buffered packets, and two timers alive at once: one that is running and *)
(* one whose callback is late.                                             *)
(***************************************************************************)
EXTENDS ReorderBuffer

\* A packet is its sequence number: the payload never matters here.
MCPacket == Seq16
MCparseRtpSequence(p) == p
=============================================================================
