-------------------------- MODULE MCInterleavedPump --------------------------
(***************************************************************************)
(* InterleavedPump with media frames that are empty, a bare header, or     *)
(* media whose first byte looks like a marker, and one control frame.      *)
(***************************************************************************)
EXTENDS InterleavedPump

MCFrames == {[kind |-> "frame", channel |-> 0, len |-> n] : n \in 0 .. 2}
              \union {[kind |-> "frame", channel |-> 1, len |-> 1]}
=============================================================================
