-------------------------- MODULE OrderedDelivery --------------------------
(***************************************************************************)
(* What the reorder buffer promises, without sequence numbers, timers or   *)
(* a size limit: packets carry their position in the sender's stream, each *)
(* one that arrives ahead of everything already delivered is delivered     *)
(* exactly once, and delivery follows stream order.                        *)
(***************************************************************************)
EXTENDS Integers, SequencesExt, FiniteSets

CONSTANT Position       \* positions in the stream, a set of naturals

VARIABLES
    arrived,            \* positions that arrived in time to be delivered
    delivered           \* positions handed to the consumer, in order

deliveryVars == <<arrived, delivered>>

LastDelivered == IF delivered = <<>> THEN -1 ELSE Last(delivered)

\* The enumeration of a finite set of positions in stream order.
Ascending(S) ==
    {s \in [1 .. Cardinality(S) -> S] :
        \A i, j \in 1 .. Cardinality(S) : i < j => s[i] < s[j]}

DeliveryInit == arrived = {} /\ delivered = <<>>

\* A packet that is not too late arrives, or none does; then some of the
\* packets held, the first ones of the stream, are delivered in order.
Deliver ==
    \E n \in {p \in Position : p > LastDelivered} \union arrived :
        LET held == (arrived \union {n}) \ ToSet(delivered)
        IN  \E batch \in SUBSET held :
              /\ \A b \in batch, h \in held \ batch : b < h
              /\ arrived' = arrived \union {n}
              /\ delivered' \in {delivered \o s : s \in Ascending(batch)}

DeliverySpec == DeliveryInit /\ [][Deliver]_deliveryVars
=============================================================================
