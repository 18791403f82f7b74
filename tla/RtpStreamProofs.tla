-------------------------- MODULE RtpStreamProofs --------------------------
(***************************************************************************)
(* Proofs about RtpStream, for a stream of any length: on a network whose  *)
(* disorder stays within NetworkAssumption, numbers that wrap identify the *)
(* packets, nothing that came in time is lost, the buffer implements       *)
(* OrderedDelivery, and the counters tell what was lost on the way and     *)
(* report no continuity error that a loss or damage does not explain.      *)
(***************************************************************************)
EXTENDS RtpStream, ReorderBufferProofs

-----------------------------------------------------------------------------
(* Positions and the numbers that stand for them.                          *)

seqOf(n) == n % SeqSpace

\* A position that is less than a round ahead is that far ahead on the circle.
LEMMA NumberDistance ==
    ASSUME NEW a \in Nat, NEW b \in Nat, a <= b, b < a + SeqSpace
    PROVE  /\ seqOf(a) \in Seq16 /\ seqOf(b) \in Seq16
           /\ sequenceDistance(seqOf(a), seqOf(b)) = b - a
<1>1. SeqSpace \in Nat /\ SeqSpace > 0
    BY SpaceProps
<1>2. /\ seqOf(a) \in 0 .. SeqSpace - 1 /\ seqOf(b) \in 0 .. SeqSpace - 1
      /\ a = SeqSpace * (a \div SeqSpace) + seqOf(a) /\ a \div SeqSpace \in Int
      /\ b = SeqSpace * (b \div SeqSpace) + seqOf(b) /\ b \div SeqSpace \in Int
    BY <1>1 DEF seqOf
<1> DEFINE k == (b \div SeqSpace) - (a \div SeqSpace)
<1>3. b - a = SeqSpace * k + (seqOf(b) - seqOf(a)) /\ k \in Int
    BY <1>1, <1>2
<1> HIDE DEF k
<1>4. seqOf(b) - seqOf(a) \in Int
      /\ seqOf(b) - seqOf(a) > 0 - SeqSpace /\ seqOf(b) - seqOf(a) < SeqSpace
    BY <1>1, <1>2
<1>5. k = 0 \/ k = 1
    <2>1. ASSUME k >= 2 PROVE FALSE
        <3>1. SeqSpace * k >= SeqSpace + SeqSpace
            BY <1>1, <1>3, <2>1
        <3> QED BY <1>1, <1>3, <1>4, <3>1
    <2>2. ASSUME k <= -1 PROVE FALSE
        <3>1. SeqSpace * k <= 0 - SeqSpace
            BY <1>1, <1>3, <2>2
        <3> QED BY <1>1, <1>3, <1>4, <3>1
    <2> QED BY <1>3, <2>1, <2>2
<1>6. seqOf(a) \in Seq16 /\ seqOf(b) \in Seq16
    BY <1>1, <1>2, SpaceProps
<1>7. sequenceDistance(seqOf(a), seqOf(b)) =
        IF seqOf(a) <= seqOf(b) THEN seqOf(b) - seqOf(a)
        ELSE seqOf(b) - seqOf(a) + SeqSpace
    BY <1>6, DistanceValue
<1>8. CASE k = 0
    <2>1. b - a = seqOf(b) - seqOf(a)
        BY <1>1, <1>3, <1>4, <1>8
    <2> QED BY <1>2, <1>6, <1>7, <2>1
<1>9. CASE k = 1
    <2>1. b - a = SeqSpace + (seqOf(b) - seqOf(a))
        BY <1>1, <1>3, <1>4, <1>9
    <2> QED BY <1>1, <1>2, <1>6, <1>7, <2>1
<1> QED BY <1>5, <1>8, <1>9

\* A position that trails by at most half a round is stale.
LEMMA TrailingIsStale ==
    ASSUME NEW a \in Nat, NEW b \in Nat, b < a, a <= b + HalfSpace
    PROVE  isStaleSequence(seqOf(b), seqOf(a))
<1>1. HalfSpace \in Nat /\ HalfSpace > 0 /\ SeqSpace = HalfSpace + HalfSpace
    BY SpaceProps
<1>2. a < b + SeqSpace
    BY <1>1
<1>3. /\ seqOf(a) \in Seq16 /\ seqOf(b) \in Seq16
      /\ sequenceDistance(seqOf(b), seqOf(a)) = a - b
    BY <1>2, NumberDistance
<1>4. /\ sequenceDistance(seqOf(b), seqOf(a)) =
           IF seqOf(b) <= seqOf(a) THEN seqOf(a) - seqOf(b)
           ELSE seqOf(a) - seqOf(b) + SeqSpace
      /\ sequenceDistance(seqOf(a), seqOf(b)) =
           IF seqOf(a) <= seqOf(b) THEN seqOf(b) - seqOf(a)
           ELSE seqOf(b) - seqOf(a) + SeqSpace
    BY <1>3, DistanceValue
<1>5. sequenceDistance(seqOf(a), seqOf(b)) = SeqSpace - (a - b)
    BY <1>1, <1>3, <1>4, SpaceProps
<1> QED BY <1>1, <1>5 DEF isStaleSequence

\* A position within half a round ahead is not.
LEMMA LeadingIsFresh ==
    ASSUME NEW a \in Nat, NEW b \in Nat, a <= b, b < a + HalfSpace
    PROVE  ~isStaleSequence(seqOf(b), seqOf(a))
<1>1. HalfSpace \in Nat /\ HalfSpace > 0 /\ SeqSpace = HalfSpace + HalfSpace
    BY SpaceProps
<1>2. sequenceDistance(seqOf(a), seqOf(b)) = b - a
    BY <1>1, NumberDistance
<1> QED BY <1>1, <1>2 DEF isStaleSequence

-----------------------------------------------------------------------------
(* The state in terms of the stream.                                       *)

LastOf(del) == IF del = <<>> THEN -1 ELSE Last(del)

LEMMA PositionsNatural == \A n \in Packet : n \in Nat
BY StreamAssumption

LEMMA LastOfProps ==
    ASSUME NEW del \in Seq(Packet)
    PROVE  /\ LastOf(del) \in Int /\ LastOf(del) >= -1
           /\ del # <<>> => LastOf(del) \in ToSet(del)
<1>1. CASE del = <<>>
    BY <1>1 DEF LastOf
<1>2. CASE del # <<>>
    <2>1. Len(del) \in DOMAIN del /\ del[Len(del)] \in Packet
        BY <1>2
    <2>2. LastOf(del) = del[Len(del)]
        BY <1>2 DEF LastOf, Last
    <2>3. LastOf(del) \in ToSet(del)
        BY <2>1, <2>2 DEF ToSet
    <2>4. del[Len(del)] \in Nat
        BY <2>1, PositionsNatural
    <2> QED BY <2>2, <2>3, <2>4
<1> QED BY <1>1, <1>2

\* What arrived is delivered or buffered, everything buffered lies between the
\* last delivered position and the newest one, and between those two there is
\* never more than one burst without a buffered packet.
InStream(new, arr, del, pend) ==
    /\ pend \in PendingMap
    /\ Filed(pend)
    /\ del \in Seq(Packet)
    /\ \A d \in ToSet(del) : d <= LastOf(del)
    /\ new \in Int /\ new >= LastOf(del)
    /\ arr \subseteq Packet
    /\ arr = ToSet(del) \union {pend[s] : s \in Keys(pend)}
    /\ \A s \in Keys(pend) : LastOf(del) < pend[s] /\ pend[s] <= new
    /\ \A q \in LastOf(del) .. new - 1 :
          \E s \in Keys(pend) : q < pend[s] /\ pend[s] <= q + (MaxBurst + 1)

\* The expected number is the one after the last position delivered.
ExpectedInv ==
    /\ delivered = <<>> => expectedSeq = NoSeq /\ newest = -1
    /\ delivered # <<>> => expectedSeq = seqOf(Last(delivered) + 1)

StreamInv ==
    /\ ContentsInv
    /\ InStream(newest, arrived, delivered, pending)
    /\ ExpectedInv

\* The newest packet leads the last one delivered by at most a burst for each
\* packet buffered.
LEMMA GapBound ==
    ASSUME NEW new, NEW arr, NEW del, NEW pend, InStream(new, arr, del, pend),
           NEW k \in Nat, Cardinality(Keys(pend)) <= k
    PROVE  /\ LastOf(del) \in Int
           /\ new <= LastOf(del) + k * (MaxBurst + 1)
<1> DEFINE step      == MaxBurst + 1
           beyond(q) == {s \in Keys(pend) : pend[s] > q}
           bad(j, q) == Cardinality(beyond(q)) <= j /\ new > q + j * step
           T         == {j \in Nat : \E q \in LastOf(del) .. new : bad(j, q)}
<1>1. step \in Nat /\ step > 0
    BY NetworkAssumption
<1>2. /\ LastOf(del) \in Int /\ LastOf(del) >= -1
      /\ new \in Int /\ new >= LastOf(del)
      /\ \A s \in Keys(pend) : pend[s] \in Int /\ LastOf(del) < pend[s] /\ pend[s] <= new
    <2>1. LastOf(del) \in Int /\ LastOf(del) >= -1
        BY LastOfProps DEF InStream
    <2>2. \A s \in Keys(pend) : pend[s] \in Packet
        BY DEF InStream, PendingMap, Keys
    <2>3. /\ new \in Int /\ new >= LastOf(del)
          /\ \A s \in Keys(pend) : LastOf(del) < pend[s] /\ pend[s] <= new
        BY DEF InStream
    <2>4. \A s \in Keys(pend) : pend[s] \in Int
        BY <2>2, PositionsNatural
    <2> QED BY <2>1, <2>3, <2>4
<1>3. \A q \in LastOf(del) .. new - 1 :
          \E s \in Keys(pend) : q < pend[s] /\ pend[s] <= q + step
    BY DEF InStream
<1>4. \A q : IsFiniteSet(beyond(q)) /\ Cardinality(beyond(q)) \in Nat
    BY KeysFinite, FS_Subset, FS_CardinalityType
<1> HIDE DEF step
<1>5. ASSUME T # {} PROVE FALSE
    <2>1. T \subseteq Nat
        OBVIOUS
    <2>2. PICK j \in T : \A i \in T : j <= i
        <3> HIDE DEF T
        <3> QED BY <1>5, <2>1, LeastNatural
    <2>3. PICK q \in LastOf(del) .. new : bad(j, q)
        BY <2>2
    <2>4. j \in Nat /\ q \in Int /\ LastOf(del) <= q /\ q <= new
          /\ Cardinality(beyond(q)) <= j /\ new > q + j * step
        BY <1>2, <2>2, <2>3
    <2>5. j * step \in Nat
        BY <1>1, <2>4
    <2>6. q \in LastOf(del) .. new - 1
        BY <1>2, <2>4, <2>5
    <2>7. PICK s \in Keys(pend) : q < pend[s] /\ pend[s] <= q + step
        BY <1>3, <2>6
    <2> DEFINE b == pend[s]
    <2>8. b \in Int /\ b \in LastOf(del) .. new
        BY <1>2, <2>7
    <2>9. s \in beyond(q) /\ beyond(b) \subseteq beyond(q) \ {s}
        <3>1. s \in beyond(q) /\ s \notin beyond(b)
            BY <2>7, <2>8
        <3>2. \A t \in Keys(pend) : pend[t] > b => pend[t] > q
            BY <1>2, <2>4, <2>7, <2>8
        <3> QED BY <3>1, <3>2
    <2> HIDE DEF beyond, b
    <2>10. Cardinality(beyond(b)) <= Cardinality(beyond(q)) - 1
           /\ Cardinality(beyond(q)) \in Nat /\ Cardinality(beyond(b)) \in Nat
        <3>1. /\ IsFiniteSet(beyond(q) \ {s})
              /\ Cardinality(beyond(q) \ {s}) = Cardinality(beyond(q)) - 1
            BY <1>4, <2>9, FS_RemoveElement
        <3> QED BY <1>4, <2>9, <3>1, FS_Subset
    <2>11. j - 1 \in Nat /\ Cardinality(beyond(b)) <= j - 1
        BY <2>4, <2>10
    <2>12. j - 1 \notin T
        BY <2>2, <2>4, <2>11
    <2>13. new <= b + (j - 1) * step
        <3>1. ~bad(j - 1, b)
            BY <2>8, <2>11, <2>12
        <3>2. (j - 1) * step \in Int
            BY <1>1, <2>11
        <3> QED BY <1>2, <2>8, <2>11, <3>1, <3>2
    <2>14. (j - 1) * step + step = j * step /\ (j - 1) * step \in Int
        BY <1>1, <2>4
    <2>15. b <= q + step
        BY <2>7 DEF b
    <2> QED BY <1>1, <1>2, <2>4, <2>5, <2>8, <2>13, <2>14, <2>15
<1>6. Cardinality(beyond(LastOf(del))) <= k
    <2>1. beyond(LastOf(del)) = Keys(pend)
        BY <1>2
    <2> QED BY <2>1
<1>7. ~bad(k, LastOf(del))
    <2>1. LastOf(del) \in LastOf(del) .. new
        BY <1>2
    <2> QED BY <1>5, <2>1
<1>8. k * step \in Int
    BY <1>1
<1> HIDE DEF beyond, T
<1> QED BY <1>2, <1>6, <1>7, <1>8 DEF step

-----------------------------------------------------------------------------
(* A flush in terms of the stream.                                         *)

\* res is what is left of pend once the run of positions from f on, run of
\* them and none missing, has been handed on.
Flushed(pend, f, run, res) ==
    /\ f \in Nat /\ run \in Nat
    /\ res.batch = [i \in 1 .. run |-> f + i - 1]
    /\ \A i \in 1 .. run : \E s \in Keys(pend) : pend[s] = f + i - 1
    /\ \A s \in Keys(pend) : f <= pend[s] /\ pend[s] # f + run
    /\ res.pending \in PendingMap
    /\ Keys(res.pending) = {s \in Keys(pend) : f + run < pend[s]}
    /\ \A s \in Keys(res.pending) : res.pending[s] = pend[s]
    /\ res.expected = seqOf(f + run)

\* Buffered positions within half a round of the expected one are flushed as
\* positions: circular order and stream order agree.
LEMMA FlushPlaced ==
    ASSUME NEW base \in Int, base >= -1, NEW pend \in PendingMap, Filed(pend),
           \A s \in Keys(pend) : base < pend[s] /\ pend[s] <= base + HalfSpace,
           NEW from \in Seq16, StartsFlush(seqOf(base + 1), pend, from)
    PROVE  \E f, run \in Nat :
              /\ Flushed(pend, f, run, flushAvailableLocked(from, pend))
              /\ run = 0 => f = base + 1
<1> DEFINE exp == seqOf(base + 1)
           res == flushAvailableLocked(from, pend)
           run == sequenceDistance(from, res.expected)
           f   == base + 1 + sequenceDistance(exp, from)
<1>0. /\ HalfSpace \in Nat /\ HalfSpace > 0 /\ SeqSpace \in Nat
      /\ SeqSpace = HalfSpace + HalfSpace
    BY SpaceProps
<1>1. base + 1 \in Nat /\ exp \in Seq16
    <2>1. base + 1 \in Nat /\ base + 1 < base + 1 + SeqSpace
        BY <1>0
    <2> QED BY <2>1, NumberDistance
<1>2. ASSUME NEW s \in Keys(pend)
      PROVE  /\ s \in Seq16 /\ pend[s] \in Nat
             /\ sequenceDistance(exp, s) = pend[s] - (base + 1)
             /\ sequenceDistance(exp, s) \in Nat
    <2>1. s \in Seq16 /\ pend[s] \in Packet
        BY <1>2 DEF Keys, PendingMap
    <2>2. pend[s] \in Nat /\ s = seqOf(pend[s])
        BY <1>2, <2>1, StreamAssumption DEF Filed, seqOf
    <2>3. base < pend[s] /\ pend[s] <= base + HalfSpace
        BY <1>2
    <2>4. base + 1 <= pend[s] /\ pend[s] < base + 1 + SeqSpace
        BY <1>0, <1>1, <2>2, <2>3
    <2>5. sequenceDistance(exp, seqOf(pend[s])) = pend[s] - (base + 1)
        BY <1>1, <2>2, <2>4, NumberDistance
    <2> QED BY <1>1, <2>1, <2>2, <2>5, DistanceValue
<1>3. Ahead(from, pend)
    <2> SUFFICES ASSUME NEW s \in Keys(pend)
                 PROVE  sequenceDistance(from, s) < HalfSpace
        BY DEF Ahead
    <2>1. sequenceDistance(from, s) = sequenceDistance(exp, s) - sequenceDistance(exp, from)
        BY <1>1, <1>2, DistanceShift DEF StartsFlush
    <2>2. sequenceDistance(exp, s) < HalfSpace
        BY <1>0, <1>1, <1>2
    <2> QED BY <1>0, <1>1, <1>2, <2>1, <2>2, DistanceValue
<1>4. /\ res.expected \in Seq16 \ Keys(pend)
      /\ run \in Nat /\ run < SeqSpace
      /\ res.pending \in PendingMap
      /\ Keys(res.pending) = {s \in Keys(pend) : run <= sequenceDistance(from, s)}
      /\ \A s \in Keys(res.pending) : res.pending[s] = pend[s]
      /\ res.batch \in Seq(Packet)
      /\ Len(res.batch) = run
      /\ \A i \in 1 .. run :
           /\ Plus(from, i - 1) \in Keys(pend)
           /\ sequenceDistance(from, Plus(from, i - 1)) = i - 1
           /\ res.batch[i] = pend[Plus(from, i - 1)]
    BY <1>3, FlushAvailable
<1>5. sequenceDistance(exp, from) \in Nat /\ sequenceDistance(exp, from) < SeqSpace /\ f \in Nat
    BY <1>1, DistanceValue
<1> HIDE DEF res
<1>6. ASSUME NEW s \in Keys(pend)
      PROVE  /\ sequenceDistance(from, s) \in Nat
             /\ pend[s] = f + sequenceDistance(from, s)
    <2>1. sequenceDistance(from, s) = sequenceDistance(exp, s) - sequenceDistance(exp, from)
        BY <1>1, <1>2, <1>6, DistanceShift DEF StartsFlush
    <2>2. sequenceDistance(from, s) \in Nat
        BY <1>2, <1>6, DistanceValue
    <2> QED BY <1>1, <1>2, <1>5, <1>6, <2>1, <2>2
<1>7. from = seqOf(f)
    <2>1. base + 1 <= f /\ f < base + 1 + SeqSpace
        BY <1>0, <1>1, <1>5
    <2>2. seqOf(f) \in Seq16 /\ sequenceDistance(exp, seqOf(f)) = f - (base + 1)
        BY <1>1, <1>5, <2>1, NumberDistance
    <2>3. sequenceDistance(exp, seqOf(f)) = sequenceDistance(exp, from)
        BY <1>1, <1>5, <2>2
    <2> QED BY <1>1, <2>2, <2>3, DistanceInjective
<1>8. res.expected = seqOf(f + run)
    <2>1. f + run \in Nat /\ f <= f + run /\ f + run < f + SeqSpace
        BY <1>0, <1>4, <1>5
    <2>2. /\ seqOf(f + run) \in Seq16
          /\ sequenceDistance(seqOf(f), seqOf(f + run)) = (f + run) - f
        BY <1>5, <2>1, NumberDistance
    <2>3. sequenceDistance(from, seqOf(f + run)) = run
        BY <1>4, <1>5, <1>7, <2>2
    <2> QED BY <1>4, <2>2, <2>3, DistanceInjective
<1>9. res.batch = [i \in 1 .. run |-> f + i - 1]
      /\ \A i \in 1 .. run : \E s \in Keys(pend) : pend[s] = f + i - 1
    <2>1. \A i \in 1 .. run :
              /\ Plus(from, i - 1) \in Keys(pend)
              /\ pend[Plus(from, i - 1)] = f + i - 1
              /\ res.batch[i] = f + i - 1
        <3> SUFFICES ASSUME NEW i \in 1 .. run
                     PROVE  /\ Plus(from, i - 1) \in Keys(pend)
                            /\ pend[Plus(from, i - 1)] = f + i - 1
                            /\ res.batch[i] = f + i - 1
            OBVIOUS
        <3>1. /\ Plus(from, i - 1) \in Keys(pend)
              /\ sequenceDistance(from, Plus(from, i - 1)) = i - 1
              /\ res.batch[i] = pend[Plus(from, i - 1)]
            BY <1>4
        <3>2. pend[Plus(from, i - 1)] = f + (i - 1)
            BY <1>6, <3>1
        <3> QED BY <1>4, <1>5, <3>1, <3>2
    <2>2. res.batch = [i \in 1 .. run |-> res.batch[i]]
        BY <1>4
    <2> QED BY <2>1, <2>2
<1>10. ASSUME NEW s \in Keys(pend)
       PROVE  f <= pend[s] /\ pend[s] # f + run
    <2>1. sequenceDistance(from, s) # run
        BY <1>2, <1>4, <1>10, DistanceInjective
    <2> QED BY <1>4, <1>5, <1>6, <1>10, <2>1
<1>11. Keys(res.pending) = {s \in Keys(pend) : f + run < pend[s]}
    <2>1. \A s \in Keys(pend) : run <= sequenceDistance(from, s) <=> f + run < pend[s]
        BY <1>2, <1>4, <1>5, <1>6, <1>10
    <2> QED BY <1>4, <2>1
<1>12. run = 0 => f = base + 1
    <2> HAVE run = 0
    <2>1. sequenceDistance(from, from) = 0
        BY DistanceValue, SpaceProps
    <2>2. from \notin Keys(pend)
        BY <1>4, <2>1, DistanceInjective
    <2>3. from = exp
        BY <2>2 DEF StartsFlush
    <2>4. sequenceDistance(exp, from) = 0
        BY <2>1, <2>3
    <2> QED BY <1>1, <2>4
<1> HIDE DEF run, f
<1>13. Flushed(pend, f, run, res)
    BY <1>4, <1>5, <1>8, <1>9, <1>10, <1>11 DEF Flushed, run, f
<1> QED BY <1>4, <1>5, <1>12, <1>13 DEF res, run, f

-----------------------------------------------------------------------------
(* A step in terms of the stream.                                          *)

LEMMA ToSetConcat ==
    ASSUME NEW S, NEW s \in Seq(S), NEW t \in Seq(S)
    PROVE  ToSet(s \o t) = ToSet(s) \union ToSet(t)
<1>1. ASSUME NEW x \in ToSet(s \o t) PROVE x \in ToSet(s) \union ToSet(t)
    <2>1. PICK i \in 1 .. Len(s) + Len(t) : x = (s \o t)[i]
        BY <1>1 DEF ToSet
    <2>2. CASE i <= Len(s)
        BY <2>1, <2>2 DEF ToSet
    <2>3. CASE i > Len(s)
        <3>1. i - Len(s) \in DOMAIN t /\ x = t[i - Len(s)]
            BY <2>1, <2>3
        <3> QED BY <3>1 DEF ToSet
    <2> QED BY <2>1, <2>2, <2>3
<1>2. ASSUME NEW x \in ToSet(s) PROVE x \in ToSet(s \o t)
    <2>1. PICK i \in DOMAIN s : x = s[i]
        BY <1>2 DEF ToSet
    <2>2. i \in DOMAIN (s \o t) /\ (s \o t)[i] = x
        BY <2>1
    <2> QED BY <2>2 DEF ToSet
<1>3. ASSUME NEW x \in ToSet(t) PROVE x \in ToSet(s \o t)
    <2>1. PICK i \in DOMAIN t : x = t[i]
        BY <1>3 DEF ToSet
    <2>2. Len(s) + i \in DOMAIN (s \o t) /\ (s \o t)[Len(s) + i] = x
        BY <2>1
    <2> QED BY <2>2 DEF ToSet
<1> QED BY <1>1, <1>2, <1>3

\* What a flush hands on was buffered, lies ahead of everything delivered
\* before, and its last packet becomes the last one delivered.
HandedOn(del, pend, f, run, batch) ==
    /\ f \in Nat /\ run \in Nat
    /\ batch \in Seq(Packet)
    /\ ToSet(batch) = f .. f + run - 1
    /\ \A b \in ToSet(batch) :
          b > LastOf(del) /\ \E s \in Keys(pend) : pend[s] = b
    /\ del \o batch \in Seq(Packet)
    /\ ToSet(del \o batch) = ToSet(del) \union ToSet(batch)
    /\ run = 0 => del \o batch = del
    /\ run # 0 => /\ del \o batch # <<>>
                  /\ LastOf(del \o batch) = f + run - 1
                  /\ f > LastOf(del)

LEMMA FlushedBatch ==
    ASSUME NEW new, NEW arr, NEW del, NEW pend, InStream(new, arr, del, pend),
           NEW f, NEW run, NEW res, Flushed(pend, f, run, res)
    PROVE  HandedOn(del, pend, f, run, res.batch)
<1>1. f \in Nat /\ run \in Nat /\ res.batch = [i \in 1 .. run |-> f + i - 1]
      /\ \A i \in 1 .. run : \E s \in Keys(pend) : pend[s] = f + i - 1
    BY DEF Flushed
<1>2. \A s \in Keys(pend) : pend[s] \in Packet
    BY DEF InStream, PendingMap, Keys
<1>3. \A s \in Keys(pend) : LastOf(del) < pend[s]
    BY DEF InStream
<1>4. del \in Seq(Packet)
    BY DEF InStream
<1>5. res.batch \in Seq(Packet) /\ Len(res.batch) = run
    <2>1. \A i \in 1 .. run : f + i - 1 \in Packet
        BY <1>1, <1>2
    <2>2. res.batch \in [1 .. run -> Packet] /\ run \in Nat
        BY <1>1, <2>1
    <2> QED BY <2>2
<1>6. ToSet(res.batch) = f .. f + run - 1
    <2>1. ASSUME NEW x \in f .. f + run - 1 PROVE x \in ToSet(res.batch)
        <3>1. x - f + 1 \in 1 .. run /\ f + (x - f + 1) - 1 = x
            BY <1>1, <2>1
        <3>2. x - f + 1 \in DOMAIN res.batch /\ res.batch[x - f + 1] = x
            BY <1>1, <3>1
        <3> QED BY <3>2 DEF ToSet
    <2>2. ASSUME NEW x \in ToSet(res.batch) PROVE x \in f .. f + run - 1
        <3>1. PICK i \in 1 .. run : x = f + i - 1
            BY <1>1, <2>2 DEF ToSet
        <3> QED BY <1>1, <3>1
    <2> QED BY <2>1, <2>2
<1>7. ASSUME NEW b \in ToSet(res.batch)
      PROVE  b > LastOf(del) /\ \E s \in Keys(pend) : pend[s] = b
    <2>1. PICK i \in 1 .. run : b = f + i - 1
        BY <1>1, <1>7 DEF ToSet
    <2>2. PICK s \in Keys(pend) : pend[s] = f + i - 1
        BY <1>1
    <2>3. LastOf(del) < pend[s]
        BY <1>3
    <2>4. LastOf(del) \in Int /\ b \in Int
        BY <1>1, <1>4, <2>1, LastOfProps
    <2> QED BY <2>1, <2>2, <2>3, <2>4
<1>8. del \o res.batch \in Seq(Packet)
      /\ ToSet(del \o res.batch) = ToSet(del) \union ToSet(res.batch)
    BY <1>4, <1>5, ToSetConcat
<1>9. run = 0 => del \o res.batch = del
    BY <1>4, <1>5
<1>10. run # 0 => /\ del \o res.batch # <<>>
                  /\ LastOf(del \o res.batch) = f + run - 1
                  /\ f > LastOf(del)
    <2> HAVE run # 0
    <2>1. /\ Len(del \o res.batch) = Len(del) + run /\ Len(del) \in Nat
          /\ del \o res.batch # <<>>
        <3>1. run \in Nat BY <1>1
        <3> QED BY <1>4, <1>5, <3>1
    <2>2. (del \o res.batch)[Len(del) + run] = res.batch[run]
        BY <1>1, <1>4, <1>5
    <2>3. res.batch[run] = f + run - 1
        BY <1>1
    <2>4. LastOf(del \o res.batch) = f + run - 1
        BY <2>1, <2>2, <2>3 DEF LastOf, Last
    <2>5. f \in f .. f + run - 1
        BY <1>1
    <2> QED BY <1>6, <1>7, <2>1, <2>4, <2>5
<1> QED BY <1>1, <1>5, <1>6, <1>7, <1>8, <1>9, <1>10 DEF HandedOn

\* A flush keeps the correspondence with the stream.
LEMMA FlushInStream ==
    ASSUME NEW new, NEW arr, NEW del, NEW pend, InStream(new, arr, del, pend),
           NEW f, NEW run, NEW res, Flushed(pend, f, run, res)
    PROVE  InStream(new, arr, del \o res.batch, res.pending)
<1> DEFINE del2 == del \o res.batch
<1>1. /\ f \in Nat /\ run \in Nat
      /\ ToSet(res.batch) = f .. f + run - 1
      /\ \A b \in ToSet(res.batch) :
            b > LastOf(del) /\ \E s \in Keys(pend) : pend[s] = b
      /\ del2 \in Seq(Packet)
      /\ ToSet(del2) = ToSet(del) \union ToSet(res.batch)
      /\ run = 0 => del2 = del
      /\ run # 0 => LastOf(del2) = f + run - 1 /\ f > LastOf(del)
    <2>1. HandedOn(del, pend, f, run, res.batch)
        BY FlushedBatch
    <2> QED BY <2>1, Zenon DEF HandedOn
<1> HIDE DEF del2
<1>2. /\ res.pending \in PendingMap
      /\ Keys(res.pending) = {s \in Keys(pend) : f + run < pend[s]}
      /\ \A s \in Keys(res.pending) : res.pending[s] = pend[s]
      /\ \A s \in Keys(pend) : f <= pend[s] /\ pend[s] # f + run
    BY DEF Flushed
<1>3. /\ new \in Int /\ new >= LastOf(del) /\ arr \subseteq Packet
      /\ \A s \in Keys(pend) : LastOf(del) < pend[s] /\ pend[s] <= new
      /\ \A d \in ToSet(del) : d <= LastOf(del)
    BY DEF InStream
<1>4. LastOf(del) \in Int /\ LastOf(del2) \in Int
    <2>1. del \in Seq(Packet) BY DEF InStream
    <2> QED BY <1>1, <2>1, LastOfProps
<1>5. \A s \in Keys(pend) : pend[s] \in Nat
    <2>1. \A s \in Keys(pend) : pend[s] \in Packet
        BY DEF InStream, PendingMap, Keys
    <2> QED BY <2>1, PositionsNatural
<1>6. ASSUME NEW s \in Keys(pend)
      PROVE  IF s \in Keys(res.pending) THEN pend[s] > LastOf(del2)
             ELSE pend[s] \in ToSet(res.batch) /\ pend[s] <= LastOf(del2)
    <2>1. pend[s] \in Nat /\ f <= pend[s] /\ pend[s] # f + run /\ LastOf(del) < pend[s]
        BY <1>2, <1>3, <1>5
    <2>2. CASE run = 0
        <3>1. s \in Keys(res.pending)
            BY <1>1, <1>2, <2>1, <2>2
        <3> QED BY <1>1, <2>1, <2>2, <3>1
    <2>3. CASE run # 0
        <3>1. CASE f + run < pend[s]
            BY <1>1, <1>2, <2>1, <2>3, <3>1
        <3>2. CASE ~(f + run < pend[s])
            <4>1. pend[s] \in f .. f + run - 1
                BY <1>1, <2>1, <3>2
            <4> QED BY <1>1, <1>2, <2>1, <2>3, <3>2, <4>1
        <3> QED BY <3>1, <3>2
    <2> QED BY <2>2, <2>3
<1>7. LastOf(del) <= LastOf(del2)
    BY <1>1, <1>4
<1>8. Filed(res.pending)
    <2>1. \A s \in Keys(pend) : parseRtpSequence(pend[s]) = s
        BY DEF InStream, Filed
    <2> QED BY <1>2, <2>1 DEF Filed
<1>9. ASSUME NEW d \in ToSet(del2) PROVE d <= LastOf(del2)
    <2>1. CASE d \in ToSet(del)
        <3>1. del \in Seq(Packet) BY DEF InStream
        <3>2. d \in Packet BY <2>1, <3>1 DEF ToSet
        <3>3. d \in Nat BY <3>2, PositionsNatural
        <3>4. d <= LastOf(del) BY <1>3, <2>1
        <3> QED BY <1>4, <1>7, <3>3, <3>4
    <2>2. CASE d \in ToSet(res.batch)
        <3>1. d \in Int /\ f <= d /\ d <= f + run - 1
            BY <1>1, <2>2
        <3> QED BY <1>1, <3>1
    <2> QED BY <1>1, <1>9, <2>1, <2>2
<1>10. new >= LastOf(del2)
    <2>1. CASE run = 0
        BY <1>1, <1>3, <2>1
    <2>2. CASE run # 0
        <3>1. f + run - 1 \in ToSet(res.batch)
            BY <1>1, <2>2
        <3>2. PICK s \in Keys(pend) : pend[s] = f + run - 1
            BY <1>1, <3>1
        <3>3. pend[s] <= new BY <1>3
        <3> QED BY <1>1, <1>3, <2>2, <3>2, <3>3
    <2> QED BY <2>1, <2>2
<1>11. arr = ToSet(del2) \union {res.pending[s] : s \in Keys(res.pending)}
    <2>1. arr = ToSet(del) \union {pend[s] : s \in Keys(pend)}
        BY DEF InStream
    <2>2. ASSUME NEW s \in Keys(pend)
          PROVE  pend[s] \in ToSet(res.batch)
                   \union {res.pending[t] : t \in Keys(res.pending)}
        BY <1>2, <1>6
    <2>3. ASSUME NEW x \in ToSet(res.batch) PROVE x \in {pend[s] : s \in Keys(pend)}
        BY <1>1
    <2>4. ASSUME NEW s \in Keys(res.pending)
          PROVE  res.pending[s] \in {pend[t] : t \in Keys(pend)}
        BY <1>2
    <2> QED BY <1>1, <2>1, <2>2, <2>3, <2>4
<1>12. ASSUME NEW s \in Keys(res.pending)
       PROVE  LastOf(del2) < res.pending[s] /\ res.pending[s] <= new
    <2>1. s \in Keys(pend) /\ res.pending[s] = pend[s]
        BY <1>2
    <2> QED BY <1>3, <1>4, <1>5, <1>6, <2>1
<1>13. ASSUME NEW q \in LastOf(del2) .. new - 1
       PROVE  \E s \in Keys(res.pending) :
                 q < res.pending[s] /\ res.pending[s] <= q + (MaxBurst + 1)
    <2>1. q \in LastOf(del) .. new - 1 /\ q \in Int /\ LastOf(del2) <= q
        BY <1>3, <1>4, <1>7
    <2>2. PICK s \in Keys(pend) : q < pend[s] /\ pend[s] <= q + (MaxBurst + 1)
        BY <2>1 DEF InStream
    <2>3. s \in Keys(res.pending)
        BY <1>4, <1>5, <1>6, <2>1, <2>2
    <2> QED BY <1>2, <2>2, <2>3
<1> QED BY <1>1, <1>2, <1>3, <1>8, <1>9, <1>10, <1>11, <1>12, <1>13 DEF InStream, del2

\* So does storing a packet that is ahead of everything delivered.
LEMMA StoreInStream ==
    ASSUME NEW new, NEW arr, NEW del, NEW pend, InStream(new, arr, del, pend),
           NEW n \in Packet, n > LastOf(del), n <= new + (MaxBurst + 1),
           NEW pend2 \in PendingMap, Filed(pend2),
           Keys(pend2) = Keys(pend) \union {parseRtpSequence(n)},
           \A s \in Keys(pend) : pend2[s] = pend[s],
           pend2[parseRtpSequence(n)] = n
    PROVE  InStream(IF n > new THEN n ELSE new, arr \union {n}, del, pend2)
<1> DEFINE new2 == IF n > new THEN n ELSE new
           seq  == parseRtpSequence(n)
<1>1. /\ new \in Int /\ new >= LastOf(del) /\ arr \subseteq Packet
      /\ del \in Seq(Packet)
      /\ \A s \in Keys(pend) : LastOf(del) < pend[s] /\ pend[s] <= new
      /\ \A d \in ToSet(del) : d <= LastOf(del)
    BY DEF InStream
<1>2. n \in Nat /\ LastOf(del) \in Int /\ MaxBurst \in Nat
    BY <1>1, LastOfProps, PositionsNatural, NetworkAssumption
<1>3. new2 \in Int /\ new2 >= LastOf(del) /\ new2 >= new /\ new2 >= n
      /\ new2 <= new + (MaxBurst + 1)
      /\ (new2 = new \/ new2 = n)
    BY <1>1, <1>2
<1>4. arr \union {n} = ToSet(del) \union {pend2[s] : s \in Keys(pend2)}
    <2>1. arr = ToSet(del) \union {pend[s] : s \in Keys(pend)}
        BY DEF InStream
    <2> QED BY <2>1
<1>5. ASSUME NEW s \in Keys(pend2)
      PROVE  LastOf(del) < pend2[s] /\ pend2[s] <= new2
    <2>1. CASE s \in Keys(pend)
        <3>1. pend[s] \in Nat
            <4>1. pend[s] \in Packet BY <2>1 DEF InStream, PendingMap, Keys
            <4> QED BY <4>1, PositionsNatural
        <3>2. pend2[s] = pend[s] /\ LastOf(del) < pend[s] /\ pend[s] <= new
            BY <1>1, <2>1
        <3> QED BY <1>1, <1>3, <3>1, <3>2
    <2>2. CASE s = seq
        BY <1>2, <1>3, <2>2
    <2> QED BY <1>5, <2>1, <2>2
<1>6. ASSUME NEW q \in LastOf(del) .. new2 - 1
      PROVE  \E s \in Keys(pend2) : q < pend2[s] /\ pend2[s] <= q + (MaxBurst + 1)
    <2>1. q \in Int /\ LastOf(del) <= q /\ q <= new2 - 1
        BY <1>2, <1>3
    <2>2. CASE q <= new - 1
        <3>1. q \in LastOf(del) .. new - 1
            BY <1>1, <1>2, <2>1, <2>2
        <3>2. PICK s \in Keys(pend) : q < pend[s] /\ pend[s] <= q + (MaxBurst + 1)
            BY <3>1 DEF InStream
        <3> QED BY <3>2
    <2>3. CASE ~(q <= new - 1)
        <3>1. q < n /\ n <= q + (MaxBurst + 1)
            BY <1>1, <1>2, <1>3, <2>1, <2>3
        <3>2. seq \in Keys(pend2) /\ pend2[seq] = n
            OBVIOUS
        <3> QED BY <3>1, <3>2
    <2> QED BY <2>2, <2>3
<1> HIDE DEF new2
<1>7. arr \union {n} \subseteq Packet
    BY <1>1
<1> QED BY <1>1, <1>3, <1>4, <1>5, <1>6, <1>7 DEF InStream, new2

\* While the network keeps to its bounds, the newest packet is less than half a
\* round ahead of the last one delivered, by a burst at least.
LEMMA WithinHalf ==
    ASSUME StreamInv
    PROVE  /\ LastOf(delivered) \in Int /\ LastOf(delivered) >= -1
           /\ newest \in Int /\ LastOf(delivered) <= newest
           /\ MaxBurst \in Nat /\ HalfSpace \in Nat
           /\ newest + (MaxBurst + 1) <= LastOf(delivered) + HalfSpace
<1>1. InStream(newest, arrived, delivered, pending)
      /\ Cardinality(Keys(pending)) <= MaxPending
    BY DEF StreamInv, ContentsInv, PendingBounded
<1>2. /\ LastOf(delivered) \in Int
      /\ newest <= LastOf(delivered) + MaxPending * (MaxBurst + 1)
    BY <1>1, GapBound, MaxPendingAssumption
<1>3. delivered \in Seq(Packet) /\ newest \in Int /\ newest >= LastOf(delivered)
    BY <1>1 DEF InStream
<1>4. LastOf(delivered) >= -1
    BY <1>3, LastOfProps
<1>5. /\ MaxBurst \in Nat /\ MaxPending \in Nat /\ HalfSpace \in Nat
      /\ (MaxPending + 1) * (MaxBurst + 1) <= HalfSpace
    BY NetworkAssumption, MaxPendingAssumption, SpaceProps
<1>6. /\ MaxPending * (MaxBurst + 1) \in Nat
      /\ (MaxPending + 1) * (MaxBurst + 1) = MaxPending * (MaxBurst + 1) + (MaxBurst + 1)
    BY <1>5
<1> QED BY <1>2, <1>3, <1>4, <1>5, <1>6

\* Hence a packet is called stale exactly if it does not lead the last one
\* delivered: 16 bits are enough to tell.
LEMMA StaleIsLate ==
    ASSUME StreamInv, NEW n \in Packet,
           n > newest - Window, n <= newest + MaxBurst + 1, expectedSeq # NoSeq
    PROVE  isStaleSequence(parseRtpSequence(n), expectedSeq) <=> n <= LastOf(delivered)
<1> DEFINE base == LastOf(delivered)
<1>1. /\ base \in Int /\ base >= -1 /\ newest \in Int /\ base <= newest
      /\ MaxBurst \in Nat /\ HalfSpace \in Nat
      /\ newest + (MaxBurst + 1) <= base + HalfSpace
    BY WithinHalf
<1>2. n \in Nat /\ parseRtpSequence(n) = seqOf(n)
    BY PositionsNatural, StreamAssumption DEF seqOf
<1>3. expectedSeq = seqOf(base + 1)
    BY DEF StreamInv, ExpectedInv, LastOf
<1>4. Window \in Nat /\ Window <= HalfSpace
    BY NetworkAssumption
<1> HIDE DEF base
<1>5. CASE n <= base
    <2>1. n < base + 1 /\ base + 1 <= n + HalfSpace /\ base + 1 \in Nat
        BY <1>1, <1>2, <1>4, <1>5
    <2> QED BY <1>2, <1>3, <1>5, <2>1, TrailingIsStale DEF base
<1>6. CASE ~(n <= base)
    <2>1. base + 1 <= n /\ n < base + 1 + HalfSpace /\ base + 1 \in Nat
        BY <1>1, <1>2, <1>6
    <2> QED BY <1>2, <1>3, <1>6, <2>1, LeadingIsFresh DEF base
<1> QED BY <1>5, <1>6 DEF base

\* A packet that is ahead finds its number free, or taken by its own copy.
LEMMA SlotIsOwn ==
    ASSUME StreamInv, NEW n \in Packet, n > LastOf(delivered),
           n <= newest + MaxBurst + 1, hasPending(pending, parseRtpSequence(n))
    PROVE  pending[parseRtpSequence(n)] = n
<1> DEFINE base == LastOf(delivered)
           seq  == parseRtpSequence(n)
           m    == pending[seq]
<1>1. /\ base \in Int /\ base >= -1 /\ newest \in Int /\ base <= newest
      /\ MaxBurst \in Nat /\ HalfSpace \in Nat
      /\ newest + (MaxBurst + 1) <= base + HalfSpace
    BY WithinHalf
<1>2. n \in Nat /\ seq = seqOf(n) /\ seq \in Seq16
    BY PositionsNatural, StreamAssumption, PacketAssumption DEF seqOf
<1>3. seq \in Keys(pending)
    BY <1>2 DEF Keys, hasPending
<1>4. m \in Packet /\ parseRtpSequence(m) = seq
    BY <1>3 DEF StreamInv, InStream, PendingMap, Filed, Keys
<1>5. m \in Nat /\ seq = seqOf(m)
    BY <1>4, PositionsNatural, StreamAssumption DEF seqOf
<1>6. base < m /\ m <= newest
    BY <1>3 DEF StreamInv, InStream
<1> HIDE DEF base, m, seq
<1>7. base + 1 \in Nat /\ SeqSpace \in Nat /\ SeqSpace = HalfSpace + HalfSpace
    BY <1>1, SpaceProps
<1>8. sequenceDistance(seqOf(base + 1), seqOf(n)) = n - (base + 1)
    <2>1. base + 1 <= n /\ n < base + 1 + SeqSpace
        BY <1>1, <1>2, <1>7 DEF base
    <2> QED BY <1>2, <1>7, <2>1, NumberDistance
<1>9. sequenceDistance(seqOf(base + 1), seqOf(m)) = m - (base + 1)
    <2>1. base + 1 <= m /\ m < base + 1 + SeqSpace
        BY <1>1, <1>5, <1>6, <1>7
    <2> QED BY <1>5, <1>7, <2>1, NumberDistance
<1>10. n - (base + 1) = m - (base + 1)
    BY <1>2, <1>5, <1>8, <1>9
<1>11. n = m
    BY <1>1, <1>2, <1>5, <1>10
<1> QED BY <1>11 DEF m, seq

-----------------------------------------------------------------------------
(* The steps.                                                              *)

\* The contents a step leaves, as one record.
After == [expected |-> expectedSeq', pending |-> pending', batch |-> emitted']

\* What a step means for the stream: nothing, or one packet n may have been
\* stored, giving pend, and run packets from position f on are handed on.
StreamStep(n, pend, f, run) ==
    /\ n > LastOf(delivered) \/ n \in arrived
    /\ arrived' = arrived \union {n}
    /\ delivered' = delivered \o emitted'
    /\ InStream(newest', arrived', delivered, pend)
    /\ Flushed(pend, f, run, After)
    /\ run = 0 => delivered # <<>> /\ expectedSeq' = expectedSeq

NoStreamStep == UNCHANGED <<expectedSeq, pending, newest, arrived, delivered>>

\* push of a packet that is not stale.
LEMMA PushIsStreamStep ==
    ASSUME StreamInv, NEW n \in Packet,
           n > newest - Window, n <= newest + MaxBurst + 1,
           expectedSeq = NoSeq \/ ~isStaleSequence(parseRtpSequence(n), expectedSeq),
           SetContents(Pushed(n)),
           newest' = IF n > newest THEN n ELSE newest,
           arrived' = IF n > LastOf(delivered) THEN arrived \union {n} ELSE arrived,
           delivered' = delivered \o emitted'
    PROVE  \E pend, f, run : StreamStep(n, pend, f, run)
<1> DEFINE seq  == parseRtpSequence(n)
           pend == Stored(n)
<1>1. /\ LastOf(delivered) \in Int /\ LastOf(delivered) >= -1
      /\ newest \in Int /\ LastOf(delivered) <= newest
      /\ MaxBurst \in Nat /\ HalfSpace \in Nat
      /\ newest + (MaxBurst + 1) <= LastOf(delivered) + HalfSpace
      /\ n \in Nat /\ seq \in Seq16 /\ seq = seqOf(n)
    BY WithinHalf, PositionsNatural, StreamAssumption, PacketAssumption DEF seqOf
<1>2. /\ ContentsInv
      /\ InStream(newest, arrived, delivered, pending)
      /\ delivered = <<>> => expectedSeq = NoSeq
      /\ delivered # <<>> => expectedSeq = seqOf(LastOf(delivered) + 1)
    BY DEF StreamInv, ExpectedInv, LastOf
<1>3. expectedSeq = NoSeq => delivered = <<>> /\ LastOf(delivered) = -1 /\ Keys(pending) = {}
    <2> HAVE expectedSeq = NoSeq
    <2>1. Keys(pending) = {}
        BY <1>2 DEF ContentsInv, PendingAhead
    <2>2. delivered = <<>>
        <3>1. seqOf(LastOf(delivered) + 1) \in Seq16
            <4>1. LastOf(delivered) + 1 \in Nat BY <1>1
            <4>2. LastOf(delivered) + 1 < LastOf(delivered) + 1 + SeqSpace
                BY <1>1, SpaceProps
            <4> QED BY <4>1, <4>2, NumberDistance
        <3> QED BY <1>2, <3>1, SpaceProps
    <2> QED BY <2>1, <2>2 DEF LastOf
<1>4. n > LastOf(delivered)
    <2>1. CASE expectedSeq = NoSeq
        BY <1>1, <1>3, <2>1
    <2>2. CASE expectedSeq # NoSeq
        BY <1>1, <2>2, StaleIsLate
    <2> QED BY <2>1, <2>2
<1>5. /\ pend \in PendingMap /\ Filed(pend)
      /\ Keys(pend) = Keys(pending) \union {seq}
      /\ Expected(n) \in Seq16
    BY <1>2, StoredProps
<1>6. /\ \A s \in Keys(pending) : pend[s] = pending[s]
      /\ pend[seq] = n
    <2>1. CASE hasPending(pending, seq)
        BY <1>4, <2>1, SlotIsOwn DEF Stored
    <2>2. CASE ~hasPending(pending, seq)
        <3>1. pend = [pending EXCEPT ![seq] = n] /\ seq \notin Keys(pending)
            BY <2>2 DEF Stored, Keys, hasPending
        <3>2. pending \in PendingMap /\ Keys(pending) \subseteq Seq16
            BY <1>2 DEF InStream, Keys
        <3> QED BY <1>1, <3>1, <3>2 DEF PendingMap
    <2> QED BY <2>1, <2>2
<1> HIDE DEF pend
<1>7. InStream(newest', arrived', delivered, pend)
    <2>1. n <= newest + (MaxBurst + 1)
        BY <1>1
    <2>2. InStream(IF n > newest THEN n ELSE newest, arrived \union {n}, delivered, pend)
        BY <1>2, <1>4, <1>5, <1>6, <2>1, StoreInStream
    <2> QED BY <1>4, <2>2
<1>8. PICK from \in Seq16 :
          StartsFlush(Expected(n), pend, from)
            /\ Pushed(n) = flushAvailableLocked(from, pend)
    BY <1>2, PushedFlushes DEF pend
<1>9. After.expected = Pushed(n).expected /\ After.pending = Pushed(n).pending
      /\ After.batch = Pushed(n).batch
    BY DEF After, SetContents
<1>10. CASE expectedSeq # NoSeq
    <2> DEFINE base == LastOf(delivered)
    <2>1. delivered # <<>> /\ Expected(n) = seqOf(base + 1)
        BY <1>2, <1>10 DEF Expected
    <2>2. \A s \in Keys(pend) : base < pend[s] /\ pend[s] <= base + HalfSpace
        <3> SUFFICES ASSUME NEW s \in Keys(pend)
                     PROVE  base < pend[s] /\ pend[s] <= base + HalfSpace
            OBVIOUS
        <3>1. base < pend[s] /\ pend[s] <= newest'
            BY <1>7 DEF InStream
        <3>2. pend[s] \in Packet
            BY <1>5 DEF PendingMap, Keys
        <3>3. pend[s] \in Nat
            BY <3>2, PositionsNatural
        <3> QED BY <1>1, <3>1, <3>3
    <2>3. \E f, run \in Nat :
              /\ Flushed(pend, f, run, Pushed(n))
              /\ run = 0 => f = base + 1
        <3>1. base \in Int /\ base >= -1 /\ StartsFlush(seqOf(base + 1), pend, from)
            BY <1>1, <1>8, <2>1
        <3>2. \E f, run \in Nat :
                  /\ Flushed(pend, f, run, flushAvailableLocked(from, pend))
                  /\ run = 0 => f = base + 1
            <4> HIDE DEF base
            <4> QED BY <1>5, <2>2, <3>1, FlushPlaced
        <3> QED BY <1>8, <3>2
    <2>4. PICK f \in Nat, run \in Nat :
              /\ Flushed(pend, f, run, Pushed(n))
              /\ run = 0 => f = base + 1
        BY <2>3
    <2>5. Flushed(pend, f, run, After)
        BY <1>9, <2>4 DEF Flushed
    <2>6. run = 0 => expectedSeq' = expectedSeq
        <3> HAVE run = 0
        <3>1. Pushed(n).expected = seqOf(f + run) /\ f + run = base + 1
            BY <1>1, <2>4 DEF Flushed
        <3> QED BY <1>2, <2>1, <3>1 DEF SetContents
    <2> QED BY <1>4, <1>7, <2>1, <2>5, <2>6 DEF StreamStep
<1>11. CASE expectedSeq = NoSeq
    <2> DEFINE base == n - 1
    <2>1. base + 1 = n /\ base \in Int /\ base >= -1
        BY <1>1
    <2>2. Expected(n) = seqOf(base + 1)
        BY <1>1, <1>11, <2>1 DEF Expected
    <2>3. \A s \in Keys(pend) : pend[s] = n
        BY <1>3, <1>5, <1>6, <1>11
    <2>4. \A s \in Keys(pend) : base < pend[s] /\ pend[s] <= base + HalfSpace
        <3>1. base < n /\ n <= base + HalfSpace
            BY <1>1, SpaceProps
        <3> QED BY <2>3, <3>1
    <2> HIDE DEF base
    <2>5. PICK f \in Nat, run \in Nat :
              /\ Flushed(pend, f, run, Pushed(n))
              /\ run = 0 => f = base + 1
        <3>1. StartsFlush(seqOf(base + 1), pend, from)
            BY <1>8, <2>2
        <3>2. \E f, run \in Nat :
                  /\ Flushed(pend, f, run, flushAvailableLocked(from, pend))
                  /\ run = 0 => f = base + 1
            BY <1>5, <2>1, <2>4, <3>1, FlushPlaced
        <3> QED BY <1>8, <3>2
    <2>6. Flushed(pend, f, run, After)
        BY <1>9, <2>5 DEF Flushed
    <2>7. run # 0
        <3>1. pend[seq] = n /\ seq \in Keys(pend)
            BY <1>5, <1>6
        <3>2. n # f + run
            BY <2>5, <3>1 DEF Flushed
        <3> QED BY <2>1, <2>5, <3>2
    <2> QED BY <1>4, <1>7, <2>6, <2>7 DEF StreamStep
<1> QED BY <1>10, <1>11

\* Giving up on a gap.
LEMMA SkipIsStreamStep ==
    ASSUME StreamInv, Keys(pending) # {}, SetContents(SkipGap(expectedSeq, pending)),
           delivered' = delivered \o emitted', UNCHANGED <<newest, arrived>>
    PROVE  \E n \in Packet : \E pend, f, run : StreamStep(n, pend, f, run)
<1> DEFINE base == LastOf(delivered)
           res  == SkipGap(expectedSeq, pending)
<1>1. /\ base \in Int /\ base >= -1 /\ newest \in Int /\ base <= newest
      /\ MaxBurst \in Nat /\ HalfSpace \in Nat
      /\ newest + (MaxBurst + 1) <= base + HalfSpace
    BY WithinHalf
<1>2. expectedSeq # NoSeq /\ expectedSeq \in Seq16
    BY ContentsOKNow DEF StreamInv, ContentsInv, BufferTypeOK
<1>3. delivered # <<>> /\ expectedSeq = seqOf(base + 1)
    BY <1>2 DEF StreamInv, ExpectedInv, LastOf
<1>4. /\ pending \in PendingMap /\ Filed(pending)
      /\ InStream(newest, arrived, delivered, pending)
    BY DEF StreamInv, InStream
<1>5. PICK from \in Keys(pending) :
          StartsFlush(expectedSeq, pending, from)
            /\ res = flushAvailableLocked(from, pending)
    BY <1>2, SkipGapFlushes
<1>6. from \in Seq16
    BY DEF Keys
<1>7. ASSUME NEW s \in Keys(pending)
      PROVE  base < pending[s] /\ pending[s] <= base + HalfSpace
    <2>1. base < pending[s] /\ pending[s] <= newest
        BY <1>4 DEF InStream
    <2>2. pending[s] \in Packet
        BY <1>4 DEF PendingMap, Keys
    <2>3. pending[s] \in Nat
        BY <2>2, PositionsNatural
    <2> QED BY <1>1, <2>1, <2>3
<1> HIDE DEF base
<1>8. PICK f \in Nat, run \in Nat :
          /\ Flushed(pending, f, run, res)
          /\ run = 0 => f = base + 1
    <2>1. StartsFlush(seqOf(base + 1), pending, from)
        BY <1>3, <1>5
    <2>2. \E f, run \in Nat :
              /\ Flushed(pending, f, run, flushAvailableLocked(from, pending))
              /\ run = 0 => f = base + 1
        BY <1>1, <1>4, <1>6, <1>7, <2>1, FlushPlaced
    <2> QED BY <1>5, <2>2
<1>9. Flushed(pending, f, run, After)
    BY <1>8 DEF Flushed, After, SetContents
<1>10. run = 0 => expectedSeq' = expectedSeq
    <2> HAVE run = 0
    <2>1. res.expected = seqOf(f + run) /\ f + run = base + 1
        BY <1>1, <1>8 DEF Flushed
    <2> QED BY <1>3, <2>1 DEF SetContents
<1>11. pending[from] \in arrived /\ pending[from] \in Packet
    BY <1>4, <1>5 DEF InStream
<1>12. arrived' = arrived \union {pending[from]}
    BY <1>11
<1>13. InStream(newest', arrived', delivered, pending)
    BY <1>4
<1>14. StreamStep(pending[from], pending, f, run)
    BY <1>3, <1>9, <1>10, <1>11, <1>12, <1>13 DEF StreamStep
<1> QED BY <1>11, <1>14

\* Every step of the stream is of one of the two kinds, and one of the buffer.
LEMMA StepKindsOfStream ==
    ASSUME StreamInv, StreamNext
    PROVE  /\ BufferNext
           /\ \/ NoStreamStep
              \/ \E n \in Packet : \E pend, f, run : StreamStep(n, pend, f, run)
<1>1. delivered \in Seq(Packet) /\ delivered \o <<>> = delivered
    <2>1. delivered \in Seq(Packet)
        BY DEF StreamInv, InStream
    <2> QED BY <2>1
<1>2. Abstract!LastDelivered = LastOf(delivered)
    BY DEF Abstract!LastDelivered, LastOf, Abstract!Last, Last
<1>3. ASSUME NEW n \in Packet, Receive(n), pushStale(n)
      PROVE  NoStreamStep
    <2>1. /\ n > newest - Window /\ n <= newest + MaxBurst + 1
          /\ newest' = IF n > newest THEN n ELSE newest
          /\ arrived' = IF n > LastOf(delivered) THEN arrived \union {n} ELSE arrived
          /\ delivered' = delivered \o emitted'
        BY <1>2, <1>3 DEF Receive, Record
    <2>2. /\ emitted' = <<>> /\ UNCHANGED <<expectedSeq, pending>>
          /\ expectedSeq # NoSeq /\ isStaleSequence(parseRtpSequence(n), expectedSeq)
        BY <1>3 DEF pushStale
    <2>3. n <= LastOf(delivered)
        BY <2>1, <2>2, StaleIsLate
    <2>4. ~(n > LastOf(delivered)) /\ ~(n > newest)
        BY <2>3, WithinHalf, PositionsNatural
    <2> QED BY <1>1, <2>1, <2>2, <2>4 DEF NoStreamStep
<1>4. ASSUME NEW n \in Packet, Receive(n), pushFresh(n)
      PROVE  \E pend, f, run : StreamStep(n, pend, f, run)
    <2>1. /\ n > newest - Window /\ n <= newest + MaxBurst + 1
          /\ newest' = IF n > newest THEN n ELSE newest
          /\ arrived' = IF n > LastOf(delivered) THEN arrived \union {n} ELSE arrived
          /\ delivered' = delivered \o emitted'
        BY <1>2, <1>4 DEF Receive, Record
    <2>2. /\ expectedSeq = NoSeq \/ ~isStaleSequence(parseRtpSequence(n), expectedSeq)
          /\ SetContents(Pushed(n))
        BY <1>4 DEF pushFresh
    <2> QED BY <2>1, <2>2, PushIsStreamStep
<1>5. CASE BufferStep
    <2>1. delivered' = delivered \o emitted' /\ UNCHANGED <<newest, arrived>>
        BY <1>5 DEF BufferStep, Record
    <2>2. \/ emitted' = <<>> /\ UNCHANGED <<expectedSeq, pending>>
          \/ Keys(pending) # {} /\ SetContents(SkipGap(expectedSeq, pending))
        BY <1>5 DEF BufferStep, stop, closeStop, flushRemaining, timerFires, flushCallback
    <2>3. BufferNext
        BY <1>5 DEF BufferStep, BufferNext
    <2>4. CASE emitted' = <<>> /\ UNCHANGED <<expectedSeq, pending>>
        BY <1>1, <2>1, <2>3, <2>4 DEF NoStreamStep
    <2>5. CASE Keys(pending) # {} /\ SetContents(SkipGap(expectedSeq, pending))
        BY <2>1, <2>3, <2>5, SkipIsStreamStep
    <2> QED BY <2>2, <2>3, <2>4, <2>5
<1>6. ASSUME NEW n \in Packet, Receive(n)
      PROVE  BufferNext /\ (pushStale(n) \/ pushFresh(n))
    BY <1>6 DEF Receive, push, BufferNext
<1> QED BY <1>3, <1>4, <1>5, <1>6 DEF StreamNext

LEMMA StreamStart == StreamInit => StreamInv
<1> SUFFICES ASSUME StreamInit PROVE StreamInv
    OBVIOUS
<1>1. /\ ContentsInv
      /\ pending \in PendingMap /\ Keys(pending) = {} /\ expectedSeq = NoSeq
    BY ContentsInit
       DEF StreamInit, BufferInit, newUdpRtpReorderBuffer, EmptyPending, PendingMap, Keys
<1>2. newest = -1 /\ arrived = {} /\ delivered = <<>>
    BY DEF StreamInit
<1>3. LastOf(delivered) = -1 /\ ToSet(delivered) = {} /\ delivered \in Seq(Packet)
    BY <1>2 DEF LastOf, ToSet
<1>4. InStream(newest, arrived, delivered, pending)
    BY <1>1, <1>2, <1>3 DEF InStream, Filed
<1> QED BY <1>1, <1>2, <1>4 DEF StreamInv, ExpectedInv

LEMMA StreamInvStep == StreamInv /\ [StreamNext]_streamVars => StreamInv'
<1> SUFFICES ASSUME StreamInv, [StreamNext]_streamVars PROVE StreamInv'
    OBVIOUS
<1>1. CASE UNCHANGED streamVars
    BY <1>1 DEF streamVars, StreamInv, ContentsInv, BufferTypeOK, PendingAhead,
                PendingBounded, ExpectedInv, InStream
<1>2. CASE StreamNext
    <2>1. ContentsInv'
        BY <1>2, StepKindsOfStream, ContentsStep DEF StreamInv
    <2>2. CASE NoStreamStep
        BY <2>1, <2>2 DEF NoStreamStep, StreamInv, ExpectedInv
    <2>3. ASSUME NEW n, NEW pend, NEW f, NEW run, StreamStep(n, pend, f, run)
          PROVE  InStream(newest, arrived, delivered, pending)' /\ ExpectedInv'
        <3>1. /\ InStream(newest', arrived', delivered, pend)
              /\ Flushed(pend, f, run, After)
              /\ delivered' = delivered \o After.batch
              /\ pending' = After.pending /\ expectedSeq' = After.expected
              /\ run = 0 => delivered # <<>> /\ expectedSeq' = expectedSeq
            BY <2>3 DEF StreamStep, After
        <3>2. InStream(newest', arrived', delivered', pending')
            BY <3>1, FlushInStream
        <3>3. HandedOn(delivered, pend, f, run, After.batch)
            BY <3>1, FlushedBatch
        <3>4. CASE run = 0
            <4>1. delivered' = delivered
                BY <3>1, <3>3, <3>4 DEF HandedOn
            <4> QED BY <3>1, <3>2, <3>4, <4>1 DEF ExpectedInv, StreamInv
        <3>5. CASE run # 0
            <4>1. /\ delivered' # <<>> /\ LastOf(delivered') = f + run - 1
                  /\ f \in Nat /\ run \in Nat
                BY <3>1, <3>3, <3>5 DEF HandedOn
            <4>2. Last(delivered') + 1 = f + run
                BY <4>1 DEF LastOf
            <4>3. expectedSeq' = seqOf(f + run)
                BY <3>1 DEF Flushed
            <4> QED BY <3>2, <4>1, <4>2, <4>3 DEF ExpectedInv
        <3> QED BY <3>4, <3>5
    <2> QED BY <1>2, <2>1, <2>2, <2>3, StepKindsOfStream DEF StreamInv
<1> QED BY <1>1, <1>2

\* A packet that came in time is never dropped as stale or overwritten, however
\* long the stream and however often its numbers have wrapped: it is delivered,
\* or buffered under its own number.
THEOREM PacketsAreKept == StreamSpec => []NothingDropped
<1>1. StreamInv => NothingDropped
    <2> SUFFICES ASSUME StreamInv, NEW n \in arrived, n \notin ToSet(delivered)
                 PROVE  pending[parseRtpSequence(n)] = n
        BY DEF NothingDropped
    <2>1. /\ arrived = ToSet(delivered) \union {pending[s] : s \in Keys(pending)}
          /\ Filed(pending)
        BY DEF StreamInv, InStream
    <2>2. PICK s \in Keys(pending) : n = pending[s]
        BY <2>1
    <2> QED BY <2>1, <2>2 DEF Filed
<1> QED BY <1>1, StreamStart, StreamInvStep, PTL DEF StreamSpec

-----------------------------------------------------------------------------
(* The refinement.                                                         *)

\* What a step hands on is what the abstract specification lets it deliver.
LEMMA StreamStepDelivers ==
    ASSUME StreamInv, NEW n \in Packet, NEW pend, NEW f, NEW run,
           StreamStep(n, pend, f, run)
    PROVE  Abstract!Deliver
<1> DEFINE batch == ToSet(emitted')
           held  == (arrived \union {n}) \ ToSet(delivered)
<1>1. /\ InStream(newest', arrived', delivered, pend)
      /\ Flushed(pend, f, run, After)
      /\ delivered' = delivered \o emitted' /\ arrived' = arrived \union {n}
      /\ n > LastOf(delivered) \/ n \in arrived
      /\ After.batch = emitted'
    BY DEF StreamStep, After
<1>2. HandedOn(delivered, pend, f, run, emitted')
    BY <1>1, FlushedBatch
<1>3. /\ f \in Nat /\ run \in Nat
      /\ emitted' = [i \in 1 .. run |-> f + i - 1]
      /\ \A s \in Keys(pend) : f <= pend[s] /\ pend[s] # f + run
      /\ batch = f .. f + run - 1
      /\ \A b \in batch : b > LastOf(delivered) /\ \E s \in Keys(pend) : pend[s] = b
    BY <1>1, <1>2 DEF Flushed, HandedOn
<1>4. /\ arrived' = ToSet(delivered) \union {pend[s] : s \in Keys(pend)}
      /\ \A d \in ToSet(delivered) : d <= LastOf(delivered)
      /\ delivered \in Seq(Packet)
    BY <1>1 DEF InStream
<1>5. \A s \in Keys(pend) : pend[s] \in Nat
    <2>1. \A s \in Keys(pend) : pend[s] \in Packet
        BY <1>1 DEF InStream, PendingMap, Keys
    <2> QED BY <2>1, PositionsNatural
<1>6. LastOf(delivered) \in Int
    BY <1>4, LastOfProps
<1>7. batch \in SUBSET held
    <2> SUFFICES ASSUME NEW b \in batch PROVE b \in held
        OBVIOUS
    <2>1. b \in arrived'
        BY <1>3, <1>4
    <2>2. b \notin ToSet(delivered)
        <3>1. b \in Int /\ b > LastOf(delivered)
            <4>1. f \in Nat /\ run \in Nat /\ b \in f .. f + run - 1
                BY <1>3
            <4>2. b > LastOf(delivered)
                BY <1>3
            <4> QED BY <4>1, <4>2
        <3>2. b \in ToSet(delivered) => b <= LastOf(delivered)
            BY <1>4
        <3> QED BY <1>6, <3>1, <3>2
    <2> QED BY <1>1, <2>1, <2>2
<1>8. ASSUME NEW b \in batch, NEW h \in held \ batch PROVE b < h
    <2>1. h \in arrived' /\ h \notin ToSet(delivered)
        BY <1>1
    <2>2. PICK s \in Keys(pend) : h = pend[s]
        BY <1>4, <2>1
    <2>3. h \in Nat /\ f <= h /\ h \notin f .. f + run - 1
        BY <1>3, <1>5, <2>2
    <2>4. h > f + run - 1
        BY <1>3, <2>3
    <2>5. b \in Int /\ b <= f + run - 1
        BY <1>3
    <2> QED BY <1>3, <2>3, <2>4, <2>5
<1>9. emitted' \in Abstract!Ascending(batch)
    <2>1. Cardinality(batch) = run
        <3>1. f + run - 1 \in Int /\ f \in Int
            BY <1>3
        <3>2. Cardinality(f .. f + run - 1) =
                IF f > f + run - 1 THEN 0 ELSE (f + run - 1) - f + 1
            BY <3>1, FS_Interval
        <3>3. CASE run = 0
            BY <1>3, <3>2, <3>3
        <3>4. CASE run # 0
            BY <1>3, <3>2, <3>4
        <3> QED BY <3>3, <3>4
    <2>2. ASSUME NEW i \in 1 .. run PROVE emitted'[i] \in batch /\ emitted'[i] = f + i - 1
        BY <1>3
    <2>3. emitted' \in [1 .. run -> batch]
        BY <1>3, <2>2
    <2>4. ASSUME NEW i \in 1 .. run, NEW j \in 1 .. run, i < j
          PROVE  emitted'[i] < emitted'[j]
        BY <1>3, <2>2, <2>4
    <2> HIDE DEF batch
    <2>5. Abstract!Cardinality(batch) = run
        BY <2>1 DEF Abstract!Cardinality, Cardinality
    <2> QED BY <2>3, <2>4, <2>5 DEF Abstract!Ascending
<1>10. n \in {p \in Packet : p > Abstract!LastDelivered} \union arrived
    BY <1>1 DEF Abstract!LastDelivered, LastOf, Abstract!Last, Last
<1> HIDE DEF batch
<1>11. /\ batch \in SUBSET held
       /\ \A b \in batch, h \in held \ batch : b < h
       /\ arrived' = arrived \union {n}
       /\ delivered' \in {delivered \o s : s \in Abstract!Ascending(batch)}
    BY <1>1, <1>7, <1>8, <1>9
<1>12. Abstract!ToSet(delivered) = ToSet(delivered)
    BY DEF Abstract!ToSet, ToSet
<1> QED BY <1>10, <1>11, <1>12, Zenon DEF Abstract!Deliver

\* The reorder buffer with its 16-bit numbers, timers and limit implements
\* ordered delivery: each packet that comes in time at most once, in stream
\* order, for a stream of any length.
THEOREM BufferDeliversInOrder == StreamSpec => ImplementsOrderedDelivery
<1>1. StreamInit => Abstract!DeliveryInit
    BY DEF StreamInit, Abstract!DeliveryInit
<1>2. StreamInv /\ [StreamNext]_streamVars => [Abstract!Deliver]_(Abstract!deliveryVars)
    <2> SUFFICES ASSUME StreamInv, [StreamNext]_streamVars
                 PROVE  Abstract!Deliver \/ UNCHANGED <<arrived, delivered>>
        BY DEF Abstract!deliveryVars
    <2>1. CASE UNCHANGED streamVars
        BY <2>1 DEF streamVars
    <2>2. CASE StreamNext
        BY <2>2, StepKindsOfStream, StreamStepDelivers DEF NoStreamStep
    <2> QED BY <2>1, <2>2
<1> QED BY <1>1, <1>2, StreamStart, StreamInvStep, PTL
        DEF StreamSpec, ImplementsOrderedDelivery, Abstract!DeliverySpec

-----------------------------------------------------------------------------
(* The counters.                                                           *)

Counters ==
    [ lastRtpSeq : Seq16 \union {-1}, rtpPacketCount : Int, rtpMissingCount : Int,
      tsPacketCount : Int, tsSyncLossCount : Int, tsContinuityErr : Int,
      expectedByPID : [Pid -> Int] ]

\* What LossIsCounted depends on.
SameRtp(e, d) ==
    /\ e.lastRtpSeq = d.lastRtpSeq
    /\ e.rtpPacketCount = d.rtpPacketCount
    /\ e.rtpMissingCount = d.rtpMissingCount

\* A loop of n steps over the counters has a value after each of them.
LEMMA RecursionExists ==
    ASSUME NEW d \in Counters, NEW n \in Nat,
           NEW G \in [Counters \X (1 .. n) -> Counters]
    PROVE  \E h \in [0 .. n -> Counters] :
              h[0] = d /\ \A i \in 1 .. n : h[i] = G[<<h[i - 1], i>>]
<1> DEFINE Upto(k, h) == h[0] = d /\ \A i \in 1 .. k : h[i] = G[<<h[i - 1], i>>]
           T == {k \in 0 .. n : ~\E h \in [0 .. k -> Counters] : Upto(k, h)}
<1>1. ASSUME T # {} PROVE FALSE
    <2>1. T \subseteq Nat
        OBVIOUS
    <2>2. PICK k \in T : \A j \in T : k <= j
        <3> HIDE DEF T
        <3> QED BY <1>1, <2>1, LeastNatural
    <2>3. k \in 0 .. n
        OBVIOUS
    <2>4. k # 0
        <3>1. [i \in 0 .. 0 |-> d] \in [0 .. 0 -> Counters] /\ Upto(0, [i \in 0 .. 0 |-> d])
            OBVIOUS
        <3> QED BY <3>1
    <2>5. k - 1 \in 0 .. n /\ k - 1 \notin T
        BY <2>2, <2>3, <2>4
    <2>6. PICK h \in [0 .. k - 1 -> Counters] : Upto(k - 1, h)
        BY <2>5
    <2> DEFINE h2 == [i \in 0 .. k |-> IF i = k THEN G[<<h[k - 1], k>>] ELSE h[i]]
    <2>7. h[k - 1] \in Counters /\ k \in 1 .. n
        BY <2>3, <2>4, <2>6
    <2>8. <<h[k - 1], k>> \in Counters \X (1 .. n)
        BY <2>7
    <2>9. G[<<h[k - 1], k>>] \in Counters
        BY <2>8
    <2>10. h2 \in [0 .. k -> Counters]
        BY <2>6, <2>7, <2>9
    <2>11. /\ h2[k] = G[<<h[k - 1], k>>]
           /\ \A i \in 0 .. k - 1 : h2[i] = h[i]
        BY <2>7
    <2>12. Upto(k, h2)
        <3> HIDE DEF h2
        <3>1. h2[0] = d
            BY <2>6, <2>7, <2>11
        <3>2. ASSUME NEW i \in 1 .. k PROVE h2[i] = G[<<h2[i - 1], i>>]
            <4>1. i - 1 \in 0 .. k - 1 BY <2>7
            <4>2. CASE i = k BY <2>11, <4>1, <4>2
            <4>3. CASE i # k
                <5>1. i \in 1 .. k - 1 /\ i \in 0 .. k - 1 BY <2>7, <4>3
                <5> QED BY <2>6, <2>11, <4>1, <5>1
            <4> QED BY <4>2, <4>3
        <3> QED BY <3>1, <3>2
    <2> HIDE DEF h2
    <2>13. k \notin T
        BY <2>10, <2>12
    <2> QED BY <2>2, <2>13
<1>2. n \notin T
    <2> HIDE DEF T
    <2> QED BY <1>1
<1>3. PICK h \in [0 .. n -> Counters] : Upto(n, h)
    BY <1>2
<1> QED BY <1>3

LEMMA TsCountersUpdate ==
    ASSUME NEW d \in Counters, NEW x \in Int
    PROVE  /\ [d EXCEPT !.tsPacketCount = x] \in Counters
           /\ SameRtp([d EXCEPT !.tsPacketCount = x], d)
           /\ [d EXCEPT !.tsSyncLossCount = x] \in Counters
           /\ SameRtp([d EXCEPT !.tsSyncLossCount = x], d)
           /\ [d EXCEPT !.tsContinuityErr = x] \in Counters
           /\ SameRtp([d EXCEPT !.tsContinuityErr = x], d)
<1>1. [d EXCEPT !.tsPacketCount = x] \in Counters
    BY DEF Counters
<1>2. [d EXCEPT !.tsSyncLossCount = x] \in Counters
    BY DEF Counters
<1>3. [d EXCEPT !.tsContinuityErr = x] \in Counters
    BY DEF Counters
<1>5. SameRtp([d EXCEPT !.tsPacketCount = x], d)
    BY DEF Counters, SameRtp
<1>6. SameRtp([d EXCEPT !.tsSyncLossCount = x], d)
    BY DEF Counters, SameRtp
<1>7. SameRtp([d EXCEPT !.tsContinuityErr = x], d)
    BY DEF Counters, SameRtp
<1> QED BY <1>1, <1>2, <1>3, <1>5, <1>6, <1>7

LEMMA ExpectedByPidUpdate ==
    ASSUME NEW d \in Counters, NEW m \in [Pid -> Int]
    PROVE  /\ [d EXCEPT !.expectedByPID = m] \in Counters
           /\ SameRtp([d EXCEPT !.expectedByPID = m], d)
<1>1. [d EXCEPT !.expectedByPID = m] \in Counters
    BY DEF Counters
<1>2. SameRtp([d EXCEPT !.expectedByPID = m], d)
    BY DEF Counters, SameRtp
<1> QED BY <1>1, <1>2

\* A TS packet leaves the RTP counters alone.
LEMMA TsPacketCounted ==
    ASSUME NEW d \in Counters, NEW ts \in Diagnostics!TsPacket
    PROVE  /\ Diagnostics!recordTsPacket(d, ts) \in Counters
           /\ SameRtp(Diagnostics!recordTsPacket(d, ts), d)
<1> DEFINE e == Diagnostics!recordTsPacket(d, ts)
           seen == [d EXCEPT !.tsPacketCount = d.tsPacketCount + 1]
           mismatch == /\ d.expectedByPID[ts.pid] \notin {-1, ts.cc}
                       /\ ~ts.hasDiscontinuity
<1>1. /\ ts.sync \in BOOLEAN /\ ts.pid \in Pid /\ ts.hasPayload \in BOOLEAN
      /\ ts.hasDiscontinuity \in BOOLEAN /\ ts.cc \in 0 .. CounterSpace - 1
    BY DEF Diagnostics!TsPacket
<1>2. (ts.cc + 1) % CounterSpace \in Int
    BY <1>1, PayloadAssumption
<1>3. /\ d.expectedByPID \in [Pid -> Int] /\ d.expectedByPID[ts.pid] \in Int
      /\ d.tsPacketCount + 1 \in Int
    BY <1>1 DEF Counters
<1>4. seen \in Counters /\ SameRtp(seen, d)
    BY <1>3, TsCountersUpdate, Zenon
<1>5. /\ seen.expectedByPID = d.expectedByPID
      /\ \A k \in Int : d.tsContinuityErr + k \in Int /\ d.tsSyncLossCount + k \in Int
    BY DEF Counters
<1>6. CASE ~ts.sync
    <2>1. e = [seen EXCEPT !.tsSyncLossCount = d.tsSyncLossCount + 1]
        BY <1>6 DEF Diagnostics!recordTsPacket, Counters
    <2> HIDE DEF seen, e
    <2>2. d.tsSyncLossCount + 1 \in Int
        BY <1>5
    <2>3. e \in Counters /\ SameRtp(e, seen)
        BY <1>4, <2>1, <2>2, TsCountersUpdate, Zenon
    <2> QED BY <1>4, <2>3 DEF SameRtp, e
<1>7. CASE ts.sync /\ (~ts.hasPayload \/ ts.pid = NullPid)
    <2> DEFINE v == IF ts.hasDiscontinuity /\ ~ts.hasPayload THEN -1
                    ELSE d.expectedByPID[ts.pid]
               m == [d.expectedByPID EXCEPT ![ts.pid] = v]
    <2>1. v \in Int
        BY <1>3
    <2>2. m \in [Pid -> Int]
        BY <1>3, <2>1
    <2>3. e = [seen EXCEPT !.expectedByPID = m]
        BY <1>7 DEF Diagnostics!recordTsPacket, Diagnostics!Unset, Counters
    <2> HIDE DEF seen, m, e
    <2>4. e \in Counters /\ SameRtp(e, seen)
        BY <1>4, <2>2, <2>3, ExpectedByPidUpdate, Zenon
    <2> QED BY <1>4, <2>4 DEF SameRtp, e
<1>8. CASE ts.sync /\ ts.hasPayload /\ ts.pid # NullPid
    <2> DEFINE m == [d.expectedByPID EXCEPT ![ts.pid] = (ts.cc + 1) % CounterSpace]
               k == IF mismatch THEN 1 ELSE 0
               torn == [seen EXCEPT !.tsContinuityErr = d.tsContinuityErr + k]
    <2>1. m \in [Pid -> Int]
        BY <1>1, <1>2, <1>3
    <2>2. e = [torn EXCEPT !.expectedByPID = m]
        BY <1>8 DEF Diagnostics!recordTsPacket, Diagnostics!Unset, Counters
    <2>3. d.tsContinuityErr + k \in Int
        <3>1. k \in Int
            OBVIOUS
        <3> QED BY <1>5, <3>1
    <2> HIDE DEF seen, k, m, e
    <2>4. torn \in Counters /\ SameRtp(torn, seen)
        BY <1>4, <2>3, TsCountersUpdate, Zenon
    <2> HIDE DEF torn
    <2>5. e \in Counters /\ SameRtp(e, torn)
        BY <2>1, <2>2, <2>4, ExpectedByPidUpdate, Zenon
    <2> QED BY <1>4, <2>4, <2>5 DEF SameRtp, e
<1> QED BY <1>1, <1>6, <1>7, <1>8

\* Induction over the steps of a bounded loop.
LEMMA UptoInduction ==
    ASSUME NEW n \in Nat, NEW S, 0 \in S, \A i \in 0 .. n - 1 : i \in S => i + 1 \in S
    PROVE  \A i \in 0 .. n : i \in S
<1> DEFINE T == {i \in 0 .. n : i \notin S}
<1>1. ASSUME T # {} PROVE FALSE
    <2>1. T \subseteq Nat
        OBVIOUS
    <2>2. PICK k \in T : \A j \in T : k <= j
        <3> HIDE DEF T
        <3> QED BY <1>1, <2>1, LeastNatural
    <2>3. k \in 0 .. n /\ k \notin S
        OBVIOUS
    <2>4. k # 0
        BY <2>3
    <2>5. k - 1 \in 0 .. n - 1 /\ k - 1 \in 0 .. n /\ k - 1 \notin T
        BY <2>2, <2>3, <2>4
    <2>6. k - 1 \in S
        BY <2>5
    <2>7. (k - 1) + 1 \in S
        BY <2>5, <2>6
    <2>8. (k - 1) + 1 = k
        BY <2>3
    <2> QED BY <2>3, <2>7, <2>8
<1> QED BY <1>1

\* Nor does a payload.
LEMMA PayloadCounted ==
    ASSUME NEW d \in Counters, NEW s \in Seq(Diagnostics!TsPacket)
    PROVE  /\ Diagnostics!recordTsPayload(d, s) \in Counters
           /\ SameRtp(Diagnostics!recordTsPayload(d, s), d)
<1> DEFINE n == Len(s)
           after[i \in 0 .. n] ==
              IF i = 0 THEN d ELSE Diagnostics!recordTsPacket(after[i - 1], s[i])
           G == [x \in Counters \X (1 .. n) |-> Diagnostics!recordTsPacket(x[1], s[x[2]])]
           good == {i \in 0 .. n : after[i] \in Counters /\ SameRtp(after[i], d)}
<1>1. n \in Nat /\ \A i \in 1 .. n : s[i] \in Diagnostics!TsPacket
    OBVIOUS
<1>2. G \in [Counters \X (1 .. n) -> Counters]
    <2> SUFFICES ASSUME NEW x \in Counters \X (1 .. n)
                 PROVE  Diagnostics!recordTsPacket(x[1], s[x[2]]) \in Counters
        OBVIOUS
    <2>1. x[1] \in Counters /\ s[x[2]] \in Diagnostics!TsPacket
        BY <1>1
    <2> QED BY <2>1, TsPacketCounted
<1>3. PICK h \in [0 .. n -> Counters] :
          h[0] = d /\ \A i \in 1 .. n : h[i] = G[<<h[i - 1], i>>]
    <2> HIDE DEF n, G
    <2>1. n \in Nat
        BY <1>1
    <2> QED BY <1>2, <2>1, RecursionExists, Zenon
<1>4. h = [i \in 0 .. n |-> IF i = 0 THEN d
                           ELSE Diagnostics!recordTsPacket(h[i - 1], s[i])]
    <2>1. ASSUME NEW i \in 0 .. n, i # 0
          PROVE  h[i] = Diagnostics!recordTsPacket(h[i - 1], s[i])
        <3>1. i - 1 \in 0 .. n /\ i \in 1 .. n
            BY <1>1, <2>1
        <3>2. h[i - 1] \in Counters /\ h[i] = G[<<h[i - 1], i>>]
            BY <1>3, <3>1
        <3> QED BY <3>1, <3>2
    <2> HIDE DEF G
    <2> QED BY <1>3, <2>1
<1>5. after = [i \in 0 .. n |-> IF i = 0 THEN d
                               ELSE Diagnostics!recordTsPacket(after[i - 1], s[i])]
    BY <1>4
<1>6. Diagnostics!recordTsPayload(d, s) = after[n]
    BY DEF Diagnostics!recordTsPayload
<1> HIDE DEF after
<1>7. 0 \in good
    <2>1. after[0] = d
        BY <1>1, <1>5
    <2> QED BY <1>1, <2>1 DEF SameRtp
<1>8. ASSUME NEW i \in 0 .. n - 1, i \in good PROVE i + 1 \in good
    <2>1. i + 1 \in 0 .. n /\ i + 1 # 0 /\ (i + 1) - 1 = i /\ i + 1 \in 1 .. n
        BY <1>1
    <2>2. after[i + 1] = Diagnostics!recordTsPacket(after[i], s[i + 1])
        <3> HIDE DEF n
        <3> QED BY <1>5, <2>1
    <2>3. after[i] \in Counters /\ SameRtp(after[i], d)
        BY <1>8
    <2>4. after[i + 1] \in Counters /\ SameRtp(after[i + 1], after[i])
        BY <1>1, <2>1, <2>2, <2>3, TsPacketCounted
    <2> QED BY <2>1, <2>3, <2>4 DEF SameRtp
<1> HIDE DEF good
<1>9. n \in good
    <2>1. \A i \in 0 .. n : i \in good
        <3> HIDE DEF n
        <3>1. n \in Nat /\ \A i \in 0 .. n - 1 : i \in good => i + 1 \in good
            BY <1>1, <1>8
        <3> QED BY <1>7, <3>1, UptoInduction, Zenon
    <2> QED BY <1>1, <2>1
<1> QED BY <1>6, <1>9 DEF good

SameTs(e, d) ==
    /\ e.tsSyncLossCount = d.tsSyncLossCount
    /\ e.tsContinuityErr = d.tsContinuityErr
    /\ e.expectedByPID = d.expectedByPID

LEMMA CountedUpdate ==
    ASSUME NEW d \in Counters, NEW s \in Seq16, NEW k \in Int
    PROVE  LET r == [d EXCEPT !.lastRtpSeq = s,
                              !.rtpPacketCount = d.rtpPacketCount + 1,
                              !.rtpMissingCount = d.rtpMissingCount + k]
           IN  /\ r \in Counters
               /\ r.lastRtpSeq = s
               /\ r.rtpPacketCount = d.rtpPacketCount + 1
               /\ r.rtpMissingCount = d.rtpMissingCount + k
               /\ SameTs(r, d)
<1> DEFINE a == [d EXCEPT !.lastRtpSeq = s]
           c == d.rtpPacketCount + 1
           m == d.rtpMissingCount + k
           b == [a EXCEPT !.rtpPacketCount = c]
           r == [b EXCEPT !.rtpMissingCount = m]
<1>1. c \in Int /\ m \in Int
    BY DEF Counters
<1>2. a \in Counters /\ a.lastRtpSeq = s /\ SameTs(a, d)
    BY DEF Counters, SameTs
<1> HIDE DEF a, c, m
<1>3. b \in Counters /\ b.lastRtpSeq = s /\ b.rtpPacketCount = c /\ SameTs(b, a)
    BY <1>1, <1>2 DEF Counters, SameTs
<1> HIDE DEF b
<1>4. /\ r \in Counters /\ r.lastRtpSeq = s /\ r.rtpPacketCount = c
      /\ r.rtpMissingCount = m /\ SameTs(r, b)
    BY <1>1, <1>3 DEF Counters, SameTs
<1>5. SameTs(r, d)
    BY <1>2, <1>3, <1>4 DEF SameTs
<1> QED BY <1>4, <1>5 DEF a, b, c, m

\* The number after that of a position is that of the next position.
LEMMA NumberAfter ==
    ASSUME NEW n \in Nat
    PROVE  Plus(seqOf(n), 1) = seqOf(n + 1)
<1>1. SeqSpace \in Nat /\ 1 < SeqSpace
    BY SpaceProps
<1>2. /\ seqOf(n) \in Seq16 /\ seqOf(n + 1) \in Seq16
      /\ sequenceDistance(seqOf(n), seqOf(n + 1)) = 1
    <2>1. n + 1 \in Nat /\ n <= n + 1 /\ n + 1 < n + SeqSpace /\ (n + 1) - n = 1
        BY <1>1
    <2> QED BY <2>1, NumberDistance
<1>3. Plus(seqOf(n), 1) \in Seq16 /\ sequenceDistance(seqOf(n), Plus(seqOf(n), 1)) = 1
    BY <1>1, <1>2, DistanceOfPlus
<1> QED BY <1>2, <1>3, DistanceInjective

\* A packet that leads the last one recorded by at most half a round counts as
\* one more, and those between the two as missing.
LEMMA RtpCounted ==
    ASSUME NEW d \in Counters, NEW n \in Packet, NEW last \in Nat,
           d.lastRtpSeq = seqOf(last), last < n, n <= last + HalfSpace
    PROVE  LET r == Diagnostics!recordRtpPacket(d, parseRtpSequence(n))
           IN  /\ r \in Counters
               /\ r.lastRtpSeq = seqOf(n)
               /\ r.rtpPacketCount = d.rtpPacketCount + 1
               /\ r.rtpMissingCount = d.rtpMissingCount + (n - last - 1)
               /\ SameTs(r, d)
<1> DEFINE r == Diagnostics!recordRtpPacket(d, seqOf(n))
<1>1. n \in Nat /\ parseRtpSequence(n) = seqOf(n)
    BY PositionsNatural, StreamAssumption DEF seqOf
<1>2. HalfSpace \in Nat /\ SeqSpace \in Nat /\ SeqSpace = HalfSpace + HalfSpace /\ HalfSpace > 0
    BY SpaceProps
<1>3. /\ seqOf(last) \in Seq16 /\ seqOf(last) # -1 /\ seqOf(n) \in Seq16
      /\ sequenceDistance(seqOf(last + 1), seqOf(n)) = n - (last + 1)
      /\ ~isStaleSequence(seqOf(n), seqOf(last + 1))
    <2>1. /\ last + 1 \in Nat /\ last + 1 <= n /\ n < last + 1 + HalfSpace
          /\ n < last + 1 + SeqSpace /\ last <= n /\ last < last + SeqSpace
        BY <1>1, <1>2
    <2>2. /\ seqOf(n) \in Seq16
          /\ sequenceDistance(seqOf(last + 1), seqOf(n)) = n - (last + 1)
        BY <1>1, <2>1, NumberDistance
    <2>3. ~isStaleSequence(seqOf(n), seqOf(last + 1))
        BY <1>1, <2>1, LeadingIsFresh
    <2>4. seqOf(last) \in Seq16 /\ seqOf(last) # -1
        <3>1. seqOf(last) \in Seq16
            BY <2>1, NumberDistance
        <3> QED BY <3>1, SpaceProps
    <2> QED BY <2>2, <2>3, <2>4
<1>4. r = [d EXCEPT !.lastRtpSeq = seqOf(n),
                    !.rtpPacketCount = d.rtpPacketCount + 1,
                    !.rtpMissingCount = d.rtpMissingCount + (n - (last + 1))]
    <2>1. Diagnostics!Plus(d.lastRtpSeq, 1) = seqOf(last + 1)
        BY NumberAfter DEF Diagnostics!Plus, Diagnostics!SeqSpace, Plus, SeqSpace
    <2>2. ~Diagnostics!isStaleSequence(seqOf(n), seqOf(last + 1))
        BY <1>3 DEF Diagnostics!isStaleSequence, Diagnostics!sequenceDistance,
                    Diagnostics!SeqSpace, isStaleSequence, sequenceDistance, SeqSpace
    <2>3. Diagnostics!sequenceDistance(seqOf(last + 1), seqOf(n)) = n - (last + 1)
        BY <1>3 DEF Diagnostics!sequenceDistance, Diagnostics!SeqSpace,
                    sequenceDistance, SeqSpace
    <2> QED BY <1>3, <2>1, <2>2, <2>3
            DEF Diagnostics!recordRtpPacket, Diagnostics!Unset, Counters
<1>5. /\ r \in Counters
      /\ r.lastRtpSeq = seqOf(n)
      /\ r.rtpPacketCount = d.rtpPacketCount + 1
      /\ r.rtpMissingCount = d.rtpMissingCount + (n - (last + 1))
      /\ SameTs(r, d)
    <2>1. n - (last + 1) \in Int /\ seqOf(n) \in Seq16
        BY <1>1, <1>3
    <2> HIDE DEF r
    <2>2. LET q == [d EXCEPT !.lastRtpSeq = seqOf(n),
                             !.rtpPacketCount = d.rtpPacketCount + 1,
                             !.rtpMissingCount = d.rtpMissingCount + (n - (last + 1))]
          IN  /\ q \in Counters
              /\ q.lastRtpSeq = seqOf(n)
              /\ q.rtpPacketCount = d.rtpPacketCount + 1
              /\ q.rtpMissingCount = d.rtpMissingCount + (n - (last + 1))
              /\ SameTs(q, d)
        BY <2>1, CountedUpdate, Zenon
    <2> QED BY <1>4, <2>2, Zenon
<1>6. n - (last + 1) = n - last - 1
    BY <1>1
<1> HIDE DEF r
<1>7. /\ r \in Counters
      /\ r.lastRtpSeq = seqOf(n)
      /\ r.rtpPacketCount = d.rtpPacketCount + 1
      /\ r.rtpMissingCount = d.rtpMissingCount + (n - last - 1)
      /\ SameTs(r, d)
    BY <1>5, <1>6
<1> QED BY <1>1, <1>7, Zenon DEF r

LEMMA PacketCounted ==
    ASSUME NEW d \in Counters, NEW n \in Packet, NEW last \in Nat,
           d.lastRtpSeq = seqOf(last), last < n, n <= last + HalfSpace
    PROVE  LET e == Diagnostics!recordPacket(d, parseRtpSequence(n), payloadOf(n))
           IN  /\ e \in Counters
               /\ e.lastRtpSeq = seqOf(n)
               /\ e.rtpPacketCount = d.rtpPacketCount + 1
               /\ e.rtpMissingCount = d.rtpMissingCount + (n - last - 1)
<1> DEFINE r == Diagnostics!recordRtpPacket(d, parseRtpSequence(n))
           e == Diagnostics!recordPacket(d, parseRtpSequence(n), payloadOf(n))
<1>1. /\ r \in Counters
      /\ r.lastRtpSeq = seqOf(n)
      /\ r.rtpPacketCount = d.rtpPacketCount + 1
      /\ r.rtpMissingCount = d.rtpMissingCount + (n - last - 1)
    BY RtpCounted
<1>2. e = Diagnostics!recordTsPayload(r, payloadOf(n))
    BY DEF Diagnostics!recordPacket
<1>3. payloadOf(n) \in Seq(Diagnostics!TsPacket)
    BY PayloadAssumption
<1> HIDE DEF r, e
<1>4. e \in Counters /\ SameRtp(e, r)
    BY <1>1, <1>2, <1>3, PayloadCounted
<1> QED BY <1>1, <1>4 DEF SameRtp, e

\* The first packet of all counts as one, and nothing as missing.
LEMMA FirstRtpCounted ==
    ASSUME NEW d \in Counters, NEW n \in Packet, d.lastRtpSeq = -1
    PROVE  LET r == Diagnostics!recordRtpPacket(d, parseRtpSequence(n))
           IN  /\ r \in Counters
               /\ r.lastRtpSeq = seqOf(n)
               /\ r.rtpPacketCount = d.rtpPacketCount + 1
               /\ r.rtpMissingCount = d.rtpMissingCount
               /\ SameTs(r, d)
<1> DEFINE r == Diagnostics!recordRtpPacket(d, seqOf(n))
<1>1. n \in Nat /\ parseRtpSequence(n) = seqOf(n) /\ seqOf(n) \in Seq16
    BY PositionsNatural, StreamAssumption, PacketAssumption DEF seqOf
<1>2. d.rtpMissingCount \in Int
    BY DEF Counters
<1>3. r = [d EXCEPT !.lastRtpSeq = seqOf(n),
                    !.rtpPacketCount = d.rtpPacketCount + 1,
                    !.rtpMissingCount = d.rtpMissingCount + 0]
    BY DEF Diagnostics!recordRtpPacket, Diagnostics!Unset, Counters
<1>4. /\ r \in Counters
      /\ r.lastRtpSeq = seqOf(n)
      /\ r.rtpPacketCount = d.rtpPacketCount + 1
      /\ r.rtpMissingCount = d.rtpMissingCount
      /\ SameTs(r, d)
    <2>1. 0 \in Int /\ d.rtpMissingCount + 0 = d.rtpMissingCount
        BY <1>2
    <2> HIDE DEF r
    <2>2. /\ r \in Counters
          /\ r.lastRtpSeq = seqOf(n)
          /\ r.rtpPacketCount = d.rtpPacketCount + 1
          /\ r.rtpMissingCount = d.rtpMissingCount + 0
          /\ SameTs(r, d)
        BY <1>1, <1>3, <2>1, CountedUpdate, Zenon
    <2> QED BY <2>1, <2>2
<1> HIDE DEF r
<1> QED BY <1>1, <1>4, Zenon DEF r

LEMMA FirstCounted ==
    ASSUME NEW d \in Counters, NEW n \in Packet, d.lastRtpSeq = -1
    PROVE  LET e == Diagnostics!recordPacket(d, parseRtpSequence(n), payloadOf(n))
           IN  /\ e \in Counters
               /\ e.lastRtpSeq = seqOf(n)
               /\ e.rtpPacketCount = d.rtpPacketCount + 1
               /\ e.rtpMissingCount = d.rtpMissingCount
<1> DEFINE r == Diagnostics!recordRtpPacket(d, parseRtpSequence(n))
           e == Diagnostics!recordPacket(d, parseRtpSequence(n), payloadOf(n))
<1>1. /\ r \in Counters
      /\ r.lastRtpSeq = seqOf(n)
      /\ r.rtpPacketCount = d.rtpPacketCount + 1
      /\ r.rtpMissingCount = d.rtpMissingCount
    BY FirstRtpCounted
<1>2. e = Diagnostics!recordTsPayload(r, payloadOf(n))
    BY DEF Diagnostics!recordPacket
<1>3. payloadOf(n) \in Seq(Diagnostics!TsPacket)
    BY PayloadAssumption
<1> HIDE DEF r, e
<1>4. e \in Counters /\ SameRtp(e, r)
    BY <1>1, <1>2, <1>3, PayloadCounted
<1> QED BY <1>1, <1>4 DEF SameRtp, e

LEMMA RecordTyped ==
    ASSUME NEW d \in Counters, NEW n \in Packet
    PROVE  Diagnostics!recordPacket(d, parseRtpSequence(n), payloadOf(n)) \in Counters
<1> DEFINE s == parseRtpSequence(n)
           r == Diagnostics!recordRtpPacket(d, s)
           exp == Diagnostics!Plus(d.lastRtpSeq, 1)
           k == IF d.lastRtpSeq = -1 THEN 0 ELSE Diagnostics!sequenceDistance(exp, s)
<1>1. s \in Seq16 /\ s \in Int /\ d.lastRtpSeq \in Int /\ SeqSpace \in Nat /\ SeqSpace > 0
    BY PacketAssumption, SpaceProps DEF Counters
<1>2. exp \in Int
    BY <1>1 DEF Diagnostics!Plus, Diagnostics!SeqSpace, SeqSpace
<1>3. k \in Int
    <2> HIDE DEF exp
    <2>1. Diagnostics!sequenceDistance(exp, s) \in Int
        BY <1>1, <1>2 DEF Diagnostics!sequenceDistance, Diagnostics!SeqSpace, SeqSpace
    <2> QED BY <2>1
<1>4. \/ r = d
      \/ r = [d EXCEPT !.lastRtpSeq = s,
                       !.rtpPacketCount = d.rtpPacketCount + 1,
                       !.rtpMissingCount = d.rtpMissingCount + k]
    BY DEF Diagnostics!recordRtpPacket, Diagnostics!Unset, Counters
<1>5. r \in Counters
    <2> HIDE DEF r, k, s
    <2>1. [d EXCEPT !.lastRtpSeq = s,
                    !.rtpPacketCount = d.rtpPacketCount + 1,
                    !.rtpMissingCount = d.rtpMissingCount + k] \in Counters
        BY <1>1, <1>3, CountedUpdate, Zenon
    <2> QED BY <1>4, <2>1
<1>6. payloadOf(n) \in Seq(Diagnostics!TsPacket)
    BY PayloadAssumption
<1>7. Diagnostics!recordPacket(d, s, payloadOf(n))
        = Diagnostics!recordTsPayload(r, payloadOf(n))
    BY DEF Diagnostics!recordPacket
<1> HIDE DEF r, s
<1> QED BY <1>5, <1>6, <1>7, PayloadCounted DEF s

\* e is d after k packets, the first at position f, of which all up to last
\* had been recorded or missed before.
Counted(e, d, last, f, k) ==
    /\ e \in Counters
    /\ e.rtpPacketCount = d.rtpPacketCount + k
    /\ e.lastRtpSeq = IF k = 0 THEN d.lastRtpSeq ELSE seqOf(f + k - 1)
    /\ e.rtpMissingCount =
          d.rtpMissingCount + IF k = 0 \/ last = -1 THEN 0 ELSE f - last - 1

\* The first of two lemmas on a run of packets: one more of them.
LEMMA RunGrows ==
    ASSUME NEW d \in Counters, NEW last \in Int, last >= -1,
           d.lastRtpSeq = IF last = -1 THEN -1 ELSE seqOf(last),
           NEW f \in Nat, last < f, f <= last + HalfSpace,
           NEW e, NEW k \in Nat, Counted(e, d, last, f, k), f + k \in Packet
    PROVE  Counted(Diagnostics!recordPacket(e, parseRtpSequence(f + k), payloadOf(f + k)),
                   d, last, f, k + 1)
<1> DEFINE n == f + k
           g == Diagnostics!recordPacket(e, parseRtpSequence(n), payloadOf(n))
<1>1. /\ HalfSpace \in Nat /\ HalfSpace > 0
      /\ d.rtpPacketCount \in Int /\ d.rtpMissingCount \in Int
    BY SpaceProps DEF Counters
<1>2. /\ e \in Counters /\ n \in Packet
      /\ e.rtpPacketCount = d.rtpPacketCount + k
      /\ e.lastRtpSeq = IF k = 0 THEN d.lastRtpSeq ELSE seqOf(f + k - 1)
      /\ e.rtpMissingCount =
            d.rtpMissingCount + IF k = 0 \/ last = -1 THEN 0 ELSE f - last - 1
    BY DEF Counted
<1>3. f + (k + 1) - 1 = n
    OBVIOUS
<1>4. CASE k = 0 /\ last = -1
    <2>1. n = f /\ e.lastRtpSeq = -1
        BY <1>2, <1>4
    <2> HIDE DEF n
    <2>2. /\ g \in Counters
          /\ g.lastRtpSeq = seqOf(n)
          /\ g.rtpPacketCount = e.rtpPacketCount + 1
          /\ g.rtpMissingCount = e.rtpMissingCount
        BY <1>2, <2>1, FirstCounted
    <2> HIDE DEF g
    <2>3. Counted(g, d, last, f, k + 1)
        BY <1>1, <1>2, <1>3, <1>4, <2>1, <2>2 DEF Counted
    <2> QED BY <2>3 DEF g, n
<1>5. CASE k = 0 /\ last # -1
    <2>1. n = f /\ e.lastRtpSeq = seqOf(last) /\ last \in Nat
          /\ last < n /\ n <= last + HalfSpace
        BY <1>2, <1>5
    <2> HIDE DEF n
    <2>2. /\ g \in Counters
          /\ g.lastRtpSeq = seqOf(n)
          /\ g.rtpPacketCount = e.rtpPacketCount + 1
          /\ g.rtpMissingCount = e.rtpMissingCount + (n - last - 1)
        BY <1>2, <2>1, PacketCounted
    <2> HIDE DEF g
    <2>3. Counted(g, d, last, f, k + 1)
        BY <1>1, <1>2, <1>3, <1>5, <2>1, <2>2 DEF Counted
    <2> QED BY <2>3 DEF g, n
<1>6. CASE k # 0
    <2> DEFINE p == f + k - 1
    <2>1. /\ p \in Nat /\ p < n /\ n <= p + HalfSpace /\ n - p - 1 = 0
          /\ e.lastRtpSeq = seqOf(p)
        BY <1>1, <1>2, <1>6
    <2> HIDE DEF n, p
    <2>2. /\ g \in Counters
          /\ g.lastRtpSeq = seqOf(n)
          /\ g.rtpPacketCount = e.rtpPacketCount + 1
          /\ g.rtpMissingCount = e.rtpMissingCount + (n - p - 1)
        BY <1>2, <2>1, PacketCounted
    <2> HIDE DEF g
    <2>3. Counted(g, d, last, f, k + 1)
        <3>1. k + 1 # 0 /\ e.rtpMissingCount \in Int /\ e.rtpPacketCount \in Int
            BY <1>2 DEF Counters
        <3>2. g.rtpMissingCount = e.rtpMissingCount
            BY <2>1, <2>2, <3>1
        <3> QED BY <1>1, <1>2, <1>3, <1>6, <2>2, <3>1, <3>2 DEF Counted
    <2> QED BY <2>3 DEF g, n
<1> QED BY <1>4, <1>5, <1>6

\* recordBatch as a loop: its counters after each packet.
LEMMA BatchLoop ==
    ASSUME NEW d \in Counters, NEW batch \in Seq(Packet)
    PROVE  \E after : /\ recordBatch(d, batch) = after[Len(batch)]
                      /\ after[0] = d
                      /\ \A i \in 1 .. Len(batch) :
                            after[i] = Diagnostics!recordPacket(
                                after[i - 1], parseRtpSequence(batch[i]),
                                payloadOf(batch[i]))
<1> DEFINE record(e, p) == Diagnostics!recordPacket(e, parseRtpSequence(p), payloadOf(p))
           n == Len(batch)
           after[i \in 0 .. n] ==
              IF i = 0 THEN d
              ELSE Diagnostics!recordPacket(after[i - 1], parseRtpSequence(batch[i]),
                                            payloadOf(batch[i]))
           G == [x \in Counters \X (1 .. n) |-> record(x[1], batch[x[2]])]
<1>1. n \in Nat /\ \A i \in 1 .. n : batch[i] \in Packet
    OBVIOUS
<1>2. G \in [Counters \X (1 .. n) -> Counters]
    <2> SUFFICES ASSUME NEW x \in Counters \X (1 .. n)
                 PROVE  record(x[1], batch[x[2]]) \in Counters
        OBVIOUS
    <2>1. x[1] \in Counters /\ batch[x[2]] \in Packet
        BY <1>1
    <2> QED BY <2>1, RecordTyped
<1>3. PICK h \in [0 .. n -> Counters] :
          h[0] = d /\ \A i \in 1 .. n : h[i] = G[<<h[i - 1], i>>]
    <2> HIDE DEF n, G
    <2>1. n \in Nat
        BY <1>1
    <2> QED BY <1>2, <2>1, RecursionExists, Zenon
<1>4. h = [i \in 0 .. n |-> IF i = 0 THEN d
              ELSE Diagnostics!recordPacket(h[i - 1], parseRtpSequence(batch[i]),
                                            payloadOf(batch[i]))]
    <2>1. ASSUME NEW i \in 0 .. n, i # 0
          PROVE  h[i] = record(h[i - 1], batch[i])
        <3>1. i - 1 \in 0 .. n /\ i \in 1 .. n
            BY <1>1, <2>1
        <3>2. h[i - 1] \in Counters /\ h[i] = G[<<h[i - 1], i>>]
            BY <1>3, <3>1
        <3> QED BY <3>1, <3>2
    <2> HIDE DEF G
    <2> QED BY <1>3, <2>1
<1>5. after = [i \in 0 .. n |-> IF i = 0 THEN d
              ELSE Diagnostics!recordPacket(after[i - 1], parseRtpSequence(batch[i]),
                                            payloadOf(batch[i]))]
    BY <1>4
<1>6. recordBatch(d, batch) = after[n]
    BY DEF recordBatch
<1> HIDE DEF after
<1>7. after[0] = d
    BY <1>1, <1>5
<1>8. ASSUME NEW i \in 1 .. n PROVE after[i] = record(after[i - 1], batch[i])
    <2>1. i \in 0 .. n /\ i # 0
        BY <1>1
    <2> HIDE DEF n
    <2> QED BY <1>5, <2>1
<1> QED BY <1>6, <1>7, <1>8

\* A batch of consecutive positions.
IsRun(batch, f, run) == batch = [i \in 1 .. run |-> f + i - 1]

\* The counters after it.
LEMMA RunCounted ==
    ASSUME NEW d \in Counters, NEW last \in Int, last >= -1,
           d.lastRtpSeq = IF last = -1 THEN -1 ELSE seqOf(last),
           NEW f \in Nat, NEW run \in Nat,
           run # 0 => last < f /\ f <= last + HalfSpace,
           NEW batch \in Seq(Packet), IsRun(batch, f, run)
    PROVE  Counted(recordBatch(d, batch), d, last, f, run)
<1> DEFINE record(e, p) == Diagnostics!recordPacket(e, parseRtpSequence(p), payloadOf(p))
           n == Len(batch)
<1>1. n = run /\ \A i \in 1 .. n : batch[i] \in Packet /\ batch[i] = f + i - 1
    BY DEF IsRun
<1>2. PICK after :
         /\ recordBatch(d, batch) = after[n]
         /\ after[0] = d
         /\ \A i \in 1 .. n : after[i] = record(after[i - 1], batch[i])
    BY BatchLoop
<1> DEFINE good == {i \in 0 .. n : Counted(after[i], d, last, f, i)}
<1>3. 0 \in good
    <2>1. after[0] = d
        BY <1>2
    <2>2. d.rtpPacketCount \in Int /\ d.rtpMissingCount \in Int
        BY DEF Counters
    <2> QED BY <1>1, <2>1, <2>2 DEF Counted
<1>4. ASSUME NEW i \in 0 .. n - 1, i \in good PROVE i + 1 \in good
    <2>1. /\ i + 1 \in 0 .. n /\ i + 1 # 0 /\ (i + 1) - 1 = i /\ i + 1 \in 1 .. n
          /\ i \in Nat /\ run # 0
        BY <1>1
    <2>2. batch[i + 1] = f + i /\ f + i \in Packet
        BY <1>1, <2>1
    <2>3. after[i + 1] = record(after[i], f + i)
        BY <1>2, <2>1, <2>2
    <2>4. Counted(after[i], d, last, f, i)
        BY <1>4
    <2> HIDE DEF n
    <2>5. Counted(record(after[i], f + i), d, last, f, i + 1)
        BY <2>1, <2>2, <2>4, RunGrows
    <2> QED BY <2>1, <2>3, <2>5
<1> HIDE DEF good
<1>5. n \in good
    <2>1. \A i \in 0 .. n : i \in good
        <3> HIDE DEF n
        <3>1. n \in Nat /\ \A i \in 0 .. n - 1 : i \in good => i + 1 \in good
            BY <1>1, <1>4
        <3> QED BY <1>3, <3>1, UptoInduction, Zenon
    <2> QED BY <1>1, <2>1
<1> QED BY <1>1, <1>2, <1>5 DEF good

\* The counters describe what was delivered, last packet included.
LossInv ==
    /\ diagnostics \in Counters
    /\ diagnostics.lastRtpSeq = IF delivered = <<>> THEN -1 ELSE seqOf(LastOf(delivered))
    /\ LossIsCounted

LEMMA EmptyBatch ==
    ASSUME NEW d \in Counters, NEW batch \in Seq(Packet), Len(batch) = 0
    PROVE  recordBatch(d, batch) = d
<1>1. PICK after :
         /\ recordBatch(d, batch) = after[Len(batch)]
         /\ after[0] = d
         /\ \A i \in 1 .. Len(batch) :
               after[i] = Diagnostics!recordPacket(
                   after[i - 1], parseRtpSequence(batch[i]), payloadOf(batch[i]))
    BY BatchLoop
<1> QED BY <1>1, Zenon

LEMMA NothingRecorded ==
    ASSUME LossInv, emitted' = <<>>, delivered' = delivered,
           diagnostics' = recordBatch(diagnostics, emitted')
    PROVE  diagnostics' = diagnostics /\ LossInv'
<1>1. diagnostics' = diagnostics
    <2>1. diagnostics \in Counters /\ emitted' \in Seq(Packet) /\ Len(emitted') = 0
        BY DEF LossInv
    <2> QED BY <2>1, EmptyBatch
<1> QED BY <1>1 DEF LossInv, LossIsCounted

\* How a run that is handed on lengthens what was delivered.
LEMMA RunDelivered ==
    ASSUME NEW del \in Seq(Packet), NEW batch \in Seq(Packet),
           NEW f \in Nat, NEW run \in Nat, run # 0, IsRun(batch, f, run)
    PROVE  /\ del \o batch # <<>>
           /\ Len(del \o batch) = Len(del) + run
           /\ Head(del \o batch) = IF del = <<>> THEN f ELSE Head(del)
           /\ Last(del \o batch) = f + run - 1
<1>1. Len(batch) = run /\ batch[1] = f /\ batch[run] = f + run - 1
    BY DEF IsRun
<1>2. /\ Len(del \o batch) = Len(del) + run /\ Len(del) \in Nat
      /\ del \o batch # <<>>
    BY <1>1
<1>3. (del \o batch)[Len(del) + run] = batch[run]
    BY <1>1
<1>4. (del \o batch)[1] = IF del = <<>> THEN f ELSE del[1]
    <2>1. CASE del = <<>>
        BY <1>1, <2>1
    <2>2. CASE del # <<>>
        BY <1>1, <2>2
    <2> QED BY <2>1, <2>2
<1>5. Head(del \o batch) = (del \o batch)[1]
    BY <1>2
<1> QED BY <1>1, <1>2, <1>3, <1>4, <1>5 DEF Last

\* The last position handed on, or -1 before the first.
LEMMA LastOfStream ==
    ASSUME StreamInv
    PROVE  /\ delivered \in Seq(Packet)
           /\ LastOf(delivered) \in Int /\ LastOf(delivered) >= -1
           /\ LastOf(delivered) = -1 <=> delivered = <<>>
           /\ delivered # <<>> => LastOf(delivered) = Last(delivered)
<1>1. delivered \in Seq(Packet) /\ LastOf(delivered) \in Int /\ LastOf(delivered) >= -1
    BY LastOfProps DEF StreamInv, InStream
<1>2. ASSUME delivered # <<>>
      PROVE  LastOf(delivered) # -1 /\ LastOf(delivered) = Last(delivered)
    <2>1. LastOf(delivered) = Last(delivered)
        BY <1>2 DEF LastOf
    <2>2. LastOf(delivered) \in Packet
        BY <1>1, <1>2, <2>1 DEF Last
    <2> QED BY <2>1, <2>2, PositionsNatural
<1>3. delivered = <<>> => LastOf(delivered) = -1
    BY DEF LastOf
<1> QED BY <1>1, <1>2, <1>3

\* A step of the stream hands on a run that starts within half a round behind
\* the last packet.
LEMMA RunHandedOn ==
    ASSUME StreamInv, NEW n, NEW pend, NEW f, NEW run, StreamStep(n, pend, f, run)
    PROVE  /\ f \in Nat /\ run \in Nat /\ emitted' \in Seq(Packet)
           /\ IsRun(emitted', f, run)
           /\ run # 0 => LastOf(delivered) < f /\ f <= LastOf(delivered) + HalfSpace
           /\ delivered' = delivered \o emitted'
           /\ run = 0 => delivered' = delivered
<1> DEFINE last == LastOf(delivered)
<1>1. /\ InStream(newest', arrived', delivered, pend)
      /\ Flushed(pend, f, run, After)
      /\ delivered' = delivered \o emitted' /\ After.batch = emitted'
    BY DEF StreamStep, After
<1>2. HandedOn(delivered, pend, f, run, emitted')
    BY <1>1, FlushedBatch
<1>3. /\ f \in Nat /\ run \in Nat /\ emitted' \in Seq(Packet)
      /\ IsRun(emitted', f, run)
    BY <1>1, <1>2 DEF HandedOn, Flushed, IsRun
<1>4. delivered \in Seq(Packet) /\ last \in Int /\ last >= -1
    BY LastOfProps DEF StreamInv, InStream
<1>5. run # 0 => last < f /\ f <= last + HalfSpace
    <2> HAVE run # 0
    <2>1. /\ f > last
          /\ \E s \in Keys(pend) : pend[s] = f
          /\ \A s \in Keys(pend) : f <= pend[s]
        <3>1. 1 \in 1 .. run /\ f + 1 - 1 = f
            BY <1>3
        <3> QED BY <1>1, <1>2, <3>1 DEF HandedOn, Flushed
    <2>2. f <= newest' /\ newest' \in Int
        BY <1>1, <2>1 DEF InStream
    <2>3. last \in last .. newest' - 1
        BY <1>3, <1>4, <2>1, <2>2
    <2>4. PICK s \in Keys(pend) : pend[s] <= last + (MaxBurst + 1)
        BY <1>1, <2>3 DEF InStream
    <2>5. pend[s] \in Nat
        <3>1. pend[s] \in Packet
            BY <1>1, <2>4 DEF InStream, PendingMap, Keys
        <3> QED BY <3>1, PositionsNatural
    <2>6. MaxBurst + 1 <= HalfSpace /\ MaxBurst \in Nat /\ HalfSpace \in Nat
        BY WithinHalf
    <2> HIDE DEF last
    <2> QED BY <1>3, <1>4, <2>1, <2>4, <2>5, <2>6
<1>6. run = 0 => delivered' = delivered
    BY <1>1, <1>2 DEF HandedOn
<1> QED BY <1>1, <1>3, <1>5, <1>6

LEMMA RunRecorded ==
    ASSUME StreamInv, LossInv, NEW n, NEW pend, NEW f, NEW run,
           StreamStep(n, pend, f, run),
           diagnostics' = recordBatch(diagnostics, emitted')
    PROVE  LossInv'
<1> DEFINE last == LastOf(delivered)
<1>1. /\ f \in Nat /\ run \in Nat /\ emitted' \in Seq(Packet)
      /\ IsRun(emitted', f, run)
      /\ run # 0 => last < f /\ f <= last + HalfSpace
      /\ delivered' = delivered \o emitted'
      /\ run = 0 => delivered' = delivered
    BY RunHandedOn
<1>2. /\ delivered \in Seq(Packet) /\ last \in Int /\ last >= -1
      /\ last = -1 <=> delivered = <<>>
      /\ delivered # <<>> => last = Last(delivered)
    BY LastOfStream
<1>3. /\ diagnostics \in Counters
      /\ diagnostics.lastRtpSeq = IF last = -1 THEN -1 ELSE seqOf(last)
      /\ diagnostics.rtpPacketCount = Len(delivered)
      /\ diagnostics.rtpMissingCount =
            IF delivered = <<>> THEN 0 ELSE last - Head(delivered) + 1 - Len(delivered)
    BY <1>2 DEF LossInv, LossIsCounted
<1> HIDE DEF last
<1>4. Counted(diagnostics', diagnostics, last, f, run)
    BY <1>1, <1>2, <1>3, RunCounted
<1>5. CASE run = 0
    <2>1. delivered' = delivered
        BY <1>1, <1>5
    <2>2. diagnostics.rtpMissingCount \in Int /\ diagnostics.rtpPacketCount \in Int
        BY <1>3 DEF Counters
    <2> QED BY <1>4, <1>5, <2>1, <2>2 DEF Counted, LossInv, LossIsCounted
<1>6. CASE run # 0
    <2>1. /\ delivered' # <<>>
          /\ Len(delivered') = Len(delivered) + run
          /\ Head(delivered') = IF delivered = <<>> THEN f ELSE Head(delivered)
          /\ Last(delivered') = f + run - 1
        BY <1>1, <1>2, <1>6, RunDelivered
    <2>2. /\ diagnostics' \in Counters
          /\ diagnostics'.rtpPacketCount = diagnostics.rtpPacketCount + run
          /\ diagnostics'.lastRtpSeq = seqOf(f + run - 1)
          /\ diagnostics'.rtpMissingCount = diagnostics.rtpMissingCount
                + IF last = -1 THEN 0 ELSE f - last - 1
        BY <1>4, <1>6 DEF Counted
    <2>3. diagnostics'.lastRtpSeq = seqOf(LastOf(delivered'))
        BY <2>1, <2>2 DEF LastOf
    <2>4. Len(delivered) \in Nat /\ diagnostics.rtpMissingCount \in Int
        BY <1>2, <1>3 DEF Counters
    <2>5. diagnostics'.rtpMissingCount
            = Last(delivered') - Head(delivered') + 1 - Len(delivered')
        <3>1. CASE delivered = <<>>
            BY <1>1, <1>2, <1>3, <2>1, <2>2, <3>1
        <3>2. CASE delivered # <<>>
            <4>1. Head(delivered) \in Int
                <5>1. Head(delivered) \in Packet
                    BY <1>2, <3>2
                <5> QED BY <5>1, PositionsNatural
            <4> DEFINE h == Head(delivered)
                       l == Len(delivered)
            <4>2. /\ diagnostics'.rtpMissingCount = (last - h + 1 - l) + (f - last - 1)
                  /\ Last(delivered') = f + run - 1 /\ Head(delivered') = h
                  /\ Len(delivered') = l + run
                BY <1>2, <1>3, <2>1, <2>2, <3>2
            <4> HIDE DEF h, l
            <4>3. h \in Int /\ l \in Int
                BY <2>4, <4>1 DEF h, l
            <4>4. f \in Int /\ run \in Int /\ last \in Int
                BY <1>1, <1>2
            <4> QED BY <4>2, <4>3, <4>4
        <3> QED BY <3>1, <3>2
    <2> QED BY <1>3, <2>1, <2>2, <2>3, <2>5 DEF LossInv, LossIsCounted
<1> QED BY <1>5, <1>6

LEMMA LossStart == StreamInit => LossInv
<1> SUFFICES ASSUME StreamInit PROVE LossInv
    OBVIOUS
<1>1. /\ diagnostics = Diagnostics!createRelayDiagnostics
      /\ delivered = <<>>
    BY DEF StreamInit
<1>2. /\ diagnostics \in Counters /\ diagnostics.lastRtpSeq = -1
      /\ diagnostics.rtpPacketCount = 0 /\ diagnostics.rtpMissingCount = 0
    BY <1>1 DEF Diagnostics!createRelayDiagnostics, Diagnostics!Unset, Counters
<1> QED BY <1>1, <1>2 DEF LossInv, LossIsCounted

\* A step that is none of the stream's emits nothing.
LEMMA NothingEmitted ==
    ASSUME StreamInv, StreamNext, NoStreamStep, delivered' = delivered \o emitted'
    PROVE  emitted' = <<>> /\ delivered' = delivered
<1>1. delivered \in Seq(Packet) /\ delivered' = delivered
    BY DEF StreamInv, InStream, NoStreamStep
<1>2. emitted' \in Seq(Packet)
    <2>1. [StreamNext]_streamVars
        OBVIOUS
    <2>2. StreamInv'
        BY <2>1, StreamInvStep, Zenon
    <2> QED BY <2>2 DEF StreamInv, ContentsInv, BufferTypeOK
<1>3. \A s, t \in Seq(Packet) : s = s \o t => t = <<>>
    <2> SUFFICES ASSUME NEW s \in Seq(Packet), NEW t \in Seq(Packet), s = s \o t
                 PROVE  t = <<>>
        OBVIOUS
    <2>1. Len(s) = Len(s) + Len(t)
        OBVIOUS
    <2> QED BY <2>1
<1> QED BY <1>1, <1>2, <1>3, Zenon

LEMMA LossStep == StreamInv /\ LossInv /\ [StreamNext]_streamVars => LossInv'
<1> SUFFICES ASSUME StreamInv, LossInv, [StreamNext]_streamVars PROVE LossInv'
    OBVIOUS
<1>1. CASE UNCHANGED streamVars
    BY <1>1 DEF streamVars, LossInv, LossIsCounted
<1>2. CASE StreamNext
    <2>1. /\ delivered' = delivered \o emitted'
          /\ diagnostics' = recordBatch(diagnostics, emitted')
        BY <1>2 DEF StreamNext, Receive, BufferStep, Record
    <2>2. CASE NoStreamStep
        <3>1. emitted' = <<>> /\ delivered' = delivered
            BY <1>2, <2>1, <2>2, NothingEmitted
        <3> QED BY <2>1, <3>1, NothingRecorded
    <2>3. ASSUME NEW n \in Packet, NEW pend, NEW f, NEW run,
                 StreamStep(n, pend, f, run)
          PROVE  LossInv'
        BY <2>1, <2>3, RunRecorded
    <2> QED BY <1>2, <2>2, <2>3, StepKindsOfStream
<1> QED BY <1>1, <1>2

\* What the log says was lost is what the client did not get, though the
\* counters know only 16-bit numbers: recordRtpPacket counts every packet that
\* is handed on and every position between two of them that is not.
THEOREM LossIsTold == StreamSpec => []LossIsCounted
<1>1. LossInv => LossIsCounted
    BY DEF LossInv
<1> QED BY <1>1, StreamStart, StreamInvStep, LossStart, LossStep, PTL DEF StreamSpec

-----------------------------------------------------------------------------
(* Continuity.  Between two packets handed on, each RTP packet that was    *)
(* lost makes the numbers expected of the programs in it wrong, and each   *)
(* damaged TS packet that of its own; an error uses such a program up.     *)

\* What recordTsPacket makes of the counters, case by case.
LEMMA TsPacketEffect ==
    ASSUME NEW d \in Counters, NEW ts \in Diagnostics!TsPacket
    PROVE  LET e == Diagnostics!recordTsPacket(d, ts)
               mismatch == d.expectedByPID[ts.pid] \notin {-1, ts.cc} /\ ~ts.hasDiscontinuity
           IN  /\ ~ts.sync =>
                     /\ e.tsSyncLossCount = d.tsSyncLossCount + 1
                     /\ e.tsContinuityErr = d.tsContinuityErr
                     /\ e.expectedByPID = d.expectedByPID
               /\ ts.sync /\ (~ts.hasPayload \/ ts.pid = NullPid) =>
                     /\ e.tsSyncLossCount = d.tsSyncLossCount
                     /\ e.tsContinuityErr = d.tsContinuityErr
                     /\ e.expectedByPID =
                           [d.expectedByPID EXCEPT ![ts.pid] =
                               IF ts.hasDiscontinuity /\ ~ts.hasPayload THEN -1
                               ELSE d.expectedByPID[ts.pid]]
               /\ ts.sync /\ ts.hasPayload /\ ts.pid # NullPid =>
                     /\ e.tsSyncLossCount = d.tsSyncLossCount
                     /\ e.tsContinuityErr = d.tsContinuityErr + (IF mismatch THEN 1 ELSE 0)
                     /\ e.expectedByPID =
                           [d.expectedByPID EXCEPT ![ts.pid] = (ts.cc + 1) % CounterSpace]
<1> DEFINE e == Diagnostics!recordTsPacket(d, ts)
           mismatch == d.expectedByPID[ts.pid] \notin {-1, ts.cc} /\ ~ts.hasDiscontinuity
           seen == [d EXCEPT !.tsPacketCount = d.tsPacketCount + 1]
<1>1. /\ seen.tsSyncLossCount = d.tsSyncLossCount
      /\ seen.tsContinuityErr = d.tsContinuityErr
      /\ seen.expectedByPID = d.expectedByPID
      /\ DOMAIN seen = DOMAIN d
    BY DEF Counters
<1>2. /\ DOMAIN d = {"lastRtpSeq", "rtpPacketCount", "rtpMissingCount", "tsPacketCount",
                     "tsSyncLossCount", "tsContinuityErr", "expectedByPID"}
    BY DEF Counters
<1>3. CASE ~ts.sync
    <2>1. e = [seen EXCEPT !.tsSyncLossCount = d.tsSyncLossCount + 1]
        BY <1>3 DEF Diagnostics!recordTsPacket, Counters
    <2> HIDE DEF seen, e
    <2>2. /\ e.tsSyncLossCount = d.tsSyncLossCount + 1
          /\ e.tsContinuityErr = d.tsContinuityErr
          /\ e.expectedByPID = d.expectedByPID
        BY <1>1, <1>2, <2>1
    <2> QED BY <1>3, <2>2 DEF e
<1>4. CASE ts.sync /\ (~ts.hasPayload \/ ts.pid = NullPid)
    <2> DEFINE m == [d.expectedByPID EXCEPT ![ts.pid] =
                        IF ts.hasDiscontinuity /\ ~ts.hasPayload THEN -1
                        ELSE d.expectedByPID[ts.pid]]
    <2>1. e = [seen EXCEPT !.expectedByPID = m]
        BY <1>4 DEF Diagnostics!recordTsPacket, Diagnostics!Unset, Counters
    <2> HIDE DEF seen, e, m
    <2>2. /\ e.tsSyncLossCount = d.tsSyncLossCount
          /\ e.tsContinuityErr = d.tsContinuityErr
          /\ e.expectedByPID = m
        BY <1>1, <1>2, <2>1
    <2> QED BY <1>4, <2>2, Zenon DEF e, m
<1>5. CASE ts.sync /\ ts.hasPayload /\ ts.pid # NullPid
    <2> DEFINE m == [d.expectedByPID EXCEPT ![ts.pid] = (ts.cc + 1) % CounterSpace]
               k == IF mismatch THEN 1 ELSE 0
               torn == [seen EXCEPT !.tsContinuityErr = d.tsContinuityErr + k]
    <2>1. e = [torn EXCEPT !.expectedByPID = m]
        BY <1>5 DEF Diagnostics!recordTsPacket, Diagnostics!Unset, Counters
    <2> HIDE DEF seen, k, m, e
    <2>2. /\ torn.tsSyncLossCount = d.tsSyncLossCount
          /\ torn.tsContinuityErr = d.tsContinuityErr + k
          /\ DOMAIN torn = DOMAIN d
        BY <1>1, <1>2
    <2> HIDE DEF torn
    <2>3. /\ e.tsSyncLossCount = d.tsSyncLossCount
          /\ e.tsContinuityErr = d.tsContinuityErr + k
          /\ e.expectedByPID = m
        BY <1>2, <2>1, <2>2
    <2> QED BY <1>5, <2>3, Zenon DEF e, m, k
<1>6. ts.sync \in BOOLEAN /\ ts.hasPayload \in BOOLEAN
    BY DEF Diagnostics!TsPacket
<1> QED BY <1>3, <1>4, <1>5, <1>6

\* A place is that of a TS packet in an RTP packet.
LEMMA PlaceProps ==
    ASSUME NEW p \in TsPlace
    PROVE  /\ p[1] \in Packet /\ p[1] \in Nat /\ p[2] \in Nat
           /\ p[2] \in 1 .. Len(payloadOf(p[1]))
           /\ p = <<p[1], p[2]>>
           /\ TsAt(p) \in Diagnostics!TsPacket
<1>1. /\ p[1] \in Packet /\ p[2] \in 1 .. TsPerPacket /\ p[2] <= Len(payloadOf(p[1]))
      /\ p = <<p[1], p[2]>>
    BY DEF TsPlace
<1>2. TsPerPacket \in Nat /\ payloadOf(p[1]) \in Seq(Diagnostics!TsPacket)
    BY <1>1, PayloadAssumption
<1>3. p[1] \in Nat /\ p[2] \in Nat /\ p[2] \in 1 .. Len(payloadOf(p[1]))
    BY <1>1, <1>2, PositionsNatural
<1> QED BY <1>1, <1>2, <1>3 DEF TsAt

LEMMA PlaceOf ==
    ASSUME NEW n \in Packet, NEW i \in 1 .. Len(payloadOf(n))
    PROVE  <<n, i>> \in TsPlace /\ TsAt(<<n, i>>) = payloadOf(n)[i]
<1>1. /\ TsPerPacket \in Nat /\ Len(payloadOf(n)) \in Nat
      /\ Len(payloadOf(n)) <= TsPerPacket
    BY PayloadAssumption
<1>2. i \in 1 .. TsPerPacket /\ i <= Len(payloadOf(n))
    BY <1>1
<1> QED BY <1>2 DEF TsPlace, TsAt

\* The places up to RTP packet n, and up to the k-th TS packet in it.
Places(n) == {p \in TsPlace : p[1] <= n}
Within(n, k) == {p \in TsPlace : p[1] < n \/ (p[1] = n /\ p[2] <= k)}

LEMMA WithinPacket ==
    ASSUME NEW n \in Packet
    PROVE  /\ Within(n, 0) = Places(n - 1)
           /\ Within(n, Len(payloadOf(n))) = Places(n)
<1>1. n \in Nat
    BY PositionsNatural
<1>2. ASSUME NEW p \in TsPlace
      PROVE  /\ (p[1] < n \/ (p[1] = n /\ p[2] <= 0)) <=> p[1] <= n - 1
             /\ (p[1] < n \/ (p[1] = n /\ p[2] <= Len(payloadOf(n)))) <=> p[1] <= n
    <2>1. p[1] \in Nat /\ p[2] \in Nat /\ p[2] \in 1 .. Len(payloadOf(p[1]))
        BY PlaceProps
    <2>2. p[2] >= 1 /\ p[2] <= Len(payloadOf(p[1]))
        <3>1. payloadOf(p[1]) \in Seq(Diagnostics!TsPacket)
            BY PlaceProps, PayloadAssumption
        <3> QED BY <2>1, <3>1
    <2>3. (p[1] < n \/ (p[1] = n /\ p[2] <= 0)) <=> p[1] <= n - 1
        BY <1>1, <2>1, <2>2
    <2>4. CASE p[1] = n
        BY <1>1, <2>1, <2>2, <2>3, <2>4
    <2>5. CASE p[1] # n
        BY <1>1, <2>1, <2>3, <2>5
    <2> QED BY <2>4, <2>5
<1> QED BY <1>2 DEF Within, Places

\* The number expected of a program is the one behind its last payload among the
\* places passed, or none is expected.
Fresh(pid, passed, expected) ==
    \/ expected = -1
    \/ \E m \in passed :
          /\ Counts(m) /\ TsAt(m).pid = pid
          /\ expected = (TsAt(m).cc + 1) % CounterSpace
          /\ \A j \in passed : Before(m, j) => ~Concerns(j, pid)

\* What was lost or damaged may cause so many errors.
Credit(d) == TsPerPacket * d.rtpMissingCount + d.tsSyncLossCount

LEMMA CreditProps ==
    ASSUME NEW d \in Counters
    PROVE  /\ Credit(d) \in Int /\ d.tsContinuityErr \in Int
           /\ d.tsSyncLossCount \in Int /\ d.rtpMissingCount \in Int
<1>1. TsPerPacket \in Int
    BY PayloadAssumption
<1>2. /\ d.tsContinuityErr \in Int /\ d.rtpMissingCount \in Int
      /\ d.tsSyncLossCount \in Int
    BY DEF Counters
<1>3. TsPerPacket * d.rtpMissingCount \in Int
    BY <1>1, <1>2
<1> QED BY <1>2, <1>3 DEF Credit

\* Programs for which it may be another one, and what they have cost.
Explained(d, passed) ==
    \E stale \in SUBSET Pid :
        /\ IsFiniteSet(stale)
        /\ d.tsContinuityErr + Cardinality(stale) <= Credit(d)
        /\ \A p \in Pid \ stale : Fresh(p, passed, d.expectedByPID[p])

LEMMA ExplainedErrors ==
    ASSUME NEW d \in Counters, NEW passed, Explained(d, passed)
    PROVE  d.tsContinuityErr <= Credit(d)
<1>1. PICK stale \in SUBSET Pid :
         IsFiniteSet(stale) /\ d.tsContinuityErr + Cardinality(stale) <= Credit(d)
    BY DEF Explained
<1>2. Cardinality(stale) \in Nat
    BY <1>1, FS_CardinalityType
<1> QED BY <1>1, <1>2, CreditProps

\* Places that do not concern a program leave what is expected of it.
LEMMA FreshKept ==
    ASSUME NEW pid, NEW passed, NEW more, NEW expected, Fresh(pid, passed, expected),
           passed \subseteq more,
           \A j \in more : j \notin passed => ~Concerns(j, pid)
    PROVE  Fresh(pid, more, expected)
<1>1. CASE expected = -1
    BY <1>1 DEF Fresh
<1>2. CASE expected # -1
    <2>1. PICK m \in passed :
             /\ Counts(m) /\ TsAt(m).pid = pid
             /\ expected = (TsAt(m).cc + 1) % CounterSpace
             /\ \A j \in passed : Before(m, j) => ~Concerns(j, pid)
        BY <1>2, Zenon DEF Fresh
    <2>2. m \in more
        BY <2>1
    <2>3. ASSUME NEW j \in more, Before(m, j) PROVE ~Concerns(j, pid)
        <3>1. CASE j \in passed
            BY <2>1, <2>3, <3>1, Zenon
        <3>2. CASE j \notin passed
            BY <3>2, Zenon
        <3> QED BY <3>1, <3>2
    <2> QED BY <2>1, <2>2, <2>3, Zenon DEF Fresh
<1> QED BY <1>1, <1>2

\* Places lost or damaged make at most their programs stale.
LEMMA PlacesLost ==
    ASSUME NEW d \in Counters, NEW e \in Counters, NEW passed, NEW more,
           Explained(d, passed), passed \subseteq more,
           e.tsContinuityErr = d.tsContinuityErr, e.expectedByPID = d.expectedByPID,
           NEW pids \in SUBSET Pid, IsFiniteSet(pids), NEW c \in Int, Cardinality(pids) <= c,
           Credit(e) = Credit(d) + c,
           \A j \in more : j \notin passed => TsAt(j).pid \in pids
    PROVE  Explained(e, more)
<1>1. PICK stale \in SUBSET Pid :
         /\ IsFiniteSet(stale)
         /\ d.tsContinuityErr + Cardinality(stale) <= Credit(d)
         /\ \A p \in Pid \ stale : Fresh(p, passed, d.expectedByPID[p])
    BY DEF Explained
<1> DEFINE wider == stale \union pids
<1>2. wider \in SUBSET Pid
    OBVIOUS
<1>3. IsFiniteSet(wider) /\ Cardinality(wider) <= Cardinality(stale) + Cardinality(pids)
    <2>1. /\ IsFiniteSet(wider)
          /\ Cardinality(wider) =
                Cardinality(stale) + Cardinality(pids) - Cardinality(stale \cap pids)
        BY <1>1, FS_Union
    <2>2. IsFiniteSet(stale \cap pids)
        BY <1>1, FS_Intersection
    <2>3. /\ Cardinality(stale \cap pids) \in Nat /\ Cardinality(stale) \in Nat
          /\ Cardinality(pids) \in Nat
        BY <1>1, <2>2, FS_CardinalityType
    <2> HIDE DEF wider
    <2> QED BY <2>1, <2>3
<1>4. /\ Cardinality(stale) \in Nat /\ Cardinality(pids) \in Nat
      /\ Cardinality(wider) \in Nat
    BY <1>1, <1>3, FS_CardinalityType
<1>5. ASSUME NEW p \in Pid \ wider PROVE Fresh(p, more, e.expectedByPID[p])
    <2>1. Fresh(p, passed, e.expectedByPID[p])
        BY <1>1
    <2>2. ASSUME NEW j \in more, j \notin passed PROVE ~Concerns(j, p)
        BY <2>2 DEF Concerns
    <2> QED BY <2>1, <2>2, FreshKept
<1> HIDE DEF wider
<1>6. e.tsContinuityErr + Cardinality(wider) <= Credit(e)
    BY <1>1, <1>3, <1>4, CreditProps
<1> QED BY <1>2, <1>3, <1>5, <1>6 DEF Explained

LEMMA BeforeOnce ==
    ASSUME NEW p \in TsPlace, NEW q \in TsPlace, Before(p, q)
    PROVE  ~Before(q, p)
<1>1. p[1] \in Nat /\ p[2] \in Nat /\ q[1] \in Nat /\ q[2] \in Nat
    BY PlaceProps
<1> QED BY <1>1 DEF Before

\* One TS packet handed on right behind those passed.
LEMMA OneHandedOn ==
    ASSUME SenderCounts, NEW d \in Counters, NEW passed, NEW more, NEW n \in TsPlace,
           passed \subseteq TsPlace, more = passed \union {n}, ~Before(n, n),
           \A j \in passed : Before(j, n),
           \A j \in TsPlace : Before(j, n) => j \in passed,
           Explained(d, passed)
    PROVE  Explained(Diagnostics!recordTsPacket(d, TsAt(n)), more)
<1> DEFINE ts == TsAt(n)
           e == Diagnostics!recordTsPacket(d, ts)
           mismatch == d.expectedByPID[ts.pid] \notin {-1, ts.cc} /\ ~ts.hasDiscontinuity
<1>0. /\ passed \subseteq more /\ n \in more
      /\ \A j \in more : j \notin passed => j = n
    OBVIOUS
<1>1. ts \in Diagnostics!TsPacket
    BY PlaceProps
<1>2. /\ ts.sync \in BOOLEAN /\ ts.pid \in Pid /\ ts.hasPayload \in BOOLEAN
      /\ ts.hasDiscontinuity \in BOOLEAN
    BY <1>1 DEF Diagnostics!TsPacket
<1>3. e \in Counters /\ e.rtpMissingCount = d.rtpMissingCount
    BY <1>1, TsPacketCounted DEF SameRtp
<1>4. PICK stale \in SUBSET Pid :
         /\ IsFiniteSet(stale)
         /\ d.tsContinuityErr + Cardinality(stale) <= Credit(d)
         /\ \A p \in Pid \ stale : Fresh(p, passed, d.expectedByPID[p])
    BY DEF Explained
<1>5. /\ Cardinality(stale) \in Nat /\ d.tsContinuityErr \in Int
      /\ d.rtpMissingCount \in Int /\ d.tsSyncLossCount \in Int
      /\ d.expectedByPID \in [Pid -> Int] /\ Credit(d) \in Int /\ Credit(e) \in Int
    BY <1>3, <1>4, FS_CardinalityType, CreditProps DEF Counters
<1>6. CASE ~ts.sync
    <2>1. /\ e.tsSyncLossCount = d.tsSyncLossCount + 1
          /\ e.tsContinuityErr = d.tsContinuityErr
          /\ e.expectedByPID = d.expectedByPID
        BY <1>1, <1>6, TsPacketEffect
    <2> DEFINE pids == {ts.pid}
               x == TsPerPacket * d.rtpMissingCount
    <2>2. pids \in SUBSET Pid /\ IsFiniteSet(pids) /\ Cardinality(pids) <= 1
        <3>1. IsFiniteSet(pids) /\ Cardinality(pids) = 1
            BY FS_Singleton
        <3> QED BY <1>2, <3>1
    <2>3. \A j \in more : j \notin passed => TsAt(j).pid \in pids
        BY <1>0
    <2> HIDE DEF e, ts, pids
    <2>4. Credit(e) = Credit(d) + 1
        <3>1. x \in Int
            BY <1>5, PayloadAssumption
        <3>2. Credit(e) = x + e.tsSyncLossCount /\ Credit(d) = x + d.tsSyncLossCount
            BY <1>3 DEF Credit
        <3> HIDE DEF x
        <3> QED BY <1>5, <2>1, <3>1, <3>2
    <2>5. 1 \in Int
        OBVIOUS
    <2>6. Explained(e, more)
        BY <1>0, <1>3, <2>1, <2>2, <2>3, <2>4, <2>5, PlacesLost
    <2> QED BY <2>6 DEF e, ts
<1>7. CASE ts.sync /\ (~ts.hasPayload \/ ts.pid = NullPid)
    <2> DEFINE v == IF ts.hasDiscontinuity /\ ~ts.hasPayload THEN -1
                    ELSE d.expectedByPID[ts.pid]
    <2>1. /\ e.tsSyncLossCount = d.tsSyncLossCount
          /\ e.tsContinuityErr = d.tsContinuityErr
          /\ e.expectedByPID = [d.expectedByPID EXCEPT ![ts.pid] = v]
        BY <1>1, <1>7, TsPacketEffect
    <2>2. ~Counts(n)
        BY <1>7 DEF Counts
    <2>3. Resets(n) <=> ts.hasDiscontinuity /\ ~ts.hasPayload
        BY DEF Resets
    <2> HIDE DEF e, ts, v
    <2>4. \A p \in Pid : e.expectedByPID[p] = IF p = ts.pid THEN v ELSE d.expectedByPID[p]
        BY <1>2, <1>5, <2>1
    <2>5. ASSUME NEW p \in Pid \ stale PROVE Fresh(p, more, e.expectedByPID[p])
        <3>1. Fresh(p, passed, d.expectedByPID[p])
            BY <1>4
        <3>2. CASE p = ts.pid /\ Resets(n)
            <4>1. e.expectedByPID[p] = -1
                BY <2>3, <2>4, <3>2 DEF v
            <4> QED BY <4>1 DEF Fresh
        <3>3. CASE ~(p = ts.pid /\ Resets(n))
            <4>1. e.expectedByPID[p] = d.expectedByPID[p]
                BY <2>3, <2>4, <3>3 DEF v
            <4>2. ~Concerns(n, p)
                BY <2>2, <3>3 DEF Concerns, ts
            <4>3. \A j \in more : j \notin passed => ~Concerns(j, p)
                BY <1>0, <4>2
            <4>4. Fresh(p, more, d.expectedByPID[p])
                BY <1>0, <3>1, <4>3, FreshKept
            <4> QED BY <4>1, <4>4
        <3> QED BY <3>2, <3>3
    <2>6. e.tsContinuityErr + Cardinality(stale) <= Credit(e)
        BY <1>3, <1>4, <2>1 DEF Credit
    <2>7. Explained(e, more)
        BY <1>4, <2>5, <2>6 DEF Explained
    <2> QED BY <2>7 DEF e, ts
<1>8. CASE ts.sync /\ ts.hasPayload /\ ts.pid # NullPid
    <2> DEFINE pid == ts.pid
               next == (ts.cc + 1) % CounterSpace
               left == stale \ {pid}
    <2>1. /\ e.tsSyncLossCount = d.tsSyncLossCount
          /\ e.tsContinuityErr = d.tsContinuityErr + (IF mismatch THEN 1 ELSE 0)
          /\ e.expectedByPID = [d.expectedByPID EXCEPT ![pid] = next]
        BY <1>1, <1>8, TsPacketEffect
    <2>2. Counts(n)
        BY <1>8 DEF Counts
    <2>3. ASSUME pid \notin stale PROVE ~mismatch
        <3>1. Fresh(pid, passed, d.expectedByPID[pid])
            BY <1>2, <1>4, <2>3
        <3>2. CASE d.expectedByPID[pid] = -1
            BY <3>2
        <3>3. CASE d.expectedByPID[pid] # -1 /\ ~ts.hasDiscontinuity
            <4>1. PICK m \in passed :
                     /\ Counts(m) /\ TsAt(m).pid = pid
                     /\ d.expectedByPID[pid] = (TsAt(m).cc + 1) % CounterSpace
                     /\ \A j \in passed : Before(m, j) => ~Concerns(j, pid)
                BY <3>1, <3>3 DEF Fresh
            <4>2. m \in TsPlace /\ Before(m, n)
                BY <4>1
            <4>3. ASSUME NEW j \in TsPlace, Before(m, j), Before(j, n) PROVE ~Concerns(j, pid)
                <5>1. j \in passed
                    BY <4>3
                <5> QED BY <4>1, <4>3, <5>1, Zenon
            <4>4. TsAt(n).cc = (TsAt(m).cc + 1) % CounterSpace
                BY <2>2, <3>3, <4>1, <4>2, <4>3, Zenon DEF SenderCounts
            <4> QED BY <4>1, <4>4
        <3> QED BY <1>2, <3>2, <3>3
    <2> HIDE DEF mismatch, e
    <2>4. \A p \in Pid : e.expectedByPID[p] = IF p = pid THEN next ELSE d.expectedByPID[p]
        BY <1>2, <1>5, <2>1
    <2>5. ASSUME NEW p \in Pid \ left PROVE Fresh(p, more, e.expectedByPID[p])
        <3>1. CASE p = pid
            <4>1. e.expectedByPID[p] = next
                BY <2>4, <3>1
            <4>2. ASSUME NEW j \in more PROVE ~Before(n, j)
                <5>1. CASE j \in passed
                    <6>1. j \in TsPlace /\ Before(j, n)
                        BY <5>1
                    <6> QED BY <6>1, BeforeOnce
                <5>2. CASE j \notin passed
                    BY <1>0, <5>2
                <5> QED BY <5>1, <5>2
            <4> QED BY <1>0, <2>2, <3>1, <4>1, <4>2, Zenon DEF Fresh
        <3>2. CASE p # pid
            <4>1. e.expectedByPID[p] = d.expectedByPID[p] /\ p \in Pid \ stale
                BY <2>4, <3>2
            <4>2. Fresh(p, passed, d.expectedByPID[p])
                BY <1>4, <4>1
            <4>3. ~Concerns(n, p)
                BY <3>2 DEF Concerns
            <4>4. \A j \in more : j \notin passed => ~Concerns(j, p)
                BY <1>0, <4>3
            <4>5. Fresh(p, more, d.expectedByPID[p])
                BY <1>0, <4>2, <4>4, FreshKept
            <4> QED BY <4>1, <4>5
        <3> QED BY <3>1, <3>2
    <2> HIDE DEF pid, next, left
    <2>6. /\ left \in SUBSET Pid /\ IsFiniteSet(left)
          /\ Cardinality(left) = IF pid \in stale THEN Cardinality(stale) - 1
                                 ELSE Cardinality(stale)
        BY <1>4, FS_RemoveElement DEF left
    <2>7. Credit(e) = Credit(d)
        BY <1>3, <2>1 DEF Credit
    <2>8. e.tsContinuityErr + Cardinality(left) <= Credit(e)
        BY <1>3, <1>4, <1>5, <2>1, <2>3, <2>6, <2>7
    <2>9. Explained(e, more)
        BY <2>5, <2>6, <2>8 DEF Explained
    <2> QED BY <2>9 DEF e
<1> QED BY <1>2, <1>6, <1>7, <1>8

\* The programs of a lost packet: no more of them than it has TS packets.
LEMMA ProgramsOf ==
    ASSUME NEW n \in Packet
    PROVE  LET pids == {payloadOf(n)[i].pid : i \in 1 .. Len(payloadOf(n))}
           IN  /\ pids \in SUBSET Pid /\ IsFiniteSet(pids)
               /\ Cardinality(pids) <= TsPerPacket
<1> DEFINE s == payloadOf(n)
           L == Len(s)
           pids == {s[i].pid : i \in 1 .. L}
           f == [i \in 1 .. L |-> s[i].pid]
<1>1. /\ s \in Seq(Diagnostics!TsPacket) /\ L \in Nat /\ L <= TsPerPacket
      /\ TsPerPacket \in Nat
    BY PayloadAssumption
<1>2. \A i \in 1 .. L : s[i].pid \in Pid
    <2>1. ASSUME NEW i \in 1 .. L PROVE s[i].pid \in Pid
        <3>1. s[i] \in Diagnostics!TsPacket
            BY <1>1
        <3> QED BY <3>1 DEF Diagnostics!TsPacket
    <2> QED BY <2>1
<1>3. IsFiniteSet(1 .. L) /\ Cardinality(1 .. L) = L
    <2> HIDE DEF L
    <2>1. 1 \in Int /\ L \in Int
        BY <1>1
    <2>2. IsFiniteSet(1 .. L) /\ Cardinality(1 .. L) = IF 1 > L THEN 0 ELSE L - 1 + 1
        BY <2>1, FS_Interval
    <2> QED BY <1>1, <2>2
<1>4. f \in Surjection(1 .. L, pids)
    <2> HIDE DEF s, L
    <2> QED BY DEF Surjection
<1> HIDE DEF f, L
<1>5. IsFiniteSet(pids) /\ Cardinality(pids) <= Cardinality(1 .. L)
    <2> HIDE DEF pids
    <2> QED BY <1>3, <1>4, FS_Surjection
<1>6. Cardinality(pids) <= TsPerPacket
    <2>1. Cardinality(pids) \in Nat
        BY <1>5, FS_CardinalityType
    <2> HIDE DEF pids
    <2> QED BY <1>1, <1>3, <1>5, <2>1
<1>7. pids \in SUBSET Pid
    BY <1>2
<1> QED BY <1>5, <1>6, <1>7 DEF L

\* One RTP packet lost makes at most the programs in it stale.
LEMMA OneLost ==
    ASSUME NEW d \in Counters, NEW e \in Counters, NEW last \in Int,
           Explained(d, Places(last)), SameTs(e, d),
           e.rtpMissingCount = d.rtpMissingCount + 1
    PROVE  Explained(e, Places(last + 1))
<1> DEFINE n == last + 1
           s == payloadOf(n)
           pids == IF n \in Packet THEN {s[i].pid : i \in 1 .. Len(s)} ELSE {}
           x == TsPerPacket * d.rtpMissingCount
<1>1. Credit(e) = Credit(d) + TsPerPacket /\ TsPerPacket \in Int /\ TsPerPacket >= 0
    <2>1. TsPerPacket \in Nat /\ d.rtpMissingCount \in Int /\ d.tsSyncLossCount \in Int
        BY CreditProps, PayloadAssumption
    <2>2. x \in Int /\ TsPerPacket * (d.rtpMissingCount + 1) = x + TsPerPacket
        BY <2>1
    <2>3. Credit(e) = TsPerPacket * (d.rtpMissingCount + 1) + d.tsSyncLossCount
        BY DEF Credit, SameTs
    <2>4. Credit(d) = x + d.tsSyncLossCount
        BY DEF Credit
    <2> HIDE DEF x
    <2> QED BY <2>1, <2>2, <2>3, <2>4
<1>2. pids \in SUBSET Pid /\ IsFiniteSet(pids) /\ Cardinality(pids) <= TsPerPacket
    <2>1. CASE n \in Packet
        BY <2>1, ProgramsOf
    <2>2. CASE n \notin Packet
        BY <1>1, <2>2, FS_EmptySet
    <2> QED BY <2>1, <2>2
<1>3. Places(last) \subseteq Places(n)
    <2>1. ASSUME NEW p \in TsPlace, p[1] <= last PROVE p[1] <= n
        BY <2>1, PlaceProps
    <2> QED BY <2>1 DEF Places
<1>4. ASSUME NEW j \in Places(n), j \notin Places(last) PROVE TsAt(j).pid \in pids
    <2>1. /\ j \in TsPlace /\ j[1] <= n /\ ~(j[1] <= last) /\ j[1] \in Nat /\ j[1] \in Packet
          /\ j[2] \in 1 .. Len(payloadOf(j[1]))
        BY <1>4, PlaceProps DEF Places
    <2>2. j[1] = n
        BY <2>1
    <2> HIDE DEF n
    <2> QED BY <2>1, <2>2 DEF TsAt
<1> HIDE DEF n, pids
<1>5. e.tsContinuityErr = d.tsContinuityErr /\ e.expectedByPID = d.expectedByPID
    BY DEF SameTs
<1>6. Explained(e, Places(n))
    BY <1>1, <1>2, <1>3, <1>4, <1>5, PlacesLost
<1> QED BY <1>6 DEF n

\* RTP packets that were skipped and counted as missing.
LEMMA ManyLost ==
    ASSUME NEW d \in Counters, NEW e \in Counters, NEW last \in Int,
           NEW k \in Nat, Explained(d, Places(last)), SameTs(e, d),
           e.rtpMissingCount = d.rtpMissingCount + k
    PROVE  Explained(e, Places(last + k))
<1> DEFINE lose(i) == [d EXCEPT !.rtpMissingCount = d.rtpMissingCount + i]
           good == {i \in 0 .. k : Explained(lose(i), Places(last + i))}
<1>1. ASSUME NEW i \in Int
      PROVE  /\ lose(i) \in Counters /\ SameTs(lose(i), d)
             /\ lose(i).rtpMissingCount = d.rtpMissingCount + i
    <2>1. d.rtpMissingCount + i \in Int
        BY DEF Counters
    <2> QED BY <2>1 DEF Counters, SameTs
<1>2. d.rtpMissingCount \in Int
    BY DEF Counters
<1> HIDE DEF lose
<1>3. 0 \in good
    <2>1. SameTs(lose(0), d) /\ lose(0).rtpMissingCount = d.rtpMissingCount
        BY <1>1, <1>2
    <2>2. Explained(lose(0), Places(last))
        BY <2>1 DEF Explained, SameTs, Credit
    <2> QED BY <2>2
<1>4. ASSUME NEW i \in 0 .. k - 1, i \in good PROVE i + 1 \in good
    <2>1. /\ i \in Int /\ i + 1 \in Int /\ i + 1 \in 0 .. k /\ last + i \in Int
          /\ (last + i) + 1 = last + (i + 1)
        OBVIOUS
    <2> DEFINE a == lose(i)
               b == lose(i + 1)
    <2>2. /\ a \in Counters /\ SameTs(a, d) /\ a.rtpMissingCount = d.rtpMissingCount + i
          /\ b \in Counters /\ SameTs(b, d)
          /\ b.rtpMissingCount = d.rtpMissingCount + (i + 1)
        BY <1>1, <2>1
    <2>3. Explained(a, Places(last + i))
        BY <1>4
    <2> HIDE DEF a, b
    <2>4. SameTs(b, a) /\ b.rtpMissingCount = a.rtpMissingCount + 1
        BY <1>2, <2>1, <2>2 DEF SameTs
    <2>5. Explained(b, Places((last + i) + 1))
        BY <2>1, <2>2, <2>3, <2>4, OneLost
    <2> QED BY <2>1, <2>5 DEF b
<1> HIDE DEF good
<1>5. k \in good
    <2>1. \A i \in 0 .. k : i \in good
        BY <1>3, <1>4, UptoInduction, Zenon
    <2> QED BY <2>1
<1>6. Explained(lose(k), Places(last + k))
    BY <1>5 DEF good
<1>7. SameTs(lose(k), d) /\ lose(k).rtpMissingCount = d.rtpMissingCount + k
    BY <1>1
<1> QED BY <1>6, <1>7 DEF Explained, SameTs, Credit

\* The next TS packet of an RTP packet is right behind the places passed.
LEMMA NextPlace ==
    ASSUME NEW n \in Packet, NEW i \in Nat, i + 1 \in 1 .. Len(payloadOf(n))
    PROVE  LET q == <<n, i + 1>>
           IN  /\ q \in TsPlace /\ ~Before(q, q)
               /\ Within(n, i) \subseteq TsPlace
               /\ Within(n, i + 1) = Within(n, i) \union {q}
               /\ \A j \in Within(n, i) : Before(j, q)
               /\ \A j \in TsPlace : Before(j, q) => j \in Within(n, i)
<1> DEFINE q == <<n, i + 1>>
<1>1. q \in TsPlace
    BY PlaceOf
<1>2. n \in Nat /\ q[1] = n /\ q[2] = i + 1
    BY PositionsNatural
<1> HIDE DEF q
<1>3. ~Before(q, q)
    BY <1>2 DEF Before
<1>4. ASSUME NEW j \in TsPlace
      PROVE  /\ Before(j, q) <=> j \in Within(n, i)
             /\ j \in Within(n, i + 1) <=> j \in Within(n, i) \/ j = q
    <2>1. j[1] \in Nat /\ j[2] \in Nat /\ j = <<j[1], j[2]>>
        BY PlaceProps
    <2>2. Before(j, q) <=> j \in Within(n, i)
        BY <1>2, <2>1 DEF Before, Within
    <2>3. j = q <=> j[1] = n /\ j[2] = i + 1
        BY <1>2, <2>1 DEF q
    <2>4. j \in Within(n, i + 1) <=> j \in Within(n, i) \/ (j[1] = n /\ j[2] = i + 1)
        BY <2>1 DEF Within
    <2> QED BY <2>2, <2>3, <2>4
<1>5. Within(n, i) \subseteq TsPlace /\ Within(n, i + 1) \subseteq TsPlace
    BY DEF Within
<1> QED BY <1>1, <1>3, <1>4, <1>5 DEF q

\* The loop over the TS packets of an RTP packet.
LEMMA PayloadExplained ==
    ASSUME SenderCounts, NEW d \in Counters, NEW m \in Packet,
           Explained(d, Places(m - 1))
    PROVE  Explained(Diagnostics!recordTsPayload(d, payloadOf(m)), Places(m))
<1> DEFINE s == payloadOf(m)
           n == Len(s)
           after[i \in 0 .. n] ==
              IF i = 0 THEN d ELSE Diagnostics!recordTsPacket(after[i - 1], s[i])
           G == [x \in Counters \X (1 .. n) |-> Diagnostics!recordTsPacket(x[1], s[x[2]])]
           good == {i \in 0 .. n : after[i] \in Counters /\ Explained(after[i], Within(m, i))}
<1>1. n \in Nat /\ \A i \in 1 .. n : s[i] \in Diagnostics!TsPacket
    <2>1. s \in Seq(Diagnostics!TsPacket)
        BY PayloadAssumption
    <2> QED BY <2>1
<1>2. G \in [Counters \X (1 .. n) -> Counters]
    <2> SUFFICES ASSUME NEW x \in Counters \X (1 .. n)
                 PROVE  Diagnostics!recordTsPacket(x[1], s[x[2]]) \in Counters
        OBVIOUS
    <2>1. x[1] \in Counters /\ s[x[2]] \in Diagnostics!TsPacket
        BY <1>1
    <2> QED BY <2>1, TsPacketCounted
<1>3. PICK h \in [0 .. n -> Counters] :
          h[0] = d /\ \A i \in 1 .. n : h[i] = G[<<h[i - 1], i>>]
    <2> HIDE DEF n, G
    <2>1. n \in Nat
        BY <1>1
    <2> QED BY <1>2, <2>1, RecursionExists, Zenon
<1>4. h = [i \in 0 .. n |-> IF i = 0 THEN d
                           ELSE Diagnostics!recordTsPacket(h[i - 1], s[i])]
    <2>1. ASSUME NEW i \in 0 .. n, i # 0
          PROVE  h[i] = Diagnostics!recordTsPacket(h[i - 1], s[i])
        <3>1. i - 1 \in 0 .. n /\ i \in 1 .. n
            BY <1>1, <2>1
        <3>2. h[i - 1] \in Counters /\ h[i] = G[<<h[i - 1], i>>]
            BY <1>3, <3>1
        <3> QED BY <3>1, <3>2
    <2> HIDE DEF G
    <2> QED BY <1>3, <2>1
<1>5. after = [i \in 0 .. n |-> IF i = 0 THEN d
                               ELSE Diagnostics!recordTsPacket(after[i - 1], s[i])]
    BY <1>4
<1>6. Diagnostics!recordTsPayload(d, s) = after[n]
    BY DEF Diagnostics!recordTsPayload
<1> HIDE DEF after
<1>7. 0 \in good
    <2>1. after[0] = d
        BY <1>1, <1>5
    <2>2. Within(m, 0) = Places(m - 1)
        BY WithinPacket
    <2> QED BY <1>1, <2>1, <2>2
<1>8. ASSUME NEW i \in 0 .. n - 1, i \in good PROVE i + 1 \in good
    <2> DEFINE q == <<m, i + 1>>
    <2>1. /\ i + 1 \in 0 .. n /\ i + 1 # 0 /\ (i + 1) - 1 = i /\ i + 1 \in 1 .. n
          /\ i \in Nat
        BY <1>1
    <2>2. after[i + 1] = Diagnostics!recordTsPacket(after[i], s[i + 1])
        <3> HIDE DEF n
        <3> QED BY <1>5, <2>1
    <2>3. after[i] \in Counters /\ Explained(after[i], Within(m, i))
        BY <1>8
    <2>4. after[i + 1] \in Counters
        BY <1>1, <2>1, <2>2, <2>3, TsPacketCounted
    <2>5. TsAt(q) = s[i + 1]
        BY <2>1, PlaceOf
    <2>6. /\ q \in TsPlace /\ ~Before(q, q)
          /\ Within(m, i) \subseteq TsPlace
          /\ Within(m, i + 1) = Within(m, i) \union {q}
          /\ \A j \in Within(m, i) : Before(j, q)
          /\ \A j \in TsPlace : Before(j, q) => j \in Within(m, i)
        BY <2>1, NextPlace
    <2> HIDE DEF q, s, n
    <2>7. Explained(Diagnostics!recordTsPacket(after[i], TsAt(q)), Within(m, i + 1))
        BY <2>3, <2>6, OneHandedOn
    <2>8. Explained(after[i + 1], Within(m, i + 1))
        BY <2>2, <2>5, <2>7
    <2> QED BY <2>1, <2>4, <2>8
<1> HIDE DEF good
<1>9. n \in good
    <2>1. \A i \in 0 .. n : i \in good
        <3> HIDE DEF n
        <3>1. n \in Nat /\ \A i \in 0 .. n - 1 : i \in good => i + 1 \in good
            BY <1>1, <1>8
        <3> QED BY <1>7, <3>1, UptoInduction, Zenon
    <2> QED BY <1>1, <2>1
<1>10. Within(m, n) = Places(m)
    BY WithinPacket
<1>11. Explained(after[n], Within(m, n))
    BY <1>9 DEF good
<1> QED BY <1>6, <1>10, <1>11

\* A packet that leads the last one recorded by at most half a round.
LEMMA PacketExplained ==
    ASSUME SenderCounts, NEW d \in Counters, NEW n \in Packet, NEW last \in Nat,
           d.lastRtpSeq = seqOf(last), last < n, n <= last + HalfSpace,
           Explained(d, Places(last))
    PROVE  Explained(Diagnostics!recordPacket(d, parseRtpSequence(n), payloadOf(n)), Places(n))
<1> DEFINE r == Diagnostics!recordRtpPacket(d, parseRtpSequence(n))
<1>1. /\ r \in Counters
      /\ r.rtpMissingCount = d.rtpMissingCount + (n - last - 1)
      /\ SameTs(r, d)
    BY RtpCounted
<1>2. Diagnostics!recordPacket(d, parseRtpSequence(n), payloadOf(n))
        = Diagnostics!recordTsPayload(r, payloadOf(n))
    BY DEF Diagnostics!recordPacket
<1> HIDE DEF r
<1>3. n - last - 1 \in Nat /\ last + (n - last - 1) = n - 1 /\ last \in Int
    BY PositionsNatural
<1>4. Explained(r, Places(last + (n - last - 1)))
    BY <1>1, <1>3, ManyLost
<1>5. Explained(r, Places(n - 1))
    BY <1>3, <1>4
<1>6. Explained(Diagnostics!recordTsPayload(r, payloadOf(n)), Places(n))
    BY <1>1, <1>5, PayloadExplained
<1> QED BY <1>2, <1>6

\* Before the first packet of all no number is expected of any program.
Untouched(d) == \A p \in Pid : d.expectedByPID[p] = -1

LEMMA UntouchedExplained ==
    ASSUME NEW d \in Counters, NEW passed, Untouched(d), d.tsContinuityErr <= Credit(d)
    PROVE  Explained(d, passed)
<1>1. IsFiniteSet({}) /\ Cardinality({}) = 0 /\ {} \in SUBSET Pid
    BY FS_EmptySet
<1>2. \A p \in Pid \ {} : Fresh(p, passed, d.expectedByPID[p])
    BY DEF Untouched, Fresh
<1>3. d.tsContinuityErr + Cardinality({}) <= Credit(d)
    BY <1>1, CreditProps
<1> QED BY <1>1, <1>2, <1>3 DEF Explained

LEMMA FirstExplained ==
    ASSUME SenderCounts, NEW d \in Counters, NEW n \in Packet, d.lastRtpSeq = -1,
           Untouched(d), d.tsContinuityErr <= Credit(d)
    PROVE  Explained(Diagnostics!recordPacket(d, parseRtpSequence(n), payloadOf(n)), Places(n))
<1> DEFINE r == Diagnostics!recordRtpPacket(d, parseRtpSequence(n))
<1>1. r \in Counters /\ r.rtpMissingCount = d.rtpMissingCount /\ SameTs(r, d)
    BY FirstRtpCounted
<1>2. Diagnostics!recordPacket(d, parseRtpSequence(n), payloadOf(n))
        = Diagnostics!recordTsPayload(r, payloadOf(n))
    BY DEF Diagnostics!recordPacket
<1> HIDE DEF r
<1>3. Explained(r, Places(n - 1))
    <2>1. Untouched(r) /\ r.tsContinuityErr <= Credit(r)
        BY <1>1 DEF SameTs, Untouched, Credit
    <2> QED BY <1>1, <2>1, UntouchedExplained
<1>4. Explained(Diagnostics!recordTsPayload(r, payloadOf(n)), Places(n))
    BY <1>1, <1>3, PayloadExplained
<1> QED BY <1>2, <1>4

\* A run of packets keeps the errors explained.
LEMMA RunExplained ==
    ASSUME SenderCounts, NEW d \in Counters, NEW last \in Int, last >= -1,
           d.lastRtpSeq = IF last = -1 THEN -1 ELSE seqOf(last),
           NEW f \in Nat, NEW run \in Nat,
           run # 0 => last < f /\ f <= last + HalfSpace,
           NEW batch \in Seq(Packet), IsRun(batch, f, run),
           Explained(d, Places(last)), last = -1 => Untouched(d)
    PROVE  Explained(recordBatch(d, batch), Places(IF run = 0 THEN last ELSE f + run - 1))
<1> DEFINE record(e, p) == Diagnostics!recordPacket(e, parseRtpSequence(p), payloadOf(p))
           n == Len(batch)
           upTo(i) == IF i = 0 THEN last ELSE f + i - 1
<1>1. n = run /\ \A i \in 1 .. n : batch[i] \in Packet /\ batch[i] = f + i - 1
    BY DEF IsRun
<1>2. PICK after :
         /\ recordBatch(d, batch) = after[n]
         /\ after[0] = d
         /\ \A i \in 1 .. n : after[i] = record(after[i - 1], batch[i])
    BY BatchLoop
<1> DEFINE good == {i \in 0 .. n : /\ Counted(after[i], d, last, f, i)
                                   /\ Explained(after[i], Places(upTo(i)))}
<1>3. 0 \in good
    <2>1. after[0] = d
        BY <1>2
    <2>2. d.rtpPacketCount \in Int /\ d.rtpMissingCount \in Int
        BY DEF Counters
    <2>3. Counted(after[0], d, last, f, 0)
        BY <2>1, <2>2 DEF Counted
    <2>4. Explained(after[0], Places(upTo(0)))
        BY <2>1
    <2> QED BY <1>1, <2>3, <2>4
<1>4. ASSUME NEW i \in 0 .. n - 1, i \in good PROVE i + 1 \in good
    <2> DEFINE e == after[i]
               p == f + i
    <2>1. /\ i + 1 \in 0 .. n /\ i + 1 # 0 /\ (i + 1) - 1 = i /\ i + 1 \in 1 .. n
          /\ i \in Nat /\ run # 0 /\ f + (i + 1) - 1 = p
        BY <1>1
    <2>2. batch[i + 1] = p /\ p \in Packet
        BY <1>1, <2>1
    <2>3. after[i + 1] = record(e, p)
        BY <1>2, <2>1, <2>2
    <2>4. Counted(e, d, last, f, i) /\ Explained(e, Places(upTo(i)))
        BY <1>4
    <2>5. Counted(record(e, f + i), d, last, f, i + 1)
        <3> HIDE DEF n, e, upTo
        <3> QED BY <2>1, <2>2, <2>4, RunGrows
    <2>6. e \in Counters /\ e.lastRtpSeq = IF i = 0 THEN d.lastRtpSeq ELSE seqOf(f + i - 1)
        BY <2>4 DEF Counted
    <2>7. HalfSpace \in Nat /\ HalfSpace > 0
        BY SpaceProps
    <2>8. CASE i = 0 /\ last = -1
        <3>1. e = d /\ Explained(d, Places(last))
            BY <1>2, <2>8
        <3>2. e.lastRtpSeq = -1 /\ Untouched(e) /\ e.tsContinuityErr <= Credit(e)
            BY <2>8, <3>1, ExplainedErrors
        <3> HIDE DEF e, p
        <3>3. Explained(record(e, p), Places(p))
            BY <2>2, <2>6, <3>2, FirstExplained
        <3> HIDE DEF record, n
        <3> QED BY <2>1, <2>3, <2>5, <3>3 DEF p
    <2>9. CASE ~(i = 0 /\ last = -1)
        <3> DEFINE q == upTo(i)
        <3>1. q \in Nat /\ e.lastRtpSeq = seqOf(q) /\ q < p /\ q <= p /\ p <= q + HalfSpace
            <4>1. CASE i = 0
                BY <2>1, <2>6, <2>7, <2>9, <4>1
            <4>2. CASE i # 0
                BY <2>1, <2>6, <2>7, <4>2
            <4> QED BY <4>1, <4>2
        <3> HIDE DEF e, p, q
        <3>2. Explained(e, Places(q))
            BY <2>4 DEF q
        <3>3. Explained(record(e, p), Places(p))
            BY <2>2, <2>6, <3>1, <3>2, PacketExplained
        <3> HIDE DEF record, n
        <3> QED BY <2>1, <2>3, <2>5, <3>3 DEF p
    <2> QED BY <2>8, <2>9
<1> HIDE DEF good
<1>5. n \in good
    <2>1. \A i \in 0 .. n : i \in good
        <3> HIDE DEF n
        <3>1. n \in Nat /\ \A i \in 0 .. n - 1 : i \in good => i + 1 \in good
            BY <1>1, <1>4
        <3> QED BY <1>3, <3>1, UptoInduction, Zenon
    <2> QED BY <1>1, <2>1
<1> QED BY <1>1, <1>2, <1>5 DEF good

\* Every error so far has its cause among the packets up to the last one
\* handed on, and so has every program whose next packet may still count as one.
ContinuityInv ==
    /\ Explained(diagnostics, Places(LastOf(delivered)))
    /\ delivered = <<>> => Untouched(diagnostics)

LEMMA ContinuityStart == StreamInit => ContinuityInv
<1> SUFFICES ASSUME StreamInit PROVE ContinuityInv
    OBVIOUS
<1>1. diagnostics = Diagnostics!createRelayDiagnostics
    BY DEF StreamInit
<1>2. diagnostics \in Counters
    BY LossStart DEF LossInv
<1>3. Untouched(diagnostics)
    BY <1>1 DEF Diagnostics!createRelayDiagnostics, Diagnostics!Unset, Untouched
<1>4. diagnostics.tsContinuityErr <= Credit(diagnostics)
    <2>1. /\ diagnostics.tsContinuityErr = 0 /\ diagnostics.rtpMissingCount = 0
          /\ diagnostics.tsSyncLossCount = 0
        BY <1>1 DEF Diagnostics!createRelayDiagnostics
    <2>2. TsPerPacket * 0 = 0
        BY PayloadAssumption
    <2> QED BY <2>1, <2>2 DEF Credit
<1> QED BY <1>2, <1>3, <1>4, UntouchedExplained DEF ContinuityInv

\* A step that hands on a run, possibly an empty one.
LEMMA RunKeepsContinuity ==
    ASSUME SenderCounts, StreamInv, LossInv, ContinuityInv,
           NEW n, NEW pend, NEW f, NEW run, StreamStep(n, pend, f, run),
           diagnostics' = recordBatch(diagnostics, emitted')
    PROVE  ContinuityInv'
<1> DEFINE last == LastOf(delivered)
<1>1. /\ f \in Nat /\ run \in Nat /\ emitted' \in Seq(Packet)
      /\ IsRun(emitted', f, run)
      /\ run # 0 => last < f /\ f <= last + HalfSpace
      /\ delivered' = delivered \o emitted'
      /\ run = 0 => delivered' = delivered
    BY RunHandedOn
<1>2. /\ delivered \in Seq(Packet) /\ last \in Int /\ last >= -1
      /\ last = -1 <=> delivered = <<>>
    BY LastOfStream
<1>3. /\ diagnostics \in Counters
      /\ diagnostics.lastRtpSeq = IF last = -1 THEN -1 ELSE seqOf(last)
    BY <1>2 DEF LossInv
<1>4. Explained(diagnostics, Places(last)) /\ (last = -1 => Untouched(diagnostics))
    BY <1>2 DEF ContinuityInv
<1> HIDE DEF last
<1>5. Explained(diagnostics', Places(IF run = 0 THEN last ELSE f + run - 1))
    BY <1>1, <1>2, <1>3, <1>4, RunExplained
<1>6. CASE run = 0
    <2>1. delivered' = delivered
        BY <1>1, <1>6
    <2>2. diagnostics'.expectedByPID = diagnostics.expectedByPID
        BY <1>1, <1>3, <1>6, EmptyBatch
    <2> QED BY <1>5, <1>6, <2>1, <2>2 DEF ContinuityInv, Untouched, last
<1>7. CASE run # 0
    <2>1. delivered' # <<>> /\ LastOf(delivered') = f + run - 1
        BY <1>1, <1>2, <1>7, RunDelivered DEF LastOf
    <2> QED BY <1>5, <1>7, <2>1 DEF ContinuityInv
<1> QED BY <1>6, <1>7

LEMMA ContinuityStep ==
    ASSUME SenderCounts, StreamInv, LossInv, ContinuityInv, [StreamNext]_streamVars
    PROVE  ContinuityInv'
<1>1. CASE UNCHANGED streamVars
    BY <1>1 DEF streamVars, ContinuityInv
<1>2. CASE StreamNext
    <2>1. /\ delivered' = delivered \o emitted'
          /\ diagnostics' = recordBatch(diagnostics, emitted')
        BY <1>2 DEF StreamNext, Receive, BufferStep, Record
    <2>2. CASE NoStreamStep
        <3>1. emitted' = <<>> /\ delivered' = delivered
            BY <1>2, <2>1, <2>2, NothingEmitted
        <3>2. diagnostics' = diagnostics
            BY <2>1, <3>1, NothingRecorded
        <3> QED BY <3>1, <3>2 DEF ContinuityInv
    <2>3. ASSUME NEW n \in Packet, NEW pend, NEW f, NEW run,
                 StreamStep(n, pend, f, run)
          PROVE  ContinuityInv'
        BY <2>1, <2>3, RunKeepsContinuity
    <2> QED BY <1>2, <2>2, <2>3, StepKindsOfStream
<1> QED BY <1>1, <1>2

\* If the sender keeps its counters, a continuity error that recordTsPayload
\* counts is the trace of a packet that was lost or came damaged: at most one for
\* each damaged TS packet, and TsPerPacket for each lost RTP packet.  Neither
\* reordering nor the skipping of a gap, stuffing, null packets or announced
\* discontinuities make it count one, however many TS packets a packet has.
THEOREM ErrorsAreExplained ==
    ASSUME SenderCounts
    PROVE  StreamSpec => []ContinuityErrorsExplained
<1>1. StreamInit => ContinuityInv
    BY ContinuityStart
<1>2. StreamInv /\ LossInv /\ ContinuityInv /\ [StreamNext]_streamVars => ContinuityInv'
    BY ContinuityStep
<1>3. LossInv /\ ContinuityInv => ContinuityErrorsExplained
    BY ExplainedErrors DEF LossInv, ContinuityInv, ContinuityErrorsExplained, Credit
<1> QED BY <1>1, <1>2, <1>3, StreamStart, StreamInvStep, LossStart, LossStep, PTL
        DEF StreamSpec
=============================================================================
