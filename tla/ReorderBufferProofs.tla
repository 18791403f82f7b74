------------------------ MODULE ReorderBufferProofs ------------------------
(***************************************************************************)
(* Proofs about ReorderBuffer, for every sequence space, buffer size, set  *)
(* of packets and set of timers.  First the circular arithmetic, then what *)
(* the flush operators do to the contents, then the inductive invariant.   *)
(***************************************************************************)
EXTENDS ReorderBuffer, TLAPS, FiniteSetTheorems, WellFoundedInduction

-----------------------------------------------------------------------------
(* Circular arithmetic.                                                    *)

\* Every non-empty set of natural numbers has a least element.
LEMMA LeastNatural ==
    ASSUME NEW T, T \subseteq Nat, T # {}
    PROVE  \E x \in T : \A y \in T : x <= y
<1> DEFINE R == {ss \in Nat \X Nat : ss[1] < ss[2]}
<1>1. IsWellFoundedOn(R, Nat)
    BY NatLessThanWellFounded DEF OpToRel
<1>2. \E x \in T : \A y \in T : ~ (<<y, x>> \in R)
    <2> HIDE DEF R
    <2> QED BY <1>1, WFMin
<1>3. PICK x \in T : \A y \in T : ~ (<<y, x>> \in R)
    BY <1>2
<1>4. ASSUME NEW y \in T PROVE x <= y
    <2>1. ~(<<y, x>> \in R) BY <1>3
    <2>2. <<y, x>> \in Nat \X Nat OBVIOUS
    <2>3. ~(y < x) BY <2>1, <2>2
    <2> QED BY <2>3
<1> QED BY <1>4

\* The size of the circle, and what it takes for a number to be on it.
LEMMA SpaceProps ==
    /\ HalfSpace \in Nat /\ HalfSpace > 0
    /\ SeqSpace \in Nat /\ SeqSpace = HalfSpace + HalfSpace
    /\ \A s \in Seq16 : s \in Int /\ 0 <= s /\ s < SeqSpace
    /\ \A s \in Int : 0 <= s /\ s < SeqSpace => s \in Seq16
    /\ NoSeq \notin Seq16
BY HalfSpaceAssumption DEF SeqSpace, Seq16, NoSeq

\* sequenceDistance without the modulus.
LEMMA DistanceValue ==
    ASSUME NEW a \in Seq16, NEW b \in Seq16
    PROVE  /\ sequenceDistance(a, b) = IF a <= b THEN b - a ELSE b - a + SeqSpace
           /\ sequenceDistance(a, b) \in Nat
           /\ sequenceDistance(a, b) < SeqSpace
<1> USE SpaceProps
<1>1. CASE a <= b
    <2>1. b - a + SeqSpace = 1 * SeqSpace + (b - a) /\ b - a \in 0 .. SeqSpace - 1
        BY <1>1
    <2>2. (b - a + SeqSpace) % SeqSpace = b - a
        BY <2>1
    <2> QED BY <1>1, <2>1, <2>2 DEF sequenceDistance
<1>2. CASE a > b
    <2>1. b - a + SeqSpace \in 0 .. SeqSpace - 1
        BY <1>2
    <2>2. (b - a + SeqSpace) % SeqSpace = b - a + SeqSpace
        BY <2>1
    <2> QED BY <1>2, <2>1, <2>2 DEF sequenceDistance
<1> QED BY <1>1, <1>2

\* uint16 addition without the modulus.
LEMMA PlusValue ==
    ASSUME NEW a \in Seq16, NEW n \in Nat, n <= SeqSpace
    PROVE  /\ Plus(a, n) \in Seq16
           /\ Plus(a, n) = IF a + n < SeqSpace THEN a + n ELSE a + n - SeqSpace
<1> USE SpaceProps
<1>1. CASE a + n < SeqSpace
    BY <1>1 DEF Plus
<1>2. CASE a + n >= SeqSpace
    <2>1. a + n = 1 * SeqSpace + (a + n - SeqSpace)
          /\ a + n - SeqSpace \in 0 .. SeqSpace - 1
        BY <1>2
    <2>2. (a + n) % SeqSpace = a + n - SeqSpace
        BY <2>1
    <2> QED BY <1>2, <2>1, <2>2 DEF Plus
<1> QED BY <1>1, <1>2

\* The distance from one number identifies the other.
LEMMA DistanceInjective ==
    ASSUME NEW a \in Seq16, NEW b \in Seq16, NEW c \in Seq16,
           sequenceDistance(a, b) = sequenceDistance(a, c)
    PROVE  b = c
<1>1. sequenceDistance(a, b) = IF a <= b THEN b - a ELSE b - a + SeqSpace
    BY DistanceValue
<1>2. sequenceDistance(a, c) = IF a <= c THEN c - a ELSE c - a + SeqSpace
    BY DistanceValue
<1>3. /\ a \in Int /\ 0 <= a /\ a < SeqSpace
      /\ b \in Int /\ 0 <= b /\ b < SeqSpace
      /\ c \in Int /\ 0 <= c /\ c < SeqSpace
      /\ SeqSpace \in Nat
    BY SpaceProps
<1>4. CASE a <= b /\ a <= c
    <2>1. b - a = c - a BY <1>1, <1>2, <1>4
    <2> QED BY <2>1, <1>3
<1>5. CASE a <= b /\ ~(a <= c)
    <2>1. b - a = c - a + SeqSpace BY <1>1, <1>2, <1>5
    <2> QED BY <2>1, <1>3, <1>5
<1>6. CASE ~(a <= b) /\ a <= c
    <2>1. b - a + SeqSpace = c - a BY <1>1, <1>2, <1>6
    <2> QED BY <2>1, <1>3, <1>6
<1>7. CASE ~(a <= b) /\ ~(a <= c)
    <2>1. b - a + SeqSpace = c - a + SeqSpace BY <1>1, <1>2, <1>7
    <2> QED BY <2>1, <1>3
<1> QED BY <1>4, <1>5, <1>6, <1>7

\* Going n up from a number leads to the one at distance n.
LEMMA DistanceOfPlus ==
    ASSUME NEW a \in Seq16, NEW n \in Nat, n < SeqSpace
    PROVE  Plus(a, n) \in Seq16 /\ sequenceDistance(a, Plus(a, n)) = n
<1>1. Plus(a, n) \in Seq16 BY PlusValue, SpaceProps
<1>2. sequenceDistance(a, Plus(a, n)) =
        IF a <= Plus(a, n) THEN Plus(a, n) - a ELSE Plus(a, n) - a + SeqSpace
    BY <1>1, DistanceValue
<1>3. Plus(a, n) = IF a + n < SeqSpace THEN a + n ELSE a + n - SeqSpace
    BY PlusValue, SpaceProps
<1> QED BY <1>1, <1>2, <1>3, SpaceProps

\* Moving the origin up to b shortens the distance to everything beyond b.
LEMMA DistanceShift ==
    ASSUME NEW a \in Seq16, NEW b \in Seq16, NEW c \in Seq16,
           sequenceDistance(a, b) <= sequenceDistance(a, c)
    PROVE  sequenceDistance(b, c) = sequenceDistance(a, c) - sequenceDistance(a, b)
<1>1. sequenceDistance(a, b) = IF a <= b THEN b - a ELSE b - a + SeqSpace
    BY DistanceValue
<1>2. sequenceDistance(a, c) = IF a <= c THEN c - a ELSE c - a + SeqSpace
    BY DistanceValue
<1>3. sequenceDistance(b, c) = IF b <= c THEN c - b ELSE c - b + SeqSpace
    BY DistanceValue
<1> QED BY <1>1, <1>2, <1>3, SpaceProps

\* Closest picks a member of the set that no other member precedes.
LEMMA ClosestProps ==
    ASSUME NEW from \in Seq16, NEW S \in SUBSET Seq16, S # {}
    PROVE  /\ Closest(from, S) \in S
           /\ \A t \in S : sequenceDistance(from, Closest(from, S))
                             <= sequenceDistance(from, t)
<1> DEFINE D == {sequenceDistance(from, s) : s \in S}
<1>1. D \subseteq Nat /\ D # {}
    BY DistanceValue
<1>2. PICK d \in D : \A e \in D : d <= e
    <2> HIDE DEF D
    <2> QED BY <1>1, LeastNatural
<1>3. \E s \in S : \A t \in S :
          sequenceDistance(from, s) <= sequenceDistance(from, t)
    BY <1>2
<1> QED BY <1>3 DEF Closest

\* Adding in two steps.
LEMMA PlusOne ==
    ASSUME NEW a \in Seq16, NEW n \in Nat, n < SeqSpace
    PROVE  Plus(Plus(a, n), 1) = Plus(a, n + 1)
<1>1. 1 <= SeqSpace BY SpaceProps
<1>2. /\ Plus(a, n) \in Seq16
      /\ Plus(a, n) = IF a + n < SeqSpace THEN a + n ELSE a + n - SeqSpace
    <2>1. n <= SeqSpace BY SpaceProps
    <2> QED BY <2>1, PlusValue
<1>3. Plus(a, n + 1) = IF a + (n + 1) < SeqSpace THEN a + (n + 1)
                       ELSE a + (n + 1) - SeqSpace
    <2>1. n + 1 \in Nat /\ n + 1 <= SeqSpace BY SpaceProps
    <2> QED BY <2>1, PlusValue
<1>4. Plus(Plus(a, n), 1) = IF Plus(a, n) + 1 < SeqSpace THEN Plus(a, n) + 1
                            ELSE Plus(a, n) + 1 - SeqSpace
    BY <1>1, <1>2, PlusValue
<1>5. a \in Int /\ 0 <= a /\ a < SeqSpace /\ SeqSpace \in Nat
    BY SpaceProps
<1>6. CASE a + n < SeqSpace
    BY <1>2, <1>3, <1>4, <1>5, <1>6
<1>7. CASE ~(a + n < SeqSpace)
    BY <1>2, <1>3, <1>4, <1>5, <1>7
<1> QED BY <1>6, <1>7

-----------------------------------------------------------------------------
(* What the flush operators do to the contents.                            *)

PendingMap == [Seq16 -> Packet \union {NoPacket}]

\* Every buffered packet is filed under its own sequence number.
Filed(pend) == \A s \in Keys(pend) : parseRtpSequence(pend[s]) = s

\* Every buffered number is at or ahead of exp, in the new half of the circle.
Ahead(exp, pend) == \A s \in Keys(pend) : sequenceDistance(exp, s) < HalfSpace

\* The buffer never covers the whole circle, so a run always ends.
LEMMA CircleNotFull ==
    ASSUME NEW exp \in Seq16, NEW pend \in PendingMap, Ahead(exp, pend)
    PROVE  Seq16 \ Keys(pend) \in SUBSET Seq16 /\ Seq16 \ Keys(pend) # {}
<1>1. HalfSpace \in Nat /\ HalfSpace < SeqSpace BY SpaceProps
<1>2. /\ Plus(exp, HalfSpace) \in Seq16
      /\ sequenceDistance(exp, Plus(exp, HalfSpace)) = HalfSpace
    BY <1>1, DistanceOfPlus
<1>3. Plus(exp, HalfSpace) \notin Keys(pend)
    BY <1>1, <1>2 DEF Ahead
<1> QED BY <1>2, <1>3

\* flushAvailableLocked emits exactly the run of numbers from exp up to the
\* first one missing, and keeps what lies beyond it.
LEMMA FlushAvailable ==
    ASSUME NEW exp \in Seq16, NEW pend \in PendingMap,
           Filed(pend), Ahead(exp, pend)
    PROVE  LET res == flushAvailableLocked(exp, pend)
               run == sequenceDistance(exp, res.expected)
           IN  /\ res.expected \in Seq16 \ Keys(pend)
               /\ run \in Nat /\ run < SeqSpace
               /\ \A s \in Seq16 : sequenceDistance(exp, s) < run => s \in Keys(pend)
               /\ res.pending \in PendingMap
               /\ Keys(res.pending) =
                    {s \in Keys(pend) : run <= sequenceDistance(exp, s)}
               /\ \A s \in Keys(res.pending) :
                    /\ res.pending[s] = pend[s]
                    /\ sequenceDistance(res.expected, s) \in 1 .. HalfSpace - 1
               /\ res.batch \in Seq(Packet)
               /\ Len(res.batch) = run
               /\ \A i \in 1 .. run :
                    /\ Plus(exp, i - 1) \in Keys(pend)
                    /\ sequenceDistance(exp, Plus(exp, i - 1)) = i - 1
                    /\ res.batch[i] = pend[Plus(exp, i - 1)]
                    /\ parseRtpSequence(res.batch[i]) = Plus(exp, i - 1)
<1> DEFINE res  == flushAvailableLocked(exp, pend)
           next == Closest(exp, Seq16 \ Keys(pend))
           run  == sequenceDistance(exp, next)
<1>1. /\ next \in Seq16 \ Keys(pend)
      /\ \A t \in Seq16 \ Keys(pend) : run <= sequenceDistance(exp, t)
    BY CircleNotFull, ClosestProps
<1>2. run \in Nat /\ run < SeqSpace
    BY <1>1, DistanceValue
<1>3. ASSUME NEW s \in Seq16, sequenceDistance(exp, s) < run
      PROVE  s \in Keys(pend)
    <2>1. sequenceDistance(exp, s) \in Nat BY DistanceValue
    <2> QED BY <1>1, <1>2, <1>3, <2>1
<1>4. /\ res.expected = next
      /\ res.pending = [s \in Seq16 |-> IF sequenceDistance(exp, s) < run
                                        THEN NoPacket ELSE pend[s]]
      /\ res.batch = [i \in 1 .. run |-> pend[Plus(exp, i - 1)]]
    BY DEF flushAvailableLocked
<1> HIDE DEF res, next
<1>5. res.pending \in PendingMap
    BY <1>4 DEF PendingMap
<1>6. ASSUME NEW s \in Seq16
      PROVE  s \in Keys(res.pending) <=>
                s \in Keys(pend) /\ run <= sequenceDistance(exp, s)
    <2>1. sequenceDistance(exp, s) \in Nat BY DistanceValue
    <2> QED BY <1>2, <1>4, <2>1 DEF Keys
<1>7. Keys(res.pending) = {s \in Keys(pend) : run <= sequenceDistance(exp, s)}
    BY <1>6 DEF Keys
<1>8. ASSUME NEW s \in Keys(res.pending)
      PROVE  /\ res.pending[s] = pend[s]
             /\ sequenceDistance(next, s) \in 1 .. HalfSpace - 1
    <2>1. s \in Seq16 /\ s \in Keys(pend) /\ run <= sequenceDistance(exp, s)
        BY <1>7, <1>8 DEF Keys
    <2>2. sequenceDistance(exp, s) \in Nat /\ sequenceDistance(exp, s) < HalfSpace
        BY <2>1, DistanceValue DEF Ahead
    <2>3. sequenceDistance(next, s) = sequenceDistance(exp, s) - run
        BY <1>1, <2>1, DistanceShift
    <2>4. run # sequenceDistance(exp, s)
        BY <1>1, <2>1, DistanceInjective
    <2>5. sequenceDistance(next, s) \in 1 .. HalfSpace - 1
        BY <1>2, <2>1, <2>2, <2>3, <2>4, SpaceProps
    <2>6. res.pending[s] = pend[s]
        BY <1>2, <1>4, <2>1, <2>2
    <2> QED BY <2>5, <2>6
<1>9. ASSUME NEW i \in 1 .. run
      PROVE  /\ Plus(exp, i - 1) \in Keys(pend)
             /\ sequenceDistance(exp, Plus(exp, i - 1)) = i - 1
             /\ res.batch[i] = pend[Plus(exp, i - 1)]
             /\ res.batch[i] \in Packet
             /\ parseRtpSequence(res.batch[i]) = Plus(exp, i - 1)
    <2>1. i - 1 \in Nat /\ i - 1 < run /\ i - 1 < SeqSpace
        BY <1>2, SpaceProps
    <2>2. /\ Plus(exp, i - 1) \in Seq16
          /\ sequenceDistance(exp, Plus(exp, i - 1)) = i - 1
        BY <2>1, DistanceOfPlus
    <2>3. Plus(exp, i - 1) \in Keys(pend)
        BY <1>3, <2>1, <2>2
    <2>4. res.batch[i] = pend[Plus(exp, i - 1)]
        BY <1>4
    <2>5. pend[Plus(exp, i - 1)] \in Packet
        BY <2>2, <2>3 DEF Keys, PendingMap
    <2> QED BY <2>2, <2>3, <2>4, <2>5 DEF Filed
<1>10. res.batch \in Seq(Packet) /\ Len(res.batch) = run
    <2>1. res.batch = [i \in 1 .. run |-> res.batch[i]]
        BY <1>4
    <2>2. \A i \in 1 .. run : res.batch[i] \in Packet
        BY <1>9
    <2> QED BY <1>2, <2>1, <2>2
<1> QED BY <1>1, <1>2, <1>3, <1>4, <1>5, <1>7, <1>8, <1>9, <1>10 DEF res

\* What every critical section needs of the contents it leaves, started from
\* expected number exp and map pend.
GoodResult(exp, pend, res) ==
    /\ res.expected \in Seq16
    /\ res.pending \in PendingMap
    /\ res.batch \in Seq(Packet)
    /\ Filed(res.pending)
    /\ Keys(res.pending) \subseteq Keys(pend)
    /\ res.expected \notin Keys(res.pending)
    /\ \A s \in Keys(res.pending) :
          sequenceDistance(res.expected, s) \in 1 .. HalfSpace - 1
    /\ EmitsFrom(exp, res.batch, res.expected)

\* Flushing from a number no buffered one precedes is good; if that number
\* is buffered it leaves the buffer.
LEMMA FlushFrom ==
    ASSUME NEW exp \in Seq16, NEW from \in Seq16, NEW pend \in PendingMap,
           Filed(pend), Ahead(exp, pend),
           \A s \in Keys(pend) :
               sequenceDistance(exp, from) <= sequenceDistance(exp, s),
           from = exp \/ from \in Keys(pend)
    PROVE  LET res == flushAvailableLocked(from, pend)
           IN  /\ GoodResult(exp, pend, res)
               /\ from \notin Keys(res.pending)
               /\ from \notin Keys(pend) =>
                    /\ res.batch = <<>>
                    /\ res.expected = from
                    /\ Keys(res.pending) = Keys(pend)
<1> DEFINE res == flushAvailableLocked(from, pend)
           run == sequenceDistance(from, res.expected)
<1>0. Keys(pend) \subseteq Seq16 /\ Keys(res.pending) \subseteq Seq16
    BY DEF Keys
<1>1. ASSUME NEW s \in Keys(pend)
      PROVE  /\ sequenceDistance(exp, s) \in Nat
             /\ sequenceDistance(exp, s) < HalfSpace
             /\ sequenceDistance(from, s) \in Nat
             /\ sequenceDistance(exp, from) \in Nat
             /\ sequenceDistance(from, s) =
                   sequenceDistance(exp, s) - sequenceDistance(exp, from)
    BY <1>0, <1>1, DistanceShift, DistanceValue DEF Ahead
<1>2. Ahead(from, pend)
    <2> SUFFICES ASSUME NEW s \in Keys(pend)
                 PROVE  sequenceDistance(from, s) < HalfSpace
        BY DEF Ahead
    <2> QED BY <1>1, SpaceProps
<1>3. /\ res.expected \in Seq16 \ Keys(pend)
      /\ run \in Nat /\ run < SeqSpace
      /\ \A s \in Seq16 : sequenceDistance(from, s) < run => s \in Keys(pend)
      /\ res.pending \in PendingMap
      /\ Keys(res.pending) = {s \in Keys(pend) : run <= sequenceDistance(from, s)}
      /\ \A s \in Keys(res.pending) :
           /\ res.pending[s] = pend[s]
           /\ sequenceDistance(res.expected, s) \in 1 .. HalfSpace - 1
      /\ res.batch \in Seq(Packet)
      /\ Len(res.batch) = run
      /\ \A i \in 1 .. run :
           /\ Plus(from, i - 1) \in Keys(pend)
           /\ sequenceDistance(from, Plus(from, i - 1)) = i - 1
           /\ res.batch[i] = pend[Plus(from, i - 1)]
           /\ parseRtpSequence(res.batch[i]) = Plus(from, i - 1)
    BY <1>2, FlushAvailable
<1> HIDE DEF res
<1>4. /\ Keys(res.pending) \subseteq Keys(pend)
      /\ res.expected \notin Keys(res.pending)
      /\ Filed(res.pending)
    BY <1>3 DEF Filed
<1>5. ASSUME NEW i \in 1 .. run
      PROVE  /\ sequenceDistance(exp, parseRtpSequence(res.batch[i])) =
                    sequenceDistance(exp, from) + (i - 1)
             /\ sequenceDistance(exp, parseRtpSequence(res.batch[i])) < HalfSpace
             /\ sequenceDistance(exp, from) \in Nat
    BY <1>1, <1>3, DistanceValue
<1>6. sequenceDistance(from, from) = 0
    BY DistanceValue, SpaceProps
<1>7. from \notin Keys(res.pending)
    <2>1. CASE run = 0
        <3>1. res.expected = from
            BY <1>3, <1>6, <2>1, DistanceInjective
        <3> QED BY <1>3, <3>1
    <2>2. CASE run # 0
        BY <1>3, <1>6, <2>2
    <2> QED BY <2>1, <2>2
<1>8. from \notin Keys(pend) =>
         /\ res.batch = <<>> /\ res.expected = from /\ Keys(res.pending) = Keys(pend)
    <2> HAVE from \notin Keys(pend)
    <2>1. run = 0
        BY <1>3, <1>6
    <2>2. res.expected = from
        BY <1>3, <1>6, <2>1, DistanceInjective
    <2>3. res.batch = <<>>
        BY <1>3, <2>1
    <2>4. Keys(res.pending) = Keys(pend)
        BY <1>1, <1>3, <2>1
    <2> QED BY <2>2, <2>3, <2>4
<1>9. res.expected =
        IF res.batch = <<>> THEN exp
        ELSE Plus(parseRtpSequence(res.batch[Len(res.batch)]), 1)
    <2>1. CASE run = 0
        <3>1. res.expected = from
            BY <1>3, <1>6, <2>1, DistanceInjective
        <3>2. from = exp
            BY <1>3, <3>1
        <3>3. res.batch = <<>>
            BY <1>3, <2>1
        <3> QED BY <3>1, <3>2, <3>3
    <2>2. CASE run # 0
        <3>1. run \in 1 .. run /\ res.batch # <<>> /\ run - 1 \in Nat /\ run - 1 < SeqSpace
            BY <1>3, <2>2, SpaceProps
        <3>2. parseRtpSequence(res.batch[run]) = Plus(from, run - 1)
            BY <1>3, <3>1
        <3>3. Plus(Plus(from, run - 1), 1) = Plus(from, run)
            <4>1. Plus(Plus(from, run - 1), 1) = Plus(from, (run - 1) + 1)
                BY <3>1, PlusOne
            <4>2. (run - 1) + 1 = run BY <1>3
            <4> QED BY <4>1, <4>2
        <3>4. Plus(from, run) \in Seq16 /\ sequenceDistance(from, Plus(from, run)) = run
            BY <1>3, DistanceOfPlus
        <3>5. Plus(from, run) = res.expected
            BY <1>3, <3>4, DistanceInjective
        <3> QED BY <1>3, <3>1, <3>2, <3>3, <3>5
    <2> QED BY <2>1, <2>2
<1>10. \A i, j \in 1 .. Len(res.batch) : i < j =>
          sequenceDistance(exp, parseRtpSequence(res.batch[i]))
            < sequenceDistance(exp, parseRtpSequence(res.batch[j]))
    <2> SUFFICES ASSUME NEW i \in 1 .. run, NEW j \in 1 .. run, i < j
                 PROVE  sequenceDistance(exp, parseRtpSequence(res.batch[i]))
                          < sequenceDistance(exp, parseRtpSequence(res.batch[j]))
        BY <1>3
    <2>1. /\ sequenceDistance(exp, parseRtpSequence(res.batch[i])) =
                sequenceDistance(exp, from) + (i - 1)
          /\ sequenceDistance(exp, parseRtpSequence(res.batch[j])) =
                sequenceDistance(exp, from) + (j - 1)
          /\ sequenceDistance(exp, from) \in Nat
        BY <1>5
    <2> QED BY <1>3, <2>1
<1>11. EmitsFrom(exp, res.batch, res.expected)
    BY <1>3, <1>5, <1>9, <1>10 DEF EmitsFrom
<1> QED BY <1>3, <1>4, <1>7, <1>8, <1>11 DEF GoodResult, res

\* from is where a flush of pend may start: at exp, or at a buffered number
\* that no other one precedes as seen from exp.
StartsFlush(exp, pend, from) ==
    /\ from = exp \/ from \in Keys(pend)
    /\ \A s \in Keys(pend) : sequenceDistance(exp, from) <= sequenceDistance(exp, s)

\* Giving up on a gap is a flush from the nearest buffered number.
LEMMA SkipGapFlushes ==
    ASSUME NEW exp \in Seq16, NEW pend, Keys(pend) # {}
    PROVE  \E from \in Keys(pend) :
              /\ StartsFlush(exp, pend, from)
              /\ SkipGap(exp, pend) = flushAvailableLocked(from, pend)
<1> DEFINE from == IF hasPending(pend, exp) THEN exp
                   ELSE findNearestPendingSequence(exp, pend)
<1>1. Keys(pend) \in SUBSET Seq16 /\ (hasPending(pend, exp) <=> exp \in Keys(pend))
    BY DEF Keys, hasPending
<1>2. from \in Keys(pend) /\ \A s \in Keys(pend) :
          sequenceDistance(exp, from) <= sequenceDistance(exp, s)
    <2>1. CASE hasPending(pend, exp)
        <3>1. sequenceDistance(exp, exp) = 0 BY DistanceValue, SpaceProps
        <3>2. \A s \in Keys(pend) : sequenceDistance(exp, s) \in Nat
            BY <1>1, DistanceValue
        <3> QED BY <1>1, <2>1, <3>1, <3>2
    <2>2. CASE ~hasPending(pend, exp)
        BY <1>1, <2>2, ClosestProps DEF findNearestPendingSequence
    <2> QED BY <2>1, <2>2
<1>3. SkipGap(exp, pend) = flushAvailableLocked(from, pend)
    BY DEF SkipGap
<1> HIDE DEF from
<1> QED BY <1>2, <1>3 DEF StartsFlush

\* Giving up on a gap is good and emits at least one packet.
LEMMA SkipGapProps ==
    ASSUME NEW exp \in Seq16, NEW pend \in PendingMap,
           Filed(pend), Ahead(exp, pend), Keys(pend) # {}
    PROVE  /\ GoodResult(exp, pend, SkipGap(exp, pend))
           /\ \E s \in Keys(pend) : s \notin Keys(SkipGap(exp, pend).pending)
<1>1. PICK from \in Keys(pend) :
          /\ StartsFlush(exp, pend, from)
          /\ SkipGap(exp, pend) = flushAvailableLocked(from, pend)
    BY SkipGapFlushes
<1>2. from \in Seq16 BY DEF Keys
<1>3. /\ GoodResult(exp, pend, flushAvailableLocked(from, pend))
      /\ from \notin Keys(flushAvailableLocked(from, pend).pending)
    BY <1>1, <1>2, FlushFrom DEF StartsFlush
<1> QED BY <1>1, <1>3

-----------------------------------------------------------------------------
(* The invariant.                                                          *)

\* The contents are inductive on their own: typed, ahead of expectedSeq and
\* within the limit.
ContentsInv == BufferTypeOK /\ PendingAhead /\ PendingBounded

\* The part of the contents invariant a critical section has to restore.
ContentsOK(exp, pend) ==
    /\ exp \in Seq16
    /\ pend \in PendingMap
    /\ Filed(pend)
    /\ \A s \in Keys(pend) : sequenceDistance(exp, s) \in 1 .. HalfSpace - 1
    /\ Cardinality(Keys(pend)) <= MaxPending

\* The map has finitely many entries, so their number is a natural number.
LEMMA KeysFinite ==
    ASSUME NEW pend
    PROVE  /\ IsFiniteSet(Keys(pend))
           /\ Cardinality(Keys(pend)) \in Nat
<1>1. IsFiniteSet(Seq16) BY FS_Interval, SpaceProps DEF Seq16
<1>2. Keys(pend) \subseteq Seq16 BY DEF Keys
<1> QED BY <1>1, <1>2, FS_Subset, FS_CardinalityType

\* A result of SkipGap started within the limit stays within it.
LEMMA SkipGapContents ==
    ASSUME NEW exp, NEW pend, ContentsOK(exp, pend), Keys(pend) # {}
    PROVE  /\ ContentsOK(SkipGap(exp, pend).expected, SkipGap(exp, pend).pending)
           /\ GoodResult(exp, pend, SkipGap(exp, pend))
<1>1. Ahead(exp, pend)
    <2>1. \A s \in Keys(pend) : sequenceDistance(exp, s) \in 1 .. HalfSpace - 1
        BY DEF ContentsOK
    <2> QED BY <2>1, SpaceProps DEF Ahead
<1>2. GoodResult(exp, pend, SkipGap(exp, pend))
    BY <1>1, SkipGapProps DEF ContentsOK
<1>3. Cardinality(Keys(SkipGap(exp, pend).pending)) <= Cardinality(Keys(pend))
    BY <1>2, KeysFinite, FS_Subset DEF GoodResult
<1>4. Cardinality(Keys(SkipGap(exp, pend).pending)) <= MaxPending
    BY <1>3, KeysFinite, MaxPendingAssumption DEF ContentsOK
<1> QED BY <1>2, <1>4 DEF GoodResult, ContentsOK

\* What push flushes from, and what, once it has stored p.
Expected(p) == IF expectedSeq = NoSeq THEN parseRtpSequence(p) ELSE expectedSeq
Stored(p) ==
    IF hasPending(pending, parseRtpSequence(p)) THEN pending
    ELSE [pending EXCEPT ![parseRtpSequence(p)] = p]

\* Storing a packet that is not stale keeps everything buffered in the new half.
LEMMA StoredProps ==
    ASSUME ContentsInv, NEW p \in Packet,
           expectedSeq = NoSeq \/ ~isStaleSequence(parseRtpSequence(p), expectedSeq)
    PROVE  /\ Expected(p) \in Seq16
           /\ Stored(p) \in PendingMap
           /\ Filed(Stored(p))
           /\ Ahead(Expected(p), Stored(p))
           /\ Keys(Stored(p)) = Keys(pending) \union {parseRtpSequence(p)}
           /\ Cardinality(Keys(Stored(p))) <= MaxPending + 1
<1> DEFINE seq  == parseRtpSequence(p)
           exp  == Expected(p)
           pend == Stored(p)
<1>1. seq \in Seq16 /\ NoPacket \notin Packet /\ exp \in Seq16
    BY PacketAssumption DEF ContentsInv, BufferTypeOK, Expected
<1>2. pending \in PendingMap /\ Filed(pending)
    BY DEF ContentsInv, BufferTypeOK, PendingMap, Filed
<1>3. pend \in PendingMap /\ Keys(pend) = Keys(pending) \union {seq} /\ Filed(pend)
    BY <1>1, <1>2 DEF PendingMap, Keys, Filed, hasPending, Stored
<1>4. Ahead(exp, pend)
    <2> SUFFICES ASSUME NEW s \in Keys(pend)
                 PROVE  sequenceDistance(exp, s) < HalfSpace
        BY DEF Ahead
    <2>1. CASE s \in Keys(pending)
        <3>1. expectedSeq # NoSeq
              /\ sequenceDistance(expectedSeq, s) \in 1 .. HalfSpace - 1
            BY <2>1 DEF ContentsInv, PendingAhead
        <3> QED BY <3>1, SpaceProps DEF Expected
    <2>2. CASE s = seq
        <3>1. sequenceDistance(exp, seq) \in Nat BY <1>1, DistanceValue
        <3>2. CASE expectedSeq = NoSeq
            <4>1. sequenceDistance(seq, seq) = 0 BY <1>1, DistanceValue, SpaceProps
            <4> QED BY <2>2, <3>2, <4>1, SpaceProps DEF Expected
        <3>3. CASE expectedSeq # NoSeq
            BY <2>2, <3>1, <3>3, SpaceProps DEF isStaleSequence, Expected
        <3> QED BY <3>2, <3>3
    <2> QED BY <1>3, <2>1, <2>2
<1> HIDE DEF pend
<1>5. Cardinality(Keys(pend)) <= MaxPending + 1
    <2>1. Cardinality(Keys(pending)) <= MaxPending
        BY DEF ContentsInv, PendingBounded
    <2>2. Cardinality(Keys(pend)) <= Cardinality(Keys(pending)) + 1
        BY <1>3, KeysFinite, FS_AddElement
    <2> QED BY <2>1, <2>2, KeysFinite, MaxPendingAssumption
<1> QED BY <1>1, <1>3, <1>4, <1>5 DEF pend

\* A push is one flush of what is stored: a jump over the gap happens only when
\* the first flush emitted nothing.  It ends within the limit.
LEMMA PushedFlushes ==
    ASSUME ContentsInv, NEW p \in Packet,
           expectedSeq = NoSeq \/ ~isStaleSequence(parseRtpSequence(p), expectedSeq)
    PROVE  /\ \E from \in Seq16 :
                 /\ StartsFlush(Expected(p), Stored(p), from)
                 /\ Pushed(p) = flushAvailableLocked(from, Stored(p))
           /\ Cardinality(Keys(Pushed(p).pending)) <= MaxPending
<1> DEFINE exp   == Expected(p)
           pend  == Stored(p)
           first == flushAvailableLocked(exp, pend)
           jump  == SkipGap(first.expected, first.pending)
           over  == OverLimit(first.pending)
                      /\ ~hasPending(first.pending, first.expected)
<1>1. Pushed(p) = IF over THEN [jump EXCEPT !.batch = first.batch \o jump.batch]
                  ELSE first
    BY DEF Pushed, Expected, Stored
<1>2. /\ exp \in Seq16
      /\ pend \in PendingMap
      /\ Filed(pend)
      /\ Ahead(exp, pend)
      /\ Cardinality(Keys(pend)) <= MaxPending + 1
    BY StoredProps
<1> HIDE DEF exp, pend
<1>3. StartsFlush(exp, pend, exp)
    <2>1. sequenceDistance(exp, exp) = 0 BY <1>2, DistanceValue, SpaceProps
    <2>2. \A s \in Keys(pend) : sequenceDistance(exp, s) \in Nat
        BY <1>2, DistanceValue DEF Keys
    <2> QED BY <2>1, <2>2 DEF StartsFlush
<1>4. /\ GoodResult(exp, pend, first)
      /\ exp \notin Keys(first.pending)
      /\ exp \notin Keys(pend) =>
           /\ first.batch = <<>> /\ first.expected = exp
           /\ Keys(first.pending) = Keys(pend)
    BY <1>2, <1>3, FlushFrom DEF StartsFlush
<1>5. \A s \in Keys(first.pending) : first.pending[s] = pend[s]
    BY <1>2, FlushAvailable
<1> HIDE DEF first
<1>6. CASE ~over
    <2>1. ~OverLimit(first.pending)
        BY <1>4, <1>6 DEF GoodResult, hasPending, Keys
    <2>2. Cardinality(Keys(first.pending)) <= MaxPending
        BY <2>1, KeysFinite, MaxPendingAssumption DEF OverLimit
    <2>3. Pushed(p) = flushAvailableLocked(exp, pend)
        BY <1>1, <1>6 DEF first
    <2> QED BY <1>1, <1>2, <1>3, <1>6, <2>2, <2>3 DEF exp, pend
<1>7. CASE over
    <2>1. Cardinality(Keys(first.pending)) > MaxPending
        BY <1>7 DEF OverLimit
    <2>2. exp \notin Keys(pend)
        <3> SUFFICES ASSUME exp \in Keys(pend) PROVE FALSE
            OBVIOUS
        <3>1. Keys(first.pending) \subseteq Keys(pend) \ {exp}
            BY <1>4 DEF GoodResult
        <3>2. Cardinality(Keys(pend) \ {exp}) = Cardinality(Keys(pend)) - 1
              /\ IsFiniteSet(Keys(pend) \ {exp})
            BY KeysFinite, FS_RemoveElement
        <3>3. Cardinality(Keys(first.pending)) <= Cardinality(Keys(pend)) - 1
            BY <3>1, <3>2, FS_Subset
        <3> QED BY <1>2, <2>1, <3>3, KeysFinite, MaxPendingAssumption
    <2>3. first.batch = <<>> /\ first.expected = exp /\ Keys(first.pending) = Keys(pend)
        BY <1>4, <2>2
    <2>4. first.pending = pend
        <3>1. \A s \in Seq16 : first.pending[s] = pend[s]
            BY <1>5, <2>3 DEF Keys
        <3> QED BY <1>2, <1>4, <3>1 DEF GoodResult, PendingMap
    <2>5. Keys(pend) # {}
        BY <2>1, <2>4, FS_EmptySet, MaxPendingAssumption
    <2>6. PICK from \in Keys(pend) :
              StartsFlush(exp, pend, from) /\ jump = flushAvailableLocked(from, pend)
        BY <1>2, <2>3, <2>4, <2>5, SkipGapFlushes
    <2> HIDE DEF jump
    <2>7. from \in Seq16
        BY <2>6 DEF Keys
    <2>8. /\ GoodResult(exp, pend, jump)
          /\ from \notin Keys(jump.pending)
        BY <1>2, <2>6, <2>7, FlushFrom DEF StartsFlush
    <2>9. Pushed(p) = jump
        <3>1. first.batch \o jump.batch = jump.batch
            BY <2>3, <2>8 DEF GoodResult
        <3>2. jump = [expected |-> jump.expected, pending |-> jump.pending,
                      batch |-> jump.batch]
            BY <2>6 DEF flushAvailableLocked
        <3> QED BY <1>1, <1>7, <3>1, <3>2
    <2>10. Cardinality(Keys(jump.pending)) <= MaxPending
        <3>1. Keys(jump.pending) \subseteq Keys(pend) \ {from}
            BY <2>8 DEF GoodResult
        <3>2. Cardinality(Keys(pend) \ {from}) = Cardinality(Keys(pend)) - 1
              /\ IsFiniteSet(Keys(pend) \ {from})
            BY <2>6, KeysFinite, FS_RemoveElement
        <3>3. Cardinality(Keys(jump.pending)) <= Cardinality(Keys(pend)) - 1
            BY <3>1, <3>2, FS_Subset
        <3> QED BY <1>2, <3>3, KeysFinite, MaxPendingAssumption
    <2> QED BY <2>6, <2>7, <2>9, <2>10 DEF exp, pend
<1> QED BY <1>6, <1>7

\* Hence push leaves good contents, and one push emits one ascending run.
LEMMA PushedContents ==
    ASSUME ContentsInv, NEW p \in Packet,
           expectedSeq = NoSeq \/ ~isStaleSequence(parseRtpSequence(p), expectedSeq)
    PROVE  /\ ContentsOK(Pushed(p).expected, Pushed(p).pending)
           /\ Pushed(p).batch \in Seq(Packet)
           /\ ~hasPending(Pushed(p).pending, Pushed(p).expected)
           /\ expectedSeq # NoSeq =>
                 EmitsFrom(expectedSeq, Pushed(p).batch, Pushed(p).expected)
<1>1. PICK from \in Seq16 :
          /\ StartsFlush(Expected(p), Stored(p), from)
          /\ Pushed(p) = flushAvailableLocked(from, Stored(p))
    BY PushedFlushes
<1>2. GoodResult(Expected(p), Stored(p), Pushed(p))
    BY <1>1, StoredProps, FlushFrom DEF StartsFlush
<1>3. Cardinality(Keys(Pushed(p).pending)) <= MaxPending
    BY PushedFlushes
<1>4. expectedSeq # NoSeq => Expected(p) = expectedSeq
    BY DEF Expected
<1> QED BY <1>2, <1>3, <1>4 DEF GoodResult, ContentsOK, hasPending, Keys

\* Between critical sections the contents are fit for SkipGap.
LEMMA ContentsOKNow ==
    ASSUME ContentsInv, Keys(pending) # {}
    PROVE  ContentsOK(expectedSeq, pending) /\ expectedSeq # NoSeq
<1>1. expectedSeq # NoSeq /\ expectedSeq \in Seq16
    BY DEF ContentsInv, PendingAhead, BufferTypeOK
<1> QED BY <1>1 DEF ContentsInv, PendingAhead, PendingBounded, BufferTypeOK,
                    ContentsOK, PendingMap, Filed

\* The part of the type invariant that is about timers and the owner.
TimersTyped ==
    /\ flushTimer \in Timer \union {NoTimer}
    /\ timers \in [Timer -> {"idle", "armed", "fired"}]
    /\ owner \in OwnerState

\* Every step keeps the timers and the owner's state within their types.
LEMMA TimersTypedStep ==
    ASSUME TimersTyped, [BufferNext]_bufferVars
    PROVE  TimersTyped'
<1> USE DEF TimersTyped
<1>1. ASSUME NEW cur \in Timer \union {NoTimer},
             NEW ts \in [Timer -> {"idle", "armed", "fired"}], NEW res,
             \/ StopTimer(cur, ts) \/ KeepTimer(cur, ts) \/ SettleTimer(cur, ts, res)
      PROVE  /\ flushTimer' \in Timer \union {NoTimer}
             /\ timers' \in [Timer -> {"idle", "armed", "fired"}]
    BY <1>1 DEF StopTimer, KeepTimer, SettleTimer, armFlushTimerLocked, Cancelled
<1>2. ASSUME NEW p \in Packet, push(p) PROVE TimersTyped'
    BY <1>1, <1>2 DEF push, pushStale, pushFresh
<1>3. CASE stop
    BY <1>1, <1>3 DEF stop, OwnerState
<1>4. CASE closeStop
    BY <1>1, <1>4 DEF closeStop, OwnerState
<1>5. CASE flushRemaining
    BY <1>1, <1>5 DEF flushRemaining, OwnerState
<1>6. ASSUME NEW t \in Timer, timerFires(t) PROVE TimersTyped'
    BY <1>6 DEF timerFires
<1>7. ASSUME NEW t \in Timer, flushCallback(t) PROVE TimersTyped'
    <2> DEFINE ts == [timers EXCEPT ![t] = "idle"]
    <2>1. ts \in [Timer -> {"idle", "armed", "fired"}]
        OBVIOUS
    <2>2. \E res : KeepTimer(NoTimer, ts) \/ SettleTimer(NoTimer, ts, res)
        BY <1>7 DEF flushCallback
    <2> QED BY <1>1, <1>7, <2>1, <2>2 DEF flushCallback
<1>8. CASE UNCHANGED bufferVars
    BY <1>8 DEF bufferVars
<1> QED BY <1>2, <1>3, <1>4, <1>5, <1>6, <1>7, <1>8 DEF BufferNext

\* Every step is one of three kinds as far as the contents go: it leaves them
\* alone, stores a packet, or gives up on a gap.
LEMMA StepKinds ==
    ASSUME BufferNext
    PROVE  \/ UNCHANGED <<expectedSeq, pending>> /\ emitted' = <<>>
           \/ \E p \in Packet :
                 /\ expectedSeq = NoSeq
                      \/ ~isStaleSequence(parseRtpSequence(p), expectedSeq)
                 /\ SetContents(Pushed(p))
           \/ /\ Keys(pending) # {}
              /\ SetContents(SkipGap(expectedSeq, pending))
<1>1. ASSUME NEW p \in Packet, push(p)
      PROVE  \/ UNCHANGED <<expectedSeq, pending>> /\ emitted' = <<>>
             \/ /\ expectedSeq = NoSeq
                      \/ ~isStaleSequence(parseRtpSequence(p), expectedSeq)
                /\ SetContents(Pushed(p))
    BY <1>1 DEF push, pushStale, pushFresh
<1>2. CASE stop \/ closeStop
    BY <1>2 DEF stop, closeStop
<1>3. CASE flushRemaining
    BY <1>3 DEF flushRemaining
<1>4. ASSUME NEW t \in Timer, timerFires(t) \/ flushCallback(t)
      PROVE  \/ UNCHANGED <<expectedSeq, pending>> /\ emitted' = <<>>
             \/ /\ Keys(pending) # {}
                /\ SetContents(SkipGap(expectedSeq, pending))
    BY <1>4 DEF timerFires, flushCallback
<1> QED BY <1>1, <1>2, <1>3, <1>4 DEF BufferNext

\* Every step restores the contents invariant.
LEMMA ContentsStep ==
    ASSUME ContentsInv, [BufferNext]_bufferVars
    PROVE  ContentsInv'
<1>1. TimersTyped'
    BY TimersTypedStep DEF ContentsInv, BufferTypeOK, TimersTyped
<1>2. ASSUME ContentsOK(expectedSeq', pending'), emitted' \in Seq(Packet)
      PROVE  ContentsInv'
    <2>1. expectedSeq' # NoSeq BY <1>2, SpaceProps DEF ContentsOK
    <2> QED BY <1>1, <1>2, <2>1
            DEF ContentsInv, ContentsOK, BufferTypeOK, PendingAhead, PendingBounded,
                TimersTyped, PendingMap, Filed, Keys
<1>3. CASE UNCHANGED <<expectedSeq, pending>> /\ (emitted' = <<>> \/ emitted' = emitted)
    <2>1. emitted' \in Seq(Packet)
        <3>1. emitted \in Seq(Packet) BY DEF ContentsInv, BufferTypeOK
        <3>2. <<>> \in Seq(Packet) OBVIOUS
        <3> QED BY <1>3, <3>1, <3>2
    <2> QED BY <1>1, <1>3, <2>1
            DEF ContentsInv, BufferTypeOK, PendingAhead, PendingBounded, TimersTyped, Keys
<1>4. ASSUME NEW p \in Packet,
             expectedSeq = NoSeq
               \/ ~isStaleSequence(parseRtpSequence(p), expectedSeq),
             SetContents(Pushed(p))
      PROVE  ContentsInv'
    <2>1. ContentsOK(Pushed(p).expected, Pushed(p).pending)
          /\ Pushed(p).batch \in Seq(Packet)
        BY <1>4, PushedContents
    <2> QED BY <1>2, <1>4, <2>1 DEF SetContents
<1>5. CASE Keys(pending) # {} /\ SetContents(SkipGap(expectedSeq, pending))
    <2> DEFINE res == SkipGap(expectedSeq, pending)
    <2>1. ContentsOK(res.expected, res.pending) /\ res.batch \in Seq(Packet)
        BY <1>5, ContentsOKNow, SkipGapContents DEF GoodResult
    <2> QED BY <1>2, <1>5, <2>1 DEF SetContents
<1>6. CASE UNCHANGED bufferVars
    BY <1>3, <1>6 DEF bufferVars
<1> QED BY <1>3, <1>4, <1>5, <1>6, StepKinds

\* A new buffer satisfies the contents invariant.
LEMMA ContentsInit ==
    ASSUME BufferInit
    PROVE  ContentsInv
<1>1. Keys(pending) = {}
    BY DEF BufferInit, newUdpRtpReorderBuffer, EmptyPending, Keys
<1>2. BufferTypeOK
    BY <1>1 DEF BufferInit, newUdpRtpReorderBuffer, EmptyPending, BufferTypeOK, OwnerState
<1>3. PendingBounded
    BY <1>1, FS_EmptySet, MaxPendingAssumption DEF PendingBounded
<1> QED BY <1>1, <1>2, <1>3 DEF ContentsInv, PendingAhead

\* In every reachable state the buffer is well typed and every packet is filed
\* under its own number, everything buffered lies ahead of the expected number
\* in the new half of the circle, and at most MaxPending packets are buffered.
THEOREM BufferContents ==
    BufferSpec => [](BufferTypeOK /\ PendingAhead /\ PendingBounded)
<1>1. BufferInit => ContentsInv
    BY ContentsInit
<1>2. ContentsInv /\ [BufferNext]_bufferVars => ContentsInv'
    BY ContentsStep
<1>3. ContentsInv => BufferTypeOK /\ PendingAhead /\ PendingBounded
    BY DEF ContentsInv
<1> QED BY <1>1, <1>2, <1>3, PTL DEF BufferSpec

\* In particular push never leaves more than MaxPending packets behind, although
\* it stores the packet before it looks at the limit.
THEOREM BufferIsBounded == BufferSpec => []PendingBounded
BY BufferContents, PTL

\* The buffer emits in stream order whichever goroutine is emitting: every
\* step's packets ascend from the expected number, and none is ever written
\* after a packet that follows it on the circle.
THEOREM InOrder == BufferSpec => EmitsForward
<1>1. ContentsInv /\ [BufferNext]_bufferVars =>
         [expectedSeq # NoSeq =>
            EmitsFrom(expectedSeq, emitted', expectedSeq')]_bufferVars
    <2> SUFFICES ASSUME ContentsInv, BufferNext, expectedSeq # NoSeq
                 PROVE  EmitsFrom(expectedSeq, emitted', expectedSeq')
        OBVIOUS
    <2>1. expectedSeq \in Seq16
        BY DEF ContentsInv, BufferTypeOK
    <2>2. CASE UNCHANGED <<expectedSeq, pending>> /\ emitted' = <<>>
        BY <2>2 DEF EmitsFrom
    <2>3. ASSUME NEW p \in Packet,
                 ~isStaleSequence(parseRtpSequence(p), expectedSeq),
                 SetContents(Pushed(p))
          PROVE  EmitsFrom(expectedSeq, emitted', expectedSeq')
        BY <2>3, PushedContents DEF SetContents
    <2>4. CASE Keys(pending) # {} /\ SetContents(SkipGap(expectedSeq, pending))
        BY <2>4, ContentsOKNow, SkipGapContents DEF SetContents, GoodResult
    <2>5. \/ UNCHANGED <<expectedSeq, pending>> /\ emitted' = <<>>
          \/ \E p \in Packet :
                 /\ ~isStaleSequence(parseRtpSequence(p), expectedSeq)
                 /\ SetContents(Pushed(p))
          \/ Keys(pending) # {} /\ SetContents(SkipGap(expectedSeq, pending))
        BY StepKinds
    <2> QED BY <2>2, <2>3, <2>4, <2>5
<1>2. BufferInit => ContentsInv
    BY ContentsInit
<1>3. ContentsInv /\ [BufferNext]_bufferVars => ContentsInv'
    BY ContentsStep
<1> QED BY <1>1, <1>2, <1>3, PTL DEF BufferSpec, EmitsForward

-----------------------------------------------------------------------------
(* The flush timer and the end of the buffer's life.                       *)

\* flushTimer never refers to a timer that is over: a callback that ends, and
\* a Stop that succeeds, clear it first.
KnownTimerLive == flushTimer # NoTimer => timers[flushTimer] # "idle"

\* After close has returned nothing is buffered.
DrainedAfterClose == owner \in {"flushed", "closed"} => Keys(pending) = {}

LifeInv ==
    /\ ContentsInv
    /\ KnownTimerLive
    /\ owner = "open" /\ Keys(pending) # {} => flushTimer # NoTimer
    /\ DrainedAfterClose

\* SettleTimer leaves a live timer exactly when something is buffered.
LEMMA SettleTimerProps ==
    ASSUME NEW cur \in Timer \union {NoTimer},
           NEW ts \in [Timer -> {"idle", "armed", "fired"}], NEW res,
           cur # NoTimer => ts[cur] # "idle",
           ~hasPending(res.pending, res.expected),
           SettleTimer(cur, ts, res)
    PROVE  /\ KnownTimerLive'
           /\ Keys(res.pending) # {} => flushTimer' # NoTimer
<1>1. CASE Keys(res.pending) = {}
    BY <1>1 DEF SettleTimer, StopTimer, KnownTimerLive
<1>2. CASE Keys(res.pending) # {}
    <2>1. armFlushTimerLocked(cur, ts)
        BY <1>2 DEF SettleTimer
    <2> QED BY <2>1, PacketAssumption
            DEF armFlushTimerLocked, KeepTimer, KnownTimerLive
<1> QED BY <1>1, <1>2

\* Every step keeps the invariant about the timer and the end of the buffer.
LEMMA LifeStep ==
    ASSUME LifeInv, [BufferNext]_bufferVars
    PROVE  LifeInv'
<1>0. ContentsInv'
    BY ContentsStep DEF LifeInv
<1>t. /\ flushTimer \in Timer \union {NoTimer}
      /\ timers \in [Timer -> {"idle", "armed", "fired"}]
      /\ NoTimer \notin Timer
      /\ flushTimer # NoTimer => timers[flushTimer] # "idle"
    BY PacketAssumption DEF LifeInv, ContentsInv, BufferTypeOK, KnownTimerLive
<1>1. ASSUME NEW p \in Packet, pushStale(p) PROVE LifeInv'
    BY <1>0, <1>1 DEF pushStale, LifeInv, KnownTimerLive, DrainedAfterClose
<1>2. ASSUME NEW p \in Packet, pushFresh(p) PROVE LifeInv'
    <2>1. /\ SetContents(Pushed(p)) /\ SettleTimer(flushTimer, timers, Pushed(p))
          /\ owner' = owner /\ owner = "open"
        BY <1>2 DEF pushFresh
    <2>2. ~hasPending(Pushed(p).pending, Pushed(p).expected)
        BY <1>2, PushedContents DEF pushFresh, LifeInv
    <2>3. KnownTimerLive' /\ (Keys(Pushed(p).pending) # {} => flushTimer' # NoTimer)
        BY <1>t, <2>1, <2>2, SettleTimerProps
    <2>4. pending' = Pushed(p).pending
        BY <2>1 DEF SetContents
    <2> QED BY <1>0, <2>1, <2>3, <2>4 DEF LifeInv, DrainedAfterClose
<1>3. CASE stop \/ closeStop
    BY <1>0, <1>3 DEF stop, closeStop, StopTimer, LifeInv, KnownTimerLive,
                      DrainedAfterClose
<1>4. CASE flushRemaining
    BY <1>0, <1>4, <1>t DEF flushRemaining, StopTimer, KeepTimer, LifeInv,
                            KnownTimerLive, DrainedAfterClose
<1>5. ASSUME NEW t \in Timer, timerFires(t) PROVE LifeInv'
    BY <1>0, <1>5, <1>t DEF timerFires, LifeInv, KnownTimerLive, DrainedAfterClose
<1>6. ASSUME NEW t \in Timer, flushCallback(t) PROVE LifeInv'
    <2> DEFINE ts == [timers EXCEPT ![t] = "idle"]
    <2>1. CASE Keys(pending) = {} /\ KeepTimer(NoTimer, ts) /\ UNCHANGED pending
        BY <1>0, <1>6, <2>1 DEF flushCallback, KeepTimer, LifeInv, KnownTimerLive,
                                DrainedAfterClose
    <2>2. CASE /\ Keys(pending) # {}
               /\ SetContents(SkipGap(expectedSeq, pending))
               /\ SettleTimer(NoTimer, ts, SkipGap(expectedSeq, pending))
        <3> DEFINE res == SkipGap(expectedSeq, pending)
        <3>1. ~hasPending(res.pending, res.expected) /\ pending' = res.pending
            BY <2>2, ContentsOKNow, SkipGapContents
               DEF LifeInv, GoodResult, SetContents, hasPending, Keys
        <3>2. ts \in [Timer -> {"idle", "armed", "fired"}]
            BY <1>t
        <3> HIDE DEF ts, res
        <3>3. KnownTimerLive' /\ (Keys(res.pending) # {} => flushTimer' # NoTimer)
            BY <2>2, <3>1, <3>2, SettleTimerProps DEF res
        <3>4. owner' = owner BY <1>6 DEF flushCallback
        <3> QED BY <1>0, <2>2, <3>1, <3>3, <3>4 DEF LifeInv, DrainedAfterClose
    <2> QED BY <1>6, <2>1, <2>2 DEF flushCallback
<1>7. CASE UNCHANGED bufferVars
    BY <1>0, <1>7 DEF bufferVars, LifeInv, KnownTimerLive, DrainedAfterClose
<1> QED BY <1>1, <1>2, <1>3, <1>4, <1>5, <1>6, <1>7 DEF BufferNext, push

\* A new buffer satisfies that invariant.
LEMMA LifeInit ==
    ASSUME BufferInit
    PROVE  LifeInv
<1>1. Keys(pending) = {}
    BY DEF BufferInit, newUdpRtpReorderBuffer, EmptyPending, Keys
<1> QED BY <1>1, ContentsInit
        DEF LifeInv, KnownTimerLive, DrainedAfterClose, BufferInit,
            newUdpRtpReorderBuffer

\* While packets are being read, a gap always has a timer that will end it,
\* although stale callbacks reset flushTimer at any moment.
THEOREM GapsEnd == BufferSpec => []GapHasTimer
<1>1. LifeInv => GapHasTimer
    <2> SUFFICES ASSUME LifeInv, owner = "open", Keys(pending) # {}
                 PROVE  flushTimer # NoTimer /\ timers[flushTimer] \in {"armed", "fired"}
        BY DEF GapHasTimer
    <2>1. flushTimer # NoTimer /\ timers[flushTimer] # "idle"
        BY DEF LifeInv, KnownTimerLive
    <2>2. flushTimer \in Timer /\ timers[flushTimer] \in {"idle", "armed", "fired"}
        BY <2>1 DEF LifeInv, ContentsInv, BufferTypeOK
    <2> QED BY <2>1, <2>2
<1> QED BY <1>1, LifeInit, LifeStep, PTL DEF BufferSpec

\* Once close has returned no step emits anything, however many callbacks had
\* already fired when it was called.
THEOREM CloseIsFinal == BufferSpec => NothingAfterClose
<1>1. LifeInv /\ [BufferNext]_bufferVars =>
         [(owner \in {"flushed", "closed"}) => emitted' = <<>>]_bufferVars
    <2> SUFFICES ASSUME LifeInv, BufferNext, owner \in {"flushed", "closed"}
                 PROVE  emitted' = <<>>
        OBVIOUS
    <2>1. Keys(pending) = {}
        BY DEF LifeInv, DrainedAfterClose
    <2> QED BY <2>1 DEF BufferNext, push, pushStale, pushFresh, stop, closeStop,
                        flushRemaining, timerFires, flushCallback
<1> QED BY <1>1, LifeInit, LifeStep, PTL DEF BufferSpec, NothingAfterClose
=============================================================================
