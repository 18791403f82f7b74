---------------------------- MODULE M3uParserProofs ----------------------------
(***************************************************************************)
(* Proofs about M3uParser, for any playlist: entries and urls are paired   *)
(* as they stand in it, and the lineup has one channel of each identity,   *)
(* in order.                                                               *)
(***************************************************************************)
EXTENDS M3uParser, FiniteSetTheorems, WellFoundedInduction, NaturalsInduction, TLAPS

Line == {Skipped, Malformed} \union {ExtInf(e) : e \in Entries} \union {Url(u) : u \in Urls}

Key == Nat \X Nat \X Nat
Channel == [sourceIndex : Nat, entry : Entries, url : Urls, key : Key]

Between(i, j) == \A k \in i + 1 .. j : ~Is(k, {"extInf", "url"})

\* An entry waits exactly when it is the last line that is an entry or a url.
PendingInv ==
    /\ lines \in Seq(Line)
    /\ pc = "lines" =>
          \/ /\ pending = None
             /\ \A i \in 1 .. Len(lines) : Is(i, {"extInf"}) => ~Between(i, Len(lines))
          \/ \E i \in 1 .. Len(lines) :
                 Is(i, {"extInf"}) /\ pending = lines[i] /\ Between(i, Len(lines))

\* A channel carries its position and the key of its entry and url.
ChannelsInv ==
    /\ channels \in Seq(Channel)
    /\ sourceIndex = Len(channels)
    /\ \A k \in 1 .. Len(channels) :
          /\ channels[k].sourceIndex = k - 1
          /\ channels[k].key = BuildChannelIdentity(channels[k].entry, channels[k].url)

OrderedInv == pc = "done" => \E s \in Sorted : ordered = dedupe(s)

IInv == PendingInv /\ ChannelsInv /\ PairedWithOwnUrl /\ OrderedInv

-----------------------------------------------------------------------------
(* Lines.                                                                  *)

\* What the kind of a line says of it.
LEMMA LineKinds ==
    /\ \A l \in Line : l.kind \in {"skipped", "malformed", "extInf", "url"}
    /\ \A l \in Line : l.kind = "extInf" => l.entry \in Entries /\ l = ExtInf(l.entry)
    /\ \A l \in Line : l.kind = "url" => l.url \in Urls /\ l = Url(l.url)
    /\ \A l \in Line : l # None
    /\ \A e \in Entries : /\ ExtInf(e) \in Line /\ ExtInf(e).kind = "extInf"
                          /\ ExtInf(e).entry = e
    /\ \A u \in Urls : Url(u) \in Line /\ Url(u).kind = "url" /\ Url(u).url = u
    /\ {Skipped, Malformed} \subseteq Line
<1>1. ASSUME NEW l \in Line
      PROVE  /\ l.kind \in {"skipped", "malformed", "extInf", "url"}
             /\ l.kind = "extInf" => l.entry \in Entries /\ l = ExtInf(l.entry)
             /\ l.kind = "url" => l.url \in Urls /\ l = Url(l.url)
             /\ l # None
    <2>1. CASE l \in {Skipped, Malformed}
        BY <2>1 DEF Skipped, Malformed, None
    <2>2. ASSUME NEW e \in Entries, l = ExtInf(e)
          PROVE  l.kind = "extInf" /\ l.entry = e /\ l # None
        <3>1. l = [kind |-> "extInf", entry |-> e] BY <2>2 DEF ExtInf
        <3>2. None.kind = "none" BY DEF None
        <3> QED BY <3>1, <3>2
    <2>3. ASSUME NEW u \in Urls, l = Url(u)
          PROVE  l.kind = "url" /\ l.url = u /\ l # None
        <3>1. l = [kind |-> "url", url |-> u] BY <2>3 DEF Url
        <3>2. None.kind = "none" BY DEF None
        <3> QED BY <3>1, <3>2
    <2> QED BY <2>1, <2>2, <2>3 DEF Line
<1>2. ASSUME NEW e \in Entries
      PROVE  ExtInf(e) \in Line /\ ExtInf(e).kind = "extInf" /\ ExtInf(e).entry = e
    BY DEF Line, ExtInf
<1>3. ASSUME NEW u \in Urls
      PROVE  Url(u) \in Line /\ Url(u).kind = "url" /\ Url(u).url = u
    BY DEF Line, Url
<1>4. {Skipped, Malformed} \subseteq Line
    BY DEF Line
<1> QED BY <1>1, <1>2, <1>3, <1>4

\* A line is read behind those that were.
LEMMA LinesGrow ==
    ASSUME lines \in Seq(Line), NEW l \in Line, Read(l)
    PROVE  /\ lines' \in Seq(Line) /\ Len(lines') = Len(lines) + 1
           /\ lines'[Len(lines) + 1] = l
           /\ \A i \in 1 .. Len(lines) : lines'[i] = lines[i]
           /\ pc = "lines" /\ pc' = "lines"
BY DEF Read

\* A pair read before stays a pair, and a new one ends in the new line.
LEMMA PairedGrows ==
    ASSUME lines \in Seq(Line), NEW l \in Line, Read(l)
    PROVE  /\ Paired \subseteq Paired'
           /\ \A p \in Paired' : p \in Paired \/ p[2] = Len(lines) + 1
           /\ \A p \in Paired : p[2] \in 1 .. Len(lines) /\ p[1] \in 1 .. p[2] - 1
<1>1. /\ Len(lines') = Len(lines) + 1 /\ Len(lines) \in Nat
      /\ \A i \in 1 .. Len(lines) : lines'[i] = lines[i]
    BY LinesGrow
<1>2. ASSUME NEW p \in Paired PROVE p \in Paired'
    BY <1>1 DEF Paired, Is
<1>3. ASSUME NEW p \in Paired', p[2] # Len(lines) + 1 PROVE p \in Paired
    <2>1. /\ p \in (1 .. Len(lines')) \X (1 .. Len(lines'))
          /\ p[1] < p[2] /\ Is(p[1], {"extInf"})' /\ Is(p[2], {"url"})'
          /\ lines'[p[2]].url \in Allowed
          /\ \A k \in p[1] + 1 .. p[2] - 1 : ~Is(k, {"extInf", "url"})'
        BY DEF Paired, Is
    <2>2. p \in (1 .. Len(lines)) \X (1 .. Len(lines))
        BY <1>1, <1>3, <2>1
    <2> QED BY <1>1, <2>1, <2>2 DEF Paired, Is
<1>4. ASSUME NEW p \in Paired
      PROVE  p[2] \in 1 .. Len(lines) /\ p[1] \in 1 .. p[2] - 1
    BY <1>1 DEF Paired
<1> QED BY <1>2, <1>3, <1>4

\* A line that completes no entry changes no pair.
LEMMA NoNewPair ==
    ASSUME PendingInv, PairedWithOwnUrl, NEW l \in Line, Read(l), UNCHANGED channels,
           ~(l.kind = "url" /\ l.url \in Allowed /\ pending # None)
    PROVE  PairedWithOwnUrl'
<1>1. lines \in Seq(Line)
    BY DEF PendingInv
<1>2. /\ lines' \in Seq(Line) /\ Len(lines') = Len(lines) + 1 /\ Len(lines) \in Nat
      /\ lines'[Len(lines) + 1] = l
      /\ \A i \in 1 .. Len(lines) : lines'[i] = lines[i]
      /\ pc = "lines"
    BY <1>1, LinesGrow
<1>3. ASSUME NEW p \in Paired', p[2] = Len(lines) + 1 PROVE FALSE
    <2>1. /\ p[1] \in 1 .. Len(lines) /\ lines[p[1]].kind = "extInf"
          /\ \A k \in p[1] + 1 .. Len(lines) : lines[k].kind \notin {"extInf", "url"}
        BY <1>2, <1>3 DEF Paired, Is
    <2>2. l.kind = "url" /\ l.url \in Allowed
        BY <1>2, <1>3 DEF Paired, Is
    <2>3. pending = None
        BY <2>2
    <2>4. \A i \in 1 .. Len(lines) : Is(i, {"extInf"}) => ~Between(i, Len(lines))
        <3>1. \A i \in 1 .. Len(lines) : lines[i] # None
            BY <1>1, LineKinds
        <3> QED BY <1>2, <2>3, <3>1 DEF PendingInv
    <2> QED BY <2>1, <2>4 DEF Is, Between
<1>4. Paired' = Paired
    BY <1>1, <1>3, PairedGrows
<1>5. PICK pairs \in [1 .. Len(channels) -> Paired] :
          /\ \A p \in Paired : \E k \in 1 .. Len(channels) : pairs[k] = p
          /\ \A k \in 1 .. Len(channels) :
                /\ \A j \in 1 .. k - 1 : pairs[j][1] < pairs[k][1]
                /\ channels[k].entry = lines[pairs[k][1]].entry
                /\ channels[k].url = lines[pairs[k][2]].url
    BY DEF PairedWithOwnUrl
<1>6. \A k \in 1 .. Len(channels) :
          /\ lines'[pairs[k][1]] = lines[pairs[k][1]]
          /\ lines'[pairs[k][2]] = lines[pairs[k][2]]
    <2>1. \A p \in Paired : p[1] \in 1 .. Len(lines) /\ p[2] \in 1 .. Len(lines)
        BY <1>1 DEF Paired
    <2> QED BY <1>2, <1>5, <2>1
<1>7. channels' = channels
    OBVIOUS
<1>8. /\ pairs \in [1 .. Len(channels') -> Paired']
      /\ \A p \in Paired' : \E k \in 1 .. Len(channels') : pairs[k] = p
      /\ \A k \in 1 .. Len(channels') :
            /\ \A j \in 1 .. k - 1 : pairs[j][1] < pairs[k][1]
            /\ channels'[k].entry = lines'[pairs[k][1]].entry
            /\ channels'[k].url = lines'[pairs[k][2]].url
    BY <1>4, <1>5, <1>6, <1>7
<1> QED BY <1>8, Zenon DEF PairedWithOwnUrl

\* A url completes the entry that waits for it.
LEMMA NewPair ==
    ASSUME PendingInv, ChannelsInv, PairedWithOwnUrl, NEW u \in Urls, finalizePending(u)
    PROVE  PairedWithOwnUrl'
<1> DEFINE n == Len(lines) + 1
           m == Len(channels) + 1
<1>1. lines \in Seq(Line) /\ Url(u) \in Line /\ Read(Url(u)) /\ u \in Allowed /\ pending # None
    BY LineKinds DEF PendingInv, finalizePending
<1>2. /\ lines' \in Seq(Line) /\ Len(lines') = n /\ Len(lines) \in Nat
      /\ lines'[n] = Url(u)
      /\ \A i \in 1 .. Len(lines) : lines'[i] = lines[i]
      /\ pc = "lines"
    BY <1>1, LinesGrow
<1>3. PICK w \in 1 .. Len(lines) :
          lines[w].kind = "extInf" /\ pending = lines[w] /\ Between(w, Len(lines))
    BY <1>1, <1>2 DEF PendingInv, Is
<1>4. <<w, n>> \in Paired'
    <2>1. <<w, n>> \in (1 .. Len(lines')) \X (1 .. Len(lines')) /\ w < n
        BY <1>2
    <2>2. lines'[w].kind = "extInf" /\ lines'[n].kind = "url" /\ lines'[n].url = u
        BY <1>2, <1>3, LineKinds
    <2>3. \A k \in w + 1 .. n - 1 : lines'[k].kind \notin {"extInf", "url"}
        BY <1>2, <1>3 DEF Between, Is
    <2> QED BY <1>1, <2>1, <2>2, <2>3 DEF Paired, Is
<1>5. \A p \in Paired' : p \in Paired \/ p = <<w, n>>
    <2>1. ASSUME NEW p \in Paired', p[2] = n PROVE p = <<w, n>>
        <3>1. /\ p[1] \in 1 .. Len(lines) /\ lines[p[1]].kind = "extInf"
              /\ \A k \in p[1] + 1 .. Len(lines) : lines[k].kind \notin {"extInf", "url"}
            BY <1>2, <2>1 DEF Paired, Is
        <3>2. p[1] = w
            BY <1>2, <1>3, <3>1 DEF Between, Is
        <3>3. p = <<p[1], p[2]>>
            BY <2>1 DEF Paired
        <3> QED BY <2>1, <3>2, <3>3
    <2>2. \A p \in Paired' : p \in Paired \/ p[2] = n
        BY <1>1, PairedGrows
    <2> QED BY <2>1, <2>2
<1>6. Paired \subseteq Paired'
    BY <1>1, PairedGrows
<1>7. ASSUME NEW p \in Paired
      PROVE  p[1] < w /\ p[1] \in 1 .. Len(lines) /\ p[2] \in 1 .. Len(lines)
    <2>1. /\ p[1] \in 1 .. Len(lines) /\ p[2] \in 1 .. Len(lines) /\ p[1] < p[2]
          /\ lines[p[2]].kind = "url"
        BY DEF Paired, Is
    <2>2. p[2] \notin w + 1 .. Len(lines)
        BY <2>1, <1>3 DEF Between, Is
    <2>3. p[2] # w
        BY <1>3, <2>1
    <2> QED BY <1>2, <2>1, <2>2, <2>3
<1>8. PICK pairs \in [1 .. Len(channels) -> Paired] :
          /\ \A p \in Paired : \E k \in 1 .. Len(channels) : pairs[k] = p
          /\ \A k \in 1 .. Len(channels) :
                /\ \A j \in 1 .. k - 1 : pairs[j][1] < pairs[k][1]
                /\ channels[k].entry = lines[pairs[k][1]].entry
                /\ channels[k].url = lines[pairs[k][2]].url
    BY DEF PairedWithOwnUrl
<1>9. /\ Len(channels) \in Nat /\ Len(channels') = m
      /\ \A k \in 1 .. Len(channels) : channels'[k] = channels[k]
      /\ channels'[m].entry = pending.entry /\ channels'[m].url = u
    BY DEF ChannelsInv, finalizePending
<1> DEFINE next == [k \in 1 .. m |-> IF k = m THEN <<w, n>> ELSE pairs[k]]
<1>10. next \in [1 .. Len(channels') -> Paired']
    BY <1>4, <1>6, <1>8, <1>9
<1>11. next[m] = <<w, n>> /\ \A k \in 1 .. Len(channels) : next[k] = pairs[k]
    BY <1>9
<1>12. \A p \in Paired' : \E k \in 1 .. Len(channels') : next[k] = p
    <2> HIDE DEF next
    <2>1. ASSUME NEW p \in Paired PROVE \E k \in 1 .. Len(channels') : next[k] = p
        <3>1. PICK k \in 1 .. Len(channels) : pairs[k] = p BY <1>8
        <3> QED BY <1>9, <1>11, <3>1
    <2>2. m \in 1 .. Len(channels') BY <1>9
    <2> QED BY <1>5, <1>11, <2>1, <2>2
<1>13. ASSUME NEW k \in 1 .. Len(channels')
       PROVE  /\ \A j \in 1 .. k - 1 : next[j][1] < next[k][1]
              /\ channels'[k].entry = lines'[next[k][1]].entry
              /\ channels'[k].url = lines'[next[k][2]].url
    <2> HIDE DEF next
    <2>1. CASE k = m
        <3>1. ASSUME NEW j \in 1 .. k - 1 PROVE next[j][1] < next[k][1]
            <4>1. j \in 1 .. Len(channels) BY <1>9, <2>1
            <4>2. pairs[j] \in Paired BY <1>8, <4>1
            <4> QED BY <1>7, <1>11, <2>1, <4>1, <4>2
        <3>2. lines'[w] = lines[w] /\ lines'[n].url = u
            BY <1>2, <1>3, LineKinds
        <3> QED BY <1>3, <1>9, <1>11, <2>1, <3>1, <3>2
    <2>2. CASE k # m
        <3>1. k \in 1 .. Len(channels) /\ \A j \in 1 .. k - 1 : j \in 1 .. Len(channels)
            BY <1>9, <2>2
        <3>2. pairs[k] \in Paired BY <1>8, <3>1
        <3>3. lines'[pairs[k][1]] = lines[pairs[k][1]] /\ lines'[pairs[k][2]] = lines[pairs[k][2]]
            BY <1>2, <1>7, <3>2
        <3> QED BY <1>8, <1>9, <1>11, <3>1, <3>3
    <2> QED BY <2>1, <2>2
<1> HIDE DEF next
<1> QED BY <1>10, <1>12, <1>13, Zenon DEF PairedWithOwnUrl

\* A key is a prefix and two texts.
LEMMA IdentityIsKey ==
    ASSUME NEW e \in Entries, NEW u \in Urls
    PROVE  BuildChannelIdentity(e, u) \in Key
<1>1. Normal[e.tvgId] \in Nat /\ Normal[e.number] \in Nat /\ Normal[e.name] \in Nat
    BY PlaylistAssumption
<1>2. PathKey[u] \in Nat
    BY PlaylistAssumption
<1> QED BY <1>1, <1>2 DEF BuildChannelIdentity, Key

-----------------------------------------------------------------------------
(* One step.                                                               *)

\* A line that is neither an entry nor a url leaves the wait as it is.
LEMMA WaitStays ==
    ASSUME PendingInv, NEW l \in Line, Read(l), l.kind \notin {"extInf", "url"},
           pending' = pending
    PROVE  PendingInv'
<1>1. /\ lines \in Seq(Line) /\ lines' \in Seq(Line) /\ Len(lines') = Len(lines) + 1
      /\ Len(lines) \in Nat /\ lines'[Len(lines) + 1] = l
      /\ \A i \in 1 .. Len(lines) : lines'[i] = lines[i]
      /\ pc = "lines"
    BY LinesGrow DEF PendingInv
<1>2. \A i \in 1 .. Len(lines) : Between(i, Len(lines)) <=> Between(i, Len(lines))'
    BY <1>1 DEF Between, Is
<1>3. CASE /\ pending = None
           /\ \A i \in 1 .. Len(lines) : Is(i, {"extInf"}) => ~Between(i, Len(lines))
    <2>1. ASSUME NEW i \in 1 .. Len(lines'), lines'[i].kind = "extInf"
          PROVE  ~(Between(i, Len(lines))')
        <3>1. i \in 1 .. Len(lines) /\ lines[i].kind = "extInf" BY <1>1, <2>1
        <3> QED BY <1>2, <1>3, <3>1 DEF Is
    <2> QED BY <1>1, <1>3, <2>1 DEF PendingInv, Is
<1>4. ASSUME NEW i \in 1 .. Len(lines), Is(i, {"extInf"}), pending = lines[i],
             Between(i, Len(lines))
      PROVE  PendingInv'
    <2>1. i \in 1 .. Len(lines') /\ lines'[i].kind = "extInf" /\ pending' = lines'[i]
          /\ Between(i, Len(lines))'
        BY <1>1, <1>2, <1>4 DEF Is
    <2> QED BY <1>1, <2>1 DEF PendingInv, Is
<1> QED BY <1>1, <1>3, <1>4 DEF PendingInv

\* After a url nothing waits.
LEMMA WaitEnds ==
    ASSUME PendingInv, NEW u \in Urls, Read(Url(u)), pending' = None
    PROVE  PendingInv'
<1>1. /\ lines' \in Seq(Line) /\ Len(lines') = Len(lines) + 1
      /\ Len(lines) \in Nat /\ lines'[Len(lines) + 1].kind = "url"
    BY LinesGrow, LineKinds DEF PendingInv
<1>2. ASSUME NEW i \in 1 .. Len(lines'), lines'[i].kind = "extInf"
      PROVE  ~(Between(i, Len(lines))')
    <2>1. Len(lines') \in i + 1 .. Len(lines') BY <1>1, <1>2
    <2> QED BY <1>1, <2>1 DEF Between, Is
<1> QED BY <1>1, <1>2 DEF PendingInv, Is

\* An entry waits from the line it stands in.
LEMMA WaitBegins ==
    ASSUME PendingInv, NEW e \in Entries, readExtInf(e)
    PROVE  PendingInv'
<1>1. Read(ExtInf(e)) /\ ExtInf(e) \in Line /\ ExtInf(e).kind = "extInf"
    BY LineKinds DEF readExtInf
<1>2. /\ lines' \in Seq(Line) /\ Len(lines') = Len(lines) + 1
      /\ Len(lines) \in Nat /\ lines'[Len(lines) + 1] = ExtInf(e)
    BY <1>1, LinesGrow DEF PendingInv
<1>3. PICK i \in 1 .. Len(lines') : i = Len(lines')
    BY <1>2
<1>4. lines'[i].kind = "extInf" /\ pending' = lines'[i] /\ Between(i, Len(lines))'
    BY <1>1, <1>2, <1>3 DEF readExtInf, Between
<1> QED BY <1>2, <1>4 DEF PendingInv, Is

LEMMA PendingStep ==
    ASSUME PendingInv, [Next]_vars
    PROVE  PendingInv'
<1>1. CASE ignoreLine
    <2>1. PICK l \in {Skipped, Malformed} : Read(l)
        BY <1>1 DEF ignoreLine
    <2>2. l \in Line /\ l.kind \notin {"extInf", "url"}
        BY LineKinds DEF Skipped, Malformed
    <2> QED BY <1>1, <2>1, <2>2, WaitStays DEF ignoreLine
<1>2. ASSUME NEW e \in Entries, readExtInf(e) PROVE PendingInv'
    BY <1>2, WaitBegins
<1>3. ASSUME NEW u \in Urls, refuseUrl(u) \/ unexpectedUrl(u) \/ finalizePending(u)
      PROVE  PendingInv'
    BY <1>3, WaitEnds DEF refuseUrl, unexpectedUrl, finalizePending
<1>4. CASE endOfPlaylist
    BY <1>4 DEF endOfPlaylist, PendingInv
<1>5. CASE UNCHANGED vars
    BY <1>5 DEF vars, PendingInv, Is, Between
<1> QED BY <1>1, <1>2, <1>3, <1>4, <1>5 DEF Next

LEMMA PairsStep ==
    ASSUME PendingInv, ChannelsInv, PairedWithOwnUrl, [Next]_vars
    PROVE  PairedWithOwnUrl'
<1>1. CASE ignoreLine
    <2>1. PICK l \in {Skipped, Malformed} : Read(l)
        BY <1>1 DEF ignoreLine
    <2>2. l \in Line /\ l.kind # "url"
        BY LineKinds DEF Skipped, Malformed
    <2>3. UNCHANGED channels
        BY <1>1 DEF ignoreLine
    <2> QED BY <2>1, <2>2, <2>3, NoNewPair
<1>2. ASSUME NEW e \in Entries, readExtInf(e) PROVE PairedWithOwnUrl'
    <2>1. Read(ExtInf(e)) /\ ExtInf(e) \in Line /\ ExtInf(e).kind # "url"
        BY <1>2, LineKinds DEF readExtInf
    <2>2. UNCHANGED channels
        BY <1>2 DEF readExtInf
    <2> QED BY <2>1, <2>2, NoNewPair
<1>3. ASSUME NEW u \in Urls, refuseUrl(u) \/ unexpectedUrl(u)
      PROVE  PairedWithOwnUrl'
    <2>1. Read(Url(u)) /\ Url(u) \in Line /\ Url(u).url = u
        BY <1>3, LineKinds DEF refuseUrl, unexpectedUrl
    <2>2. UNCHANGED channels /\ ~(u \in Allowed /\ pending # None)
        BY <1>3 DEF refuseUrl, unexpectedUrl
    <2> QED BY <2>1, <2>2, NoNewPair
<1>4. ASSUME NEW u \in Urls, finalizePending(u) PROVE PairedWithOwnUrl'
    BY <1>4, NewPair
<1>5. CASE endOfPlaylist \/ UNCHANGED vars
    <2>1. lines' = lines /\ channels' = channels
        BY <1>5 DEF endOfPlaylist, vars
    <2> QED BY <2>1 DEF PairedWithOwnUrl, Paired, Is
<1> QED BY <1>1, <1>2, <1>3, <1>4, <1>5 DEF Next

LEMMA ChannelsStep ==
    ASSUME PendingInv, ChannelsInv, [Next]_vars
    PROVE  ChannelsInv'
<1>1. ASSUME NEW u \in Urls, finalizePending(u) PROVE ChannelsInv'
    <2> DEFINE c == [sourceIndex |-> sourceIndex, entry |-> pending.entry, url |-> u,
                     key |-> BuildChannelIdentity(pending.entry, u)]
    <2>1. pending.entry \in Entries
        <3>1. pc = "lines" /\ pending # None
            BY <1>1 DEF finalizePending, Read
        <3>2. PICK w \in 1 .. Len(lines) : lines[w].kind = "extInf" /\ pending = lines[w]
            BY <3>1 DEF PendingInv, Is
        <3>3. lines[w] \in Line
            BY DEF PendingInv
        <3> QED BY <3>2, <3>3, LineKinds
    <2>2. sourceIndex \in Nat
        BY DEF ChannelsInv
    <2>3. c \in Channel
        BY <2>1, <2>2, IdentityIsKey DEF Channel
    <2>4. /\ c.sourceIndex = sourceIndex
          /\ c.key = BuildChannelIdentity(c.entry, c.url)
        OBVIOUS
    <2>5. channels' = Append(channels, c) /\ sourceIndex' = sourceIndex + 1
        BY <1>1 DEF finalizePending
    <2> HIDE DEF c
    <2>6. /\ channels' \in Seq(Channel) /\ Len(channels') = Len(channels) + 1
          /\ channels'[Len(channels) + 1] = c
          /\ \A k \in 1 .. Len(channels) : channels'[k] = channels[k]
        BY <2>3, <2>5 DEF ChannelsInv
    <2> QED BY <2>4, <2>5, <2>6 DEF ChannelsInv
<1>2. CASE UNCHANGED <<channels, sourceIndex>>
    BY <1>2 DEF ChannelsInv
<1>3. (\E u \in Urls : finalizePending(u)) \/ UNCHANGED <<channels, sourceIndex>>
    BY DEF Next, ignoreLine, readExtInf, refuseUrl, unexpectedUrl, endOfPlaylist, vars
<1> QED BY <1>1, <1>2, <1>3

-----------------------------------------------------------------------------
(* Selecting by place.                                                     *)

\* The places of the elements of a finite set of numbers are 1, 2, ... up to
\* their number, in their order.
LEMMA RankProps ==
    ASSUME NEW S \in SUBSET Nat, IsFiniteSet(S)
    PROVE  /\ Cardinality(S) \in Nat
           /\ \A i \in S : RankIn(S, i) \in 1 .. Cardinality(S)
           /\ \A i, j \in S : i < j => RankIn(S, i) < RankIn(S, j)
<1> DEFINE Upto(i) == {j \in S : j <= i}
<1>0. \A i \in S : i \in Nat
    OBVIOUS
<1>1. Cardinality(S) \in Nat
    BY FS_CardinalityType
<1>2. ASSUME NEW i \in S
      PROVE  IsFiniteSet(Upto(i)) /\ Cardinality(Upto(i)) \in 1 .. Cardinality(S)
    <2>1. Upto(i) \in SUBSET S
        OBVIOUS
    <2>2. IsFiniteSet(Upto(i)) /\ Cardinality(Upto(i)) <= Cardinality(S)
        BY <2>1, FS_Subset
    <2>3. i \in Upto(i)
        OBVIOUS
    <2>4. Cardinality(Upto(i)) \in Nat /\ Cardinality(Upto(i)) # 0
        BY <2>2, <2>3, FS_CardinalityType, FS_EmptySet
    <2> QED BY <1>1, <2>2, <2>4
<1>3. ASSUME NEW i \in S, NEW j \in S, i < j
      PROVE  Cardinality(Upto(i)) < Cardinality(Upto(j))
    <2>1. Upto(i) \in SUBSET Upto(j) /\ j \in Upto(j) /\ j \notin Upto(i)
        <3>1. i \in Nat /\ j \in Nat /\ i < j BY <1>0, <1>3
        <3>2. ~(j <= i) /\ j <= j BY <3>1
        <3>3. ASSUME NEW x \in S, x <= i PROVE x <= j
            <4>1. x \in Nat BY <1>0
            <4> QED BY <3>1, <3>3, <4>1
        <3> QED BY <3>2, <3>3
    <2>2. Cardinality(Upto(i)) <= Cardinality(Upto(j))
          /\ Cardinality(Upto(i)) # Cardinality(Upto(j))
        BY <1>2, <2>1, FS_Subset
    <2> QED BY <1>2, <2>2
<1> QED BY <1>1, <1>2, <1>3 DEF RankIn

\* Nth finds the element of each place.
LEMMA NthProps ==
    ASSUME NEW S \in SUBSET Nat, IsFiniteSet(S)
    PROVE  /\ \A k \in 1 .. Cardinality(S) : Nth(S, k) \in S /\ RankIn(S, Nth(S, k)) = k
           /\ \A i \in S : Nth(S, RankIn(S, i)) = i
           /\ \A j, k \in 1 .. Cardinality(S) : j < k => Nth(S, j) < Nth(S, k)
<1> DEFINE n == Cardinality(S)
           f == [i \in S |-> RankIn(S, i)]
<1>0. \A i \in S : i \in Nat
    OBVIOUS
<1>1. /\ n \in Nat
      /\ \A i \in S : RankIn(S, i) \in 1 .. n
      /\ \A i, j \in S : i < j => RankIn(S, i) < RankIn(S, j)
    BY RankProps
<1>2. \A i, j \in S : RankIn(S, i) = RankIn(S, j) => i = j
    BY <1>0, <1>1
<1>3. f \in Injection(S, 1 .. n)
    BY <1>1, <1>2 DEF Injection, IsInjective
<1>4. IsFiniteSet(1 .. n) /\ Cardinality(1 .. n) = n
    BY <1>1, FS_Interval
<1>5. f \in Surjection(S, 1 .. n)
    <2> HIDE DEF f
    <2>1. Cardinality(S) = Cardinality(1 .. n)
        BY <1>4
    <2> QED BY <1>3, <1>4, <2>1, FS_Injection
<1>6. ASSUME NEW k \in 1 .. n PROVE Nth(S, k) \in S /\ RankIn(S, Nth(S, k)) = k
    <2>1. \E i \in S : RankIn(S, i) = k
        BY <1>5 DEF Surjection
    <2> QED BY <2>1 DEF Nth
<1>7. \A i \in S : Nth(S, RankIn(S, i)) = i
    BY <1>1, <1>2, <1>6
<1>8. ASSUME NEW j \in 1 .. n, NEW k \in 1 .. n, j < k PROVE Nth(S, j) < Nth(S, k)
    <2>1. PICK a \in S : a = Nth(S, j) /\ RankIn(S, a) = j
        BY <1>6
    <2>2. PICK b \in S : b = Nth(S, k) /\ RankIn(S, b) = k
        BY <1>6
    <2>3. a \in Nat /\ b \in Nat /\ j \in Nat /\ k \in Nat
        BY <1>0, <1>1
    <2>4. ~(b < a) /\ a # b
        <3>1. ~(RankIn(S, b) < RankIn(S, a)) BY <1>8, <2>1, <2>2, <2>3
        <3> QED BY <1>1, <1>8, <2>1, <2>2, <2>3, <3>1
    <2> QED BY <2>1, <2>2, <2>3, <2>4
<1> QED BY <1>6, <1>7, <1>8

-----------------------------------------------------------------------------
(* The end of the playlist.                                                *)

\* Sorting loses and doubles no channel.
LEMMA SortedProps ==
    ASSUME ChannelsInv, NEW s \in Sorted
    PROVE  /\ Len(s) \in Nat /\ DOMAIN s = 1 .. Len(s)
           /\ \A i \in 1 .. Len(s) : \E k \in 1 .. Len(channels) : s[i] = channels[k]
           /\ \A k \in 1 .. Len(channels) : \E i \in 1 .. Len(s) : s[i] = channels[k]
           /\ \A i, j \in 1 .. Len(s) : i < j => s[i] # s[j] /\ ~compareChannels(s[j], s[i])
<1> DEFINE T == ToSet(channels)
           n == Cardinality(T)
<1>1. /\ Len(channels) \in Nat /\ DOMAIN channels = 1 .. Len(channels)
    BY DEF ChannelsInv
<1>2. T = {channels[k] : k \in 1 .. Len(channels)}
    BY <1>1 DEF ToSet
<1>3. channels \in Surjection(1 .. Len(channels), T)
    <2>1. channels \in [1 .. Len(channels) -> T]
        BY <1>1, <1>2 DEF ChannelsInv
    <2>2. \A t \in T : \E k \in 1 .. Len(channels) : channels[k] = t
        BY <1>2
    <2> HIDE DEF T
    <2> QED BY <2>1, <2>2 DEF Surjection
<1>4. IsFiniteSet(1 .. Len(channels))
    BY <1>1, FS_Interval
<1>5. IsFiniteSet(T) /\ n \in Nat
    <2>1. IsFiniteSet(T) BY <1>3, <1>4, FS_Surjection
    <2> QED BY <2>1, FS_CardinalityType
<1>6. /\ s \in [1 .. n -> T]
      /\ \A i, j \in 1 .. n : i # j => s[i] # s[j]
      /\ \A i, j \in 1 .. Len(s) : i < j => ~compareChannels(s[j], s[i])
    BY DEF Sorted, SetToSeqs
<1>7. Len(s) = n /\ DOMAIN s = 1 .. n
    BY <1>5, <1>6
<1>8. s \in Surjection(1 .. n, T)
    <2>1. IsFiniteSet(1 .. n) /\ Cardinality(1 .. n) = n
        BY <1>5, FS_Interval
    <2>2. s \in Injection(1 .. n, T)
        <3> HIDE DEF T, n
        <3> QED BY <1>6 DEF Injection, IsInjective
    <2>3. Cardinality(1 .. n) = Cardinality(T)
        BY <2>1
    <2> QED BY <1>5, <2>2, <2>3, FS_Injection
<1>9. \A k \in 1 .. Len(channels) : \E i \in 1 .. n : s[i] = channels[k]
    <2>1. \A k \in 1 .. Len(channels) : channels[k] \in T BY <1>2
    <2> HIDE DEF T, n
    <2> QED BY <1>8, <2>1 DEF Surjection
<1>10. \A i \in 1 .. n : \E k \in 1 .. Len(channels) : s[i] = channels[k]
    <2>1. \A i \in 1 .. n : s[i] \in T BY <1>6
    <2> QED BY <1>2, <2>1
<1>11. \A i, j \in 1 .. n : i < j => s[i] # s[j]
    <2> HIDE DEF T, n
    <2> QED BY <1>5, <1>6
<1> HIDE DEF T, n
<1> QED BY <1>5, <1>6, <1>7, <1>9, <1>10, <1>11

\* at says where in s the k-th element of d stood: d keeps the first elements
\* of each key, all of them, and their order.
Selects(at, s, d) ==
    /\ at \in [1 .. Len(d) -> FirstOfKey(s)]
    /\ \A k \in 1 .. Len(d) : d[k] = s[at[k]]
    /\ \A j, k \in 1 .. Len(d) : j < k => at[j] < at[k]
    /\ \A i \in FirstOfKey(s) : \E k \in 1 .. Len(d) : at[k] = i

LEMMA DedupeSelects ==
    ASSUME NEW s, Len(s) \in Nat
    PROVE  Len(dedupe(s)) \in Nat /\ \E at : Selects(at, s, dedupe(s))
<1> DEFINE S == FirstOfKey(s)
           n == Cardinality(S)
           at == [k \in 1 .. n |-> Nth(S, k)]
<1>1. S \subseteq 1 .. Len(s)
    BY DEF FirstOfKey
<1>2. IsFiniteSet(1 .. Len(s))
    BY FS_Interval
<1>3. S \in SUBSET Nat /\ IsFiniteSet(S)
    <2>1. S \in SUBSET (1 .. Len(s)) BY <1>1
    <2>2. IsFiniteSet(S) BY <1>2, <2>1, FS_Subset
    <2> QED BY <1>1, <2>2
<1>4. n \in Nat
    BY <1>3, FS_CardinalityType
<1>5. /\ \A k \in 1 .. n : Nth(S, k) \in S
      /\ \A i \in S : Nth(S, RankIn(S, i)) = i
      /\ \A j, k \in 1 .. n : j < k => Nth(S, j) < Nth(S, k)
      /\ \A i \in S : RankIn(S, i) \in 1 .. n
    <2> HIDE DEF S
    <2> QED BY <1>3, NthProps, RankProps
<1>6. /\ dedupe(s) = [k \in 1 .. n |-> s[Nth(S, k)]]
      /\ Len(dedupe(s)) = n
    BY <1>4 DEF dedupe
<1>7. Selects(at, s, dedupe(s))
    <2> HIDE DEF n
    <2>1. at \in [1 .. n -> S]
        <3> HIDE DEF S
        <3> QED BY <1>5
    <2>2. \A k \in 1 .. n : at[k] = Nth(S, k) /\ dedupe(s)[k] = s[Nth(S, k)]
        BY <1>6
    <2>3. \A i \in S : \E k \in 1 .. n : at[k] = i
        <3> HIDE DEF S, at
        <3> QED BY <1>5, <2>2
    <2>4. \A j, k \in 1 .. n : j < k => at[j] < at[k]
        <3> HIDE DEF S, at
        <3> QED BY <1>5, <2>2
    <2> DEFINE d == dedupe(s)
    <2>5. Len(d) = n /\ \A k \in 1 .. n : d[k] = s[at[k]]
        BY <1>6, <2>2
    <2> HIDE DEF at, d
    <2>6. Selects(at, s, d)
        BY <2>1, <2>3, <2>4, <2>5 DEF Selects
    <2> QED BY <2>6 DEF d
<1> QED BY <1>4, <1>6, <1>7

LEMMA OrderedStep ==
    ASSUME OrderedInv, [Next]_vars
    PROVE  OrderedInv'
<1>1. CASE endOfPlaylist
    <2>1. channels' = channels
        BY <1>1 DEF endOfPlaylist
    <2>2. Sorted' = Sorted
        BY <2>1 DEF Sorted
    <2> QED BY <1>1, <2>2 DEF endOfPlaylist, OrderedInv
<1>2. CASE UNCHANGED vars
    <2>1. channels' = channels /\ pc' = pc /\ ordered' = ordered
        BY <1>2 DEF vars
    <2>2. Sorted' = Sorted
        BY <2>1 DEF Sorted
    <2> QED BY <2>1, <2>2 DEF OrderedInv
<1>3. CASE pc' = "lines"
    BY <1>3 DEF OrderedInv
<1>4. endOfPlaylist \/ UNCHANGED vars \/ pc' = "lines"
    BY DEF Next, ignoreLine, readExtInf, refuseUrl, unexpectedUrl, finalizePending, Read
<1> QED BY <1>1, <1>2, <1>3, <1>4

-----------------------------------------------------------------------------
(* The order of the lineup.                                                *)

\* One key is before another when it is at the first place they differ in.
LEMMA LexFirst ==
    ASSUME NEW s1, NEW s2, NEW s3, NEW s4, NEW s5, NEW s6,
           NEW t1, NEW t2, NEW t3, NEW t4, NEW t5, NEW t6
    PROVE  LET s == <<s1, s2, s3, s4, s5, s6>>
               t == <<t1, t2, t3, t4, t5, t6>>
           IN  /\ s1 < t1 => LexLess(s, t)
               /\ s1 = t1 /\ s2 < t2 => LexLess(s, t)
               /\ s1 = t1 /\ s2 = t2 /\ s3 < t3 => LexLess(s, t)
<1> DEFINE s == <<s1, s2, s3, s4, s5, s6>>
           t == <<t1, t2, t3, t4, t5, t6>>
<1>1. /\ Len(s) = 6
      /\ s[1] = s1 /\ s[2] = s2 /\ s[3] = s3
      /\ t[1] = t1 /\ t[2] = t2 /\ t[3] = t3
    OBVIOUS
<1> HIDE DEF s, t
<1>2. ASSUME s1 < t1 PROVE LexLess(s, t)
    <2>1. 1 \in 1 .. Len(s) /\ s[1] < t[1] /\ \A j \in 1 .. 1 - 1 : s[j] = t[j]
        BY <1>1, <1>2
    <2> QED BY <2>1 DEF LexLess
<1>3. ASSUME s1 = t1, s2 < t2 PROVE LexLess(s, t)
    <2>1. 2 \in 1 .. Len(s) /\ s[2] < t[2] /\ \A j \in 1 .. 2 - 1 : s[j] = t[j]
        BY <1>1, <1>3
    <2> QED BY <2>1 DEF LexLess
<1>4. ASSUME s1 = t1, s2 = t2, s3 < t3 PROVE LexLess(s, t)
    <2>1. 3 \in 1 .. Len(s) /\ s[3] < t[3]
        BY <1>1, <1>4
    <2>2. ASSUME NEW j \in 1 .. 3 - 1 PROVE s[j] = t[j]
        <3>1. j = 1 \/ j = 2 OBVIOUS
        <3> QED BY <1>1, <1>4, <3>1
    <2> QED BY <2>1, <2>2 DEF LexLess
<1> QED BY <1>2, <1>3, <1>4 DEF s, t

LEMMA CompareProps ==
    ASSUME NEW l \in Channel, NEW r \in Channel
    PROVE  /\ HasNumber(l) /\ ~HasNumber(r) => compareChannels(l, r)
           /\ /\ HasNumber(l) /\ HasNumber(r)
              /\ Numeric[l.entry.number] < Numeric[r.entry.number]
              => compareChannels(l, r)
           /\ /\ ~HasNumber(l) /\ ~HasNumber(r)
              /\ Lower[l.entry.name] < Lower[r.entry.name]
              => compareChannels(l, r)
<1>1. compareChannels(l, r) <=>
          LexLess(<< IF HasNumber(l) THEN 0 ELSE 1,
                     IF HasNumber(l) THEN Numeric[l.entry.number] ELSE 0,
                     Lower[l.entry.name], l.key[1], l.key[2], l.key[3] >>,
                  << IF HasNumber(r) THEN 0 ELSE 1,
                     IF HasNumber(r) THEN Numeric[r.entry.number] ELSE 0,
                     Lower[r.entry.name], r.key[1], r.key[2], r.key[3] >>)
    BY DEF compareChannels, SortKey
<1>2. CASE HasNumber(l) /\ ~HasNumber(r)
    <2>1. compareChannels(l, r) <=>
              LexLess(<< 0, Numeric[l.entry.number],
                         Lower[l.entry.name], l.key[1], l.key[2], l.key[3] >>,
                      << 1, 0, Lower[r.entry.name], r.key[1], r.key[2], r.key[3] >>)
        BY <1>1, <1>2
    <2>2. 0 < 1
        OBVIOUS
    <2> QED BY <1>2, <2>1, <2>2, LexFirst
<1>3. CASE HasNumber(l) /\ HasNumber(r)
    <2>1. compareChannels(l, r) <=>
              LexLess(<< 0, Numeric[l.entry.number],
                         Lower[l.entry.name], l.key[1], l.key[2], l.key[3] >>,
                      << 0, Numeric[r.entry.number],
                         Lower[r.entry.name], r.key[1], r.key[2], r.key[3] >>)
        BY <1>1, <1>3
    <2> QED BY <1>3, <2>1, LexFirst
<1>4. CASE ~HasNumber(l) /\ ~HasNumber(r)
    <2>1. compareChannels(l, r) <=>
              LexLess(<< 1, 0, Lower[l.entry.name], l.key[1], l.key[2], l.key[3] >>,
                      << 1, 0, Lower[r.entry.name], r.key[1], r.key[2], r.key[3] >>)
        BY <1>1, <1>4
    <2> QED BY <1>4, <2>1, LexFirst
<1> QED BY <1>2, <1>3, <1>4

\* No channel is before itself.
LEMMA CompareIrreflexive ==
    ASSUME NEW c \in Channel
    PROVE  ~compareChannels(c, c)
<1>1. Lower[c.entry.name] \in Nat
    BY PlaylistAssumption DEF Channel
<1>2. c.key[1] \in Nat /\ c.key[2] \in Nat /\ c.key[3] \in Nat
    BY DEF Channel, Key
<1>3. HasNumber(c) => Numeric[c.entry.number] \in Nat
    BY PlaylistAssumption DEF HasNumber
<1>4. SortKey(c) \in Seq(Nat)
    BY <1>1, <1>2, <1>3 DEF SortKey
<1> DEFINE s == SortKey(c)
<1>5. \A i \in 1 .. Len(s) : ~(s[i] < s[i])
    <2> HIDE DEF s
    <2>1. s \in Seq(Nat) BY <1>4 DEF s
    <2>2. \A i \in 1 .. Len(s) : s[i] \in Nat BY <2>1
    <2> QED BY <2>2
<1> QED BY <1>5 DEF compareChannels, LexLess

\* What OnePerIdentity asks of an entry and its url depends on the channel only.
LEMMA CompareByKey ==
    ASSUME NEW c \in Channel, NEW e, NEW key, e = c.entry, key = c.key, NEW d
    PROVE  compareChannels([entry |-> e, key |-> key], d) <=> compareChannels(c, d)
<1>1. SortKey([entry |-> e, key |-> key]) = SortKey(c)
    BY DEF SortKey, HasNumber
<1> QED BY <1>1 DEF compareChannels

\* What the lineup holds, told from the sorted channels.
LEMMA LineupProps ==
    ASSUME IInv, NEW s \in Sorted, NEW at, Selects(at, s, ordered), Len(ordered) \in Nat
    PROVE  /\ \A k \in 1 .. Len(ordered) : \E i \in 1 .. Len(channels) : ordered[k] = channels[i]
           /\ \A k \in 1 .. Len(ordered) : ordered[k] \in Channel
           /\ \A j, k \in 1 .. Len(ordered) : j < k =>
                  /\ ordered[j] # ordered[k]
                  /\ ~compareChannels(ordered[k], ordered[j])
                  /\ ordered[j].key # ordered[k].key
<1>1. ChannelsInv
    BY DEF IInv
<1>2. ASSUME NEW k \in 1 .. Len(ordered)
      PROVE  at[k] \in 1 .. Len(s) /\ at[k] \in FirstOfKey(s) /\ ordered[k] = s[at[k]]
    BY DEF Selects, FirstOfKey
<1>3. ASSUME NEW k \in 1 .. Len(ordered)
      PROVE  \E i \in 1 .. Len(channels) : ordered[k] = channels[i]
    <2>1. PICK a \in 1 .. Len(s) : ordered[k] = s[a]
        BY <1>2
    <2>2. \E i \in 1 .. Len(channels) : s[a] = channels[i]
        BY <1>1, SortedProps
    <2> QED BY <2>1, <2>2
<1>4. ASSUME NEW k \in 1 .. Len(ordered) PROVE ordered[k] \in Channel
    BY <1>1, <1>3 DEF ChannelsInv
<1>5. ASSUME NEW j \in 1 .. Len(ordered), NEW k \in 1 .. Len(ordered), j < k
      PROVE  /\ ordered[j] # ordered[k]
             /\ ~compareChannels(ordered[k], ordered[j])
             /\ ordered[j].key # ordered[k].key
    <2>1. PICK a \in 1 .. Len(s) : a = at[j] /\ ordered[j] = s[a]
        BY <1>2
    <2>2. PICK b \in 1 .. Len(s) : b = at[k] /\ ordered[k] = s[b] /\ b \in FirstOfKey(s)
        BY <1>2
    <2>3. a < b
        BY <1>5, <2>1, <2>2 DEF Selects
    <2>4. a \in 1 .. b - 1
        BY <2>3
    <2>5. s[a].key # s[b].key
        BY <2>2, <2>4 DEF FirstOfKey
    <2> QED BY <1>1, <2>1, <2>2, <2>3, <2>5, SortedProps
<1> QED BY <1>3, <1>4, <1>5

LEMMA OrderAtEnd == IInv => LineupOrder
<1> SUFFICES ASSUME IInv, pc = "done" PROVE LineupOrder
    BY DEF LineupOrder
<1>1. PICK s \in Sorted : ordered = dedupe(s)
    BY DEF IInv, OrderedInv
<1>2. Len(s) \in Nat
    BY SortedProps DEF IInv
<1>3. Len(ordered) \in Nat /\ \E at : Selects(at, s, ordered)
    BY <1>1, <1>2, DedupeSelects
<1>4. ASSUME NEW i \in 1 .. Len(ordered), NEW j \in 1 .. Len(ordered), i < j,
             NEW l, l = ordered[i], NEW r, r = ordered[j]
      PROVE  \/ HasNumber(l) /\ ~HasNumber(r)
             \/ /\ HasNumber(l) /\ HasNumber(r)
                /\ Numeric[l.entry.number] <= Numeric[r.entry.number]
             \/ /\ ~HasNumber(l) /\ ~HasNumber(r)
                /\ Lower[l.entry.name] <= Lower[r.entry.name]
    <2>1. l \in Channel /\ r \in Channel /\ ~compareChannels(r, l)
        BY <1>3, <1>4, LineupProps
    <2>2. ~(HasNumber(r) /\ ~HasNumber(l))
        BY <2>1, CompareProps
    <2>3. ASSUME HasNumber(l), HasNumber(r)
          PROVE  Numeric[l.entry.number] <= Numeric[r.entry.number]
        <3>1. ~(Numeric[r.entry.number] < Numeric[l.entry.number])
            BY <2>1, <2>3, CompareProps
        <3>2. Numeric[r.entry.number] \in Nat /\ Numeric[l.entry.number] \in Nat
            BY <2>3, PlaylistAssumption DEF HasNumber
        <3> QED BY <3>1, <3>2
    <2>4. ASSUME ~HasNumber(l), ~HasNumber(r)
          PROVE  Lower[l.entry.name] <= Lower[r.entry.name]
        <3>1. ~(Lower[r.entry.name] < Lower[l.entry.name])
            BY <2>1, <2>4, CompareProps
        <3>2. Lower[r.entry.name] \in Nat /\ Lower[l.entry.name] \in Nat
            BY <2>1, PlaylistAssumption DEF Channel
        <3> QED BY <3>1, <3>2
    <2> QED BY <2>2, <2>3, <2>4
<1> QED BY <1>4 DEF LineupOrder

\* A set of natural numbers has a least one.
LEMMA LeastOf ==
    ASSUME NEW M, M \subseteq Nat, M # {}
    PROVE  \E a \in M : \A b \in M : a <= b
<1> DEFINE R == {ss \in Nat \X Nat : ss[1] < ss[2]}
<1>1. IsWellFoundedOn(R, Nat)
    BY NatLessThanWellFounded DEF OpToRel
<1>2. PICK a \in M : \A b \in M : ~ (<<b, a>> \in R)
    <2> HIDE DEF R
    <2> QED BY <1>1, WFMin
<1>3. ASSUME NEW b \in M PROVE a <= b
    <2>1. ~ (<<b, a>> \in R) /\ <<b, a>> \in Nat \X Nat BY <1>2
    <2>2. a \in Nat /\ b \in Nat OBVIOUS
    <2> QED BY <2>1, <2>2
<1> QED BY <1>3

LEMMA IdentitiesAtEnd == IInv => OnePerIdentity
<1> SUFFICES ASSUME IInv, pc = "done" PROVE OnePerIdentity
    BY DEF OnePerIdentity
<1>1. PICK s \in Sorted : ordered = dedupe(s)
    BY DEF IInv, OrderedInv
<1>2. ChannelsInv /\ Len(s) \in Nat
    BY SortedProps DEF IInv
<1>3. Len(ordered) \in Nat
    BY <1>1, <1>2, DedupeSelects
<1>4. PICK at : Selects(at, s, ordered)
    BY <1>1, <1>2, DedupeSelects
<1>5. IsInjective([i \in 1 .. Len(ordered) |-> ordered[i].key])
    <2>1. \A j, k \in 1 .. Len(ordered) : j < k => ordered[j].key # ordered[k].key
        BY <1>3, <1>4, LineupProps
    <2>2. \A j, k \in 1 .. Len(ordered) : ordered[j].key = ordered[k].key => j = k
        BY <1>3, <2>1
    <2> QED BY <2>2 DEF IsInjective
<1>6. ASSUME NEW p \in Paired, NEW e, e = lines[p[1]].entry, NEW u, u = lines[p[2]].url,
             NEW key, key = BuildChannelIdentity(e, u)
      PROVE  \E i \in 1 .. Len(ordered) :
                 /\ ordered[i].key = key
                 /\ ~compareChannels([entry |-> e, key |-> key], ordered[i])
    <2>1. PICK k \in 1 .. Len(channels) : channels[k].entry = e /\ channels[k].url = u
        BY <1>6 DEF IInv, PairedWithOwnUrl
    <2>2. channels[k] \in Channel /\ channels[k].key = key
        BY <1>2, <1>6, <2>1 DEF ChannelsInv
    <2>3. PICK m \in 1 .. Len(s) : s[m] = channels[k]
        BY <1>2, SortedProps
    <2> DEFINE M == {i \in 1 .. Len(s) : s[i].key = key}
    <2>4. M \subseteq Nat /\ m \in M
        BY <2>2, <2>3
    <2>5. PICK a \in M : \A b \in M : a <= b
        <3> HIDE DEF M
        <3> QED BY <2>4, LeastOf
    <2>6. a \in 1 .. Len(s) /\ s[a].key = key
        OBVIOUS
    <2>7. a \in FirstOfKey(s)
        <3>1. ASSUME NEW b \in 1 .. a - 1, s[b].key = key PROVE FALSE
            <4>1. b \in 1 .. Len(s) BY <1>2, <2>6
            <4>2. b \in M BY <3>1, <4>1
            <4>3. a <= b BY <2>5, <4>2
            <4> QED BY <2>6, <4>3
        <3> HIDE DEF M
        <3> QED BY <2>6, <3>1 DEF FirstOfKey
    <2>8. PICK i \in 1 .. Len(ordered) : at[i] = a
        BY <1>4, <2>7 DEF Selects
    <2>9. ordered[i] = s[a]
        BY <1>4, <2>8 DEF Selects
    <2>10. ~compareChannels(channels[k], ordered[i])
        <3>1. a <= m BY <2>4, <2>5
        <3>2. CASE a = m
            BY <2>2, <2>3, <2>9, <3>2, CompareIrreflexive
        <3>3. CASE a # m
            <4>1. a < m BY <2>6, <3>1, <3>3
            <4>2. ~compareChannels(s[m], s[a])
                <5> HIDE DEF M
                <5> QED BY <1>2, <2>6, <4>1, SortedProps
            <4> QED BY <2>3, <2>9, <4>2
        <3> QED BY <3>2, <3>3
    <2> QED BY <2>1, <2>2, <2>6, <2>9, <2>10, CompareByKey
<1> QED BY <1>5, <1>6, Zenon DEF OnePerIdentity

LEMMA NumbersAtEnd == IInv => FallbackNumbersFollowPlaylist
<1> SUFFICES ASSUME IInv, pc = "done" PROVE FallbackNumbersFollowPlaylist
    BY DEF FallbackNumbersFollowPlaylist
<1> DEFINE PlaceOf(c) == {p \in Paired : lines[p[1]].entry = c.entry /\ lines[p[2]].url = c.url}
<1>1. PICK s \in Sorted : ordered = dedupe(s)
    BY DEF IInv, OrderedInv
<1>2. ChannelsInv /\ Len(s) \in Nat
    BY SortedProps DEF IInv
<1>3. Len(ordered) \in Nat /\ \E at : Selects(at, s, ordered)
    BY <1>1, <1>2, DedupeSelects
<1>4. PICK pairs \in [1 .. Len(channels) -> Paired] :
          \A k \in 1 .. Len(channels) :
                /\ \A j \in 1 .. k - 1 : pairs[j][1] < pairs[k][1]
                /\ channels[k].entry = lines[pairs[k][1]].entry
                /\ channels[k].url = lines[pairs[k][2]].url
    BY DEF IInv, PairedWithOwnUrl
<1>5. ASSUME NEW i \in 1 .. Len(ordered), NEW j \in 1 .. Len(ordered),
             NEW l, l = ordered[i], NEW r, r = ordered[j],
             i # j, l.entry.number = "", r.entry.number = "",
             \A p \in PlaceOf(l), q \in PlaceOf(r) : p[1] < q[1]
      PROVE  guideNumber(l) < guideNumber(r)
    <2>1. PICK a \in 1 .. Len(channels) : l = channels[a]
        BY <1>3, <1>5, LineupProps
    <2>2. PICK b \in 1 .. Len(channels) : r = channels[b]
        BY <1>3, <1>5, LineupProps
    <2>3. pairs[a] \in PlaceOf(l) /\ pairs[b] \in PlaceOf(r)
        BY <1>4, <2>1, <2>2
    <2>4. pairs[a][1] < pairs[b][1]
        BY <1>5, <2>3
    <2>5. pairs[a][1] \in Nat /\ pairs[b][1] \in Nat
        <3>1. \A p \in Paired : p[1] \in Nat
            BY DEF Paired
        <3> QED BY <1>4, <3>1
    <2>6. ~(b < a) /\ a # b
        <3>1. b < a => b \in 1 .. a - 1
            OBVIOUS
        <3> QED BY <1>4, <2>4, <2>5, <3>1
    <2>7. l.sourceIndex = a - 1 /\ r.sourceIndex = b - 1
        BY <1>2, <2>1, <2>2 DEF ChannelsInv
    <2>8. guideNumber(l) = a - 1 + 1 /\ guideNumber(r) = b - 1 + 1
        BY <1>5, <2>7 DEF guideNumber
    <2> QED BY <2>6, <2>8
<1> QED BY <1>5 DEF FallbackNumbersFollowPlaylist

-----------------------------------------------------------------------------
(* The theorems.                                                           *)

LEMMA Inductive == Spec => []IInv
<1>1. Init => IInv
    <2>1. ASSUME Init PROVE PairedWithOwnUrl
        <3>1. lines = <<>> /\ channels = <<>>
            BY <2>1 DEF Init
        <3>2. Paired = {} /\ Len(channels) = 0
            BY <3>1 DEF Paired
        <3>3. <<>> \in [1 .. Len(channels) -> Paired]
            BY <3>2
        <3> QED BY <3>2, <3>3 DEF PairedWithOwnUrl
    <2>2. ASSUME Init PROVE PendingInv /\ ChannelsInv /\ OrderedInv
        BY <2>2 DEF Init, PendingInv, ChannelsInv, OrderedInv
    <2> QED BY <2>1, <2>2 DEF IInv
<1>2. IInv /\ [Next]_vars => IInv'
    BY PendingStep, PairsStep, ChannelsStep, OrderedStep DEF IInv
<1> QED BY <1>1, <1>2, PTL DEF Spec

\* However lines are missing, refused or in excess, the channels are the
\* entries that are followed by their url, with that url and in the order of
\* the playlist (ParseM3U).
THEOREM EntriesKeepTheirUrls == Spec => []PairedWithOwnUrl
<1>1. IInv => PairedWithOwnUrl
    BY DEF IInv
<1> QED BY <1>1, Inductive, PTL

\* The lineup has one channel of every identity in the playlist, the first in
\* its order, although sort.Slice is not stable (ParseM3U).
THEOREM IdentitiesAreUnique == Spec => []OnePerIdentity
BY IdentitiesAtEnd, Inductive, PTL

\* Dropping duplicates keeps the order by number and then by name
\* (compareChannels).
THEOREM LineupIsOrdered == Spec => []LineupOrder
BY OrderAtEnd, Inductive, PTL

\* The numbers that BuildLineup gives channels without one follow the
\* playlist, whatever the lineup's order and duplicates.
THEOREM NumbersFollowPlaylist == Spec => []FallbackNumbersFollowPlaylist
BY NumbersAtEnd, Inductive, PTL
=============================================================================
