------------------------------ MODULE M3uParser ------------------------------
(***************************************************************************)
(* ParseM3U and what the lineup makes of its channels                      *)
(* (internal/channels/m3u.go, identity.go, internal/hdhr/lineup.go): one   *)
(* action per kind of line, then the end of the playlist, which sorts the  *)
(* channels and drops duplicates.                                          *)
(*                                                                         *)
(* A line is known by what the parser makes of it.  The texts of an entry  *)
(* are constants, and so are the functions that say what normalisation,    *)
(* lower case and digits make of them; 0 stands for the empty text.        *)
(***************************************************************************)
EXTENDS Integers, SequencesExt

CONSTANTS
    Entries,        \* what #EXTINF lines say: [tvgId, number, name]
    Urls,           \* lines that start with no '#'
    Allowed,        \* those with a known scheme and no control character
    Normal,         \* text -> normalised text, 0 when nothing is left
    Lower,          \* name -> its place in the order of lower-case names
    Numeric,        \* number of digits only -> its value
    PathKey,        \* url -> its path and sorted query, without the host
    MaxLines,       \* bound: lines of the playlist
    MaxIdle         \* bound: those of them that bring neither entry nor channel

ASSUME PlaylistAssumption ==
    /\ Allowed \subseteq Urls
    /\ \A e \in Entries : /\ {e.tvgId, e.number, e.name} \subseteq DOMAIN Normal
                          /\ e.name \in DOMAIN Lower
    /\ Urls \subseteq DOMAIN PathKey
    /\ \A text \in DOMAIN Normal : Normal[text] \in Nat
    /\ \A name \in DOMAIN Lower : Lower[name] \in Nat
    /\ \A number \in DOMAIN Numeric : Numeric[number] \in Nat
    /\ \A url \in DOMAIN PathKey : PathKey[url] \in Nat
    /\ MaxLines \in Nat /\ MaxIdle \in Nat

Skipped == [kind |-> "skipped"]         \* blank, #EXTM3U or a comment
Malformed == [kind |-> "malformed"]     \* #EXTINF without a comma or a name
ExtInf(e) == [kind |-> "extInf", entry |-> e]
Url(u) == [kind |-> "url", url |-> u]
Idle == {Skipped, Malformed} \union {Url(u) : u \in Urls \ Allowed}

None == [kind |-> "none"]

VARIABLES
    pc,             \* reading lines, or done
    lines,          \* the lines read so far
    pending,        \* the #EXTINF line that waits for its url
    channels,       \* channels completed so far
    sourceIndex,    \* the number of the next one
    ordered         \* what ParseM3U returns

vars == <<pc, lines, pending, channels, sourceIndex, ordered>>

Init ==
    /\ pc = "lines" /\ lines = <<>>
    /\ pending = None /\ channels = <<>> /\ sourceIndex = 0
    /\ ordered = <<>>

-----------------------------------------------------------------------------
\* The key of a channel: its tvg-id, or number and name, or name or number
\* with the path.  The first component stands for the prefix, in the order of
\* the strings.
BuildChannelIdentity(e, u) ==
    LET id == Normal[e.tvgId]  number == Normal[e.number]  name == Normal[e.name]
    IN  IF id # 0 THEN <<5, id, 0>>
        ELSE IF number # 0 /\ name # 0 THEN <<2, number, name>>
        ELSE IF name # 0 THEN <<1, name, PathKey[u]>>
        ELSE IF number # 0 THEN <<3, number, PathKey[u]>>
        ELSE <<4, PathKey[u], 0>>

HasNumber(c) == c.entry.number \in DOMAIN Numeric

LexLess(s, t) ==
    \E i \in 1 .. Len(s) : s[i] < t[i] /\ \A j \in 1 .. i - 1 : s[j] = t[j]

\* A plausible bug: guide numbers are compared as text.
compareChannelsAsText(l, r) ==
    LET Rank(c) == <<IF HasNumber(c) THEN 0 ELSE 1, Normal[c.entry.number],
                     Lower[c.entry.name]>> \o c.key
    IN  LexLess(Rank(l), Rank(r))

\* Channels with a number first, by number, then by name, then by key.
SortKey(c) ==
    << IF HasNumber(c) THEN 0 ELSE 1,
       IF HasNumber(c) THEN Numeric[c.entry.number] ELSE 0,
       Lower[c.entry.name], c.key[1], c.key[2], c.key[3] >>

\* compareChannels(l, r) < 0
compareChannels(l, r) == LexLess(SortKey(l), SortKey(r))

\* What sort.Slice may return: it is not stable.
Sorted ==
    {s \in SetToSeqs(ToSet(channels)) :
        \A i, j \in 1 .. Len(s) : i < j => ~compareChannels(s[j], s[i])}

\* The element of S, a set of numbers, that has k - 1 smaller ones.
RankIn(S, i) == Cardinality({j \in S : j <= i})
Nth(S, k) == CHOOSE i \in S : RankIn(S, i) = k

\* A plausible bug: a channel is compared with its predecessor only.
dedupeNeighbours(s) ==
    LET first == {i \in 1 .. Len(s) : i = 1 \/ s[i - 1].key # s[i].key}
    IN  [k \in 1 .. Cardinality(first) |-> s[Nth(first, k)]]

\* The first channel of each key.
FirstOfKey(s) == {i \in 1 .. Len(s) : \A j \in 1 .. i - 1 : s[j].key # s[i].key}
dedupe(s) == [k \in 1 .. Cardinality(FirstOfKey(s)) |-> s[Nth(FirstOfKey(s), k)]]

\* BuildLineup: the number of an entry of the lineup.
guideNumber(c) ==
    IF c.entry.number = "" THEN c.sourceIndex + 1 ELSE c.entry.number

-----------------------------------------------------------------------------
(* The lines.                                                              *)

Read(line) ==
    /\ pc = "lines" /\ Len(lines) < MaxLines
    /\ line \in Idle => Cardinality({i \in 1 .. Len(lines) : lines[i] \in Idle}) < MaxIdle
    /\ lines' = Append(lines, line)
    /\ UNCHANGED <<pc, ordered>>

\* Blank lines and comments, and malformed metadata, which leave an entry that
\* is waiting where it is.
ignoreLine ==
    /\ \E line \in {Skipped, Malformed} : Read(line)
    /\ UNCHANGED <<pending, channels, sourceIndex>>

\* Metadata take the place of an entry that is still waiting.
readExtInf(e) ==
    /\ Read(ExtInf(e))
    /\ pending' = ExtInf(e)
    /\ UNCHANGED <<channels, sourceIndex>>

\* A plausible bug: a refused url is skipped.
refuseUrlKeepsPending(u) ==
    /\ u \notin Allowed
    /\ Read(Url(u))
    /\ UNCHANGED <<pending, channels, sourceIndex>>

\* A refused url drops the entry that waits for it, if any.
refuseUrl(u) ==
    /\ u \notin Allowed
    /\ Read(Url(u))
    /\ pending' = None
    /\ UNCHANGED <<channels, sourceIndex>>

\* A url without metadata.
unexpectedUrl(u) ==
    /\ u \in Allowed /\ pending = None
    /\ Read(Url(u))
    /\ UNCHANGED <<pending, channels, sourceIndex>>

\* A plausible bug: the index of the next channel is not advanced.
finalizePendingSameIndex(u) ==
    /\ u \in Allowed /\ pending # None
    /\ Read(Url(u))
    /\ channels' = Append(channels,
         [sourceIndex |-> sourceIndex, entry |-> pending.entry, url |-> u,
          key |-> BuildChannelIdentity(pending.entry, u)])
    /\ pending' = None
    /\ UNCHANGED sourceIndex

finalizePending(u) ==
    /\ u \in Allowed /\ pending # None
    /\ Read(Url(u))
    /\ channels' = Append(channels,
         [sourceIndex |-> sourceIndex, entry |-> pending.entry, url |-> u,
          key |-> BuildChannelIdentity(pending.entry, u)])
    /\ sourceIndex' = sourceIndex + 1
    /\ pending' = None

endOfPlaylist ==
    /\ pc = "lines"
    /\ pc' = "done"
    /\ pending' = None
    /\ \E s \in Sorted : ordered' = dedupe(s)
    /\ UNCHANGED <<lines, channels, sourceIndex>>

Next ==
    \/ ignoreLine \/ endOfPlaylist
    \/ \E e \in Entries : readExtInf(e)
    \/ \E u \in Urls : refuseUrl(u) \/ unexpectedUrl(u) \/ finalizePending(u)

Spec == Init /\ [][Next]_vars

-----------------------------------------------------------------------------
(* The playlist without the parser: entries and urls that belong together. *)

Is(i, kinds) == lines[i].kind \in kinds

\* An entry has a url when the next line of either kind is one, and allowed.
Paired ==
    {p \in (1 .. Len(lines)) \X (1 .. Len(lines)) :
        /\ p[1] < p[2] /\ Is(p[1], {"extInf"}) /\ Is(p[2], {"url"})
        /\ lines[p[2]].url \in Allowed
        /\ \A k \in p[1] + 1 .. p[2] - 1 : ~Is(k, {"extInf", "url"})}

\* Every entry that is followed by its url becomes a channel with that url, in
\* the order of the playlist, and nothing else does, whatever lines are missing,
\* refused or in excess around it (ParseM3U).  Malformed metadata do not end
\* the wait of an entry before them: Paired looks past them, as the code does.
PairedWithOwnUrl ==
    \E pairs \in [1 .. Len(channels) -> Paired] :
        /\ \A p \in Paired : \E k \in 1 .. Len(channels) : pairs[k] = p
        /\ \A k \in 1 .. Len(channels) :
              /\ \A j \in 1 .. k - 1 : pairs[j][1] < pairs[k][1]
              /\ channels[k].entry = lines[pairs[k][1]].entry
              /\ channels[k].url = lines[pairs[k][2]].url

\* ParseM3U returns one channel for every identity the playlist has, wherever
\* its duplicates are, and it is the first of them in the order of the lineup.
OnePerIdentity ==
    pc = "done" =>
        /\ IsInjective([i \in 1 .. Len(ordered) |-> ordered[i].key])
        /\ \A p \in Paired : \E i \in 1 .. Len(ordered) :
              LET e == lines[p[1]].entry  u == lines[p[2]].url
                  key == BuildChannelIdentity(e, u)
              IN  /\ ordered[i].key = key
                  /\ ~compareChannels([entry |-> e, key |-> key], ordered[i])

\* The lineup lists numbered channels by number, then the others by name
\* (compareChannels, and a dedupe that keeps the order).
LineupOrder ==
    pc = "done" =>
        \A i, j \in 1 .. Len(ordered) : i < j =>
            LET l == ordered[i]  r == ordered[j]
            IN  \/ HasNumber(l) /\ ~HasNumber(r)
                \/ /\ HasNumber(l) /\ HasNumber(r)
                   /\ Numeric[l.entry.number] <= Numeric[r.entry.number]
                \/ /\ ~HasNumber(l) /\ ~HasNumber(r)
                   /\ Lower[l.entry.name] <= Lower[r.entry.name]

\* "M3U-order fallback numbering": channels without a number get numbers that
\* differ and ascend in the order of the playlist, although the lineup lists
\* them by name and some were dropped as duplicates (BuildLineup).
FallbackNumbersFollowPlaylist ==
    pc = "done" =>
        LET Place(c) == {p \in Paired : /\ lines[p[1]].entry = c.entry
                                        /\ lines[p[2]].url = c.url}
        IN  \A i, j \in 1 .. Len(ordered) :
                LET l == ordered[i]  r == ordered[j]
                IN  /\ i # j /\ l.entry.number = "" /\ r.entry.number = ""
                    /\ \A p \in Place(l), q \in Place(r) : p[1] < q[1]
                    => guideNumber(l) < guideNumber(r)
=============================================================================
