# plex-octotuner: verification project

plex-octotuner makes an Octopus SAT>IP/RTSP tuner look like an HDHomeRun to Plex. This directory holds
TLA+ models of its core, the TLC configurations that check them on small instances, and TLAPS proofs of what the
models promise for every instance. Paths below are relative to the repository (`src/`). `PROJECT.json`
maps every definition that models code to its lines, and lists runs, mutants, findings, hazards and theorems.

## 1. Inventory of the system

| Component | State | Operations | What is hard, what makes it correct |
|---|---|---|---|
| Process (`cmd/plex-octotuner/main.go`) | phase of `main`, listening sockets, refresh goroutine, `stopCh`/`doneCh`, signal channel | start-up, refresh loop, shutdown | a service failing half-way through start-up must leave nothing open; a signal must end the process during a refresh; no empty lineup is ever served |
| Channel store (`internal/channels/store.go`) | one slice of channels under an RWMutex | `ReplaceFromRaw`, `Refresh`, `GetChannels` | failed or empty refreshes keep the last good lineup; readers see whole lineups |
| M3U parser, identity (`m3u.go`, `identity.go`) | none | `ParseM3U`, sorting, ids | entries and urls paired over missing, refused and malformed lines; one channel per identity; the lineup's order and numbers |
| HTTP API (`internal/httpapi/server.go`) | none of its own | lineup, device documents, `/auto/v<id>` | lookups against a store that changes; the answer when a relay fails |
| RTSP session (`internal/rtsp/relay.go`: `Relay`, `negotiateTransport`, `request`, `readResponse`, `readMore`, `bestEffortTeardown`) | connection, its deadlines, session id, UDP port pair | DESCRIBE, up to three SETUPs, PLAY, streaming, TEARDOWN | cancellation at any point; two goroutines setting deadlines; a reader left behind; ports and upstream sessions left open |
| UDP pump (`relay.go`: `pumpUdp`, `streamMedia`) | loop position, socket, handler-error channel, `started` | read loop, context watcher, packet handler | handler also runs on timer goroutines; errors and cancellations at every point of the loop |
| Interleaved pump (`relay.go`: `pumpInterleaved`) | byte buffer | frame extraction | read boundaries anywhere, RTSP messages between frames, PLAY's answer and media in one read |
| Reorder buffer (`internal/rtsp/diagnostics.go`) | `expectedSeq`, `pending`, `flushTimer` under a mutex; timer goroutines | `push`, `stop`, `close`, flush callback | 16-bit wrap-around; callbacks that fired before they were stopped; a full buffer |
| Relay diagnostics (`diagnostics.go`) | counters | `recordRtpPacket`, `recordTsPayload`, `finish` | loss accounting around the wrap and behind reordering; continuity counters |
| Control server (`internal/discovery/control.go`) | listener, map of connections, tuner registry, per-connection buffer | accept loop, connection handlers, `stop` | accept against stop; who closes a connection; pipelined and split frames |
| Discovery (`internal/discovery/server.go`, `packets.go`, `tlv.go`, `types.go`) | three sockets | start, stop, stateless datagram answers | partial start-up; lengths, tags and frames that are cut, damaged or split |
| Configuration, documents, logging, version tool | none that changes | - | validation and formatting |

Interaction: `main` fills the store, starts the HTTP server and then discovery, and refreshes the store from a
goroutine. An HTTP playback request copies the store, then runs `Relay`, which opens the RTSP session and pumps
media through the reorder buffer into the HTTP response. The request's context is the only way the client's
departure reaches the relay. Discovery and control share only configuration with the rest.

The behaviours that tests hardly reach are listed under `hazards` in `PROJECT.json`, each at its line with the
properties that cover it, or a note why none does.

## 2. Modules

```
RtpSequence                    16-bit circular numbers
  ReorderBuffer                udpRtpReorderBuffer and its timers       MCReorderBuffer, ReorderBufferProofs
    UdpRelay                   pumpUdp + handler + HTTP answer          MCUdpRelay, UdpRelayProofs
    RtpStream  => OrderedDelivery   buffer fed by a lossy network,      MCRtpStream, RtpStreamProofs
                               its output counted by RelayDiagnostics
  RelayDiagnostics             relayDiagnostics' counters
SdpTrack                       parseSdpTrack, resolveControlURL
  RtspSession                  the RTSP dialogue of one playback        MCRtspSession, RtspSessionProofs
InterleavedPump                pumpInterleaved + readResponse + answer  MCInterleavedPump, InterleavedPumpProofs
HdhomerunWire                  tags, frames and messages in bytes       MCHdhomerunWire
ControlServer                  HDHomeRun control server                 ControlServerProofs
M3uParser                      ParseM3U, identities, lineup numbers     MCM3uParser, M3uParserProofs
Bridge                         process, store, refresh loop, requests   BridgeProofs
```

Actions carry the names of the functions or steps they model. Operators introduced by "A plausible bug" are
variants used only to show that the properties notice such a change; no specification uses them.

**RtpSequence, ReorderBuffer.** The variables are the struct's fields plus `timers`, the runtime's view of each
`time.Timer` (idle, armed, or *fired*: its goroutine has started but does not hold the mutex), `owner`, the
position of the goroutine that owns the buffer, and `emitted`, the packets given to `emitPacket` by the last
step. Each critical section is one action. `close` is two of them, as in the code, because it releases the mutex
between `stop` and `flushRemaining`; `flushRemaining`'s loop is one action per turn with `owner = "flushing"`
standing for the mutex held throughout. `flushAvailableLocked` is given by its result (the unbroken run from the
expected number), not by its loop. `HalfSpace` is 0x8000 in the code and `MaxPending` 64.

**RtpStream, OrderedDelivery.** `OrderedDelivery` is the promise: packets that arrive ahead of everything
delivered are delivered once, in stream order, with nothing about numbers, timers or limits. `RtpStream` extends
the buffer by its stream. A packet is its position there, any natural number; `parseRtpSequence` is the
position modulo the size of the number space (`StreamAssumption`), as a sender's 16-bit counter makes it. The
network loses at most `MaxBurst` in a row and reorders within `Window`. `NetworkAssumption`,
`(MaxPending + 1) * (MaxBurst + 1) <= HalfSpace` and `Window <= HalfSpace`, is what the 16-bit comparison
needs: the buffer can fall one burst behind for each packet it holds. With the code's numbers this allows bursts of 503 lost packets.
What a packet carries is any sequence of TS packets whose counter is below `CounterSpace` (`PayloadAssumption`); each
step records what it emits with `RelayDiagnostics`' counters. An RTP packet carries at most `TsPerPacket` TS packets, of
any programs. `SenderCounts` describes a sender whose counters are in step from one place of a TS packet to the next of
its program; only `ContinuityErrorsExplained` needs it, and the instance of the run satisfies it.

**UdpRelay** extends `ReorderBuffer` by the read loop (one action per check, read and return of `pumpUdp`),
the watcher, the handler (joined with the buffer step that emits, since it runs under the buffer's mutex), and
the answer that `streamMedia`, `Relay` and `NewHandler` make of the result. A packet is media, empty or bad to the
handler. A runt datagram panics, as the code does. A write to a client that does not read may block; `writer` is
the goroutine (the loop's or a callback's) that then waits with the buffer's mutex, and nothing that needs the
mutex moves until `writeEnds`. A read ends with a datagram, its deadline, the closed socket or another error.

**RelayDiagnostics** is the record that `recordRtpPacket` and `recordTsPayload` update. `RtpStream` applies it to
what the buffer emits, as the handler does, so that what is reported can be compared with what the network did.

**InterleavedPump** is a playback over TCP at the level of bytes, from the wait for PLAY's answer: the server sends
frames, RTSP messages and stray bytes, reads take any prefix of what is on its way, and the pump and
`readResponse` work on one buffer. Frame lengths keep two bytes with a radix of two; a status line is the two
bytes of `Prefix`, the rest of a header one byte that says what the parser makes of it, and an RTP header is one
byte, so that a payload is too short, bare or media.

**SdpTrack, RtspSession.** `SdpTrack` gathers the media sections of a description line by line and resolves the
controls of the first one that carries MPEG-TS; a line is what the parser makes of it, a url its path and query.
`RtspSession` follows `Relay` from the dial to the last deferred call. A request is written, then awaited; the
server answers in any way the code distinguishes, late or never, or drops the connection. Deadlines are none,
`now` (expired) or `soon` (the 500 ms of `bestEffortTeardown`). A session id is missing (`NoSession`, no header), empty
(`Blank`, a header that begins with its parameters, which the code takes for an id and plays but never tears down) or real.
Any answer may have a negative Content-Length, on which `readResponse` panics (`ReadPanics`): the deferred calls in place
at that point run, and no others. Streaming itself is two actions, because `UdpRelay` and `InterleavedPump` have their
detail.

**ControlServer** has the accept loop in its three steps, one handler per connection, the two deferred calls of
a handler, and `stop` in its two steps. Frames are abstract: requests that get, set or reset a tuner field, ask
for a fixed value or an unknown key, or junk (wrong CRC, type or payload). `replied` records what became of each
frame that was handled, a reply or `Skipped`, so that replies can be compared with the frames one by one.

**HdhomerunWire** has those frames as bytes, and the discovery datagrams: encoding and decoding of lengths, tags and
frames, what a request asks for, and the loop of `handleControlConnection` over a stream that reads may split
anywhere. A byte has eight values; types and checksums take one byte, words two. What a message asks for is told
from the message itself, not from its bytes, so the codecs are checked against something that does not use them.

**M3uParser** has one action per kind of line and one for the end of the playlist, which sorts (any order that
`sort.Slice` may leave), drops duplicates and returns. The loop with the map `seen` is given by its result, the
first channel of each key in their order (`FirstOfKey`, `dedupe`). The properties pair entries and urls by looking at the
lines alone.

**Bridge** follows `main` through start-up (each socket may fail to open, and each failure has the clean-up of its own
error path), running and shutdown, with the refresh
loop, `Store.Refresh` as fetch and swap, and clients that fetch the lineup and play channels at any time. A
signal before `signal.Notify` kills the process.

## 3. Runs

| Run | Question | Instance |
|---|---|---|
| `reorder_buffer` | order, bound, live timers, finality of `close`, and that held packets are handed on | 8 numbers, 2 pending, 2 timers, any packet at any time |
| `rtp_stream` | order and completeness in the sender's numbering; refinement of `OrderedDelivery`; the diagnostics count what was lost and report no continuity error without cause | 12 numbers, 15 packets of 1 or 2 TS packets, 2 pending, bursts of 1, window 6 |
| `udp_relay` | completeness at an idle end, prompt cancellation also of a client that does not read, handler errors end the playback, timers wind down | 8 numbers of which 2 never come, 2 pending, 3 kinds of packet, 2 timers |
| `rtsp_session` | requests address the MPEG-TS media with its tuning, TEARDOWN of every played session with an id, release of the port pair but in two cases, cancellation ends a connected relay | nine descriptions, at most three SETUPs (the code's own bound) |
| `interleaved_pump` | media handed on in order and without delay over any reads, no empty success, cancellation ends the pump | units, frames and headers of `MCInterleavedPump.cfg`, every split |
| `hdhomerun_wire` | discovery answers exactly the requests for this device, control answers in order and readable, none held back | 1 datagram (the handler keeps no state), 3 control frames |
| `m3u` | entries keep their urls, one channel per identity, order and fallback numbers of the lineup | 6 entries, 3 urls, see `MCM3uParser.cfg` |
| `control_server` | exact connection map, no double close, replies in order, stop ends handlers | 2 connections, 2 frames in all, 1 field, 1 value |
| `bridge` | no empty lineup, nothing left open, advertised means served, listed channels are found, shutdown | 2 channel ids, 1 client |

Bounds. On the circle of eight the wrap happens within a few pushes and both sides of the half are populated;
two pending packets make a second gap behind the first possible. Two timers are a running one and one whose
callback is late, the case that matters; the proofs cover any number. In `udp_relay` the kind of a packet goes with its
number, and the two numbers that never come make two gaps, so that a callback re-arms itself also after the playback's
return. Fifteen packets pass the wrap at
twelve with gaps on both sides of it; those that carry two TS packets have two programs in them, so that one loss can cause two
errors. The nine descriptions have one and two sections, MPEG-TS by
number and by rtpmap, relative, absolute, missing and aggregate controls, and none usable. The playlists are long
enough for a duplicate apart from its twin and for a refused or malformed line inside a pair. Three control frames
allow a set, a damaged frame and a get. In `control_server` two frames suffice to be read together or apart, in either
order, from either client. Clients of `Bridge` do not influence each other, so one is enough; two ids let a refresh
keep one channel and remove another. Every counter that is capped (`MaxFrames`, `MaxUnits`, `MaxLines`, `Timer`) is capped
by a constant in a guard, and the stream by the set `Packet`. Types are proved (section 4), and checked also
for the session, where they bound the SETUPs. Runs switch deadlock checking off because all these systems may
stop: a buffer that is closed, a playback that has returned, a process that has ended.

Fairness. Goroutines that can run do run (weak fairness per goroutine), a timer that is armed fires, and a
callback that waits for a mutex gets it (Go's mutexes are not starved). `UdpRelay` does not assume that datagrams
arrive or read deadlines pass: `PromptCancel` is checked on a model that may wait in `ReadFromUDP` for ever.
`HandlerErrorEndsRelay` names the extra assumption `ReadsEnd`, justified by the 5 s and 15 s deadlines.
A blocked write ends once the client is gone (`WF` of `client = "gone" /\ writeEnds`: the connection's reset fails it);
that it ends otherwise is assumed by `HandlerErrorEndsRelay` alone (`WritesEnd`). `RtspSession` and
`InterleavedPump` assume nothing of the server, not even that the dial ends: `tls.Dial` has neither context nor handshake
timeout, so `CancelEndsRelay` speaks of relays that are connected. `Bridge` assumes nothing of a fetch, since `http.Get` has
no timeout, neither the first nor a later one; `SignalEndsProcess` states as its condition that they end (`FetchesEnd`).
It assumes strong fairness of the stop case of the refresh loop's `select`, which Go chooses at random among the ready
ones.

### Where code and its tests or documents disagree

Each is a run that TLC ends with a counterexample; the quotations are in `PROJECT.json`.

- `udp_relay_lost_error`: at an idle timeout `pumpUdp` flushes the rest and returns nil; an error of the handler
  during that flush stays in the channel.
- `rtsp_session_teardown`: a playback stopped between the SETUP and the PLAY answer leaves its session without TEARDOWN.
- `control_server_late`: a connection accepted just before `stop` and registered just after it is never closed.

Further behaviours met while modelling, which no run states. Two go against what a test expects elsewhere
(`relay_test.go:732`, `httpapi/server_test.go:184`): after a cancelled playback a fired flush
callback may still write once to its response; UDP datagrams without payload followed by silence give an empty
200. The others contradict no document: malformed metadata leave the entry before them waiting; a playlist with CRLF line ends loses its channels; a
control answer with a value of 32767 bytes cannot be read; an `m=` line of fewer than three fields and a negative
Content-Length panic, the latter, in the answer to the UDP SETUP, with the port pair left open, as a missing Session header
leaves it; a session whose id comes empty is played and never torn down; an rtsps server that accepts and does not answer
the handshake, and a playlist server that does not answer, hold a playback and the process's shutdown; a byte that is neither frame marker nor status line stops the interleaved pump from handling
anything more while its buffer grows; a fallback number may equal another channel's explicit one.

## 4. Proofs

Every safety property proved below holds for every value of the constants that satisfies the module's named
assumptions; the runs check the same formulas on the instances of section 3, and TLC was used to try each
inductive invariant before it was proved.

**ReorderBufferProofs**, for every `HalfSpace` above 0, every `MaxPending`, and any sets of packets and timers
(`HalfSpaceAssumption`, `MaxPendingAssumption`, `PacketAssumption`):

- `BufferContents`: `BufferSpec => [](BufferTypeOK /\ PendingAhead /\ PendingBounded)`, and its part
  `BufferIsBounded`. The conjunction is inductive and its parts are not: that a push adds one packet needs the bound
  before it, and that jumping to the nearest number keeps the others ahead needs `PendingAhead`. The argument rests on
  lemmas about circular distances (`DistanceValue`, `DistanceInjective`, `DistanceShift`), on `FlushAvailable`,
  `FlushFrom` and `SkipGapProps`, which say what a flush removes, emits and leaves expected, and on `PushedContents`,
  where the packet that exceeds the limit is paid for by the jump that emits at least one. `CircleNotFull` uses that
  pending numbers fill less than half the circle, so a flush always ends.
- `InOrder`: `BufferSpec => EmitsForward`, from the same invariant: each batch ascends from the
  expected number within the new half, also when a push emits two runs with a jump between them.
- `GapsEnd` and `CloseIsFinal`: `GapHasTimer` and `NothingAfterClose`, from `LifeInv`. It adds to the contents
  that the timer the buffer knows of is never idle, although stale callbacks reset `flushTimer` of timers that are
  not theirs, that a gap seen by the owner has a timer, and that nothing is pending once `close` is done.

**RtpStreamProofs** relates the circle to the line, for streams of any length, under `StreamAssumption` and
`NetworkAssumption`:

- `PacketsAreKept` (`NothingDropped`). The inductive invariant `StreamInv` joins the buffer's contents with
  `ExpectedInv` (the expected number is that of the position after the last one delivered) and `InStream`: what
  arrived in time is delivered or buffered, and between any undelivered position and the next
  one buffered lies at most a burst. Neither could be dropped: whether a number is stale is decided modulo
  the size of the circle, so that it comes out right only because everything buffered is near. `GapBound` turns the
  local bound into a global one, by a minimal counterexample on the number of packets buffered: the newest packet
  leads the last one delivered by at most `MaxPending * (MaxBurst + 1)`. `TrailingIsStale`, `LeadingIsFresh` and
  `SlotIsOwn` then say that 16 bits decide rightly and that no packet is filed over another.
- `BufferDeliversInOrder` (`ImplementsOrderedDelivery`): `RtpStream` implements `OrderedDelivery`. Each step
  of the buffer is a `Deliver` of the batch it emits or a stutter, with `delivered` and the set of packets that came in
  time as the refinement mapping.
- `LossIsTold` (`LossIsCounted`), with `PayloadAssumption`: the counters tell how many packets were handed on and how
  many between them were not. `LossInv` adds that `lastRtpSeq` is the number of the last position delivered, and needs
  `StreamInv`: a run that follows a gap starts within half a round of it, so that `recordRtpPacket` neither takes it
  for stale nor loses a round (`PacketCounted`). `RunCounted` and `PayloadCounted` go through the packets of a batch
  and of a payload by `UptoInduction`.
- `ErrorsAreExplained` (`ContinuityErrorsExplained`), under `SenderCounts`. The bound on the errors is not inductive: a
  packet that is lost costs nothing until the next payloads of its programs come, perhaps many packets later. `Explained`
  therefore keeps the set of programs whose expected number may be wrong, and counts it with the errors: together they
  never exceed `Credit`, one for each damaged TS packet and `TsPerPacket` for each lost RTP packet. Damage adds at most one
  program, a lost packet no more than it had TS packets (`ProgramsOf`, `PlacesLost`, `OneLost`, `ManyLost`), an error
  takes one away, and of all other programs the expected number is the one behind their last payload among the places
  passed, so that the next one matches it (`Fresh`, `OneHandedOn`). `PayloadExplained` goes through the TS packets of a
  payload as the code's loop does, `RunExplained` through the packets of a batch. Before the first packet nothing is
  expected (`Untouched`), which is why what was lost before it costs nothing although it is not counted.

**UdpRelayProofs**: `PlaybackUsesBuffer` shows that `UdpRelay` implements the buffer's specification
(`RelaySpec => BufferSpec`): pump, deferred calls and callbacks touch the buffer by its own operations
only. Hence `PlaybackInOrder`. `SilenceEndsComplete` (`IdleEndIsComplete`) adds to `LifeInv` that a result
of nil is given only with the buffer flushed, and that nothing is stored after it.

**RtspSessionProofs**, for any set of description bodies: `TypesHold` (at most three SETUPs, because each
place of the dialogue bounds those behind it, `SetupsInv`), `PlayedSessionEnds` (`TeardownInv`: the write deadline never
lies in the past, only the read deadline does, so the TEARDOWN is written unless the id is empty), `PortsReleased`
(`UdpInv`: an open port pair has its deferred close still to come, or the answer to its SETUP had no session or a
negative length, the two cases the property names). `RequestsAddressed` (`RequestsAddressMpegTs`) holds for descriptions of any
length (`BodiesAssumption`: they consist of lines; `AbsoluteAssumption`: `"*"` is not a complete url). The property
looks at the description as a whole: the media line, the lines up to the next one, the last control among them.
`parseSdpTrack` reads it line by line; `LinesRead` joins the two. After n lines there is one section for each media
line among them, with the last control and rtpmap of its lines so far; `LineRead` goes through the kinds of
line, `DescriptionRead` through the description. `TrackAddresses` concludes for the first matching section, and
`AddressInv` carries it to the requests: the track is that of the description read, and nothing but DESCRIBE was
written before.

**InterleavedPumpProofs**, for any frames, messages and reads, and streams of any length (`PumpAssumption`):

- `NoMediaNoSuccess`. The invariant says that `started` has a payload to show for it, and that buffer and wire hold
  bytes, without which a frame's length would be no number.
- `PayloadsHandedOnInOrder` (`HandedOnInOrder`) and `NoPayloadHeldBack` (`NothingHeldBack`). `StreamInv` places the
  pump in the stream: u units have been taken from it, the handler has exactly their media, and buffer and wire
  together are the bytes of the units behind them. That the next cut falls on the end of a unit again is the heart of
  it (`FrameCut`, `MessageCut`, `HeaderCut`): the two length bytes, the first empty line and the declared body decide
  it wherever reads end, although payloads contain markers. While PLAY's answer is awaited the first
  empty line of everything sent has to be that of the first message (`FirstMessage`), since `readResponse` drops what
  precedes it. `WaitInv` says for what the pump waits, and `NothingAhead` that with an empty wire it is the end of the
  stream: a whole unit would not have been left in the buffer.

**ControlServerProofs**, for any connections, keys, values and number of frames (`ControlAssumption`):
`MapTracksHandlers`, `StopClosesOpenOnes` and `AnswersInOrder`. The first two need each other (`HandsInv`): that a
connection in the map is open depends on the handler leaving the map before it closes. For the third,
`FramesInStep` says that the frames handled, buffered and on the wire are together those that were sent.

**BridgeProofs**, for any clients and channel ids (`IdAssumption`: `"none"` is not an id): `LineupIsServed`,
`SocketsAreClosed`, `DiscoverableIsUsable`, `ListedIsFound` and `RefreshEndsFirst`. `SocketsInv` says which
listening sockets are open at each step of start-up, failure and shutdown; `StoreInv` that the store and a playlist about to be
swapped in have a channel; `RefreshInv` where the refresh loop may be; `ListedInv` what clients may still ask for.

**M3uParserProofs**, for playlists of any length, and any entries, urls and normalisations
(`PlaylistAssumption`): `EntriesKeepTheirUrls`, where
`PairedWithOwnUrl` is inductive with `PendingInv` (an entry waits exactly when it is the last line that is an entry or
url) and `ChannelsInv`; then, of what `ParseM3U` returns, `IdentitiesAreUnique`, `LineupIsOrdered` and
`NumbersFollowPlaylist`. `SortedProps` (a sort neither loses nor doubles), `NthProps` and
`DedupeSelects` (dropping duplicates selects the first of each key, all of them and in order) and `CompareProps` do the
work; sorting is any permutation in order, so nothing rests on the sort being stable.

Only model-checked:

- liveness (`PendingDrained`, `PromptCancel`, `HandlerErrorEndsRelay`, `TimersWindDown`, `CancelEndsRelay`,
  `CancelEndsPump`, `StopEndsHandlers`, `SignalEndsProcess`), which is outside what the prover handles;
- the three invariants of `HdhomerunWire` (`DiscoveryAnswersOwn`, `RepliesAnswerRequests`, `NoRequestHeldBack`): they
  rest on a checksum over all bytes and on tags that are encoded by flattening and read back one by one. Both are folds,
  and what a fold computes for every input is an induction with an operator as its parameter.

## 5. Not modelled, and the plan

Not modelled: wording, formatting and log output (`logger.go`, the warnings and `byteCount` of the diagnostics);
the constant HTTP documents; `config.Load`, one pass over environment strings whose two outcomes `Bridge` has; the
SSDP texts; the header arithmetic of `depacketizeRtpPayload`, of which the models have the outcomes; what
`normalize` and `streamPathKey` make of a text (constants of `M3uParser`); a sender that restarts its numbering
(`ReorderBuffer` allows it, `RtpStream` defines no order across it); two playbacks at once (they share nothing but
the store); the version tool.

Next, in this order:

1. Proofs: that decoding undoes the encoding of a discovery packet (`HdhomerunWire`), with the tags read as a loop
   over positions, as the descriptions of `RtspSession` are, instead of a fold.
2. `depacketizeRtpPayload` as an operator on headers, checked against the layout of RTP packets.
3. The device-id checksum of `config.Load` and the SSDP search targets, if they come to carry more than text.
