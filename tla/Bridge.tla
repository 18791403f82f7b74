------------------------------- MODULE Bridge -------------------------------
(***************************************************************************)
(* The process as a whole (cmd/plex-octotuner/main.go): start-up of the    *)
(* HTTP and discovery services, the playlist refresh loop that replaces    *)
(* the channel store, the HTTP requests that read it, and shutdown.        *)
(*                                                                         *)
(* A lineup, the parsed playlist, is a function from channel ids to the    *)
(* kind of their stream URL.  ParseM3U, the RTSP relay and the contents of *)
(* discovery packets are abstracted to their outcomes.                     *)
(***************************************************************************)
EXTENDS Naturals, FiniteSets

CONSTANTS
    Id,             \* channel ids
    Client          \* HTTP clients, each with one request at a time

ASSUME IdAssumption == "none" \notin Id

NoChannels == [i \in {} |-> "http"]
Lineup == UNION {[S -> {"rtsp", "http"}] : S \in SUBSET Id}

VARIABLES
    main,           \* where main is
    sockets,        \* the listening sockets that are open
    channels,       \* Store.channels
    refresh,        \* the refresh loop: none, select, fetching, swap or done
    next,           \* Refresh's next: what it has fetched and parsed
    stopCh,         \* stopCh is closed
    tick,           \* the ticker's channel of capacity one holds a tick
    signalled,      \* signalCh holds a signal
    playback,       \* each client's request: idle, relaying, or its answer
    wanted,         \* the channel id of that request
    listed          \* ids the client was last shown and that every lineup
                    \* since has kept

storeVars == <<channels, next, refresh, tick>>
clientVars == <<playback, wanted, listed>>
vars == <<main, sockets, storeVars, stopCh, signalled, clientVars>>

Discovery == {"ssdp", "hdhomerun", "control"}
Starting == {"config", "fetch", "listen", "ssdp", "hdhomerun", "control", "notify",
             "abort", "failed", "loop"}
Stopping == {"stopLoop", "waitLoop", "closeHttp", "stopDiscovery", "stopped"}
Running == main # "exited"

Init ==
    /\ main = "config"
    /\ sockets = {}
    /\ channels = NoChannels
    /\ refresh = "none"
    /\ next = NoChannels
    /\ stopCh = FALSE /\ tick = FALSE /\ signalled = FALSE
    /\ playback = [c \in Client |-> "idle"]
    /\ wanted = [c \in Client |-> "none"]
    /\ listed = [c \in Client |-> {}]

-----------------------------------------------------------------------------
(* main, up to the refresh loop.                                           *)

Advance(from, to) == main = from /\ main' = to

\* config.Load succeeds, or main prints the error and exits.
loadConfig ==
    /\ Advance("config", "fetch") \/ Advance("config", "exited")
    /\ UNCHANGED <<sockets, storeVars, stopCh, signalled, clientVars>>

\* fetchM3U (which accepts any HTTP status), ReplaceFromRaw, and the exit when
\* the playlist could not be fetched or has no valid channel.
loadPlaylist ==
    /\ \/ Advance("fetch", "exited") /\ UNCHANGED channels
       \/ \E playlist \in Lineup :
             /\ channels' = playlist
             /\ \/ DOMAIN playlist # {} /\ Advance("fetch", "listen")
                \/ DOMAIN playlist = {} /\ Advance("fetch", "exited")
    /\ UNCHANGED <<sockets, next, refresh, tick, stopCh, signalled, clientVars>>

\* A plausible bug: the listener is opened after discovery has been started.
listenLater ==
    /\ Advance("listen", "ssdp")
    /\ UNCHANGED <<sockets, storeVars, stopCh, signalled, clientVars>>

\* startBridgeServices: the HTTP listener first; requests are served at once.
listen ==
    /\ \/ Advance("listen", "ssdp") /\ sockets' = sockets \union {"http"}
       \/ Advance("listen", "failed") /\ UNCHANGED sockets
    /\ UNCHANGED <<storeVars, stopCh, signalled, clientVars>>

\* A plausible bug: a failure returns without closing what is open.
openDiscoveryLeaks(s, to, opened) ==
    /\ \/ Advance(s, to) /\ sockets' = sockets \union {s}
       \/ Advance(s, "abort") /\ UNCHANGED sockets
    /\ UNCHANGED <<storeVars, stopCh, signalled, clientVars>>

\* StartDiscoveryServer opens socket s, or fails and closes those that its
\* error path for s names.
openDiscovery(s, to, opened) ==
    /\ \/ Advance(s, to) /\ sockets' = sockets \union {s}
       \/ Advance(s, "abort") /\ sockets' = sockets \ opened
    /\ UNCHANGED <<storeVars, stopCh, signalled, clientVars>>

\* The start-up NOTIFYs; when one cannot be sent, stop() closes everything.
sendStartupNotify ==
    /\ \/ Advance("notify", "loop") /\ UNCHANGED sockets
       \/ Advance("notify", "abort") /\ sockets' = sockets \ Discovery
    /\ UNCHANGED <<storeVars, stopCh, signalled, clientVars>>

\* startBridgeServices' error path: server.Close and listener.Close.
abortServices ==
    /\ Advance("abort", "failed")
    /\ sockets' = sockets \ {"http"}
    /\ UNCHANGED <<storeVars, stopCh, signalled, clientVars>>

exitFailed ==
    /\ Advance("failed", "exited")
    /\ UNCHANGED <<sockets, storeVars, stopCh, signalled, clientVars>>

\* The ticker, startRefreshLoop, and signal.Notify: from here on a signal is
\* queued for main instead of ending the process.
startRefreshLoop ==
    /\ Advance("loop", "run")
    /\ refresh' = "select"
    /\ UNCHANGED <<sockets, channels, next, tick, stopCh, signalled, clientVars>>

-----------------------------------------------------------------------------
(* The refresh loop and Store.Refresh.                                     *)

ticker ==
    /\ Running /\ refresh # "none" /\ ~tick
    /\ tick' = TRUE
    /\ UNCHANGED <<main, sockets, channels, refresh, next, stopCh, signalled, clientVars>>

\* select: with both channels ready either case may be chosen.
refreshStops ==
    /\ Running /\ refresh = "select" /\ stopCh
    /\ refresh' = "done"
    /\ UNCHANGED <<main, sockets, channels, next, tick, stopCh, signalled, clientVars>>

refreshTicks ==
    /\ Running /\ refresh = "select" /\ tick
    /\ tick' = FALSE
    /\ refresh' = "fetching"
    /\ UNCHANGED <<main, sockets, channels, next, stopCh, signalled, clientVars>>

\* A plausible bug: the check for zero channels is left to the first start.
fetchEndsUnchecked ==
    /\ Running /\ refresh = "fetching"
    /\ \/ refresh' = "select" /\ UNCHANGED next
       \/ refresh' = "swap" /\ next' \in Lineup
    /\ UNCHANGED <<main, sockets, channels, tick, stopCh, signalled, clientVars>>

\* fetchPlaylist fails, or it succeeds and the playlist is parsed: without a
\* valid channel Refresh returns an error and the store keeps what it has.
fetchEnds ==
    /\ Running /\ refresh = "fetching"
    /\ \/ refresh' = "select" /\ UNCHANGED next
       \/ refresh' = "swap" /\ next' \in Lineup \ {NoChannels}
    /\ UNCHANGED <<main, sockets, channels, tick, stopCh, signalled, clientVars>>

\* A plausible bug: the store is emptied first and filled in another step.
swapChannelsInTwo ==
    /\ Running /\ refresh = "swap"
    /\ \/ /\ channels # NoChannels
          /\ channels' = NoChannels
          /\ UNCHANGED <<refresh, listed>>
       \/ /\ channels = NoChannels
          /\ channels' = next /\ refresh' = "select"
          /\ listed' = [c \in Client |-> listed[c] \intersect DOMAIN next]
    /\ UNCHANGED <<main, sockets, next, tick, stopCh, signalled, playback, wanted>>

\* The assignment under the store's mutex.
swapChannels ==
    /\ Running /\ refresh = "swap"
    /\ channels' = next
    /\ refresh' = "select"
    /\ listed' = [c \in Client |-> listed[c] \intersect DOMAIN next]
    /\ UNCHANGED <<main, sockets, next, tick, stopCh, signalled, playback, wanted>>

-----------------------------------------------------------------------------
(* HTTP requests, each on a goroutine of its own.                          *)

\* /lineup.json: BuildLineup on the copy GetChannels makes.
getLineup(c) ==
    /\ Running /\ "http" \in sockets
    /\ listed' = [listed EXCEPT ![c] = DOMAIN channels]
    /\ UNCHANGED <<main, sockets, storeVars, stopCh, signalled, playback, wanted>>

\* /auto/v<id>: the lookup in another copy, then a redirect or the relay.
handlePlayback(c, id) ==
    /\ Running /\ "http" \in sockets
    /\ playback[c] # "relaying"
    /\ wanted' = [wanted EXCEPT ![c] = id]
    /\ playback' = [playback EXCEPT ![c] =
          IF id \notin DOMAIN channels THEN "notFound"
          ELSE IF channels[id] = "rtsp" THEN "relaying" ELSE "redirected"]
    /\ UNCHANGED <<main, sockets, storeVars, stopCh, signalled, listed>>

\* Relay returns, with or without an error.
relayEnds(c) ==
    /\ Running
    /\ playback[c] = "relaying"
    /\ playback' = [playback EXCEPT ![c] = "ended"]
    /\ UNCHANGED <<main, sockets, storeVars, stopCh, signalled, wanted, listed>>

\* server.Serve fails by itself: its goroutine ends the process.
serveFails ==
    /\ Running /\ "http" \in sockets
    /\ main' = "exited"
    /\ UNCHANGED <<sockets, storeVars, stopCh, signalled, clientVars>>

-----------------------------------------------------------------------------
(* Signals and shutdown.                                                   *)

\* SIGINT or SIGTERM, before signal.Notify and after it.
signal ==
    /\ Running /\ ~signalled
    /\ signalled' = TRUE
    /\ main' = IF main \in Starting THEN "exited" ELSE main
    /\ UNCHANGED <<sockets, storeVars, stopCh, clientVars>>

takeSignal ==
    /\ signalled
    /\ Advance("run", "stopLoop")
    /\ UNCHANGED <<sockets, storeVars, stopCh, signalled, clientVars>>

\* A plausible bug: stopRefreshLoop does not wait for doneCh.
stopRefreshLoopNoWait ==
    /\ Advance("stopLoop", "closeHttp")
    /\ stopCh' = TRUE
    /\ UNCHANGED <<sockets, storeVars, signalled, clientVars>>

\* A plausible bug: stopCh is made but never closed.
stopRefreshLoopNoClose ==
    /\ Advance("stopLoop", "waitLoop")
    /\ UNCHANGED <<sockets, storeVars, stopCh, signalled, clientVars>>

\* stopRefreshLoop: close(stopCh), then wait for doneCh.
stopRefreshLoop ==
    /\ Advance("stopLoop", "waitLoop")
    /\ stopCh' = TRUE
    /\ UNCHANGED <<sockets, storeVars, signalled, clientVars>>

refreshLoopDone ==
    /\ refresh = "done"
    /\ Advance("waitLoop", "closeHttp")
    /\ UNCHANGED <<sockets, storeVars, stopCh, signalled, clientVars>>

\* server.Close drops the connections; their handlers run on.
closeHttp ==
    /\ Advance("closeHttp", "stopDiscovery")
    /\ sockets' = sockets \ {"http"}
    /\ UNCHANGED <<storeVars, stopCh, signalled, clientVars>>

\* discoveryHandle.Stop, once.
stopDiscovery ==
    /\ Advance("stopDiscovery", "stopped")
    /\ sockets' = sockets \ Discovery
    /\ UNCHANGED <<storeVars, stopCh, signalled, clientVars>>

mainReturns ==
    /\ Advance("stopped", "exited")
    /\ UNCHANGED <<sockets, storeVars, stopCh, signalled, clientVars>>

-----------------------------------------------------------------------------
MainStep ==
    \/ loadConfig \/ loadPlaylist \/ listen
    \/ openDiscovery("ssdp", "hdhomerun", {})
    \/ openDiscovery("hdhomerun", "control", {"ssdp"})
    \/ openDiscovery("control", "notify", {"hdhomerun", "ssdp"})
    \/ sendStartupNotify \/ abortServices \/ exitFailed \/ startRefreshLoop
    \/ takeSignal \/ stopRefreshLoop \/ refreshLoopDone \/ closeHttp
    \/ stopDiscovery \/ mainReturns

Next ==
    \/ MainStep
    \/ ticker \/ refreshStops \/ refreshTicks \/ fetchEnds \/ swapChannels
    \/ \E c \in Client :
          getLineup(c) \/ relayEnds(c) \/ \E id \in Id : handlePlayback(c, id)
    \/ serveFails \/ signal

Spec == Init /\ [][Next]_vars

\* main runs, but for its first fetch, a swap ends, and a select whose stopCh
\* is ready again and again, with ticks ready beside it, takes it some time.
\* Nothing is assumed of a fetch: http.Get has no timeout.
FairSpec ==
    /\ Spec
    /\ WF_vars(main # "fetch" /\ MainStep)
    /\ WF_vars(swapChannels)
    /\ SF_vars(refreshStops)

\* What the code leaves to the playlist's server: that it answers, or closes
\* the connection.
FetchesEnd == WF_vars(fetchEnds)

-----------------------------------------------------------------------------
\* Types: the answers a request can get are those of NewHandler (no panic of a
\* handler), and a request has one only after its lookup.
TypeOK ==
    /\ main \in Starting \union Stopping \union {"run", "exited"}
    /\ sockets \subseteq Discovery \union {"http"}
    /\ channels \in Lineup /\ next \in Lineup
    /\ refresh \in {"none", "select", "fetching", "swap", "done"}
    /\ {stopCh, tick, signalled} \subseteq BOOLEAN
    /\ playback \in [Client -> {"idle", "notFound", "redirected", "relaying", "ended"}]
    /\ wanted \in [Client -> Id \union {"none"}]
    /\ listed \in [Client -> SUBSET Id]
    /\ \A c \in Client : playback[c] # "idle" => wanted[c] # "none"

\* No client is ever served an empty lineup, whatever a refresh fetched: the
\* last good one is kept (Store.Refresh, main's exit on zero channels).
ServedLineupNotEmpty ==
    Running /\ "http" \in sockets => DOMAIN channels # {}

\* A channel that a client was shown and that no refresh has removed since is
\* found when the client plays it, however refreshes fall between the two
\* requests (GetChannels' copy and the swap under the mutex).
ListedChannelIsFound ==
    [][\A c \in Client, id \in Id :
          handlePlayback(c, id) /\ id \in listed[c] => playback'[c] # "notFound"]_vars

\* When startBridgeServices has failed, at whichever of its steps, and when
\* main is about to return, none of the process's listening sockets is open.
\* (Connections they accepted, and relays, are not among them.)
NothingLeftOpen == main \in {"failed", "stopped"} => sockets = {}

\* The bridge is discoverable only while it can be used: before shutdown an
\* open discovery socket means an open HTTP listener with a lineup behind it.
AdvertisedIsServed ==
    Running /\ main \notin Stopping /\ sockets \intersect Discovery # {}
        => "http" \in sockets /\ DOMAIN channels # {}

\* From the moment the HTTP server is closed no fetch is in flight and the
\* store is left alone (startRefreshLoop's doneCh).
NoRefreshAfterShutdown ==
    [][(main \in {"stopDiscovery", "stopped"}) =>
          channels' = channels /\ refresh' = refresh]_vars

\* If the playlist's server lets fetches end, the process ends after a signal,
\* also when that came during a refresh and when the ticker keeps ticking.
\* Without the condition it would be false: shutdown waits for doneCh, and the
\* refresh loop for http.Get.
SignalEndsProcess == FetchesEnd => (signalled ~> main = "exited")
=============================================================================
