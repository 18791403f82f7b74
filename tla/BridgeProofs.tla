---------------------------- MODULE BridgeProofs ----------------------------
(***************************************************************************)
(* Proofs about Bridge, for every set of channel ids and of clients.  The  *)
(* inductive invariant says which sockets are open at each place main can  *)
(* be, what that place implies about the store and the refresh loop, and   *)
(* that what a client was shown is still in the store.                     *)
(***************************************************************************)
EXTENDS Bridge, TLAPS

-----------------------------------------------------------------------------
(* The inductive invariant, part by part.                                  *)

\* main's places while each socket is open; nothing else is ever open.
Open == {"run", "stopLoop", "waitLoop", "closeHttp", "notify", "loop"}
SocketsInv ==
    Running =>
        /\ sockets \subseteq {"http"} \union Discovery
        /\ "http" \in sockets <=>
              main \in Open \union {"ssdp", "hdhomerun", "control", "abort"}
        /\ "ssdp" \in sockets <=>
              main \in Open \union {"hdhomerun", "control", "stopDiscovery"}
        /\ "hdhomerun" \in sockets <=> main \in Open \union {"control", "stopDiscovery"}
        /\ "control" \in sockets <=> main \in Open \union {"stopDiscovery"}

\* From the first load on the store has a channel, and a playlist about to be
\* swapped in has one.
StoreInv ==
    /\ main \notin {"config", "fetch", "exited"} => DOMAIN channels # {}
    /\ refresh = "swap" => DOMAIN next # {}

\* The refresh loop is started after start-up and has returned when main goes
\* on to close the servers.
RefreshInv ==
    /\ main \in Starting => refresh = "none"
    /\ main \in {"closeHttp", "stopDiscovery", "stopped"} => refresh = "done"

\* What a client was shown and no refresh has removed is in the store.
ListedInv ==
    \A c \in Client : /\ main \in {"config", "fetch"} => listed[c] = {}
                      /\ listed[c] \subseteq DOMAIN channels

IInv == TypeOK /\ SocketsInv /\ StoreInv /\ RefreshInv /\ ListedInv

-----------------------------------------------------------------------------
(* Lineups.                                                                *)

\* The ids of a lineup are channel ids, and only the empty one has none
\* (Refresh's test len(next) == 0).
LEMMA LineupProps ==
    /\ NoChannels \in Lineup
    /\ \A p \in Lineup : DOMAIN p \subseteq Id
    /\ \A p \in Lineup : p # NoChannels => DOMAIN p # {}
<1>1. NoChannels \in Lineup
    BY {} \in SUBSET Id, NoChannels \in [{} -> {"rtsp", "http"}] DEF NoChannels, Lineup
<1>2. ASSUME NEW p \in Lineup PROVE DOMAIN p \subseteq Id
    BY DEF Lineup
<1>3. ASSUME NEW p \in Lineup, DOMAIN p = {} PROVE p = NoChannels
    BY <1>3 DEF Lineup, NoChannels
<1> QED BY <1>1, <1>2, <1>3

-----------------------------------------------------------------------------
(* The invariant is inductive: one step per action.                        *)

LEMMA IInvInit == Init => IInv
BY LineupProps
   DEF Init, IInv, TypeOK, SocketsInv, Open, StoreInv, RefreshInv, ListedInv,
       Discovery, Starting, Stopping, Running, NoChannels

LEMMA IInvStep == IInv /\ [Next]_vars => IInv'
<1> SUFFICES ASSUME IInv, [Next]_vars PROVE IInv'
    OBVIOUS
<1> USE LineupProps, IdAssumption
    DEF IInv, TypeOK, SocketsInv, Open, StoreInv, RefreshInv, ListedInv,
        Starting, Stopping, Running, Discovery, Advance, storeVars, clientVars
<1>1. CASE loadConfig
    BY <1>1 DEF loadConfig
<1>2. CASE loadPlaylist
    BY <1>2 DEF loadPlaylist
<1>3. CASE listen
    BY <1>3 DEF listen
<1>4. CASE openDiscovery("ssdp", "hdhomerun", {})
    BY <1>4 DEF openDiscovery
<1>5. CASE openDiscovery("hdhomerun", "control", {"ssdp"})
    BY <1>5 DEF openDiscovery
<1>6. CASE openDiscovery("control", "notify", {"hdhomerun", "ssdp"})
    BY <1>6 DEF openDiscovery
<1>7. CASE sendStartupNotify
    BY <1>7 DEF sendStartupNotify
<1>8. CASE abortServices
    BY <1>8 DEF abortServices
<1>9. CASE exitFailed
    BY <1>9 DEF exitFailed
<1>10. CASE startRefreshLoop
    BY <1>10 DEF startRefreshLoop
<1>11. CASE takeSignal
    BY <1>11 DEF takeSignal
<1>12. CASE stopRefreshLoop
    BY <1>12 DEF stopRefreshLoop
<1>13. CASE refreshLoopDone
    BY <1>13 DEF refreshLoopDone
<1>14. CASE closeHttp
    BY <1>14 DEF closeHttp
<1>15. CASE stopDiscovery
    BY <1>15 DEF stopDiscovery
<1>16. CASE mainReturns
    BY <1>16 DEF mainReturns
<1>17. CASE ticker
    BY <1>17 DEF ticker
<1>18. CASE refreshStops
    BY <1>18 DEF refreshStops
<1>19. CASE refreshTicks
    BY <1>19 DEF refreshTicks
<1>20. CASE fetchEnds
    BY <1>20 DEF fetchEnds
<1>21. CASE swapChannels
    BY <1>21 DEF swapChannels
<1>22. ASSUME NEW c \in Client, getLineup(c) PROVE IInv'
    BY <1>22 DEF getLineup
<1>23. ASSUME NEW c \in Client, relayEnds(c) PROVE IInv'
    BY <1>23 DEF relayEnds
<1>24. ASSUME NEW c \in Client, NEW id \in Id, handlePlayback(c, id) PROVE IInv'
    BY <1>24 DEF handlePlayback
<1>25. CASE serveFails
    BY <1>25 DEF serveFails
<1>26. CASE signal
    BY <1>26 DEF signal
<1>27. CASE UNCHANGED vars
    BY <1>27 DEF vars
<1> QED
    BY <1>1, <1>2, <1>3, <1>4, <1>5, <1>6, <1>7, <1>8, <1>9, <1>10, <1>11, <1>12,
       <1>13, <1>14, <1>15, <1>16, <1>17, <1>18, <1>19, <1>20, <1>21, <1>22, <1>23,
       <1>24, <1>25, <1>26, <1>27 DEF Next, MainStep

LEMMA IInvAlways == Spec => []IInv
BY IInvInit, IInvStep, PTL DEF Spec

-----------------------------------------------------------------------------
(* What the invariant gives.                                               *)

\* Every state is well typed: in particular a request has an answer only after
\* a lookup of a channel id.
THEOREM TypesHold == Spec => []TypeOK
<1>1. IInv => TypeOK
    BY DEF IInv
<1> QED BY <1>1, IInvAlways, PTL

\* No client is ever served an empty lineup: main exits on a playlist without a
\* channel before it listens, and Refresh refuses to swap one in.
THEOREM LineupIsServed == Spec => []ServedLineupNotEmpty
<1>1. IInv => ServedLineupNotEmpty
    BY DEF IInv, SocketsInv, StoreInv, ServedLineupNotEmpty, Open, Running
<1> QED BY <1>1, IInvAlways, PTL

\* Whichever of startBridgeServices' steps has failed, and when main is about to
\* return, every listening socket the process opened has been closed.
THEOREM SocketsAreClosed == Spec => []NothingLeftOpen
<1>1. IInv => NothingLeftOpen
    BY DEF IInv, SocketsInv, NothingLeftOpen, Open, Discovery, Running
<1> QED BY <1>1, IInvAlways, PTL

\* While a discovery socket is open before shutdown, the HTTP listener is open
\* and has a lineup to serve: a DVR that finds the bridge can use it.
THEOREM DiscoverableIsUsable == Spec => []AdvertisedIsServed
<1>1. IInv => AdvertisedIsServed
    BY DEF IInv, SocketsInv, StoreInv, AdvertisedIsServed, Open, Discovery, Stopping,
           Running
<1> QED BY <1>1, IInvAlways, PTL

\* A channel a client was shown, and that every refresh since has kept, is found
\* when it is played: handlePlayback reads the store, not an old copy.
THEOREM ListedIsFound == Spec => ListedChannelIsFound
<1>1. ASSUME IInv, NEW c \in Client, NEW id \in Id,
             handlePlayback(c, id), id \in listed[c]
      PROVE  playback'[c] # "notFound"
    <2>1. id \in DOMAIN channels
        BY <1>1 DEF IInv, ListedInv
    <2>2. c \in DOMAIN playback
        BY <1>1 DEF IInv, TypeOK
    <2> QED BY <1>1, <2>1, <2>2 DEF handlePlayback
<1>2. IInv => \A c \in Client, id \in Id :
         handlePlayback(c, id) /\ id \in listed[c] => playback'[c] # "notFound"
    BY <1>1
<1> QED BY <1>2, IInvAlways, PTL DEF ListedChannelIsFound

\* Once the HTTP server is closed the refresh loop has returned: no fetch is in
\* flight and nothing replaces the store behind the closing servers.
THEOREM RefreshEndsFirst == Spec => NoRefreshAfterShutdown
<1>1. IInv /\ [Next]_vars =>
         [(main \in {"stopDiscovery", "stopped"}) =>
             channels' = channels /\ refresh' = refresh]_vars
    <2> SUFFICES ASSUME IInv, Next, main \in {"stopDiscovery", "stopped"}
                 PROVE  channels' = channels /\ refresh' = refresh
        OBVIOUS
    <2>1. refresh = "done"
        BY DEF IInv, RefreshInv
    <2>2. CASE MainStep
        BY <2>2 DEF MainStep, loadConfig, loadPlaylist, listen, openDiscovery,
                    sendStartupNotify, abortServices, exitFailed, startRefreshLoop,
                    takeSignal, stopRefreshLoop, refreshLoopDone, closeHttp,
                    stopDiscovery, mainReturns, Advance, storeVars
    <2>3. CASE \E c \in Client :
                  getLineup(c) \/ relayEnds(c) \/ \E id \in Id : handlePlayback(c, id)
        BY <2>3 DEF getLineup, relayEnds, handlePlayback, storeVars
    <2>4. CASE ticker \/ refreshStops \/ refreshTicks \/ fetchEnds \/ swapChannels
        BY <2>1, <2>4 DEF ticker, refreshStops, refreshTicks, fetchEnds, swapChannels
    <2>5. CASE serveFails \/ signal
        BY <2>5 DEF serveFails, signal, storeVars
    <2> QED BY <2>2, <2>3, <2>4, <2>5 DEF Next
<1> QED BY <1>1, IInvAlways, PTL DEF Spec, NoRefreshAfterShutdown
=============================================================================
