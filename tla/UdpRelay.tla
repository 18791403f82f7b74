------------------------------ MODULE UdpRelay ------------------------------
(***************************************************************************)
(* One playback over UDP: pumpUdp with its reorder buffer, the handler     *)
(* that streamMedia gives it, and what the HTTP client finally gets        *)
(* (internal/rtsp/relay.go, internal/httpapi/server.go).                   *)
(*                                                                         *)
(* Goroutines: the request's own (pumpUdp's loop, then streamMedia, Relay  *)
(* and handlePlayback returning), the watcher that closes the RTP socket   *)
(* when the request's context ends, and the reorder buffer's timers, whose *)
(* callbacks run the same handler.  The actions of the buffer are those of *)
(* ReorderBuffer; each one is joined here with the handling of the packets *)
(* it emits, because emitPacket runs under the buffer's mutex.             *)
(***************************************************************************)
EXTENDS ReorderBuffer

CONSTANT kindOf(_)      \* what a packet is to the handler:
                        \* media, empty (no payload) or bad (not depacketized)

VARIABLES
    pump,           \* where the request's goroutine is
    rtpSocket,      \* open or closed
    watcher,        \* waiting or done
    ctxDone,        \* the request's context is cancelled
    client,         \* connected or gone
    writer,         \* who waits in a write to the client: none, loop or timer
    readStarted,    \* pumpUdp's started: a datagram has been read
    readErr,        \* error of the last ReadFromUDP
    handlerErrCh,   \* the channel of capacity one holds an error
    started,        \* streamMedia's started: the response has begun
    result,         \* what pumpUdp returns
    response        \* what the client gets once the handler has returned

relayVars == <<pump, rtpSocket, watcher, ctxDone, client, writer, readStarted,
               readErr, handlerErrCh, started, result, response>>
vars == <<bufferVars, relayVars>>

RelayInit ==
    /\ BufferInit
    /\ pump = "checkCtx"
    /\ rtpSocket = "open"
    /\ watcher = "waiting"
    /\ ctxDone = FALSE
    /\ client = "connected"
    /\ writer = "none"
    /\ readStarted = FALSE
    /\ readErr = "none"
    /\ handlerErrCh = FALSE
    /\ started = FALSE
    /\ result = "none"
    /\ response = "none"

-----------------------------------------------------------------------------
(* The handler, applied to what a buffer step emits.                       *)

Emits(kind) == \E i \in 1 .. Len(emitted') : kindOf(emitted'[i]) = kind

\* Writing to a client that is gone fails sooner or later; one that does not
\* read makes `who' wait in the write, with the buffer's mutex held.
Handle(who) ==
    /\ started' = (started \/ Emits("media"))
    /\ \E writeFails \in {FALSE} \union {client = "gone"} :
          handlerErrCh' = (handlerErrCh \/ Emits("bad") \/ (Emits("media") /\ writeFails))
    /\ \/ UNCHANGED writer
       \/ /\ Emits("media") /\ client = "connected"
          /\ pump \notin {"returned", "done"}
          /\ writer' = who

MutexFree == writer = "none"

\* The write goes through, or fails because the client is gone.
writeEnds ==
    /\ writer # "none"
    /\ writer' = "none"
    /\ handlerErrCh' = (handlerErrCh \/ client = "gone")
    /\ UNCHANGED <<bufferVars, pump, rtpSocket, watcher, ctxDone, client, readStarted,
                   readErr, started, result, response>>

-----------------------------------------------------------------------------
(* pumpUdp.                                                                *)

Goto(l) == pump' = l
Return(r) == pump' = "return" /\ result' = r

checkCtx ==
    /\ pump = "checkCtx"
    /\ \/ ctxDone /\ Return("cancelled")
       \/ ~ctxDone /\ Goto("checkErr") /\ UNCHANGED result
    /\ UNCHANGED <<bufferVars, rtpSocket, watcher, ctxDone, client, writer, readStarted,
                   readErr, handlerErrCh, started, response>>

\* A plausible bug: the channel is filled but never looked at.
TakeHandlerErrNever(from, to) ==
    /\ pump = from
    /\ Goto(to)
    /\ UNCHANGED <<bufferVars, rtpSocket, watcher, ctxDone, client, writer, readStarted,
                   readErr, handlerErrCh, started, result, response>>

\* select { case err := <-handlerErrCh: return err; default: } at `from'.
TakeHandlerErr(from, to) ==
    /\ pump = from
    /\ \/ handlerErrCh /\ Return("handlerError") /\ handlerErrCh' = FALSE
       \/ ~handlerErrCh /\ Goto(to) /\ UNCHANGED <<result, handlerErrCh>>
    /\ UNCHANGED <<bufferVars, rtpSocket, watcher, ctxDone, client, writer, readStarted,
                   readErr, started, response>>

checkErr == TakeHandlerErr("checkErr", "read")
checkErrAfterPush == writer # "loop" /\ TakeHandlerErr("pushed", "checkCtx")
checkErrAfterReadErr == TakeHandlerErr("readErr", "classify")

\* ReadFromUDP returns a datagram and reorder.push stores it.
readPacket(p) ==
    /\ pump = "read"
    /\ rtpSocket = "open" /\ MutexFree
    /\ readStarted' = TRUE
    /\ push(p)
    /\ Handle("loop")
    /\ Goto("pushed")
    /\ UNCHANGED <<rtpSocket, watcher, ctxDone, client, readErr, result, response>>

\* A datagram of fewer than four bytes: parseRtpSequence indexes past its end
\* and the panic unwinds through the deferred calls to net/http.
readRunt ==
    /\ pump = "read"
    /\ rtpSocket = "open" /\ MutexFree
    /\ readStarted' = TRUE
    /\ Return("panic")
    /\ UNCHANGED <<bufferVars, rtpSocket, watcher, ctxDone, client, writer, readErr,
                   handlerErrCh, started, response>>

\* ReadFromUDP fails: the watcher has closed the socket, the deadline (15 s
\* before the first datagram, 5 s after it) has passed, or the system reports
\* another error.
readFails(err) ==
    /\ pump = "read"
    /\ rtpSocket = "closed" <=> err = "closed"
    /\ readErr' = err
    /\ Goto("readErr")
    /\ UNCHANGED <<bufferVars, rtpSocket, watcher, ctxDone, client, writer, readStarted,
                   handlerErrCh, started, result, response>>

classifyReadErr ==
    /\ pump = "classify"
    /\ \/ ctxDone /\ Return("cancelled")
       \/ /\ ~ctxDone
          /\ ~(readErr = "timeout" /\ readStarted)
          /\ Return(IF readErr = "timeout" THEN "noFirstPacket" ELSE "readError")
       \/ /\ ~ctxDone
          /\ readErr = "timeout" /\ readStarted
          /\ Goto("close")
          /\ UNCHANGED result
    /\ UNCHANGED <<bufferVars, rtpSocket, watcher, ctxDone, client, writer, readStarted,
                   readErr, handlerErrCh, started, response>>

\* A plausible bug: return nil and leave the buffer to the deferred stop.
closeBufferForgotten ==
    /\ pump = "close"
    /\ Return("nil")
    /\ UNCHANGED <<bufferVars, handlerErrCh, started, writer, rtpSocket, watcher,
                   ctxDone, client, readStarted, readErr, response>>

\* reorder.close(), and return nil when it is done.
closeBuffer ==
    /\ pump = "close"
    /\ \/ /\ MutexFree /\ closeStop
          /\ UNCHANGED <<pump, result, handlerErrCh, started, writer>>
       \/ /\ MutexFree /\ flushRemaining /\ Handle("loop")
          /\ UNCHANGED <<pump, result>>
       \/ /\ writer # "loop" /\ owner = "flushed" /\ Return("nil")
          /\ UNCHANGED <<bufferVars, handlerErrCh, started, writer>>
    /\ UNCHANGED <<rtpSocket, watcher, ctxDone, client, readStarted, readErr, response>>

\* The deferred calls: close(stopRead), then reorder.stop().
deferredStop ==
    /\ pump = "return"
    /\ MutexFree /\ stop
    /\ Goto("returned")
    /\ UNCHANGED <<rtpSocket, watcher, ctxDone, client, writer, readStarted, readErr,
                   handlerErrCh, started, result, response>>

-----------------------------------------------------------------------------
(* The callers of pumpUdp, and the other goroutines.                       *)

\* streamMedia's mapping of the result, Relay's deferred transport.close and
\* NewHandler's answer; after a panic net/http aborts the connection.
finishPlayback ==
    /\ pump = "returned"
    /\ response' = IF result = "panic" THEN "aborted"
                   ELSE IF started THEN "streamed"
                   ELSE IF result = "nil" THEN "empty200"
                   ELSE "error500"
    /\ rtpSocket' = "closed"
    /\ Goto("done")
    /\ UNCHANGED <<bufferVars, watcher, ctxDone, client, writer, readStarted, readErr,
                   handlerErrCh, started, result>>

\* A plausible bug: the watcher only waits for the pump to end.
watchOnlyStop ==
    /\ watcher = "waiting"
    /\ watcher' = "done"
    /\ pump \in {"returned", "done"}
    /\ UNCHANGED <<bufferVars, pump, rtpSocket, ctxDone, client, writer, readStarted,
                   readErr, handlerErrCh, started, result, response>>

\* The goroutine that waits for the context or for stopRead.
watch ==
    /\ watcher = "waiting"
    /\ watcher' = "done"
    /\ \/ ctxDone /\ rtpSocket' = "closed"
       \/ pump \in {"returned", "done"} /\ UNCHANGED rtpSocket
    /\ UNCHANGED <<bufferVars, pump, ctxDone, client, writer, readStarted, readErr,
                   handlerErrCh, started, result, response>>

timerStep(t) ==
    /\ timerFires(t) \/ (MutexFree /\ flushCallback(t))
    /\ Handle("timer")
    /\ UNCHANGED <<pump, rtpSocket, watcher, ctxDone, client, readStarted, readErr,
                   result, response>>

\* Plex closes its connection; net/http then cancels the request's context.
clientLeaves ==
    /\ client = "connected"
    /\ client' = "gone"
    /\ UNCHANGED <<bufferVars, pump, rtpSocket, watcher, ctxDone, writer, readStarted,
                   readErr, handlerErrCh, started, result, response>>

cancelContext ==
    /\ client = "gone" \/ pump = "done"
    /\ ~ctxDone
    /\ ctxDone' = TRUE
    /\ UNCHANGED <<bufferVars, pump, rtpSocket, watcher, client, writer, readStarted,
                   readErr, handlerErrCh, started, result, response>>

-----------------------------------------------------------------------------
\* The steps of the request's goroutine that need neither a datagram nor a
\* deadline.
LocalStep ==
    \/ checkCtx \/ checkErr \/ checkErrAfterPush \/ checkErrAfterReadErr
    \/ readFails("closed") \/ classifyReadErr \/ closeBuffer
    \/ deferredStop \/ finishPlayback

\* Those that do.
ReadStep ==
    \/ \E p \in Packet : readPacket(p)
    \/ readRunt
    \/ readFails("timeout") \/ readFails("other")

RelayNext ==
    \/ LocalStep \/ ReadStep \/ watch
    \/ \E t \in Timer : timerStep(t)
    \/ writeEnds \/ clientLeaves \/ cancelContext

RelaySpec == RelayInit /\ [][RelayNext]_vars

\* Goroutines that can run do run, net/http notices a client that left, and a
\* write to it fails then; one that is there may not read for ever.
RelayFairness ==
    /\ WF_vars(LocalStep)
    /\ WF_vars(watch)
    /\ WF_vars(cancelContext)
    /\ WF_vars(client = "gone" /\ writeEnds)
    /\ \A t \in Timer : WF_vars(timerStep(t))

\* Nothing arrives and no deadline expires: only what is prompt happens.
PromptRelaySpec == RelaySpec /\ RelayFairness

\* A read that neither a datagram nor an error ends is ended by its deadline.
ReadsEnd == WF_vars(readFails("timeout"))

\* The client reads what it is sent.
WritesEnd == WF_vars(writeEnds)

-----------------------------------------------------------------------------
\* A stream that ends because the sender fell silent ends complete: when
\* pumpUdp returns nil, everything that was read and not stale has been
\* handed to the handler, and no callback still on its way adds to it.
IdleEndIsComplete ==
    result = "nil" => Keys(pending) = {}

\* Cancellation is prompt: once Plex is gone the playback ends without waiting
\* for another datagram or for the read deadline, also when it left while a
\* write to it held the buffer's mutex and everything else waited for that.
PromptCancel == client = "gone" ~> pump = "done"

\* A handler error ends the playback, also when it was a timer callback that
\* met it while the loop was waiting for the next datagram; this one does have
\* to wait until that read ends, and the client must read.
HandlerErrorEndsRelay == ReadsEnd /\ WritesEnd => (handlerErrCh ~> pump = "done")

\* No chain of timers outlives the playback: callbacks that re-arm themselves
\* after the loop has returned run out of packets.
TimersWindDown == pump = "done" ~> \A t \in Timer : timers[t] = "idle"

\* What TestPumpUdpReturnsHandlerError expects: pumpUdp does not return nil
\* while an error of its handler is waiting in the channel.
HandlerErrorReturned == pump = "returned" /\ result = "nil" => ~handlerErrCh
=============================================================================
