--------------------------- MODULE UdpRelayProofs ---------------------------
(***************************************************************************)
(* Proofs about UdpRelay.  A playback uses its reorder buffer only through *)
(* the buffer's own operations, so what is proved of ReorderBuffer holds   *)
(* of every playback; and an end by silence leaves the buffer empty.       *)
(***************************************************************************)
EXTENDS UdpRelay, ReorderBufferProofs

-----------------------------------------------------------------------------
(* Every step of a playback is a step of the buffer, or leaves it alone.   *)

LEMMA LocalBufferStep ==
    LocalStep => BufferNext \/ UNCHANGED bufferVars
<1> SUFFICES ASSUME LocalStep PROVE BufferNext \/ UNCHANGED bufferVars
    OBVIOUS
<1>1. CASE checkCtx \/ checkErr \/ checkErrAfterPush \/ checkErrAfterReadErr
    BY <1>1 DEF checkCtx, checkErr, checkErrAfterPush, checkErrAfterReadErr, TakeHandlerErr
<1>2. CASE readFails("closed") \/ classifyReadErr \/ finishPlayback
    BY <1>2 DEF readFails, classifyReadErr, finishPlayback
<1>3. CASE closeBuffer
    BY <1>3 DEF closeBuffer, BufferNext
<1>4. CASE deferredStop
    BY <1>4 DEF deferredStop, BufferNext
<1> QED BY <1>1, <1>2, <1>3, <1>4 DEF LocalStep

LEMMA PlaybackBufferStep ==
    [RelayNext]_vars => [BufferNext]_bufferVars
<1> SUFFICES ASSUME [RelayNext]_vars PROVE BufferNext \/ UNCHANGED bufferVars
    OBVIOUS
<1>1. CASE LocalStep
    BY <1>1, LocalBufferStep
<1>2. CASE ReadStep
    BY <1>2 DEF ReadStep, readPacket, readRunt, readFails, BufferNext
<1>3. ASSUME NEW t \in Timer, timerStep(t) PROVE BufferNext
    BY <1>3 DEF timerStep, BufferNext
<1>4. CASE watch \/ writeEnds \/ clientLeaves \/ cancelContext
    BY <1>4 DEF watch, writeEnds, clientLeaves, cancelContext
<1>5. CASE UNCHANGED vars
    BY <1>5 DEF vars
<1> QED BY <1>1, <1>2, <1>3, <1>4, <1>5 DEF RelayNext

\* A playback implements the buffer's specification: pumpUdp, its deferred calls
\* and the callbacks go through push, stop, close and the timers only, so what a
\* playback emits is in order and its buffer bounded (InOrder, BufferContents).
THEOREM PlaybackUsesBuffer == RelaySpec => BufferSpec
<1>1. RelayInit => BufferInit
    BY DEF RelayInit
<1> QED BY <1>1, PlaybackBufferStep, PTL DEF RelaySpec, BufferSpec

\* Hence every playback hands packets on in stream order, and no callback still
\* on its way adds to a stream whose buffer has been closed.
THEOREM PlaybackInOrder == RelaySpec => EmitsForward /\ NothingAfterClose
BY PlaybackUsesBuffer, InOrder, CloseIsFinal

-----------------------------------------------------------------------------
(* The end by silence.                                                     *)

\* pumpUdp returns nil only when close has flushed the buffer, and nothing but
\* the deferred stop touches the buffer's state after that.
NilInv == result = "nil" => owner \in {"flushed", "closed"}

IInv == LifeInv /\ NilInv

LEMMA NilStep == NilInv /\ [RelayNext]_vars => NilInv'
<1> SUFFICES ASSUME NilInv, [RelayNext]_vars PROVE NilInv'
    OBVIOUS
<1> USE DEF NilInv, Return, Goto, bufferVars
<1>1. CASE checkCtx \/ checkErr \/ checkErrAfterPush \/ checkErrAfterReadErr
    BY <1>1 DEF checkCtx, checkErr, checkErrAfterPush, checkErrAfterReadErr, TakeHandlerErr
<1>2. CASE readFails("closed") \/ readFails("timeout") \/ readFails("other")
           \/ classifyReadErr \/ readRunt
    BY <1>2 DEF readFails, classifyReadErr, readRunt
<1>3. CASE closeBuffer
    BY <1>3 DEF closeBuffer, closeStop, flushRemaining
<1>4. CASE deferredStop
    BY <1>4 DEF deferredStop, stop
<1>5. ASSUME NEW p \in Packet, readPacket(p) PROVE NilInv'
    BY <1>5 DEF readPacket, push, pushStale, pushFresh
<1>6. ASSUME NEW t \in Timer, timerStep(t) PROVE NilInv'
    BY <1>6 DEF timerStep, timerFires, flushCallback
<1>7. CASE watch \/ writeEnds \/ clientLeaves \/ cancelContext \/ finishPlayback
    BY <1>7 DEF watch, writeEnds, clientLeaves, cancelContext, finishPlayback
<1>8. CASE UNCHANGED vars
    BY <1>8 DEF vars, relayVars
<1> QED BY <1>1, <1>2, <1>3, <1>4, <1>5, <1>6, <1>7, <1>8
        DEF RelayNext, LocalStep, ReadStep

\* A playback that ends because the sender fell silent ends complete: when
\* pumpUdp has returned nil, nothing it read waits in the buffer any more.
THEOREM SilenceEndsComplete == RelaySpec => []IdleEndIsComplete
<1>1. RelayInit => IInv
    BY LifeInit DEF RelayInit, IInv, NilInv
<1>2. IInv /\ [RelayNext]_vars => IInv'
    BY LifeStep, PlaybackBufferStep, NilStep DEF IInv
<1>3. IInv => IdleEndIsComplete
    BY DEF IInv, NilInv, LifeInv, DrainedAfterClose, IdleEndIsComplete
<1> QED BY <1>1, <1>2, <1>3, PTL DEF RelaySpec
=============================================================================
