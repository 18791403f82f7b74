------------------------- MODULE ControlServerProofs -------------------------
(***************************************************************************)
(* Proofs about ControlServer, for every set of connections, keys and      *)
(* values.  The inductive invariant follows one connection through the     *)
(* hands it passes: the backlog, the accept loop, the map of active        *)
(* connections and its handler.                                            *)
(***************************************************************************)
EXTENDS ControlServer, TLAPS, SequenceTheorems

-----------------------------------------------------------------------------
(* The inductive invariant, part by part.                                  *)

\* A connection that is not yet served is in the hands of the kernel or of the
\* accept loop; neither keeps one that was never opened or has a handler.
NotYetServed ==
    /\ \A c \in backlog : sock[c] = "open" /\ handler[c] = "none" /\ c # accepted
    /\ accepted # NoConn =>
          /\ handler[accepted] = "none" /\ sock[accepted] # "none"
          /\ stopping # "stopped" => sock[accepted] = "open"
    /\ \A c \in Conn : sock[c] = "none" => handler[c] = "none"

\* Until stop has gone through the map, nothing has closed a connection in it:
\* handlers close theirs only after they have taken it out.
ActiveAreOpen ==
    stopping # "stopped" => /\ ~closeErr
                            /\ \A c \in active : sock[c] = "open"

\* Of the frames a client sent, the first have had their answers, the next wait
\* in the handler's buffer and the last are on the wire: none is lost, doubled or
\* overtaken.
InStep(frames, answers, buf, line) ==
    LET h == Len(answers)
        b == Len(buf)
    IN  /\ h + b + Len(line) = Len(frames)
        /\ \A i \in 1 .. h : Answers(answers[i], frames[i])
        /\ \A i \in 1 .. b : buf[i] = frames[h + i]
        /\ \A i \in 1 .. Len(line) : line[i] = frames[h + b + i]

FramesInStep ==
    \A c \in Conn : handler[c] \in {"none", "read", "handle"} =>
                       InStep(sent[c], replied[c], buffer[c], wire[c])

HandsInv == NotYetServed /\ ActiveTracksHandlers /\ ActiveAreOpen /\ StopReportsNoError
IInv == TypeOK /\ HandsInv /\ FramesInStep

-----------------------------------------------------------------------------
(* Types.                                                                  *)

\* handleControlRequest keeps the registry well typed and replies to what was
\* asked: the key of the request, and after a set or reset the value set.
LEMMA RequestAnswered ==
    ASSUME TypeOK, NEW r \in Request
    PROVE  /\ handleControlRequest(r).registry \in [Key -> Value \union {Default}]
           /\ handleControlRequest(r).reply \in Reply
           /\ r # Junk => Answers(handleControlRequest(r).reply, r)
<1> DEFINE after == IF r.op \in {"set", "reset"} THEN [tuners EXCEPT ![r.key] = r.value]
                    ELSE tuners
           value == IF r.op \in {"fixed", "unknown"} THEN Default ELSE after[r.key]
           reply == [key |-> r.key, error |-> r.op = "unknown", value |-> value]
<1>1. /\ r.op \in {"get", "reset", "set"} => r.key \in Key
      /\ r.op \in {"fixed", "unknown"} => r.key = "none"
      /\ r.op \in {"get", "reset", "set", "fixed", "unknown"}
      /\ r.value \in Value \union {Default}
    BY DEF Request
<1>2. tuners \in [Key -> Value \union {Default}]
    BY DEF TypeOK
<1>3. after \in [Key -> Value \union {Default}]
    BY <1>1, <1>2
<1>4. value \in Value \union {Default}
    BY <1>1, <1>3
<1>5. r.op \in {"set", "reset"} => value = r.value
    BY <1>1, <1>2
<1>6. handleControlRequest(r) = [registry |-> after, reply |-> reply]
    BY DEF handleControlRequest
<1>7. reply \in Reply
    <2>1. r.key \in Key \union {"none"}
        BY <1>1
    <2> HIDE DEF value
    <2> QED BY <1>4, <2>1 DEF Reply
<1>8. reply # Skipped
    BY DEF Skipped
<1> HIDE DEF after, value
<1> QED BY <1>3, <1>5, <1>6, <1>7, <1>8 DEF Answers

LEMMA TypeStep == TypeOK /\ [Next]_vars => TypeOK'
<1> SUFFICES ASSUME TypeOK, [Next]_vars PROVE TypeOK'
    OBVIOUS
<1> USE DEF TypeOK
<1>1. CASE accept
    BY <1>1, ControlAssumption DEF accept
<1>2. CASE register
    BY <1>2 DEF register
<1>3. CASE spawn
    BY <1>3 DEF spawn
<1>4. CASE stopListener
    BY <1>4 DEF stopListener
<1>5. CASE stopConnections
    BY <1>5 DEF stopConnections
<1>6. ASSUME NEW c \in Conn, readConn(c) PROVE TypeOK'
    <2>1. CASE UNCHANGED <<buffer, wire>>
        BY <1>6, <2>1 DEF readConn
    <2>2. ASSUME NEW n \in 1 .. Len(wire[c]),
                 buffer' = [buffer EXCEPT ![c] = @ \o SubSeq(wire[c], 1, n)],
                 wire' = [wire EXCEPT ![c] = SubSeq(@, n + 1, Len(@))]
          PROVE  TypeOK'
        <3>1. wire[c] \in Seq(Frame) /\ buffer[c] \in Seq(Frame)
            OBVIOUS
        <3>2. buffer[c] \o SubSeq(wire[c], 1, n) \in Seq(Frame)
              /\ SubSeq(wire[c], n + 1, Len(wire[c])) \in Seq(Frame)
            BY <3>1
        <3> QED BY <1>6, <2>2, <3>2 DEF readConn
    <2> QED BY <1>6, <2>1, <2>2 DEF readConn
<1>7. ASSUME NEW c \in Conn, handleFrame(c) PROVE TypeOK'
    <2>1. CASE buffer[c] = <<>>
        BY <1>7, <2>1 DEF handleFrame
    <2>2. CASE buffer[c] # <<>>
        <3> DEFINE f == Head(buffer[c])
        <3>0. UNCHANGED <<listener, backlog, acceptor, accepted, active, sock, peer, wire,
                          sent, stopping, closeErr>>
              /\ buffer' = [buffer EXCEPT ![c] = Tail(@)]
            BY <1>7, <2>2 DEF handleFrame
        <3>1. f \in Frame /\ Tail(buffer[c]) \in Seq(Frame)
            BY <2>2
        <3>2. CASE f = Junk
            <4>1. Append(replied[c], Skipped) \in Seq(Reply \union {Skipped})
                OBVIOUS
            <4>2. /\ replied' = [replied EXCEPT ![c] = Append(@, Skipped)]
                  /\ UNCHANGED <<handler, tuners>>
                BY <1>7, <2>2, <3>2 DEF handleFrame
            <4> QED BY <3>0, <3>1, <4>1, <4>2
        <3>3. CASE f # Junk
            <4>1. /\ handleControlRequest(f).registry \in [Key -> Value \union {Default}]
                  /\ handleControlRequest(f).reply \in Reply
                BY <3>1, <3>3, RequestAnswered DEF Frame
            <4>2. Append(replied[c], handleControlRequest(f).reply)
                     \in Seq(Reply \union {Skipped})
                BY <4>1
            <4>3. tuners' = handleControlRequest(f).registry
                BY <1>7, <2>2, <3>3 DEF handleFrame
            <4>4. \/ /\ replied' = [replied EXCEPT ![c] =
                                       Append(@, handleControlRequest(f).reply)]
                     /\ UNCHANGED handler
                  \/ UNCHANGED replied /\ handler' = [handler EXCEPT ![c] = "onClose"]
                BY <1>7, <2>2, <3>3 DEF handleFrame
            <4>5. handler' \in [Conn -> {"none", "read", "handle", "onClose", "close", "done"}]
                  /\ replied' \in [Conn -> Seq(Reply \union {Skipped})]
                BY <4>2, <4>4
            <4> QED BY <3>0, <3>1, <4>1, <4>3, <4>5
        <3> QED BY <3>2, <3>3
    <2> QED BY <2>1, <2>2
<1>8. ASSUME NEW c \in Conn, onClose(c) PROVE TypeOK'
    BY <1>8 DEF onClose
<1>9. ASSUME NEW c \in Conn, closeConn(c) PROVE TypeOK'
    BY <1>9 DEF closeConn
<1>10. ASSUME NEW c \in Conn, dial(c) PROVE TypeOK'
    BY <1>10 DEF dial
<1>11. ASSUME NEW c \in Conn, hangUp(c) PROVE TypeOK'
    BY <1>11 DEF hangUp
<1>12. ASSUME NEW c \in Conn, NEW f \in Frame, send(c, f) PROVE TypeOK'
    <2>1. Append(wire[c], f) \in Seq(Frame) /\ Append(sent[c], f) \in Seq(Frame)
        OBVIOUS
    <2> QED BY <1>12, <2>1 DEF send
<1>13. CASE UNCHANGED vars
    BY <1>13 DEF vars
<1> QED
    BY <1>1, <1>2, <1>3, <1>4, <1>5, <1>6, <1>7, <1>8, <1>9, <1>10, <1>11, <1>12,
       <1>13 DEF Next, AcceptLoop, Stop, HandlerStep

-----------------------------------------------------------------------------
(* A connection changes hands as the invariant says.                       *)

LEMMA HandsStep == TypeOK /\ HandsInv /\ [Next]_vars => HandsInv'
<1> SUFFICES ASSUME TypeOK, HandsInv, [Next]_vars PROVE HandsInv'
    OBVIOUS
<1>0. TypeOK'
    BY TypeStep
<1> USE <1>0, ControlAssumption
    DEF HandsInv, NotYetServed, ActiveTracksHandlers, ActiveAreOpen, StopReportsNoError
<1>1. CASE accept
    BY <1>1 DEF accept, TypeOK
<1>2. CASE register
    BY <1>2 DEF register, TypeOK
<1>3. CASE spawn
    BY <1>3 DEF spawn, TypeOK
<1>4. CASE stopListener
    BY <1>4 DEF stopListener, TypeOK
<1>5. CASE stopConnections
    BY <1>5 DEF stopConnections, TypeOK
<1>6. ASSUME NEW c \in Conn, readConn(c) PROVE HandsInv'
    <2>1. /\ handler[c] = "read"
          /\ \E h \in {"handle", "onClose"} : handler' = [handler EXCEPT ![c] = h]
          /\ UNCHANGED <<backlog, acceptor, accepted, active, sock, stopping, closeErr>>
        BY <1>6 DEF readConn
    <2> QED BY <2>1 DEF TypeOK
<1>7. ASSUME NEW c \in Conn, handleFrame(c) PROVE HandsInv'
    BY <1>7 DEF handleFrame, TypeOK
<1>8. ASSUME NEW c \in Conn, onClose(c) PROVE HandsInv'
    BY <1>8 DEF onClose, TypeOK
<1>9. ASSUME NEW c \in Conn, closeConn(c) PROVE HandsInv'
    BY <1>9 DEF closeConn, TypeOK
<1>10. ASSUME NEW c \in Conn, dial(c) PROVE HandsInv'
    BY <1>10 DEF dial, TypeOK
<1>11. ASSUME NEW c \in Conn, hangUp(c) PROVE HandsInv'
    BY <1>11 DEF hangUp, TypeOK
<1>12. ASSUME NEW c \in Conn, NEW f \in Frame, send(c, f) PROVE HandsInv'
    BY <1>12 DEF send, TypeOK
<1>13. CASE UNCHANGED vars
    BY <1>13 DEF vars
<1> QED
    BY <1>1, <1>2, <1>3, <1>4, <1>5, <1>6, <1>7, <1>8, <1>9, <1>10, <1>11, <1>12,
       <1>13 DEF Next, AcceptLoop, Stop, HandlerStep

-----------------------------------------------------------------------------
(* What reading, handling and sending do to the frames of one connection.  *)

LEMMA SentInStep ==
    ASSUME NEW frames \in Seq(Frame), NEW answers \in Seq(Reply \union {Skipped}),
           NEW buf \in Seq(Frame), NEW line \in Seq(Frame), NEW f \in Frame,
           InStep(frames, answers, buf, line)
    PROVE  InStep(Append(frames, f), answers, buf, Append(line, f))
<1> DEFINE h == Len(answers)
           b == Len(buf)
           w == Len(line)
           n == Len(frames)
<1>1. h \in Nat /\ b \in Nat /\ w \in Nat /\ n \in Nat /\ h + b + w = n
    BY DEF InStep
<1>2. Len(Append(line, f)) = w + 1 /\ Len(Append(frames, f)) = n + 1
    OBVIOUS
<1>3. \A i \in 1 .. w + 1 : Append(line, f)[i] = IF i = w + 1 THEN f ELSE line[i]
    OBVIOUS
<1>4. \A i \in 1 .. n + 1 : Append(frames, f)[i] = IF i = n + 1 THEN f ELSE frames[i]
    OBVIOUS
<1>5. /\ \A i \in 1 .. h : Answers(answers[i], Append(frames, f)[i])
      /\ \A i \in 1 .. b : buf[i] = Append(frames, f)[h + i]
    BY <1>1, <1>4 DEF InStep
<1>6. \A i \in 1 .. w + 1 : Append(line, f)[i] = Append(frames, f)[h + b + i]
    <2> SUFFICES ASSUME NEW i \in 1 .. w + 1
                 PROVE  Append(line, f)[i] = Append(frames, f)[h + b + i]
        OBVIOUS
    <2>1. CASE i = w + 1
        BY <1>1, <1>3, <1>4, <2>1
    <2>2. CASE i # w + 1
        <3>1. i \in 1 .. w /\ h + b + i \in 1 .. n
            <4> HIDE DEF h, b, w, n
            <4> QED BY <1>1, <2>2
        <3>2. line[i] = frames[h + b + i]
            BY <3>1 DEF InStep
        <3> QED BY <1>1, <1>3, <1>4, <2>2, <3>1, <3>2
    <2> QED BY <2>1, <2>2
<1> QED BY <1>1, <1>2, <1>5, <1>6 DEF InStep

LEMMA ReadInStep ==
    ASSUME NEW frames \in Seq(Frame), NEW answers \in Seq(Reply \union {Skipped}),
           NEW buf \in Seq(Frame), NEW line \in Seq(Frame), NEW n \in 1 .. Len(line),
           InStep(frames, answers, buf, line)
    PROVE  InStep(frames, answers, buf \o SubSeq(line, 1, n),
                  SubSeq(line, n + 1, Len(line)))
<1> DEFINE h == Len(answers)
           b == Len(buf)
           w == Len(line)
           got == SubSeq(line, 1, n)
           left == SubSeq(line, n + 1, w)
<1>1. h \in Nat /\ b \in Nat /\ w \in Nat /\ n \in 1 .. w
    OBVIOUS
<1>2. /\ got \in Seq(Frame) /\ Len(got) = n
      /\ \A i \in 1 .. n : got[i] = line[i]
    BY <1>1
<1>3. /\ left \in Seq(Frame) /\ Len(left) = w - n
      /\ \A i \in 1 .. w - n : left[i] = line[n + i]
    BY <1>1
<1>4. /\ Len(buf \o got) = b + n
      /\ \A i \in 1 .. b + n : (buf \o got)[i] = IF i <= b THEN buf[i] ELSE line[i - b]
    BY <1>1, <1>2
<1>5. h + b + w = Len(frames)
    BY DEF InStep
<1>6. \A i \in 1 .. b + n : (buf \o got)[i] = frames[h + i]
    <2> SUFFICES ASSUME NEW i \in 1 .. b + n
                 PROVE  (buf \o got)[i] = frames[h + i]
        OBVIOUS
    <2>1. CASE i <= b
        <3>1. i \in 1 .. b
            BY <1>1, <2>1
        <3>2. buf[i] = frames[h + i]
            BY <3>1 DEF InStep
        <3> QED BY <1>4, <2>1, <3>2
    <2>2. CASE i > b
        <3>1. i - b \in 1 .. w /\ h + b + (i - b) = h + i
            BY <1>1, <2>2
        <3>2. line[i - b] = frames[h + b + (i - b)]
            BY <3>1 DEF InStep
        <3> QED BY <1>1, <1>4, <2>2, <3>1, <3>2
    <2> QED BY <1>1, <2>1, <2>2
<1>7. \A i \in 1 .. w - n : left[i] = frames[h + (b + n) + i]
    <2> SUFFICES ASSUME NEW i \in 1 .. w - n
                 PROVE  left[i] = frames[h + (b + n) + i]
        OBVIOUS
    <2>1. n + i \in 1 .. w /\ h + b + (n + i) = h + (b + n) + i
        BY <1>1
    <2>2. line[n + i] = frames[h + b + (n + i)]
        BY <2>1 DEF InStep
    <2> QED BY <1>3, <2>1, <2>2
<1>8. \A i \in 1 .. h : Answers(answers[i], frames[i])
    BY DEF InStep
<1>9. h + (b + n) + (w - n) = Len(frames)
    BY <1>1, <1>5
<1> HIDE DEF got, left
<1>10. InStep(frames, answers, buf \o got, left)
    BY <1>3, <1>4, <1>6, <1>7, <1>8, <1>9 DEF InStep
<1> QED BY <1>10 DEF got, left

LEMMA HandledInStep ==
    ASSUME NEW frames \in Seq(Frame), NEW answers \in Seq(Reply \union {Skipped}),
           NEW buf \in Seq(Frame), NEW line \in Seq(Frame),
           NEW a \in Reply \union {Skipped},
           InStep(frames, answers, buf, line), buf # <<>>, Answers(a, Head(buf))
    PROVE  InStep(frames, Append(answers, a), Tail(buf), line)
<1>1. Len(buf) >= 1 /\ Head(buf) = frames[Len(answers) + 1]
    BY DEF InStep
<1> QED BY <1>1 DEF InStep

\* FramesInStep is kept: the actions that touch no frame and start no handler
\* keep it as it is, the others by the lemmas above.
LEMMA FramesStep == TypeOK /\ HandsInv /\ FramesInStep /\ [Next]_vars => FramesInStep'
<1> SUFFICES ASSUME TypeOK, HandsInv, FramesInStep, [Next]_vars PROVE FramesInStep'
    OBVIOUS
<1> USE DEF FramesInStep
<1>1. CASE accept \/ register \/ Stop \/ UNCHANGED vars
    BY <1>1 DEF accept, register, Stop, stopListener, stopConnections, vars
<1>2. CASE spawn
    <2>1. accepted \in Conn /\ handler[accepted] = "none"
        BY <1>2 DEF spawn, TypeOK, HandsInv, NotYetServed
    <2> QED BY <1>2, <2>1 DEF spawn, TypeOK
<1>3. ASSUME NEW c \in Conn, onClose(c) \/ closeConn(c) \/ dial(c) \/ hangUp(c)
      PROVE  FramesInStep'
    BY <1>3 DEF onClose, closeConn, dial, hangUp, TypeOK
<1>4. ASSUME NEW c \in Conn, readConn(c) PROVE FramesInStep'
    <2>1. InStep(sent[c], replied[c], buffer[c], wire[c])
        BY <1>4 DEF readConn
    <2>2. CASE handler' = [handler EXCEPT ![c] = "onClose"] /\ UNCHANGED <<buffer, wire>>
        BY <1>4, <2>2 DEF readConn, TypeOK
    <2>3. ASSUME NEW n \in 1 .. Len(wire[c]),
                 buffer' = [buffer EXCEPT ![c] = @ \o SubSeq(wire[c], 1, n)],
                 wire' = [wire EXCEPT ![c] = SubSeq(@, n + 1, Len(@))]
          PROVE  FramesInStep'
        <3>1. InStep(sent[c], replied[c], buffer[c] \o SubSeq(wire[c], 1, n),
                     SubSeq(wire[c], n + 1, Len(wire[c])))
            BY <2>1, ReadInStep DEF TypeOK
        <3>2. /\ \E h \in {"handle", "onClose"} : handler' = [handler EXCEPT ![c] = h]
              /\ UNCHANGED <<sent, replied>>
            BY <1>4 DEF readConn
        <3> QED BY <2>3, <3>1, <3>2 DEF TypeOK
    <2> QED BY <1>4, <2>2, <2>3 DEF readConn
<1>5. ASSUME NEW c \in Conn, handleFrame(c) PROVE FramesInStep'
    <2> DEFINE f == Head(buffer[c])
    <2>1. InStep(sent[c], replied[c], buffer[c], wire[c])
        BY <1>5 DEF handleFrame
    <2>2. UNCHANGED <<sent, wire>>
        BY <1>5 DEF handleFrame
    <2>3. CASE buffer[c] = <<>>
        BY <1>5, <2>3 DEF handleFrame, TypeOK
    <2>4. CASE handler' = [handler EXCEPT ![c] = "onClose"]
               /\ buffer' = [buffer EXCEPT ![c] = Tail(@)] /\ UNCHANGED replied
        BY <2>2, <2>4 DEF TypeOK
    <2>5. ASSUME NEW a \in Reply \union {Skipped}, Answers(a, f), buffer[c] # <<>>,
                 UNCHANGED handler,
                 buffer' = [buffer EXCEPT ![c] = Tail(@)],
                 replied' = [replied EXCEPT ![c] = Append(@, a)]
          PROVE  FramesInStep'
        <3>1. InStep(sent[c], Append(replied[c], a), Tail(buffer[c]), wire[c])
            BY <2>1, <2>5, HandledInStep DEF TypeOK
        <3> QED BY <2>2, <2>5, <3>1 DEF TypeOK
    <2>6. CASE buffer[c] # <<>> /\ f = Junk
        <3>1. Answers(Skipped, f)
            BY <2>6 DEF Answers
        <3> QED BY <1>5, <2>5, <2>6, <3>1 DEF handleFrame
    <2>7. CASE buffer[c] # <<>> /\ f # Junk
        <3>1. f \in Request
            BY <2>7 DEF TypeOK, Frame
        <3>2. handleControlRequest(f).reply \in Reply
              /\ Answers(handleControlRequest(f).reply, f)
            BY <2>7, <3>1, RequestAnswered
        <3> QED BY <1>5, <2>4, <2>5, <2>7, <3>2 DEF handleFrame
    <2> QED BY <2>3, <2>6, <2>7
<1>6. ASSUME NEW c \in Conn, NEW f \in Frame, send(c, f) PROVE FramesInStep'
    <2>1. InStep(sent[c], replied[c], buffer[c], wire[c]) =>
             InStep(Append(sent[c], f), replied[c], buffer[c], Append(wire[c], f))
        BY SentInStep DEF TypeOK
    <2>2. /\ sent' = [sent EXCEPT ![c] = Append(@, f)]
          /\ wire' = [wire EXCEPT ![c] = Append(@, f)]
          /\ UNCHANGED <<handler, replied, buffer>>
        BY <1>6 DEF send
    <2> QED BY <2>1, <2>2 DEF TypeOK
<1> QED
    BY <1>1, <1>2, <1>3, <1>4, <1>5, <1>6 DEF Next, AcceptLoop, HandlerStep

-----------------------------------------------------------------------------
(* The theorems.                                                           *)

LEMMA IInvInit == Init => IInv
<1> SUFFICES ASSUME Init PROVE IInv
    OBVIOUS
<1>1. TypeOK
    <2>1. <<>> \in Seq(Frame) /\ <<>> \in Seq(Reply \union {Skipped})
        OBVIOUS
    <2> QED BY <2>1 DEF Init, TypeOK
<1>2. NotYetServed /\ ActiveAreOpen /\ StopReportsNoError
    BY DEF Init, NotYetServed, ActiveAreOpen, StopReportsNoError
<1>3. ActiveTracksHandlers
    BY DEF Init, ActiveTracksHandlers
<1>4. FramesInStep
    BY DEF Init, FramesInStep, InStep
<1> QED BY <1>1, <1>2, <1>3, <1>4 DEF IInv, HandsInv

LEMMA IInvAlways == Spec => []IInv
<1>1. IInv /\ [Next]_vars => IInv'
    BY TypeStep, HandsStep, FramesStep DEF IInv
<1> QED BY IInvInit, <1>1, PTL DEF Spec

\* Every state is well typed: in particular every request in the buffers and on
\* the wire is one of the enumerated kinds, and the registry keeps its keys.
THEOREM TypesHold == Spec => []TypeOK
<1>1. IInv => TypeOK
    BY DEF IInv
<1> QED BY <1>1, IInvAlways, PTL

\* The map activeConnections holds exactly the connections whose handler has yet
\* to run onClose, however Accept, handlers and stop interleave.
THEOREM MapTracksHandlers == Spec => []ActiveTracksHandlers
<1>1. IInv => ActiveTracksHandlers
    BY DEF IInv, HandsInv
<1> QED BY <1>1, IInvAlways, PTL

\* stop meets no connection in the map that has been closed before: a handler
\* leaves the map before it closes its connection.
THEOREM StopClosesOpenOnes == Spec => []StopReportsNoError
<1>1. IInv => StopReportsNoError
    BY DEF IInv, HandsInv
<1> QED BY <1>1, IInvAlways, PTL

\* A handler answers every request of its connection once and in the order they
\* were sent, for every mix of frames and every way the reads split them.
THEOREM AnswersInOrder == Spec => []RepliesInOrder
<1>1. IInv => RepliesInOrder
    BY DEF IInv, FramesInStep, InStep, RepliesInOrder
<1> QED BY <1>1, IInvAlways, PTL
=============================================================================
