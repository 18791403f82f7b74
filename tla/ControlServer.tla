--------------------------- MODULE ControlServer ---------------------------
(***************************************************************************)
(* The HDHomeRun control server (internal/discovery/control.go): an accept *)
(* loop, one goroutine per connection, the registry of tuners they share,  *)
(* and the stop function, which runs once on another goroutine.  The map   *)
(* of active connections and the registry each have a mutex.               *)
(*                                                                         *)
(* Frames are abstract: a get, set or reset of a settable tuner field, a   *)
(* key whose value is fixed (the system keys, status, streaminfo), a key   *)
(* that does not exist, or a frame that is not a valid request.            *)
(***************************************************************************)
EXTENDS Naturals, Sequences, FiniteSetsExt

CONSTANTS
    Conn,           \* TCP connections
    Key,            \* settable fields of the tuners, one per tuner and field
    Value,          \* values a field may be set to
    Default,        \* createInitialTunerState's value, also what "" sets
    NoConn,
    MaxFrames       \* bound: frames sent by all clients together

ASSUME ControlAssumption ==
    /\ Default \notin Value
    /\ NoConn \notin Conn
    /\ MaxFrames \in Nat

Request ==
         [op : {"get", "reset"}, key : Key, value : {Default}]
  \union [op : {"set"}, key : Key, value : Value]
  \union [op : {"fixed", "unknown"}, key : {"none"}, value : {Default}]
Junk == [op |-> "junk", key |-> "none", value |-> Default]
Frame == Request \union {Junk}

\* What becomes of a frame: a reply, or nothing for one that is not a request.
Reply == [key : Key \union {"none"}, error : BOOLEAN, value : Value \union {Default}]
Skipped == [skipped |-> TRUE]

VARIABLES
    listener,       \* open or closed
    backlog,        \* connections the kernel holds for Accept
    acceptor,       \* accept, register, spawn or done
    accepted,       \* the connection the accept loop has in hand
    active,         \* the map activeConnections
    sock,           \* our end of a connection: none, open or closed
    peer,           \* the client's end: open or closed
    handler,        \* none, read, handle, onClose, close or done
    wire,           \* frames sent and not yet read
    buffer,         \* frames read and not yet handled
    sent,           \* all frames a client sent
    replied,        \* what became of each frame handled: the replies written
    tuners,         \* the registry
    stopping,       \* idle, closing (listener closed) or stopped
    closeErr        \* stop met an error closing a connection

vars == <<listener, backlog, acceptor, accepted, active, sock, peer, handler, wire,
          buffer, sent, replied, tuners, stopping, closeErr>>

Init ==
    /\ listener = "open"
    /\ backlog = {}
    /\ acceptor = "accept"
    /\ accepted = NoConn
    /\ active = {}
    /\ sock = [c \in Conn |-> "none"]
    /\ peer = [c \in Conn |-> "open"]
    /\ handler = [c \in Conn |-> "none"]
    /\ wire = [c \in Conn |-> <<>>]
    /\ buffer = [c \in Conn |-> <<>>]
    /\ sent = [c \in Conn |-> <<>>]
    /\ replied = [c \in Conn |-> <<>>]
    /\ tuners = [k \in Key |-> Default]
    /\ stopping = "idle"
    /\ closeErr = FALSE

-----------------------------------------------------------------------------
(* The accept loop.                                                        *)

\* listener.Accept: a connection of the backlog, or the error that ends the loop.
accept ==
    /\ acceptor = "accept"
    /\ \/ /\ listener = "open"
          /\ \E c \in backlog :
                /\ accepted' = c
                /\ backlog' = backlog \ {c}
          /\ acceptor' = "register"
       \/ /\ listener = "closed"
          /\ acceptor' = "done"
          /\ UNCHANGED <<accepted, backlog>>
    /\ UNCHANGED <<listener, active, sock, peer, handler, wire, buffer, sent, replied,
                   tuners, stopping, closeErr>>

register ==
    /\ acceptor = "register"
    /\ active' = active \union {accepted}
    /\ acceptor' = "spawn"
    /\ UNCHANGED <<listener, backlog, accepted, sock, peer, handler, wire, buffer, sent,
                   replied, tuners, stopping, closeErr>>

spawn ==
    /\ acceptor = "spawn"
    /\ handler' = [handler EXCEPT ![accepted] = "read"]
    /\ accepted' = NoConn
    /\ acceptor' = "accept"
    /\ UNCHANGED <<listener, backlog, active, sock, peer, wire, buffer, sent, replied,
                   tuners, stopping, closeErr>>

-----------------------------------------------------------------------------
(* handleControlConnection.                                                *)

\* conn.Read: some of what the client sent, or an error.
readConn(c) ==
    /\ handler[c] = "read"
    /\ \/ /\ sock[c] = "open"
          /\ \E n \in 1 .. Len(wire[c]) :
                /\ buffer' = [buffer EXCEPT ![c] = @ \o SubSeq(wire[c], 1, n)]
                /\ wire' = [wire EXCEPT ![c] = SubSeq(@, n + 1, Len(@))]
          /\ handler' = [handler EXCEPT ![c] = "handle"]
       \/ /\ sock[c] = "closed" \/ (peer[c] = "closed" /\ wire[c] = <<>>)
          /\ handler' = [handler EXCEPT ![c] = "onClose"]
          /\ UNCHANGED <<buffer, wire>>
    /\ UNCHANGED <<listener, backlog, acceptor, accepted, active, sock, peer, sent,
                   replied, tuners, stopping, closeErr>>

\* handleControlRequest and handleTunerRequest, under the registry's mutex:
\* the registry afterwards and the reply.
handleControlRequest(r) ==
    LET after == IF r.op \in {"set", "reset"} THEN [tuners EXCEPT ![r.key] = r.value]
                 ELSE tuners
    IN  [ registry |-> after,
          reply    |-> [ key   |-> r.key,
                         error |-> r.op = "unknown",
                         value |-> IF r.op \in {"fixed", "unknown"} THEN Default
                                   ELSE after[r.key] ] ]

\* A plausible bug: one frame is handled per read, the rest waits.
handleFrameOnePerRead(c) ==
    /\ handler[c] = "handle"
    /\ LET r == Head(buffer[c])
       IN  /\ buffer' = [buffer EXCEPT ![c] = <<>>]
           /\ handler' = [handler EXCEPT ![c] = "read"]
           /\ \/ /\ r = Junk
                 /\ replied' = [replied EXCEPT ![c] = Append(@, Skipped)]
                 /\ UNCHANGED tuners
              \/ /\ r # Junk
                 /\ tuners' = handleControlRequest(r).registry
                 /\ replied' = [replied EXCEPT ![c] =
                                  Append(@, handleControlRequest(r).reply)]
    /\ UNCHANGED <<listener, backlog, acceptor, accepted, active, sock, peer, wire,
                   sent, stopping, closeErr>>

\* One turn of the inner loop: the first frame leaves the buffer; a request is
\* answered, anything else is skipped.  A write to a closed socket fails and
\* ends the handler; one to a client that is gone may still succeed.
handleFrame(c) ==
    /\ handler[c] = "handle"
    /\ \/ /\ buffer[c] = <<>>
          /\ handler' = [handler EXCEPT ![c] = "read"]
          /\ UNCHANGED <<buffer, tuners, replied>>
       \/ /\ buffer[c] # <<>>
          /\ Head(buffer[c]) = Junk
          /\ buffer' = [buffer EXCEPT ![c] = Tail(@)]
          /\ replied' = [replied EXCEPT ![c] = Append(@, Skipped)]
          /\ UNCHANGED <<handler, tuners>>
       \/ /\ buffer[c] # <<>>
          /\ Head(buffer[c]) # Junk
          /\ buffer' = [buffer EXCEPT ![c] = Tail(@)]
          /\ tuners' = handleControlRequest(Head(buffer[c])).registry
          /\ \/ /\ sock[c] = "open"
                /\ replied' = [replied EXCEPT ![c] =
                       Append(@, handleControlRequest(Head(buffer[c])).reply)]
                /\ UNCHANGED handler
             \/ /\ sock[c] = "closed" \/ peer[c] = "closed"
                /\ handler' = [handler EXCEPT ![c] = "onClose"]
                /\ UNCHANGED replied
    /\ UNCHANGED <<listener, backlog, acceptor, accepted, active, sock, peer, wire,
                   sent, stopping, closeErr>>

\* A plausible bug: the connection stays in the map.
onCloseKeepsEntry(c) ==
    /\ handler[c] = "onClose"
    /\ handler' = [handler EXCEPT ![c] = "close"]
    /\ UNCHANGED <<listener, backlog, acceptor, accepted, active, sock, peer, wire,
                   buffer, sent, replied, tuners, stopping, closeErr>>

\* A plausible bug: the two deferred calls in the other order.
onCloseSwapped(c) ==
    /\ handler[c] = "onClose"
    /\ sock' = [sock EXCEPT ![c] = "closed"]
    /\ handler' = [handler EXCEPT ![c] = "close"]
    /\ UNCHANGED <<listener, backlog, acceptor, accepted, active, peer, wire, buffer,
                   sent, replied, tuners, stopping, closeErr>>

\* The deferred onClose: the connection leaves the map.
onClose(c) ==
    /\ handler[c] = "onClose"
    /\ active' = active \ {c}
    /\ handler' = [handler EXCEPT ![c] = "close"]
    /\ UNCHANGED <<listener, backlog, acceptor, accepted, sock, peer, wire, buffer,
                   sent, replied, tuners, stopping, closeErr>>

\* The deferred conn.Close.
closeConn(c) ==
    /\ handler[c] = "close"
    /\ sock' = [sock EXCEPT ![c] = "closed"]
    /\ handler' = [handler EXCEPT ![c] = "done"]
    /\ UNCHANGED <<listener, backlog, acceptor, accepted, active, peer, wire, buffer,
                   sent, replied, tuners, stopping, closeErr>>

-----------------------------------------------------------------------------
(* stop, inside sync.Once.                                                 *)

\* The kernel resets what is still in the backlog.
stopListener ==
    /\ stopping = "idle"
    /\ stopping' = "closing"
    /\ listener' = "closed"
    /\ sock' = [c \in Conn |-> IF c \in backlog THEN "closed" ELSE sock[c]]
    /\ backlog' = {}
    /\ UNCHANGED <<acceptor, accepted, active, peer, handler, wire, buffer, sent,
                   replied, tuners, closeErr>>

\* A plausible bug: stop closes the listener and leaves the connections.
stopConnectionsNot ==
    /\ stopping = "closing"
    /\ stopping' = "stopped"
    /\ UNCHANGED <<listener, backlog, acceptor, accepted, active, sock, peer, handler,
                   wire, buffer, sent, replied, tuners, closeErr>>

\* The loop over the map, under its mutex; closing twice is an error.
stopConnections ==
    /\ stopping = "closing"
    /\ stopping' = "stopped"
    /\ sock' = [c \in Conn |-> IF c \in active THEN "closed" ELSE sock[c]]
    /\ closeErr' = \E c \in active : sock[c] = "closed"
    /\ UNCHANGED <<listener, backlog, acceptor, accepted, active, peer, handler, wire,
                   buffer, sent, replied, tuners>>

-----------------------------------------------------------------------------
(* Clients (external).                                                     *)

dial(c) ==
    /\ listener = "open"
    /\ sock[c] = "none"
    /\ sock' = [sock EXCEPT ![c] = "open"]
    /\ backlog' = backlog \union {c}
    /\ UNCHANGED <<listener, acceptor, accepted, active, peer, handler, wire, buffer,
                   sent, replied, tuners, stopping, closeErr>>

send(c, f) ==
    /\ sock[c] = "open" /\ peer[c] = "open"
    /\ MapThenSumSet(LAMBDA d : Len(sent[d]), Conn) < MaxFrames
    /\ sent' = [sent EXCEPT ![c] = Append(@, f)]
    /\ wire' = [wire EXCEPT ![c] = Append(@, f)]
    /\ UNCHANGED <<listener, backlog, acceptor, accepted, active, sock, peer, handler,
                   buffer, replied, tuners, stopping, closeErr>>

hangUp(c) ==
    /\ sock[c] = "open" /\ peer[c] = "open"
    /\ peer' = [peer EXCEPT ![c] = "closed"]
    /\ UNCHANGED <<listener, backlog, acceptor, accepted, active, sock, handler, wire,
                   buffer, sent, replied, tuners, stopping, closeErr>>

-----------------------------------------------------------------------------
HandlerStep(c) == readConn(c) \/ handleFrame(c) \/ onClose(c) \/ closeConn(c)
AcceptLoop == accept \/ register \/ spawn
Stop == stopListener \/ stopConnections

Next ==
    \/ AcceptLoop
    \/ Stop
    \/ \E c \in Conn :
          \/ HandlerStep(c)
          \/ dial(c) \/ hangUp(c) \/ \E f \in Frame : send(c, f)

Spec == Init /\ [][Next]_vars

\* Goroutines that can run do run, and a stop that began is finished.
FairSpec ==
    /\ Spec
    /\ WF_vars(AcceptLoop)
    /\ WF_vars(stopConnections)
    /\ \A c \in Conn : WF_vars(HandlerStep(c))

-----------------------------------------------------------------------------
\* Types; the accept loop has a connection in hand exactly from Accept to the
\* start of its handler.
TypeOK ==
    /\ listener \in {"open", "closed"}
    /\ acceptor \in {"accept", "register", "spawn", "done"}
    /\ accepted \in Conn \union {NoConn}
    /\ (acceptor \in {"register", "spawn"}) <=> (accepted # NoConn)
    /\ backlog \in SUBSET Conn /\ active \in SUBSET Conn
    /\ sock \in [Conn -> {"none", "open", "closed"}]
    /\ peer \in [Conn -> {"open", "closed"}]
    /\ handler \in [Conn -> {"none", "read", "handle", "onClose", "close", "done"}]
    /\ wire \in [Conn -> Seq(Frame)] /\ buffer \in [Conn -> Seq(Frame)]
    /\ sent \in [Conn -> Seq(Frame)] /\ replied \in [Conn -> Seq(Reply \union {Skipped})]
    /\ tuners \in [Key -> Value \union {Default}]
    /\ stopping \in {"idle", "closing", "stopped"}
    /\ closeErr \in BOOLEAN

\* The map holds exactly the connections whose handler has yet to run its
\* deferred onClose: no entry is left behind by a connection that ended at
\* once, and no live handler is missing from it.
ActiveTracksHandlers ==
    active = {c \in Conn : handler[c] \in {"read", "handle", "onClose"}}
               \union (IF acceptor = "spawn" THEN {accepted} ELSE {})

\* stop never closes a connection that its handler has closed already, so Stop
\* reports no error for a connection that ended by itself.
StopReportsNoError == ~closeErr

\* a is what a client gets for frame f.
Answers(a, f) ==
    IF f = Junk THEN a = Skipped
    ELSE /\ a # Skipped /\ a.key = f.key
         /\ a.error = (f.op = "unknown")
         /\ f.op \in {"set", "reset"} => a.value = f.value

\* Every request is answered, once and in the order sent, whatever frames that
\* are not requests come in between and however the reads split them.
RepliesInOrder ==
    \A c \in Conn :
        handler[c] \in {"read", "handle"} =>
            /\ Len(replied[c]) + Len(buffer[c]) + Len(wire[c]) = Len(sent[c])
            /\ \A i \in 1 .. Len(replied[c]) : Answers(replied[c][i], sent[c][i])

\* A connection that is in the map when the listener has been closed is closed
\* too and its handler ends, even while the client keeps its end open.
StopEndsHandlers ==
    \A c \in Conn : (stopping = "closing" /\ c \in active) ~> handler[c] = "done"

\* What TestControlServerStopClosesAcceptedConnections says of stop: accepted
\* connections are closed after it, so that no request is answered any more.
NoServiceAfterStop ==
    [][stopping = "stopped" =>
          \A c \in Conn : replied'[c] \in {replied[c], Append(replied[c], Skipped)}]_vars
=============================================================================
