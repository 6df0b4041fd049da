----------------------------- MODULE EventClient -----------------------------
(***************************************************************************)
(* EventClient (frontend/packages/stoat.js/src/events): the client's end   *)
(* of the event WebSocket.  JavaScript runs one callback at a time, so an  *)
(* action is one whole callback: a timer, a message, a socket event, or a  *)
(* call of connect() made inside one.                                      *)
(*                                                                         *)
(* The module has no Next of its own: who calls connect() and what hangs   *)
(* off the "state" and "event" listeners is in Lifecycle.                  *)
(***************************************************************************)
EXTENDS Naturals

CONSTANTS
    Sockets,    \* WebSocket objects; one is reused once it has closed
    None,       \* an undefined #socket
    EmitThrows, \* what emit("error") may do when nobody listens: the emitter
                \* library either throws (TRUE) or returns (FALSE)
    MaxPings    \* bound: pings sent on a socket and not answered yet

ASSUME EventClientAssumption ==
    /\ None \notin Sockets \cup {"connecting", "open", "closing"}
    /\ EmitThrows \subseteq BOOLEAN
    /\ MaxPings \in Nat

VARIABLES
    state,     \* the connection state announced to the listeners
    socket,    \* #socket
    lastError, \* the type of #lastError
    held,      \* timers pending and designated by their #...Reference
    lost,      \* kinds of timers pending that no #...Reference designates
    wire,      \* wire[s]: the readyState of s, None before and after its life
    told,      \* told[s]: how far the server has got with its greeting on s
    pings      \* pings[s]: Ping packets sent on s that have no Pong yet

eventVars == <<state, socket, lastError, held, lost, wire, told, pings>>

ConnectionState == {"Idle", "Connecting", "Connected", "Disconnected"}
LastError       == {"none", "socket", "revolt"}

\* #connectTimeoutReference, #heartbeatIntervalReference, #pongTimeoutReference
Timers == {"connect", "heartbeat", "pong"}

EventTypeOK ==
    /\ state \in ConnectionState
    /\ socket \in Sockets \cup {None}
    /\ lastError \in LastError
    /\ held \subseteq Timers
    /\ lost \subseteq Timers
    /\ wire \in [Sockets -> {None, "connecting", "open", "closing"}]
    /\ told \in [Sockets -> {"nothing", "error", "authenticated", "ready"}]
    /\ pings \in [Sockets -> 0..MaxPings]

\* A client that was just constructed.
EventInit ==
    /\ state = "Idle"
    /\ socket = None
    /\ lastError = "none"
    /\ held = {}
    /\ lost = {}
    /\ wire = [s \in Sockets |-> None]
    /\ told = [s \in Sockets |-> "nothing"]
    /\ pings = [s \in Sockets |-> 0]

\* The same, in place of the client there was.
NewClient ==
    /\ state' = "Idle"
    /\ socket' = None
    /\ lastError' = "none"
    /\ held' = {}
    /\ lost' = {}
    /\ wire' = [s \in Sockets |-> None]
    /\ told' = [s \in Sockets |-> "nothing"]
    /\ pings' = [s \in Sockets |-> 0]

-----------------------------------------------------------------------------
(* disconnect() and the timers                                             *)

\* `if (!this.#socket) return` comes first: without a socket no timer is
\* cleared.  The state is announced later, by the close event.
Disconnect ==
    /\ socket' = None
    /\ wire' = IF socket = None THEN wire ELSE [wire EXCEPT ![socket] = "closing"]

\* What disconnect() leaves of the timers in t that a reference designates.
Cleared(t) == IF socket = None THEN t ELSE {}

\* Setting a timer overwrites its reference.  If the timer it designated is
\* still pending, nothing can clear that one any more.
Start(k) ==
    /\ held' = held \cup {k}
    /\ lost' = lost \cup (held \cap {k})

\* A timer of kind k goes off and calls disconnect().  `lost` does not count,
\* so more of the kind may be left when one of the lost ones has gone off.
Expire(k) ==
    /\ \/ /\ k \in held
          /\ held' = Cleared(held \ {k})
          /\ UNCHANGED lost
       \/ /\ k \in lost
          /\ held' = Cleared(held)
          /\ lost' \in {lost, lost \ {k}}
    /\ Disconnect
    /\ UNCHANGED <<state, lastError, told, pings>>

ConnectTimeout == Expire("connect")
PongTimeout    == Expire("pong")

\* Mutant: no pong timer is set.
HeartbeatUnwatched ==
    /\ "heartbeat" \in held \cup lost
    /\ socket # None
    /\ wire[socket] = "open"
    /\ pings[socket] < MaxPings
    /\ pings' = [pings EXCEPT ![socket] = @ + 1]
    /\ UNCHANGED <<state, socket, lastError, held, lost, wire, told>>

\* send() throws without a socket or while it is connecting, and then no pong
\* timer is set.  With the options' defaults a pong timer (10 s) is over
\* before the interval that set it ticks again (30 s), so one can be pending
\* at a tick only if another interval was lost.
Heartbeat ==
    /\ "heartbeat" \in held \cup lost
    /\ socket # None
    /\ wire[socket] = "open"
    /\ pings[socket] < MaxPings
    /\ "heartbeat" \in lost \/ "pong" \notin held \cup lost
    /\ pings' = [pings EXCEPT ![socket] = @ + 1]
    /\ Start("pong")
    /\ UNCHANGED <<state, socket, lastError, wire, told>>

-----------------------------------------------------------------------------
(* connect(), which begins with a disconnect(), and the socket's life      *)

\* Mutant: the state is not set when a connection begins.
ConnectUnannounced(s) ==
    /\ wire[s] = None
    /\ socket' = s
    /\ lastError' = "none"
    /\ held' = Cleared(held) \cup {"connect"}
    /\ lost' = lost \cup (Cleared(held) \cap {"connect"})
    /\ wire' = [wire EXCEPT ![s] = "connecting"]
    /\ told' = [told EXCEPT ![s] = "nothing"]
    /\ pings' = [pings EXCEPT ![s] = 0]
    /\ UNCHANGED state

Connect(s) ==
    /\ wire[s] = None
    /\ socket' = s
    /\ state' = "Connecting"
    /\ lastError' = "none"
    /\ held' = Cleared(held) \cup {"connect"}
    /\ lost' = lost \cup (Cleared(held) \cap {"connect"})
    /\ wire' = [x \in Sockets |-> IF x = s THEN "connecting"
                                  ELSE IF x = socket THEN "closing"
                                  ELSE wire[x]]
    /\ told' = [told EXCEPT ![s] = "nothing"]
    /\ pings' = [pings EXCEPT ![s] = 0]

Opened(s) ==
    /\ wire[s] = "connecting"
    /\ wire' = [wire EXCEPT ![s] = "open"]
    /\ Start("heartbeat")
    /\ UNCHANGED <<state, socket, lastError, told, pings>>

\* The close event, preceded by an error event when the connection failed.
\* #socket is cleared whichever socket it designates.  The disconnect() at
\* the end then returns at once: no timer of this connection is cleared.
Closed(s, failed) ==
    /\ wire[s] # None
    /\ wire' = [wire EXCEPT ![s] = None]
    /\ socket' = None
    /\ state' = "Disconnected"
    /\ lastError' = IF failed THEN "socket" ELSE lastError
    /\ UNCHANGED <<held, lost, told, pings>>

-----------------------------------------------------------------------------
(* Messages.  The browser delivers none once close() was called.  Any      *)
(* message clears the connect timer.  Bonfire greets with an Error, or     *)
(* with Authenticated and Ready, and answers a Ping only after the Ready.  *)

Greeting(s, before, now) ==
    /\ wire[s] = "open"
    /\ told[s] = before
    /\ told' = [told EXCEPT ![s] = now]

Authenticated(s) ==
    /\ Greeting(s, "nothing", "authenticated")
    /\ held' = held \ {"connect"}
    /\ UNCHANGED <<state, socket, lastError, lost, wire, pings>>

\* In any other state than Connecting `handle` throws.
ReceiveReady(s) ==
    /\ Greeting(s, "authenticated", "ready")
    /\ held' = held \ {"connect"}
    /\ state' = IF state = "Connecting" THEN "Connected" ELSE state
    /\ UNCHANGED <<socket, lastError, lost, wire, pings>>

\* Client forwards "error" to listeners of its own and the application adds
\* none, so emit may throw, and then the disconnect() below it is skipped.
ReceiveError(s) ==
    /\ Greeting(s, "nothing", "error")
    /\ lastError' = "revolt"
    /\ \E throws \in EmitThrows :
           IF throws
           THEN /\ held' = held \ {"connect"}
                /\ UNCHANGED <<socket, wire>>
           ELSE /\ held' = Cleared(held \ {"connect"})
                /\ Disconnect
    /\ UNCHANGED <<state, lost, pings>>

\* A Pong clears the pong timer the reference designates, whichever ping set it.
ReceivePong(s) ==
    /\ wire[s] = "open"
    /\ told[s] = "ready"
    /\ pings[s] > 0
    /\ pings' = [pings EXCEPT ![s] = @ - 1]
    /\ held' = held \ {"connect", "pong"}
    /\ UNCHANGED <<state, socket, lastError, lost, wire, told>>
=============================================================================
