------------------------------ MODULE Lifecycle ------------------------------
(***************************************************************************)
(* Lifecycle (frontend/packages/client/components/client/Controller.ts):   *)
(* the state machine that logs the user in and keeps the event connection  *)
(* up, over the EventClient it drives.  The two are one program: a close   *)
(* event moves the lifecycle inside the same callback, and a transition    *)
(* calls connect() inside its own.                                         *)
(***************************************************************************)
EXTENDS EventClient

CONSTANT
    MaxSyncs    \* bound: GET /sync/unreads requests in flight at once

ASSUME LifecycleAssumption == MaxSyncs \in Nat

VARIABLES
    life,    \* the lifecycle state
    retry,   \* a retry timer is pending
    hello,   \* GET /onboard/hello is in flight
    syncs,   \* GET /sync/unreads requests in flight: Ready events being handled
    online   \* navigator.onLine

lifeVars == <<life, retry, hello, syncs, online>>
vars     == <<eventVars, lifeVars>>

\* Dispose is entered and left inside one call.
State == {"Ready", "Logging In", "Onboarding", "Error", "Dispose", "Connecting",
          "Connected", "Disconnected", "Reconnecting", "Offline"}

TypeOK ==
    /\ EventTypeOK
    /\ life \in State \ {"Dispose"}
    /\ retry \in BOOLEAN
    /\ hello \in BOOLEAN
    /\ syncs \in 0..MaxSyncs
    /\ online \in BOOLEAN

Init ==
    /\ EventInit
    /\ life = "Ready"
    /\ retry = FALSE
    /\ hello = FALSE
    /\ syncs = 0
    /\ online \in BOOLEAN

-----------------------------------------------------------------------------
(* transition() and #enter()                                               *)

LoggedIn == {"Connecting", "Connected", "Disconnected", "Reconnecting", "Offline"}

\* <<state, transition, state it enters>>.  What is missing is reported as
\* "An unhandled transition occurred!" and changes nothing.
Table ==
    {<<"Ready",        "LoginUncached",    "Logging In">>,
     <<"Ready",        "LoginCached",      "Connecting">>,
     <<"Logging In",   "SocketConnected",  "Connected">>,
     <<"Logging In",   "NoUser",           "Onboarding">>,
     <<"Logging In",   "PermanentFailure", "Error">>,
     <<"Logging In",   "TemporaryFailure", "Error">>,
     <<"Onboarding",   "UserCreated",      "Connecting">>,
     <<"Onboarding",   "Cancel",           "Dispose">>,
     <<"Error",        "Dismiss",          "Dispose">>,
     <<"Connecting",   "SocketConnected",  "Connected">>,
     <<"Connecting",   "TemporaryFailure", "Disconnected">>,
     <<"Connecting",   "PermanentFailure", "Error">>,
     <<"Connected",    "TemporaryFailure", "Disconnected">>,
     <<"Disconnected", "Retry",            "Reconnecting">>,
     <<"Reconnecting", "SocketConnected",  "Connected">>,
     <<"Reconnecting", "TemporaryFailure", "Disconnected">>,
     <<"Reconnecting", "PermanentFailure", "Error">>,
     <<"Offline",      "Retry",            "Reconnecting">>}
    \cup {<<l, "Logout", "Dispose">> : l \in LoggedIn}

\* Mutant: the retry timer is set, and never cleared.
EnterKeepsTimer(to) ==
    LET settled == IF to = "Disconnected" /\ ~online THEN "Offline"
                   ELSE IF to = "Dispose" THEN "Ready"
                   ELSE to
    IN  /\ life' = settled
        /\ retry' = (retry \/ settled = "Disconnected")

\* Mutant: Dispose is not left again.
EnterStaysDisposed(to) ==
    LET settled == IF to = "Disconnected" /\ ~online THEN "Offline" ELSE to
    IN  /\ life' = settled
        /\ retry' = (settled = "Disconnected")

\* Entering Disconnected without a network goes on to Offline, and Dispose
\* to Ready; every entry clears the retry timer, Disconnected sets it.
Enter(to) ==
    LET settled == IF to = "Disconnected" /\ ~online THEN "Offline"
                   ELSE IF to = "Dispose" THEN "Ready"
                   ELSE to
    IN  /\ life' = settled
        /\ retry' = (settled = "Disconnected")

Transition(type) ==
    \/ \E to \in State : <<life, type, to>> \in Table /\ Enter(to)
    \/ /\ \A to \in State : <<life, type, to>> \notin Table
       /\ UNCHANGED <<life, retry>>

-----------------------------------------------------------------------------
(* Transitions the user makes, as the interface offers them                *)

\* A new client replaces the old one, whose listeners are removed first: what
\* its socket, timers and requests still do reaches nobody.
Dispose ==
    /\ NewClient
    /\ syncs' = 0
    /\ UNCHANGED <<hello, online>>

\* client.connect(): events.disconnect(), then events.connect().
ClientConnect ==
    /\ \E s \in Sockets : Connect(s)
    /\ UNCHANGED <<hello, syncs, online>>

Login ==
    /\ life = "Ready"
    /\ Transition("LoginUncached")
    /\ hello' = TRUE
    /\ UNCHANGED <<eventVars, syncs, online>>

\* The page was loaded with a session in its store.
LoginCached ==
    /\ life = "Ready"
    /\ Transition("LoginCached")
    /\ ClientConnect

Logout ==
    /\ life \in LoggedIn
    /\ Transition("Logout")
    /\ Dispose

SelectUsername ==
    /\ life = "Onboarding"
    /\ Transition("UserCreated")
    /\ ClientConnect

Cancel ==
    /\ life = "Onboarding"
    /\ Transition("Cancel")
    /\ Dispose

Dismiss ==
    /\ life = "Error"
    /\ Transition("Dismiss")
    /\ Dispose

\* Mutant: "reconnect now" is offered during an attempt too, and connects.
ReconnectNowAnytime ==
    /\ life \in LoggedIn \ {"Connected"}
    /\ Enter("Reconnecting")
    /\ ClientConnect

ReconnectNow ==
    /\ life \in {"Disconnected", "Offline"}
    /\ Transition("Retry")
    /\ ClientConnect

-----------------------------------------------------------------------------
(* Transitions callbacks make                                              *)

\* Mutant: without a network the timer does nothing and is not set again.
RetryTimeoutIfOnline ==
    /\ retry
    /\ IF online
       THEN Transition("Retry") /\ ClientConnect
       ELSE retry' = FALSE /\ UNCHANGED <<eventVars, life, hello, syncs, online>>

\* Where Retry is not handled, the timer is gone and nothing else happens.
RetryTimeout ==
    /\ retry
    /\ IF life \in {"Disconnected", "Offline"}
       THEN Transition("Retry") /\ ClientConnect
       ELSE retry' = FALSE /\ UNCHANGED <<eventVars, life, hello, syncs, online>>

\* The answer to /onboard/hello connects without a transition.
HelloAnswered ==
    /\ hello
    /\ hello' = FALSE
    /\ \/ Transition("NoUser") /\ UNCHANGED eventVars
       \/ (\E s \in Sockets : Connect(s)) /\ UNCHANGED <<life, retry>>
    /\ UNCHANGED <<syncs, online>>

\* There is no catch: the rejection is all that happens.
HelloFails ==
    /\ hello
    /\ hello' = FALSE
    /\ UNCHANGED <<eventVars, life, retry, syncs, online>>

\* onState; the transitions it makes enter no state that connects.
SocketClosed(s) ==
    /\ \E failed \in BOOLEAN : Closed(s, failed)
    /\ Transition(IF lastError' = "revolt" THEN "PermanentFailure"
                                           ELSE "TemporaryFailure")
    /\ UNCHANGED <<hello, syncs, online>>

\* handleEvent stores the data and then awaits channelUnreads.sync().
SocketReady(s) ==
    /\ ReceiveReady(s)
    /\ syncs < MaxSyncs
    /\ syncs' = IF state = "Connecting" THEN syncs + 1 ELSE syncs
    /\ UNCHANGED <<life, retry, hello, online>>

\* Mutant: onReady enters Connected from any state.
SyncAnsweredAlwaysEnters ==
    /\ syncs > 0
    /\ syncs' = syncs - 1
    /\ Enter("Connected")
    /\ UNCHANGED <<eventVars, hello, online>>

\* client.emit("ready"), and so onReady: nothing here knows which connection
\* the Ready event came from.
SyncAnswered ==
    /\ syncs > 0
    /\ syncs' = syncs - 1
    /\ Transition("SocketConnected")
    /\ UNCHANGED <<eventVars, hello, online>>

SyncFails ==
    /\ syncs > 0
    /\ syncs' = syncs - 1
    /\ UNCHANGED <<eventVars, life, retry, hello, online>>

\* Nothing in the application sends DeviceOffline or DeviceOnline when this
\* changes.
NetworkChanges ==
    /\ online' = ~online
    /\ UNCHANGED <<eventVars, life, retry, hello, syncs>>

EventStep ==
    /\ \/ ConnectTimeout
       \/ PongTimeout
       \/ Heartbeat
       \/ \E s \in Sockets : Opened(s)
       \/ \E s \in Sockets : Authenticated(s)
       \/ \E s \in Sockets : ReceiveError(s)
       \/ \E s \in Sockets : ReceivePong(s)
    /\ UNCHANGED lifeVars

Next ==
    \/ Login \/ LoginCached \/ Logout \/ SelectUsername \/ Cancel \/ Dismiss
    \/ ReconnectNow \/ RetryTimeout
    \/ HelloAnswered \/ HelloFails
    \/ \E s \in Sockets : SocketClosed(s)
    \/ \E s \in Sockets : SocketReady(s)
    \/ SyncAnswered \/ SyncFails
    \/ NetworkChanges
    \/ EventStep

Spec == Init /\ [][Next]_vars

\* Browsers fire timers, complete or abandon a close they were asked for, and
\* settle every request.  Nothing is asked of the server, of the network or of
\* the user: a socket may stay silent for ever.
Fairness ==
    /\ WF_vars(ConnectTimeout /\ UNCHANGED lifeVars)
    /\ WF_vars(PongTimeout /\ UNCHANGED lifeVars)
    /\ WF_vars(Heartbeat /\ UNCHANGED lifeVars)
    /\ WF_vars(RetryTimeout)
    /\ WF_vars(HelloAnswered \/ HelloFails)
    /\ WF_vars(SyncAnswered \/ SyncFails)
    /\ \A s \in Sockets : WF_vars(wire[s] = "closing" /\ SocketClosed(s))

FairSpec == Spec /\ Fairness

-----------------------------------------------------------------------------
(* Properties                                                              *)

\* A client never has two live sockets, and #socket is the live one until it
\* is told to close.  connect() does not wait for the close event of the
\* socket it drops, so this rests on the lifecycle connecting only after one:
\* a late close event would clear the #socket of the new connection.
OneSocket ==
    /\ \A s, t \in Sockets : wire[s] # None /\ wire[t] # None => s = t
    /\ socket # None => wire[socket] \in {"connecting", "open"}

\* The "Unreachable code" throws of EventClient.handle are unreachable: the
\* state says which half of the greeting the open socket is in, over every
\* mix of timeouts, late close events and reconnections.
HandlerNeverThrows ==
    \A s \in Sockets : wire[s] = "open" =>
        state = IF told[s] = "ready" THEN "Connected" ELSE "Connecting"

\* The lifecycle is Disconnected exactly while a retry is scheduled, so no
\* disconnection waits for nothing and no forgotten timer starts a second
\* connection beside one the user asked for ("reconnect now").
RetryScheduled == retry <=> life = "Disconnected"

\* A lifecycle that shows Connected over a dead connection got there in one
\* way only: the server refused the session after a stale "ready".
DeadOnlyIfRefused ==
    life = "Connected" /\ state = "Disconnected" => lastError = "revolt"

-----------------------------------------------------------------------------
(* The inductive invariant of the safety properties above                  *)

\* The state tells how the one live socket, if any, was greeted.
Greeted ==
    /\ \A s \in Sockets : wire[s] # None =>
           state = IF told[s] = "ready" THEN "Connected" ELSE "Connecting"
    /\ \A s \in Sockets : wire[s] \in {"connecting", "open"} => socket = s

\* What the lifecycle knows of the connection.  It calls connect() only from
\* states in which there is none left.
Placed ==
    /\ life \in {"Ready", "Onboarding"} => state = "Idle"
    /\ life \in {"Disconnected", "Offline", "Error"} => state = "Disconnected"
    /\ life \in {"Connecting", "Reconnecting"} => state \in {"Connecting", "Connected"}
    /\ life = "Logging In" => state # "Disconnected"
    /\ hello => life = "Logging In" /\ state = "Idle"
    /\ state = "Idle" => syncs = 0

IInv ==
    /\ TypeOK
    /\ OneSocket
    /\ Greeted
    /\ Placed
    /\ RetryScheduled
    /\ DeadOnlyIfRefused

-----------------------------------------------------------------------------
(* Liveness, and what the code's own words claim                           *)

Attempting == {"Logging In", "Connecting", "Reconnecting"}

\* A request whose answer the lifecycle waits for has failed: /onboard/hello
\* before the first connect(), or /sync/unreads under a healthy connection.
AnswerLost ==
    \/ life = "Logging In" /\ state = "Idle" /\ ~hello
    \/ state = "Connected" /\ syncs = 0

\* An attempt to connect ends, whatever the server does, even if it says
\* nothing at all or stops between Authenticated and Ready, when the connect
\* timer has been cleared and only the heartbeat can notice.
AttemptSettles ==
    life \in Attempting ~> (life \notin Attempting \/ AnswerLost)

\* Every disconnection is followed by another attempt, a logout, or the loss
\* of the network.
DisconnectionRetried == life = "Disconnected" ~> life # "Disconnected"

\* "Maximum time in seconds between init and first message" (connectTimeout,
\* EventClient.ts:60): the connect timer never ends a connection on which a
\* message has arrived.
ConnectTimeoutBeforeFirstMessage ==
    [][ConnectTimeout => socket = None \/ told[socket] = "nothing"]_vars
=============================================================================
