-------------------------- MODULE Lifecycle_proofs --------------------------
(***************************************************************************)
(* Proofs about Lifecycle and the EventClient it drives, for any number of *)
(* sockets, pings and requests: the inductive invariant, and the safety    *)
(* properties it implies.                                                  *)
(***************************************************************************)
EXTENDS Lifecycle, TLAPS

\* The parts of the invariant that are about the event client alone.
EventInv == EventTypeOK /\ OneSocket /\ Greeted

\* A program that was just loaded has no connection.
LEMMA InitInv == Init => IInv
<1> SUFFICES ASSUME Init PROVE IInv
  OBVIOUS
<1> USE EventClientAssumption, LifecycleAssumption DEF Init, EventInit
<1>1. TypeOK
  <2>1. EventTypeOK
    BY DEF EventTypeOK, ConnectionState, LastError, Timers
  <2>2. life \in State \ {"Dispose"} /\ syncs \in 0..MaxSyncs
    BY DEF State
  <2>3. retry \in BOOLEAN /\ hello \in BOOLEAN /\ online \in BOOLEAN
    OBVIOUS
  <2> QED
    BY <2>1, <2>2, <2>3 DEF TypeOK
<1>2. OneSocket /\ Greeted
  BY DEF OneSocket, Greeted
<1>3. Placed /\ DeadOnlyIfRefused
  BY DEF Placed, DeadOnlyIfRefused
<1>4. RetryScheduled
  BY DEF RetryScheduled
<1> QED
  BY <1>1, <1>2, <1>3, <1>4 DEF IInv

\* connect() may be called when the last connection has closed.
LEMMA ConnectStep ==
    ASSUME EventInv, state \in {"Idle", "Disconnected"}, NEW s \in Sockets, Connect(s)
    PROVE  EventInv' /\ state' = "Connecting"
<1>1. \A x \in Sockets : wire[x] = None
  BY DEF EventInv, Greeted
<1>2. state' = "Connecting"
  BY DEF Connect
<1>3. EventTypeOK'
  BY EventClientAssumption
     DEF Connect, Cleared, EventInv, EventTypeOK, ConnectionState, LastError, Timers
<1>4. \A x \in Sockets : wire'[x] # None => x = s
  BY <1>1, EventClientAssumption DEF Connect, EventInv, EventTypeOK, OneSocket
<1>5. OneSocket' /\ Greeted'
  BY <1>4, EventClientAssumption
     DEF Connect, EventInv, EventTypeOK, OneSocket, Greeted
<1> QED
  BY <1>2, <1>3, <1>5 DEF EventInv

\* A new client has no connection.
LEMMA NewClientStep ==
    ASSUME NewClient
    PROVE  EventInv' /\ state' = "Idle"
BY EventClientAssumption
   DEF NewClient, EventInv, EventTypeOK, OneSocket, Greeted, ConnectionState,
       LastError, Timers

\* disconnect() leaves the state alone and #socket undefined.
LEMMA DisconnectStep ==
    ASSUME EventInv, Disconnect, told' = told, state' = state
    PROVE  OneSocket' /\ Greeted' /\ socket' = None
           /\ wire' \in [Sockets -> {None, "connecting", "open", "closing"}]
<1> USE EventClientAssumption DEF EventInv, EventTypeOK, OneSocket, Greeted, Disconnect
<1>1. CASE socket = None
  BY <1>1
<1>2. CASE socket # None
  <2>1. \A s \in Sockets : s # socket => wire[s] = None
    BY <1>2
  <2>2. socket \in Sockets /\ wire' = [wire EXCEPT ![socket] = "closing"]
    BY <1>2
  <2>3. \A s \in Sockets : wire'[s] \in {None, "closing"}
    BY <2>1, <2>2
  <2>4. \A s \in Sockets : wire'[s] # None => wire[s] # None /\ s = socket
    BY <1>2, <2>1, <2>2
  <2> QED
    BY <2>2, <2>3, <2>4
<1> QED
  BY <1>1, <1>2

\* A timer that goes off disconnects and announces nothing.
LEMMA ExpireStep ==
    ASSUME EventInv, NEW k \in Timers, Expire(k)
    PROVE  EventInv' /\ state' = state /\ lastError' = lastError
<1>1. Disconnect /\ told' = told /\ state' = state /\ lastError' = lastError
      /\ pings' = pings
  BY DEF Expire
<1>2. OneSocket' /\ Greeted' /\ socket' = None
      /\ wire' \in [Sockets -> {None, "connecting", "open", "closing"}]
  BY <1>1, DisconnectStep
<1>3. held' \subseteq Timers /\ lost' \subseteq Timers
  BY DEF Expire, Cleared, EventInv, EventTypeOK
<1> QED
  BY <1>1, <1>2, <1>3 DEF EventInv, EventTypeOK

\* A close event leaves no connection behind.
LEMMA ClosedStep ==
    ASSUME EventInv, NEW s \in Sockets, NEW failed \in BOOLEAN, Closed(s, failed)
    PROVE  EventInv' /\ state' = "Disconnected"
           /\ state \in {"Connecting", "Connected"}
<1> USE EventClientAssumption DEF EventInv, EventTypeOK, OneSocket, Greeted, Closed
<1>1. \A x \in Sockets : wire'[x] = None
  OBVIOUS
<1>2. state \in {"Connecting", "Connected"} /\ state' = "Disconnected"
  OBVIOUS
<1> QED
  BY <1>1, <1>2 DEF ConnectionState, LastError

\* Ready is received while Connecting, and makes the state Connected.
LEMMA ReadyStep ==
    ASSUME EventInv, NEW s \in Sockets, ReceiveReady(s)
    PROVE  EventInv' /\ state = "Connecting" /\ state' = "Connected"
<1> USE EventClientAssumption
    DEF EventInv, EventTypeOK, OneSocket, Greeted, ReceiveReady, Greeting
<1>1. state = "Connecting" /\ state' = "Connected"
  OBVIOUS
<1>2. \A x \in Sockets : wire'[x] # None => x = s /\ told'[x] = "ready"
  OBVIOUS
<1> QED
  BY <1>1, <1>2 DEF ConnectionState, LastError, Timers

\* The other callbacks of the event client do not touch the state.
LEMMA QuietStep ==
    ASSUME EventInv, EventStep
    PROVE  EventInv' /\ state' = state /\ UNCHANGED lifeVars
           /\ (lastError' = lastError \/ state = "Connecting")
<1> USE EventClientAssumption
<1>0. UNCHANGED lifeVars
  BY DEF EventStep
<1>1. CASE ConnectTimeout
  BY <1>0, <1>1, ExpireStep DEF ConnectTimeout, Timers
<1>2. CASE PongTimeout
  BY <1>0, <1>2, ExpireStep DEF PongTimeout, Timers
<1>3. CASE Heartbeat
  <2>1. EventTypeOK'
    BY <1>3 DEF Heartbeat, Start, EventInv, EventTypeOK, Timers
  <2> QED
    BY <1>0, <1>3, <2>1 DEF Heartbeat, EventInv, OneSocket, Greeted
<1>4. ASSUME NEW s \in Sockets, Opened(s)
      PROVE  EventInv' /\ state' = state /\ lastError' = lastError
  BY <1>4 DEF Opened, Start, EventInv, EventTypeOK, OneSocket, Greeted, Timers
<1>5. ASSUME NEW s \in Sockets, Authenticated(s)
      PROVE  EventInv' /\ state' = state /\ lastError' = lastError
  BY <1>5 DEF Authenticated, Greeting, EventInv, EventTypeOK, OneSocket, Greeted, Timers
<1>6. ASSUME NEW s \in Sockets, ReceiveError(s)
      PROVE  EventInv' /\ state' = state /\ state = "Connecting"
  <2>1. state' = state /\ state = "Connecting" /\ pings' = pings /\ lost' = lost
        /\ lastError' = "revolt" /\ told' = [told EXCEPT ![s] = "error"]
    BY <1>6 DEF ReceiveError, Greeting, EventInv, Greeted
  <2>2. held' \subseteq Timers
    BY <1>6 DEF ReceiveError, Cleared, EventInv, EventTypeOK
  <2>3. PICK throws \in BOOLEAN :
           IF throws THEN UNCHANGED <<socket, wire>> ELSE Disconnect
    BY <1>6 DEF ReceiveError
  <2>4. \A x \in Sockets : told'[x] = "ready" <=> told[x] = "ready" /\ x # s
    BY <2>1 DEF EventInv, EventTypeOK
  <2>5. told[s] = "nothing"
    BY <1>6 DEF ReceiveError, Greeting
  <2>6. OneSocket' /\ Greeted'
        /\ wire' \in [Sockets -> {None, "connecting", "open", "closing"}]
        /\ socket' \in Sockets \cup {None}
    <3>1. CASE throws
      BY <2>1, <2>3, <2>4, <2>5, <3>1
         DEF EventInv, EventTypeOK, OneSocket, Greeted
    <3>2. CASE ~throws
      BY <2>1, <2>3, <2>4, <2>5, <3>2
         DEF EventInv, EventTypeOK, OneSocket, Greeted, Disconnect
    <3> QED
      BY <3>1, <3>2
  <2> QED
    BY <2>1, <2>2, <2>6 DEF EventInv, EventTypeOK, LastError
<1>7. ASSUME NEW s \in Sockets, ReceivePong(s)
      PROVE  EventInv' /\ state' = state /\ lastError' = lastError
  BY <1>7 DEF ReceivePong, EventInv, EventTypeOK, OneSocket, Greeted, Timers
<1> QED
  BY <1>0, <1>1, <1>2, <1>3, <1>4, <1>5, <1>6, <1>7 DEF EventStep

\* Where a transition of the table leads, once Enter has settled it.
LEMMA TransitionStep ==
    ASSUME life \in State \ {"Dispose"}, RetryScheduled, retry \in BOOLEAN,
           NEW type, Transition(type)
    PROVE  /\ life' \in State \ {"Dispose"}
           /\ retry' \in BOOLEAN
           /\ RetryScheduled'
<1>1. ASSUME NEW to \in State, Enter(to)
      PROVE  life' \in State \ {"Dispose"} /\ retry' \in BOOLEAN /\ RetryScheduled'
  <2>1. life' \in State \ {"Dispose"}
    BY <1>1 DEF Enter, State
  <2>2. retry' = (life' = "Disconnected")
    BY <1>1 DEF Enter
  <2> QED
    BY <2>1, <2>2 DEF RetryScheduled
<1>2. CASE UNCHANGED <<life, retry>>
  BY <1>2 DEF RetryScheduled
<1> QED
  BY <1>1, <1>2 DEF Transition

\* The rows of the table the proofs below need, with what Enter makes of them.
LEMMA Rows ==
    ASSUME life \in State \ {"Dispose"}
    PROVE  /\ life = "Ready" /\ Transition("LoginUncached") => life' = "Logging In"
           /\ life = "Ready" /\ Transition("LoginCached") => life' = "Connecting"
           /\ life \in LoggedIn /\ Transition("Logout") => life' = "Ready"
           /\ life = "Onboarding" /\ Transition("UserCreated") => life' = "Connecting"
           /\ life = "Onboarding" /\ Transition("Cancel") => life' = "Ready"
           /\ life = "Error" /\ Transition("Dismiss") => life' = "Ready"
           /\ life \in {"Disconnected", "Offline"} /\ Transition("Retry") =>
                  life' = "Reconnecting"
           /\ life = "Logging In" /\ Transition("NoUser") => life' = "Onboarding"
           /\ Transition("SocketConnected") =>
                  life' = IF life \in {"Logging In", "Connecting", "Reconnecting"}
                          THEN "Connected" ELSE life
           /\ Transition("TemporaryFailure") =>
                  IF life \in {"Connecting", "Reconnecting", "Connected"}
                  THEN life' \in {"Disconnected", "Offline"}
                  ELSE life' = IF life = "Logging In" THEN "Error" ELSE life
           /\ Transition("PermanentFailure") =>
                  life' = IF life \in {"Logging In", "Connecting", "Reconnecting"}
                          THEN "Error" ELSE life
<1> USE DEF Transition, Table, LoggedIn, State, Enter
<1>1. life = "Ready" /\ Transition("LoginUncached") => life' = "Logging In"
  OBVIOUS
<1>2. life = "Ready" /\ Transition("LoginCached") => life' = "Connecting"
  OBVIOUS
<1>3. life \in LoggedIn /\ Transition("Logout") => life' = "Ready"
  BY ZenonT(60)
<1>4. life = "Onboarding" /\ Transition("UserCreated") => life' = "Connecting"
  OBVIOUS
<1>5. life = "Onboarding" /\ Transition("Cancel") => life' = "Ready"
  OBVIOUS
<1>6. life = "Error" /\ Transition("Dismiss") => life' = "Ready"
  OBVIOUS
<1>7. life \in {"Disconnected", "Offline"} /\ Transition("Retry") =>
          life' = "Reconnecting"
  OBVIOUS
<1>8. life = "Logging In" /\ Transition("NoUser") => life' = "Onboarding"
  OBVIOUS
<1>9. Transition("SocketConnected") =>
          life' = IF life \in {"Logging In", "Connecting", "Reconnecting"}
                  THEN "Connected" ELSE life
  BY ZenonT(60)
<1>10. Transition("TemporaryFailure") =>
          IF life \in {"Connecting", "Reconnecting", "Connected"}
          THEN life' \in {"Disconnected", "Offline"}
          ELSE life' = IF life = "Logging In" THEN "Error" ELSE life
  BY ZenonT(60)
<1>11. Transition("PermanentFailure") =>
          life' = IF life \in {"Logging In", "Connecting", "Reconnecting"}
                  THEN "Error" ELSE life
  BY ZenonT(60)
<1> QED
  BY <1>1, <1>2, <1>3, <1>4, <1>5, <1>6, <1>7, <1>8, <1>9, <1>10, <1>11

\* A transition that ends with client.connect() in the same callback.
LEMMA ConnectingStep ==
    ASSUME IInv, state \in {"Idle", "Disconnected"}, ClientConnect,
           life' \in {"Connecting", "Reconnecting"}, retry' = FALSE, ~hello
    PROVE  IInv'
<1>1. EventInv' /\ state' = "Connecting" /\ hello' = hello /\ syncs' = syncs
      /\ online' = online
  BY ConnectStep DEF ClientConnect, EventInv, IInv, TypeOK
<1>2. TypeOK'
  BY <1>1 DEF IInv, TypeOK, EventInv, State
<1>3. Placed' /\ DeadOnlyIfRefused'
  BY <1>1 DEF Placed, DeadOnlyIfRefused
<1>4. RetryScheduled'
  BY DEF RetryScheduled
<1> QED
  BY <1>1, <1>2, <1>3, <1>4 DEF IInv, EventInv

\* A transition that ends with a new client.
LEMMA DisposingStep ==
    ASSUME IInv, Dispose, life' = "Ready", retry' = FALSE, ~hello
    PROVE  IInv'
<1>1. EventInv' /\ state' = "Idle" /\ syncs' = 0 /\ hello' = hello /\ online' = online
  BY NewClientStep DEF Dispose
<1>2. TypeOK'
  <2>1. life' \in State \ {"Dispose"} /\ syncs' \in 0..MaxSyncs
    BY <1>1, LifecycleAssumption DEF State
  <2> QED
    BY <1>1, <2>1 DEF IInv, TypeOK, EventInv
<1>3. Placed' /\ DeadOnlyIfRefused'
  BY <1>1 DEF Placed, DeadOnlyIfRefused
<1>4. RetryScheduled'
  BY DEF RetryScheduled
<1> QED
  BY <1>1, <1>2, <1>3, <1>4 DEF IInv, EventInv

\* Every step keeps the invariant.
LEMMA NextInv == IInv /\ [Next]_vars => IInv'
<1> SUFFICES ASSUME IInv, [Next]_vars PROVE IInv'
  OBVIOUS
<1> USE EventClientAssumption, LifecycleAssumption
<1>a. EventInv /\ TypeOK /\ Placed /\ RetryScheduled /\ DeadOnlyIfRefused
      /\ life \in State \ {"Dispose"} /\ retry \in BOOLEAN
  BY DEF IInv, TypeOK, EventInv
<1>1. CASE Login
  <2>1. life = "Ready" /\ life' = "Logging In" /\ hello' = TRUE /\ RetryScheduled'
        /\ retry' \in BOOLEAN /\ UNCHANGED <<eventVars, syncs, online>>
    BY <1>1, <1>a, Rows, TransitionStep DEF Login
  <2>2. TypeOK' /\ OneSocket' /\ Greeted'
    BY <1>a, <2>1 DEF IInv, TypeOK, EventTypeOK, OneSocket, Greeted, eventVars, State
  <2>3. Placed' /\ DeadOnlyIfRefused'
    BY <1>a, <2>1 DEF Placed, DeadOnlyIfRefused, eventVars
  <2> QED
    BY <2>1, <2>2, <2>3 DEF IInv
<1>2. CASE LoginCached
  <2>1. life = "Ready" /\ life' = "Connecting" /\ RetryScheduled' /\ ClientConnect
        /\ retry' \in BOOLEAN
    BY <1>2, <1>a, Rows, TransitionStep DEF LoginCached
  <2> QED
    BY <1>a, <2>1, ConnectingStep DEF Placed, RetryScheduled
<1>3. CASE Logout
  <2>1. life \in LoggedIn /\ life' = "Ready" /\ RetryScheduled' /\ Dispose
        /\ retry' \in BOOLEAN
    BY <1>3, <1>a, Rows, TransitionStep DEF Logout
  <2> QED
    BY <1>a, <2>1, DisposingStep DEF Placed, RetryScheduled, LoggedIn
<1>4. CASE SelectUsername
  <2>1. life = "Onboarding" /\ life' = "Connecting" /\ RetryScheduled' /\ ClientConnect
        /\ retry' \in BOOLEAN
    BY <1>4, <1>a, Rows, TransitionStep DEF SelectUsername
  <2> QED
    BY <1>a, <2>1, ConnectingStep DEF Placed, RetryScheduled
<1>5. CASE Cancel
  <2>1. life = "Onboarding" /\ life' = "Ready" /\ RetryScheduled' /\ Dispose
        /\ retry' \in BOOLEAN
    BY <1>5, <1>a, Rows, TransitionStep DEF Cancel
  <2> QED
    BY <1>a, <2>1, DisposingStep DEF Placed, RetryScheduled
<1>6. CASE Dismiss
  <2>1. life = "Error" /\ life' = "Ready" /\ RetryScheduled' /\ Dispose
        /\ retry' \in BOOLEAN
    BY <1>6, <1>a, Rows, TransitionStep DEF Dismiss
  <2> QED
    BY <1>a, <2>1, DisposingStep DEF Placed, RetryScheduled
<1>7. CASE ReconnectNow
  <2>1. life \in {"Disconnected", "Offline"} /\ life' = "Reconnecting"
        /\ RetryScheduled' /\ ClientConnect /\ retry' \in BOOLEAN
    BY <1>7, <1>a, Rows, TransitionStep DEF ReconnectNow
  <2> QED
    BY <1>a, <2>1, ConnectingStep DEF Placed, RetryScheduled
<1>8. CASE RetryTimeout
  <2>1. life = "Disconnected"
    BY <1>8, <1>a DEF RetryTimeout, RetryScheduled
  <2>2. Transition("Retry") /\ ClientConnect
    BY <1>8, <2>1 DEF RetryTimeout
  <2>3. life' = "Reconnecting" /\ RetryScheduled' /\ retry' \in BOOLEAN
    BY <1>a, <2>1, <2>2, Rows, TransitionStep
  <2> QED
    BY <1>a, <2>1, <2>2, <2>3, ConnectingStep DEF Placed, RetryScheduled
<1>9. CASE HelloAnswered
  <2>1. life = "Logging In" /\ state = "Idle" /\ hello' = FALSE
        /\ UNCHANGED <<syncs, online>>
    BY <1>9, <1>a DEF HelloAnswered, Placed
  <2>2. CASE Transition("NoUser") /\ UNCHANGED eventVars
    <3>1. life' = "Onboarding" /\ RetryScheduled' /\ retry' \in BOOLEAN
      BY <1>a, <2>1, <2>2, Rows, TransitionStep
    <3>2. TypeOK' /\ OneSocket' /\ Greeted'
      BY <1>a, <2>1, <2>2, <3>1
         DEF IInv, TypeOK, EventTypeOK, OneSocket, Greeted, eventVars, State
    <3>3. Placed' /\ DeadOnlyIfRefused'
      BY <1>a, <2>1, <2>2, <3>1 DEF Placed, DeadOnlyIfRefused, eventVars
    <3> QED
      BY <3>1, <3>2, <3>3 DEF IInv
  <2>3. ASSUME NEW s \in Sockets, Connect(s), UNCHANGED <<life, retry>> PROVE IInv'
    <3>1. EventInv' /\ state' = "Connecting"
      BY <1>a, <2>1, <2>3, ConnectStep
    <3>2. TypeOK' /\ RetryScheduled'
      BY <1>a, <2>1, <2>3, <3>1 DEF TypeOK, EventInv, RetryScheduled
    <3>3. Placed' /\ DeadOnlyIfRefused'
      BY <1>a, <2>1, <2>3, <3>1 DEF Placed, DeadOnlyIfRefused
    <3> QED
      BY <3>1, <3>2, <3>3 DEF IInv, EventInv
  <2> QED
    BY <1>9, <2>2, <2>3 DEF HelloAnswered
<1>10. CASE HelloFails
  <2>1. hello' = FALSE /\ UNCHANGED <<eventVars, life, retry, syncs, online>>
    BY <1>10 DEF HelloFails
  <2>2. TypeOK' /\ OneSocket' /\ Greeted' /\ RetryScheduled'
    BY <1>a, <2>1
       DEF IInv, TypeOK, EventTypeOK, OneSocket, Greeted, eventVars, RetryScheduled
  <2>3. Placed' /\ DeadOnlyIfRefused'
    BY <1>a, <2>1 DEF Placed, DeadOnlyIfRefused, eventVars
  <2> QED
    BY <2>2, <2>3 DEF IInv
<1>11. ASSUME NEW s \in Sockets, SocketClosed(s) PROVE IInv'
  <2>1. EventInv' /\ state' = "Disconnected" /\ state \in {"Connecting", "Connected"}
        /\ UNCHANGED <<hello, syncs, online>>
    BY <1>11, <1>a, ClosedStep DEF SocketClosed
  <2>2. life \in {"Logging In", "Connecting", "Reconnecting", "Connected"}
        /\ hello = FALSE
    BY <1>a, <2>1 DEF Placed, State, TypeOK
  <2>3. RetryScheduled' /\ life' \in State \ {"Dispose"} /\ retry' \in BOOLEAN
    BY <1>11, <1>a, TransitionStep DEF SocketClosed
  <2>4. /\ life' \in {"Error", "Disconnected", "Offline", "Connected"}
        /\ life' = "Connected" => lastError' = "revolt"
    <3>1. CASE lastError' = "revolt"
      BY <1>11, <1>a, <2>2, <3>1, Rows DEF SocketClosed
    <3>2. CASE lastError' # "revolt"
      BY <1>11, <1>a, <2>2, <3>2, Rows DEF SocketClosed
    <3> QED
      BY <3>1, <3>2
  <2>5. TypeOK'
    BY <1>a, <2>1, <2>3 DEF TypeOK, EventInv
  <2>6. Placed' /\ DeadOnlyIfRefused'
    BY <2>1, <2>2, <2>4 DEF Placed, DeadOnlyIfRefused
  <2> QED
    BY <2>1, <2>3, <2>5, <2>6 DEF IInv, EventInv
<1>12. ASSUME NEW s \in Sockets, SocketReady(s) PROVE IInv'
  <2>1. EventInv' /\ state = "Connecting" /\ state' = "Connected"
        /\ syncs < MaxSyncs /\ syncs' = syncs + 1
        /\ UNCHANGED <<life, retry, hello, online>>
    BY <1>12, <1>a, ReadyStep DEF SocketReady
  <2>2. TypeOK'
    BY <1>a, <2>1 DEF TypeOK, EventInv
  <2>3. RetryScheduled' /\ Placed' /\ DeadOnlyIfRefused'
    BY <1>a, <2>1 DEF RetryScheduled, Placed, DeadOnlyIfRefused
  <2> QED
    BY <2>1, <2>2, <2>3 DEF IInv, EventInv
<1>13. CASE SyncAnswered
  <2>1. syncs > 0 /\ syncs' = syncs - 1 /\ UNCHANGED <<eventVars, hello, online>>
    BY <1>13 DEF SyncAnswered
  <2>2. /\ life' = IF life \in {"Logging In", "Connecting", "Reconnecting"}
                   THEN "Connected" ELSE life
        /\ RetryScheduled' /\ life' \in State \ {"Dispose"} /\ retry' \in BOOLEAN
    BY <1>13, <1>a, Rows, TransitionStep DEF SyncAnswered
  <2>0. syncs # 0 /\ syncs' \in 0..MaxSyncs
    BY <1>a, <2>1 DEF TypeOK
  <2>3. TypeOK' /\ OneSocket' /\ Greeted'
    BY <1>a, <2>0, <2>1, <2>2
       DEF IInv, TypeOK, EventTypeOK, OneSocket, Greeted, eventVars
  <2>4. state # "Idle" /\ state' = state /\ lastError' = lastError /\ ~hello'
    BY <1>a, <2>0, <2>1 DEF Placed, eventVars
  <2>5. Placed' /\ DeadOnlyIfRefused'
    BY <1>a, <2>2, <2>4 DEF Placed, DeadOnlyIfRefused
  <2> QED
    BY <2>2, <2>3, <2>5 DEF IInv
<1>14. CASE SyncFails
  <2>1. syncs > 0 /\ syncs' = syncs - 1 /\ UNCHANGED <<eventVars, life, retry, hello, online>>
    BY <1>14 DEF SyncFails
  <2>0. syncs # 0 /\ syncs' \in 0..MaxSyncs
    BY <1>a, <2>1 DEF TypeOK
  <2>2. TypeOK' /\ OneSocket' /\ Greeted' /\ RetryScheduled'
    BY <1>a, <2>0, <2>1
       DEF IInv, TypeOK, EventTypeOK, OneSocket, Greeted, eventVars, RetryScheduled
  <2>3. Placed' /\ DeadOnlyIfRefused'
    BY <1>a, <2>0, <2>1 DEF Placed, DeadOnlyIfRefused, eventVars
  <2> QED
    BY <2>2, <2>3 DEF IInv
<1>15. CASE NetworkChanges
  <2>1. online' \in BOOLEAN /\ UNCHANGED <<eventVars, life, retry, hello, syncs>>
    BY <1>15 DEF NetworkChanges
  <2>2. TypeOK' /\ OneSocket' /\ Greeted' /\ RetryScheduled'
    BY <1>a, <2>1
       DEF IInv, TypeOK, EventTypeOK, OneSocket, Greeted, eventVars, RetryScheduled
  <2>3. Placed' /\ DeadOnlyIfRefused'
    BY <1>a, <2>1 DEF Placed, DeadOnlyIfRefused, eventVars
  <2> QED
    BY <2>2, <2>3 DEF IInv
<1>16. CASE EventStep
  <2>1. EventInv' /\ state' = state /\ UNCHANGED lifeVars
        /\ (lastError' = lastError \/ state = "Connecting")
    BY <1>16, <1>a, QuietStep
  <2>2. TypeOK' /\ RetryScheduled' /\ Placed' /\ DeadOnlyIfRefused'
    BY <1>a, <2>1
       DEF TypeOK, EventInv, RetryScheduled, Placed, DeadOnlyIfRefused, lifeVars
  <2> QED
    BY <2>1, <2>2 DEF IInv, EventInv
<1>17. CASE UNCHANGED vars
  BY <1>17
     DEF IInv, TypeOK, EventTypeOK, OneSocket, Greeted, Placed, RetryScheduled,
         DeadOnlyIfRefused, vars, eventVars, lifeVars
<1> QED
  BY <1>1, <1>2, <1>3, <1>4, <1>5, <1>6, <1>7, <1>8, <1>9, <1>10, <1>11, <1>12,
     <1>13, <1>14, <1>15, <1>16, <1>17 DEF Next

\* The connection and the lifecycle agree on where they are after every
\* callback (EventClient.ts and Controller.ts together).
THEOREM Invariant == Spec => []IInv
BY InitInv, NextInv, PTL DEF Spec

\* TypeOK holds of every reachable state.
THEOREM TypeCorrect == Spec => []TypeOK
<1>1. IInv => TypeOK
  BY DEF IInv
<1> QED
  BY <1>1, Invariant, PTL

\* The lifecycle never gives the client a second live socket, so no late close
\* event reaches the connection that replaced its own.
THEOREM SingleSocket == Spec => []OneSocket
<1>1. IInv => OneSocket
  BY DEF IInv
<1> QED
  BY <1>1, Invariant, PTL

\* EventClient.handle is never given a message its state has no branch for.
THEOREM NoUnreachableCode == Spec => []HandlerNeverThrows
<1>1. IInv => HandlerNeverThrows
  BY EventClientAssumption DEF IInv, Greeted, HandlerNeverThrows
<1> QED
  BY <1>1, Invariant, PTL

\* A retry is scheduled exactly while the lifecycle is Disconnected.
THEOREM RetryExact == Spec => []RetryScheduled
<1>1. IInv => RetryScheduled
  BY DEF IInv
<1> QED
  BY <1>1, Invariant, PTL

\* Only a refused session leaves the lifecycle Connected over a dead socket.
THEOREM DeadOnlyByRefusal == Spec => []DeadOnlyIfRefused
<1>1. IInv => DeadOnlyIfRefused
  BY DEF IInv
<1> QED
  BY <1>1, Invariant, PTL
=============================================================================
