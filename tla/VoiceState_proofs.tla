------------------------ MODULE VoiceState_proofs ------------------------
(***************************************************************************)
(* Proofs about VoiceState, for any users, channels, servers, connections, *)
(* requests and lost webhooks.                                             *)
(***************************************************************************)
EXTENDS VoiceState, TLAPS

\* Nobody is in a call at the start.
LEMMA InitInv == Init => IInv
BY VoiceAssumption DEF Init, IInv, TypeOK, Addressed, About, Joining, JoinersStay,
       Handling,
                      NoGhost

\* What a webhook is.
LEMMA Webhooks ==
    /\ \A x \in Event : x.conn \in Conns
    /\ \A t \in {"joined", "left", "track", "forbidden"}, x \in Conns, b \in BOOLEAN :
          /\ Webhook(t, x, b) \in Event
          /\ Webhook(t, x, b).type = t
          /\ Webhook(t, x, b).conn = x
BY DEF Event, Webhook

LEMMA JoinedHook ==
    ASSUME NEW x \in Conns, NEW b \in BOOLEAN
    PROVE  /\ Webhook("joined", x, b) \in Event
           /\ Webhook("joined", x, b).type = "joined"
           /\ Webhook("joined", x, b).conn = x
BY Webhooks

LEMMA LeftHook ==
    ASSUME NEW x \in Conns
    PROVE  /\ Webhook("left", x, FALSE) \in Event
           /\ Webhook("left", x, FALSE).type = "left"
           /\ Webhook("left", x, FALSE).conn = x
BY Webhooks

\* What is in a queue after a webhook is added, or the first is taken away.
LEMMA Appended ==
    \A q \in Seq(Event), x \in Event :
        /\ Append(q, x) \in Seq(Event)
        /\ DOMAIN q = 1 .. Len(q) /\ Len(q) \in Nat
        /\ DOMAIN Append(q, x) = 1 .. (Len(q) + 1)
        /\ \A i \in DOMAIN q : Append(q, x)[i] = q[i]
        /\ Append(q, x)[Len(q) + 1] = x
OBVIOUS

LEMMA Two == \A q \in Seq(Event), x, y \in Event :
                 q \o <<x, y>> = Append(Append(q, x), y)
<1> SUFFICES ASSUME NEW q \in Seq(Event), NEW x \in Event, NEW y \in Event
             PROVE  q \o <<x, y>> = Append(Append(q, x), y)
  OBVIOUS
<1>1. <<x, y>> \in Seq(Event) /\ Len(<<x, y>>) = 2
  OBVIOUS
<1>2. q \o <<x, y>> \in Seq(Event) /\ Append(Append(q, x), y) \in Seq(Event)
  BY <1>1
<1>3. Len(q \o <<x, y>>) = Len(q) + 2 /\ Len(Append(Append(q, x), y)) = Len(q) + 2
  BY <1>1
<1>4. \A i \in 1 .. (Len(q) + 2) : (q \o <<x, y>>)[i] = Append(Append(q, x), y)[i]
  BY <1>1
<1> QED
  BY <1>2, <1>3, <1>4

LEMMA Taken ==
    \A q \in Seq(Event) : q # <<>> =>
        /\ Tail(q) \in Seq(Event)
        /\ DOMAIN q = 1 .. Len(q) /\ Len(q) \in Nat
        /\ DOMAIN Tail(q) = 1 .. (Len(q) - 1)
        /\ \A i \in DOMAIN Tail(q) : i + 1 \in DOMAIN q /\ Tail(q)[i] = q[i + 1]
        /\ \A i \in DOMAIN q : i # 1 => i - 1 \in DOMAIN Tail(q) /\ Tail(q)[i - 1] = q[i]
OBVIOUS

\* The connection that the first webhook of a room is about.
LEMMA HeadOfQueue ==
    ASSUME TypeOK, NEW c \in Channels, queue[c] # <<>>
    PROVE  /\ Head(queue[c]) \in Event
           /\ Head(queue[c]) = queue[c][1]
           /\ 1 \in DOMAIN queue[c]
           /\ Head(queue[c]).conn \in Conns
           /\ UserOf[Head(queue[c]).conn] \in Users
           /\ Tail(queue[c]) \in Seq(Event)
<1>1. queue[c] \in Seq(Event)
  BY DEF TypeOK
<1>2. Head(queue[c]) \in Event /\ Tail(queue[c]) \in Seq(Event)
  BY <1>1
<1>3. Head(queue[c]) = queue[c][1] /\ 1 \in DOMAIN queue[c]
  BY <1>1
<1> QED
  BY <1>2, <1>3, Webhooks, VoiceAssumption

\* A deleted state leaves a record behind.
LEMMA DeleteTypes ==
    ASSUME TypeOK, NEW u \in Users, NEW c \in Channels, DeleteState(u, c)
    PROVE  /\ members' \in SUBSET (Users \X Channels)
           /\ members' \subseteq members
           /\ <<u, c>> \notin members'
           /\ where' \in [Users \X Parents -> Channels \cup {None}]
           /\ state' \in [Users \X Parents -> {"none", "partial", "full"}]
<1>1. members' \in SUBSET (Users \X Channels)
  BY DEF DeleteState, TypeOK
<1>2. members' \subseteq members /\ <<u, c>> \notin members'
  BY DEF DeleteState
<1> DEFINE K == Users \X Parents
<1> DEFINE W == Channels \cup {None}
<1> DEFINE St == {"none", "partial", "full"}
<1> DEFINE s == Slot(u, c)
<1>3. where \in [K -> W] /\ None \in W
  BY DEF TypeOK
<1>4. state \in [K -> St] /\ "none" \in St
  BY DEF TypeOK
<1>5. where' = [where EXCEPT ![s] = None] /\ state' = [state EXCEPT ![s] = "none"]
  BY DEF DeleteState
<1> HIDE DEF K, W, St, s
<1>6. where' \in [K -> W]
  BY <1>3, <1>5
<1>7. state' \in [K -> St]
  BY <1>4, <1>5
<1> QED
  BY <1>1, <1>2, <1>6, <1>7 DEF K, W, St

\* Every step keeps the types.
LEMMA TypeStep == TypeOK /\ [Next]_vars => TypeOK'
<1> SUFFICES ASSUME TypeOK, [Next]_vars PROVE TypeOK'
  OBVIOUS
<1>1. ASSUME NEW k \in Conns, Ask(k) PROVE TypeOK'
  BY <1>1 DEF Ask, LiveKit, Record, Requests, Messages, Bounds, History, TypeOK
<1>2. ASSUME NEW k \in Conns, AskForce(k) PROVE TypeOK'
  BY <1>2 DEF AskForce, LiveKit, Record, Requests, Messages, Bounds, History, TypeOK
<1>3. ASSUME NEW k \in Conns, ForceOne(k) PROVE TypeOK'
  <2>1. UserOf[k] \in Users
    BY VoiceAssumption
  <2>2. PICK c \in forcing[k] :
           \/ DeleteState(UserOf[k], c) /\ NoteApart(UserOf[k]) /\ UNCHANGED conn
              /\ forcing' = [forcing EXCEPT ![k] = forcing[k] \ {c}]
           \/ forcing' = [forcing EXCEPT ![k] = {}] /\ UNCHANGED <<Record, apart>>
              /\ conn' = [conn EXCEPT ![k] = "refused"]
    BY <1>3 DEF ForceOne
  <2>3. c \in Channels
    BY DEF TypeOK
  <2>4. apart' \in SUBSET Users /\ forcing' \in [Conns -> SUBSET Channels]
        /\ conn' \in [Conns -> {"idle", "forcing", "asked", "refused", "in", "out"}]
    BY <2>1, <2>2 DEF NoteApart, TypeOK
  <2>5. /\ members' \in SUBSET (Users \X Channels)
        /\ where' \in [Users \X Parents -> Channels \cup {None}]
        /\ state' \in [Users \X Parents -> {"none", "partial", "full"}]
    BY <2>1, <2>2, <2>3, DeleteTypes DEF Record, TypeOK
  <2> QED
    BY <1>3, <2>4, <2>5 DEF ForceOne, Messages, Bounds, TypeOK
<1>4. ASSUME NEW k \in Conns, ForceDone(k) PROVE TypeOK'
  BY <1>4 DEF ForceDone, LiveKit, Record, Requests, Messages, Bounds, History,
         TypeOK
<1>5. ASSUME NEW k \in Conns, Connect(k) PROVE TypeOK'
  <2>1. ChannelOf[k] \in Channels /\ \A f \in BOOLEAN : Webhook("joined", k, f) \in Event
    BY VoiceAssumption, Webhooks
  <2>2. \A q \in Seq(Event), e \in Event : Append(q, e) \in Seq(Event)
    OBVIOUS
  <2> QED
    BY <1>5, <2>1, <2>2 DEF Connect, LiveKit, Record, Requests, Messages, Bounds,
           History, TypeOK
<1>6. ASSUME NEW k \in Conns, Reconnect(k) PROVE TypeOK'
  <2> DEFINE c == ChannelOf[k]
  <2>1. c \in Channels
    BY VoiceAssumption
  <2>2. PICK d \in Conns :
           /\ conn' = [conn EXCEPT ![d] = "out", ![k] = "in"]
           /\ queue' = [queue EXCEPT ![c] = @ \o <<Webhook("left", d, FALSE),
                           Webhook("joined", k, Present(c) = {d})>>]
    BY <1>6 DEF Reconnect, Present, ConnsIn
  <2> DEFINE e == Webhook("left", d, FALSE)
  <2> DEFINE f == Webhook("joined", k, Present(c) = {d})
  <2>6. e \in Event /\ f \in Event
    BY Webhooks
  <2>7. \A x, y \in Event : <<x, y>> \in Seq(Event)
    OBVIOUS
  <2>3. <<e, f>> \in Seq(Event)
    BY <2>6, <2>7
  <2>4. \A q, r \in Seq(Event) : q \o r \in Seq(Event)
    OBVIOUS
  <2> QED
    BY <1>6, <2>1, <2>2, <2>3, <2>4 DEF Reconnect, LiveKit, Record, Requests,
           Messages, Bounds, History, TypeOK
<1>7. ASSUME NEW k \in Conns, Leave(k) PROVE TypeOK'
  <2>1. ChannelOf[k] \in Channels /\ Webhook("left", k, FALSE) \in Event
    BY VoiceAssumption, Webhooks
  <2>2. \A q \in Seq(Event), e \in Event : Append(q, e) \in Seq(Event)
    OBVIOUS
  <2> QED
    BY <1>7, <2>1, <2>2 DEF Leave, LiveKit, Record, Requests, Messages, Bounds,
           History, TypeOK
<1>8. ASSUME NEW k \in Conns, PublishTrack(k) PROVE TypeOK'
  <2>1. PICK type \in {"track", "forbidden"} :
           queue' = [queue EXCEPT ![ChannelOf[k]] = Append(@, Webhook(type, k, FALSE))]
    BY <1>8 DEF PublishTrack
  <2>2. ChannelOf[k] \in Channels /\ Webhook(type, k, FALSE) \in Event
    BY VoiceAssumption, Webhooks
  <2>3. \A q \in Seq(Event), e \in Event : Append(q, e) \in Seq(Event)
    OBVIOUS
  <2>4. requests' \in 0 .. MaxRequests
    BY <1>8, VoiceAssumption DEF PublishTrack, Counted, TypeOK
  <2> QED
    BY <1>8, <2>1, <2>2, <2>3, <2>4 DEF PublishTrack, LiveKit, Record, Requests,
           Messages, Bounds, History, TypeOK
<1>9. ASSUME NEW c \in Channels, Refuse(c) PROVE TypeOK'
  <2>1. queue[c] # <<>>
    BY <1>9 DEF Refuse
  <2> QED
    BY <1>9, <2>1, HeadOfQueue, VoiceAssumption DEF Refuse, Dequeue, LiveKit,
           Record, Requests, Messages, Bounds, History, TypeOK
<1>10. ASSUME NEW c \in Channels, Joined(c) PROVE TypeOK'
  <2> DEFINE u == UserOf[Head(queue[c]).conn]
  <2>1. queue[c] # <<>>
    BY <1>10 DEF Joined, Arrives
  <2>2. u \in Users
    BY <2>1, HeadOfQueue
  <2>3. /\ members' = members \cup {<<u, c>>}
        /\ where' = [where EXCEPT ![Slot(u, c)] = c]
        /\ state' = [state EXCEPT ![Slot(u, c)] = "full"]
    BY <1>10 DEF Joined, CreateState
  <2> HIDE DEF u
  <2>4. crossed' \in SUBSET Users
    BY <1>10, <2>2 DEF Joined, NoteCrossed, TypeOK, u
  <2>5. members' \in SUBSET (Users \X Channels)
    BY <2>2, <2>3 DEF TypeOK
  <2> DEFINE K == Users \X Parents
  <2> DEFINE W == Channels \cup {None}
  <2> DEFINE St == {"none", "partial", "full"}
  <2> DEFINE s == Slot(u, c)
  <2>6. where \in [K -> W] /\ c \in W /\ state \in [K -> St] /\ "full" \in St
    BY DEF TypeOK
  <2>7. where' = [where EXCEPT ![s] = c] /\ state' = [state EXCEPT ![s] = "full"]
    BY <2>3
  <2> HIDE DEF K, W, St, s
  <2>8. where' \in [K -> W] /\ state' \in [K -> St]
    BY <2>6, <2>7
  <2>9. where' \in [Users \X Parents -> Channels \cup {None}]
        /\ state' \in [Users \X Parents -> {"none", "partial", "full"}]
    BY <2>8 DEF K, W, St
  <2> QED
    BY <1>10, <2>4, <2>5, <2>9 DEF Joined, LiveKit, Record, Requests, Messages,
           Bounds, History, TypeOK
<1>11. ASSUME NEW c \in Channels, CallStarts(c) PROVE TypeOK'
  <2>1. queue[c] # <<>>
    BY <1>11 DEF CallStarts
  <2>2. Head(queue[c]).conn \in Conns /\ Tail(queue[c]) \in Seq(Event)
    BY <2>1, HeadOfQueue
  <2>3. started' \in [Channels -> Conns \cup {None}] /\ unfinished' \in SUBSET Conns
    <3>1. CASE Head(queue[c]).first
      <4> DEFINE k == Head(queue[c]).conn
      <4>1. started' = [started EXCEPT ![c] = k] /\ unfinished' = unfinished \cup {k}
        BY <1>11, <3>1 DEF CallStarts
      <4>2. k \in Conns
        BY <2>2
      <4> HIDE DEF k
      <4> QED
        BY <4>1, <4>2 DEF TypeOK
    <3>2. CASE ~Head(queue[c]).first
      BY <1>11, <3>2 DEF CallStarts, Messages, TypeOK
    <3> QED
      BY <3>1, <3>2
  <2>4. queue' \in [Channels -> Seq(Event)]
    <3>1. queue' = [queue EXCEPT ![c] = Tail(queue[c])]
      BY <1>11 DEF CallStarts, Dequeue
    <3> QED
      BY <2>2, <3>1 DEF TypeOK
  <2>5. handled' \in [Channels -> BOOLEAN]
    BY <1>11 DEF CallStarts, TypeOK
  <2> QED
    BY <1>11, <2>3, <2>4, <2>5 DEF CallStarts, LiveKit, Record, Requests, Bounds, History,
           TypeOK
<1>12. ASSUME NEW c \in Channels, Left(c) PROVE TypeOK'
  <2>1. queue[c] # <<>> /\ DeleteState(UserOf[Head(queue[c]).conn], c)
    BY <1>12 DEF Left, Arrives
  <2> DEFINE u == UserOf[Head(queue[c]).conn]
  <2>2. u \in Users
    BY <2>1, HeadOfQueue
  <2>3. crossed' \in SUBSET Users
    BY <1>12, <2>2 DEF Left, NoteCrossed, TypeOK
  <2>4. /\ members' \in SUBSET (Users \X Channels)
        /\ where' \in [Users \X Parents -> Channels \cup {None}]
        /\ state' \in [Users \X Parents -> {"none", "partial", "full"}]
    BY <2>1, <2>2, DeleteTypes
  <2> QED
    BY <1>12, <2>3, <2>4 DEF Left, LiveKit, Record, Requests, Messages, Bounds,
           History, TypeOK
<1>13. ASSUME NEW c \in Channels, CallEnds(c) PROVE TypeOK'
  <2>1. queue[c] # <<>>
    BY <1>13 DEF CallEnds
  <2> QED
    BY <1>13, <2>1, HeadOfQueue, VoiceAssumption DEF CallEnds, Dequeue, LiveKit,
           Record, Requests, Messages, Bounds, History, TypeOK
<1>14. ASSUME NEW c \in Channels, Track(c) PROVE TypeOK'
  <2> DEFINE s == Slot(UserOf[Head(queue[c]).conn], c)
  <2>1. queue[c] # <<>>
    BY <1>14 DEF Track, Arrives
  <2>2. Tail(queue[c]) \in Seq(Event)
    BY <2>1, HeadOfQueue
  <2>3. state' = [state EXCEPT ![s] = IF @ = "full" THEN @ ELSE "partial"]
    BY <1>14 DEF Track
  <2> DEFINE K == Users \X Parents
  <2> DEFINE St == {"none", "partial", "full"}
  <2>4. state \in [K -> St] /\ "partial" \in St /\ "full" \in St
    BY DEF TypeOK
  <2> HIDE DEF K, St, s
  <2>5. state' \in [K -> St]
    BY <2>3, <2>4
  <2>6. state' \in [Users \X Parents -> {"none", "partial", "full"}]
    BY <2>5 DEF K, St
  <2> QED
    BY <1>14, <2>2, <2>6 DEF Track, Dequeue, LiveKit, Record, Requests, Messages,
           Bounds, History, TypeOK
<1>15. ASSUME NEW c \in Channels, Forbidden(c) PROVE TypeOK'
  <2> DEFINE u == UserOf[Head(queue[c]).conn]
  <2>1. queue[c] # <<>> /\ DeleteState(u, c)
    BY <1>15 DEF Forbidden, Arrives
  <2>2. u \in Users /\ Tail(queue[c]) \in Seq(Event)
    BY <2>1, HeadOfQueue
  <2>3. /\ members' \in SUBSET (Users \X Channels)
        /\ where' \in [Users \X Parents -> Channels \cup {None}]
        /\ state' \in [Users \X Parents -> {"none", "partial", "full"}]
    BY <2>1, <2>2, DeleteTypes
  <2>4. crossed' \in SUBSET Users
    BY <1>15, <2>2 DEF Forbidden, NoteCrossed, TypeOK
  <2>5. /\ conn' \in [Conns -> {"idle", "forcing", "asked", "refused", "in", "out"}]
        /\ queue' \in [Channels -> Seq(Event)]
    <3>1. CASE Dequeue(c) /\ UNCHANGED conn
      BY <2>2, <3>1 DEF Dequeue, TypeOK
    <3>2. ASSUME NEW d \in Conns, conn' = [conn EXCEPT ![d] = "out"],
                 queue' = [queue EXCEPT ![c] = Append(Tail(@), Webhook("left", d, FALSE))]
          PROVE  /\ conn' \in [Conns -> {"idle", "forcing", "asked", "refused", "in", "out"}]
                 /\ queue' \in [Channels -> Seq(Event)]
      <4>1. Append(Tail(queue[c]), Webhook("left", d, FALSE)) \in Seq(Event)
        BY <2>2, Webhooks, Appended
      <4> QED
        BY <3>2, <4>1 DEF TypeOK
    <3> QED
      BY <1>15, <3>1, <3>2 DEF Forbidden, Present, ConnsIn
  <2> QED
    BY <1>15, <2>3, <2>4, <2>5 DEF Forbidden, Requests, Messages, Bounds, TypeOK
<1>16. ASSUME NEW c \in Channels, Lose(c) PROVE TypeOK'
  <2>1. queue[c] # <<>>
    BY <1>16 DEF Lose
  <2> QED
    BY <1>16, <2>1, HeadOfQueue, VoiceAssumption DEF Lose, Dequeue, LiveKit, Record,
           Requests, Messages, Bounds, History, TypeOK
<1>17. ASSUME NEW c \in Channels, Retry(c) PROVE TypeOK'
  BY <1>17, VoiceAssumption DEF Retry, LiveKit, Record, Requests, Messages, Bounds,
         History, TypeOK
<1>18. ASSUME NEW c \in Channels, DeleteChannel(c) PROVE TypeOK'
  BY <1>18, VoiceAssumption DEF DeleteChannel, Counted, LiveKit, Record, Requests,
         Messages, Bounds, History, TypeOK
<1>19. ASSUME NEW u \in Users, Kick(u) PROVE TypeOK'
  <2>1. requests' \in 0 .. MaxRequests
    BY <1>19, VoiceAssumption DEF Kick, Counted, TypeOK
  <2>2. PICK p \in Parents : kicking' = [kicking EXCEPT ![u] = where[<<u, p>>]]
    BY <1>19 DEF Kick
  <2>3. where[<<u, p>>] \in Channels \cup {None}
    BY DEF TypeOK
  <2> QED
    BY <1>19, <2>1, <2>2, <2>3 DEF Kick, LiveKit, Record, Requests, Messages,
           Bounds, History, TypeOK
<1>20. ASSUME NEW u \in Users, KickDeletes(u) PROVE TypeOK'
  <2>1. kicking[u] \in Channels
    BY <1>20 DEF KickDeletes, TypeOK
  <2>2. DeleteState(u, kicking[u])
    BY <1>20 DEF KickDeletes
  <2> QED
    BY <1>20, <2>1, <2>2, DeleteTypes DEF KickDeletes, NoteApart, LiveKit, Record,
           Requests, Messages, Bounds, History, TypeOK
<1>21. ASSUME NEW u \in Users, NEW c \in Channels, FindStateless(u, c)
     PROVE  TypeOK'
  BY <1>21 DEF FindStateless, LiveKit, Record, Requests, Messages, Bounds, History,
         TypeOK
<1>22. ASSUME NEW u \in Users, NEW c \in Channels, Heal(u, c)
     PROVE  TypeOK'
  <2>1. DeleteState(u, c)
    BY <1>22 DEF Heal
  <2> QED
    BY <1>22, <2>1, DeleteTypes DEF Heal, LiveKit, Record, Requests, Messages,
           Bounds, History, TypeOK
<1>23. CASE UNCHANGED vars
  BY <1>23 DEF vars, TypeOK
<1> QED
  BY <1>1, <1>2, <1>3, <1>4, <1>5, <1>6, <1>7, <1>8, <1>9, <1>10, <1>11, <1>12,
     <1>13, <1>14, <1>15, <1>16, <1>17, <1>18, <1>19, <1>20, <1>21, <1>22, <1>23
     DEF Next, Client, Ingress

\* The webhooks of a room stay about its own connections.
LEMMA AboutAppended ==
    ASSUME NEW c \in Channels, NEW q \in Seq(Event), About(q, c),
           NEW e \in Event, ChannelOf[e.conn] = c
    PROVE  About(Append(q, e), c)
BY Appended DEF About

LEMMA AboutTaken ==
    ASSUME NEW c \in Channels, NEW q \in Seq(Event), About(q, c), q # <<>>
    PROVE  About(Tail(q), c)
BY Taken DEF About

LEMMA AddressedBy ==
    ASSUME TypeOK, Addressed, NEW c \in Channels, NEW q, About(q, c),
           queue' = [queue EXCEPT ![c] = q]
    PROVE  Addressed'
BY DEF Addressed, About, TypeOK

LEMMA AddressedStep == TypeOK /\ Addressed /\ [Next]_vars => Addressed'
<1> SUFFICES ASSUME TypeOK, Addressed, [Next]_vars PROVE Addressed'
  OBVIOUS
<1> USE VoiceAssumption
<1>a. \A c \in Channels : queue[c] \in Seq(Event) /\ About(queue[c], c)
  BY DEF TypeOK, Addressed
<1>1. ASSUME NEW k \in Conns, Ask(k) PROVE Addressed'
  BY <1>1 DEF Ask, LiveKit, Addressed
<1>2. ASSUME NEW k \in Conns, AskForce(k) PROVE Addressed'
  BY <1>2 DEF AskForce, LiveKit, Addressed
<1>3. ASSUME NEW k \in Conns, ForceOne(k) PROVE Addressed'
  BY <1>3 DEF ForceOne, LiveKit, Addressed
<1>4. ASSUME NEW k \in Conns, ForceDone(k) PROVE Addressed'
  BY <1>4 DEF ForceDone, LiveKit, Addressed
<1>5. ASSUME NEW k \in Conns, Connect(k) PROVE Addressed'
  <2> DEFINE c == ChannelOf[k]
  <2> DEFINE e == Webhook("joined", k, Present(c) = {})
  <2>1. e \in Event /\ e.conn = k
    BY JoinedHook
  <2>2. queue' = [queue EXCEPT ![c] = Append(queue[c], e)]
    BY <1>5 DEF Connect
  <2>3. About(Append(queue[c], e), c)
    BY <1>a, <2>1, AboutAppended
  <2> QED
    BY <2>2, <2>3, AddressedBy
<1>6. ASSUME NEW k \in Conns, Reconnect(k) PROVE Addressed'
  <2> DEFINE c == ChannelOf[k]
  <2>1. PICK d \in Conns :
           /\ ChannelOf[d] = c
           /\ conn' = [conn EXCEPT ![d] = "out", ![k] = "in"]
           /\ queue' = [queue EXCEPT ![c] = @ \o <<Webhook("left", d, FALSE),
                           Webhook("joined", k, Present(c) = {d})>>]
    BY <1>6 DEF Reconnect, Present, ConnsIn
  <2> DEFINE e == Webhook("left", d, FALSE)
  <2> DEFINE f == Webhook("joined", k, Present(c) = {d})
  <2>4. e \in Event /\ e.conn = d /\ e.type = "left"
    BY LeftHook
  <2>5. f \in Event /\ f.conn = k /\ f.type = "joined"
    <3> DEFINE only == Present(c) = {d}
    <3>1. only \in BOOLEAN
      OBVIOUS
    <3> HIDE DEF only
    <3>2. /\ Webhook("joined", k, only) \in Event
          /\ Webhook("joined", k, only).conn = k
          /\ Webhook("joined", k, only).type = "joined"
      BY <3>1, Webhooks
    <3> QED
      BY <3>2 DEF only
  <2>2. /\ e \in Event /\ e.conn = d /\ e.type = "left"
        /\ f \in Event /\ f.conn = k /\ f.type = "joined"
    BY <2>4, <2>5
  <2>6. queue' = [queue EXCEPT ![c] = queue[c] \o <<e, f>>]
    BY <2>1
  <2>7. queue[c] \o <<e, f>> = Append(Append(queue[c], e), f)
    <3> HIDE DEF c, e, f
    <3>1. queue[c] \in Seq(Event)
      BY <1>a DEF c
    <3> QED
      BY <2>2, <3>1, Two
  <2>3. queue' = [queue EXCEPT ![c] = Append(Append(queue[c], e), f)]
    BY <2>6, <2>7
  <2>8. About(Append(queue[c], e), c)
    BY <1>a, <2>1, <2>2, AboutAppended
  <2>9. About(Append(Append(queue[c], e), f), c)
    BY <1>a, <2>2, <2>8, AboutAppended, Appended
  <2> QED
    BY <2>3, <2>9, AddressedBy
<1>7. ASSUME NEW k \in Conns, Leave(k) PROVE Addressed'
  <2> DEFINE c == ChannelOf[k]
  <2> DEFINE e == Webhook("left", k, FALSE)
  <2>1. e \in Event /\ e.conn = k
    BY LeftHook
  <2>2. queue' = [queue EXCEPT ![c] = Append(queue[c], e)]
    BY <1>7 DEF Leave
  <2>3. About(Append(queue[c], e), c)
    BY <1>a, <2>1, AboutAppended
  <2> QED
    BY <2>2, <2>3, AddressedBy
<1>8. ASSUME NEW k \in Conns, PublishTrack(k) PROVE Addressed'
  <2> DEFINE c == ChannelOf[k]
  <2>1. PICK type \in {"track", "forbidden"} :
           queue' = [queue EXCEPT ![c] = Append(@, Webhook(type, k, FALSE))]
    BY <1>8 DEF PublishTrack
  <2> DEFINE e == Webhook(type, k, FALSE)
  <2>2. e \in Event /\ e.conn = k
    <3>1. CASE type = "track"
      BY <3>1, Webhooks
    <3>2. CASE type = "forbidden"
      BY <3>2, Webhooks
    <3> QED
      BY <3>1, <3>2
  <2>3. About(Append(queue[c], e), c)
    BY <1>a, <2>2, AboutAppended
  <2> QED
    BY <2>1, <2>3, AddressedBy
<1>9. ASSUME NEW c \in Channels, Refuse(c) PROVE Addressed'
  <2>1. queue[c] # <<>> /\ queue' = [queue EXCEPT ![c] = Tail(queue[c])]
    BY <1>9 DEF Refuse, Dequeue
  <2> QED
    BY <1>a, <2>1, AboutTaken, AddressedBy
<1>10. ASSUME NEW c \in Channels, Joined(c) PROVE Addressed'
  BY <1>10 DEF Joined, LiveKit, Addressed
<1>11. ASSUME NEW c \in Channels, CallStarts(c) PROVE Addressed'
  <2>1. queue[c] # <<>> /\ queue' = [queue EXCEPT ![c] = Tail(queue[c])]
    BY <1>11 DEF CallStarts, Dequeue
  <2> QED
    BY <1>a, <2>1, AboutTaken, AddressedBy
<1>12. ASSUME NEW c \in Channels, Left(c) PROVE Addressed'
  BY <1>12 DEF Left, LiveKit, Addressed
<1>13. ASSUME NEW c \in Channels, CallEnds(c) PROVE Addressed'
  <2>1. queue[c] # <<>> /\ queue' = [queue EXCEPT ![c] = Tail(queue[c])]
    BY <1>13 DEF CallEnds, Dequeue
  <2> QED
    BY <1>a, <2>1, AboutTaken, AddressedBy
<1>14. ASSUME NEW c \in Channels, Track(c) PROVE Addressed'
  <2>1. queue[c] # <<>> /\ queue' = [queue EXCEPT ![c] = Tail(queue[c])]
    BY <1>14 DEF Track, Dequeue, Arrives
  <2> QED
    BY <1>a, <2>1, AboutTaken, AddressedBy
<1>15. ASSUME NEW c \in Channels, Forbidden(c) PROVE Addressed'
  <2>1. queue[c] # <<>>
    BY <1>15 DEF Forbidden, Arrives
  <2>2. About(Tail(queue[c]), c)
    BY <1>a, <2>1, AboutTaken
  <2>3. CASE queue' = [queue EXCEPT ![c] = Tail(queue[c])]
    BY <2>2, <2>3, AddressedBy
  <2>4. ASSUME NEW d \in Conns, ChannelOf[d] = c,
               queue' = [queue EXCEPT ![c] = Append(Tail(@), Webhook("left", d, FALSE))]
        PROVE  Addressed'
    <3> DEFINE e == Webhook("left", d, FALSE)
    <3>1. e \in Event /\ ChannelOf[e.conn] = c
      BY <2>4, LeftHook
    <3>2. Tail(queue[c]) \in Seq(Event)
      BY <1>a, <2>1, Taken
    <3>3. queue' = [queue EXCEPT ![c] = Append(Tail(queue[c]), e)]
      BY <2>4
    <3> HIDE DEF e
    <3>4. About(Append(Tail(queue[c]), e), c)
      BY <2>2, <3>1, <3>2, AboutAppended
    <3> QED
      BY <3>3, <3>4, AddressedBy
  <2> QED
    BY <1>15, <2>3, <2>4 DEF Forbidden, Dequeue, Present, ConnsIn
<1>16. ASSUME NEW c \in Channels, Lose(c) PROVE Addressed'
  <2>1. queue[c] # <<>> /\ queue' = [queue EXCEPT ![c] = Tail(queue[c])]
    BY <1>16 DEF Lose, Dequeue
  <2> QED
    BY <1>a, <2>1, AboutTaken, AddressedBy
<1>17. ASSUME NEW c \in Channels, Retry(c) PROVE Addressed'
  BY <1>17 DEF Retry, LiveKit, Addressed
<1>18. ASSUME NEW c \in Channels, DeleteChannel(c) PROVE Addressed'
  BY <1>18 DEF DeleteChannel, LiveKit, Addressed
<1>19. ASSUME NEW u \in Users, Kick(u) PROVE Addressed'
  BY <1>19 DEF Kick, LiveKit, Addressed
<1>20. ASSUME NEW u \in Users, KickDeletes(u) PROVE Addressed'
  BY <1>20 DEF KickDeletes, LiveKit, Addressed
<1>21. ASSUME NEW u \in Users, NEW c \in Channels, FindStateless(u, c)
     PROVE  Addressed'
  BY <1>21 DEF FindStateless, LiveKit, Addressed
<1>22. ASSUME NEW u \in Users, NEW c \in Channels, Heal(u, c)
     PROVE  Addressed'
  BY <1>22 DEF Heal, LiveKit, Addressed
<1>23. CASE UNCHANGED vars
  BY <1>23 DEF vars, Addressed
<1> QED
  BY <1>1, <1>2, <1>3, <1>4, <1>5, <1>6, <1>7, <1>8, <1>9, <1>10, <1>11, <1>12,
     <1>13, <1>14, <1>15, <1>16, <1>17, <1>18, <1>19, <1>20, <1>21, <1>22, <1>23
     DEF Next, Client, Ingress

\* A room whose first webhook has changed the state has a first webhook.
LEMMA HandlingStep == TypeOK /\ Handling /\ [Next]_vars => Handling'
<1> SUFFICES ASSUME TypeOK, Handling, [Next]_vars PROVE Handling'
  OBVIOUS
<1> USE VoiceAssumption
<1>a. \A q \in Seq(Event), e \in Event : Append(q, e) # <<>>
  OBVIOUS
<1>b. \A c \in Channels : queue[c] \in Seq(Event)
  BY DEF TypeOK
<1>1. ASSUME NEW k \in Conns, Ask(k) PROVE Handling'
  BY <1>1 DEF Ask, LiveKit, Handling
<1>2. ASSUME NEW k \in Conns, AskForce(k) PROVE Handling'
  BY <1>2 DEF AskForce, LiveKit, Handling
<1>3. ASSUME NEW k \in Conns, ForceOne(k) PROVE Handling'
  BY <1>3 DEF ForceOne, LiveKit, Handling
<1>4. ASSUME NEW k \in Conns, ForceDone(k) PROVE Handling'
  BY <1>4 DEF ForceDone, LiveKit, Handling
<1>5. ASSUME NEW k \in Conns, Connect(k) PROVE Handling'
  <2> DEFINE e == Webhook("joined", k, Present(ChannelOf[k]) = {})
  <2>1. e \in Event
    BY Webhooks
  <2>2. queue' = [queue EXCEPT ![ChannelOf[k]] = Append(@, e)]
    BY <1>5 DEF Connect
  <2>3. Append(queue[ChannelOf[k]], e) # <<>>
    BY <1>a, <1>b, <2>1
  <2> QED
    BY <1>5, <2>2, <2>3 DEF Connect, Handling, TypeOK
<1>6. ASSUME NEW k \in Conns, Reconnect(k) PROVE Handling'
  <2> DEFINE c == ChannelOf[k]
  <2>1. PICK d \in Conns :
           /\ ChannelOf[d] = c
           /\ conn' = [conn EXCEPT ![d] = "out", ![k] = "in"]
           /\ queue' = [queue EXCEPT ![c] = @ \o <<Webhook("left", d, FALSE),
                           Webhook("joined", k, Present(c) = {d})>>]
    BY <1>6 DEF Reconnect, Present, ConnsIn
  <2> DEFINE e == Webhook("left", d, FALSE)
  <2> DEFINE f == Webhook("joined", k, Present(c) = {d})
  <2>4. e \in Event /\ e.conn = d /\ e.type = "left"
    BY LeftHook
  <2>5. f \in Event /\ f.conn = k /\ f.type = "joined"
    <3> DEFINE only == Present(c) = {d}
    <3>1. only \in BOOLEAN
      OBVIOUS
    <3> HIDE DEF only
    <3>2. /\ Webhook("joined", k, only) \in Event
          /\ Webhook("joined", k, only).conn = k
          /\ Webhook("joined", k, only).type = "joined"
      BY <3>1, Webhooks
    <3> QED
      BY <3>2 DEF only
  <2>2. /\ e \in Event /\ e.conn = d /\ e.type = "left"
        /\ f \in Event /\ f.conn = k /\ f.type = "joined"
    BY <2>4, <2>5
  <2>6. queue' = [queue EXCEPT ![c] = queue[c] \o <<e, f>>]
    BY <2>1
  <2>7. queue[c] \o <<e, f>> = Append(Append(queue[c], e), f)
    <3> HIDE DEF c, e, f
    <3>1. queue[c] \in Seq(Event)
      BY <1>b DEF c
    <3> QED
      BY <2>2, <3>1, Two
  <2>3. queue' = [queue EXCEPT ![c] = Append(Append(queue[c], e), f)]
    BY <2>6, <2>7
  <2>8. Append(Append(queue[c], e), f) # <<>>
    <3> HIDE DEF c, e, f
    <3>1. queue[c] \in Seq(Event)
      BY <1>b DEF c
    <3> DEFINE q == Append(queue[c], e)
    <3>2. q \in Seq(Event)
      BY <2>2, <3>1, Appended
    <3> HIDE DEF q
    <3>3. Append(q, f) # <<>>
      BY <2>2, <3>2
    <3> QED
      BY <3>3 DEF q
  <2> QED
    BY <1>6, <2>3, <2>8 DEF Reconnect, Handling, TypeOK
<1>7. ASSUME NEW k \in Conns, Leave(k) PROVE Handling'
  <2>1. Append(queue[ChannelOf[k]], Webhook("left", k, FALSE)) # <<>>
    <3>1. Webhook("left", k, FALSE) \in Event /\ ChannelOf[k] \in Channels
      BY Webhooks
    <3> QED
      BY <1>a, <1>b, <3>1
  <2> QED
    BY <1>7, <2>1 DEF Leave, Handling, TypeOK
<1>8. ASSUME NEW k \in Conns, PublishTrack(k) PROVE Handling'
  <2>1. PICK type \in {"track", "forbidden"} :
           queue' = [queue EXCEPT ![ChannelOf[k]] = Append(@, Webhook(type, k, FALSE))]
    BY <1>8 DEF PublishTrack
  <2>2. Webhook(type, k, FALSE) \in Event
    <3>1. CASE type = "track"
      BY <3>1, Webhooks
    <3>2. CASE type = "forbidden"
      BY <3>2, Webhooks
    <3> QED
      BY <3>1, <3>2
  <2>3. Append(queue[ChannelOf[k]], Webhook(type, k, FALSE)) # <<>>
    BY <1>a, <1>b, <2>2
  <2> QED
    BY <1>8, <2>1, <2>3 DEF PublishTrack, Handling, TypeOK
<1>9. ASSUME NEW c \in Channels, Refuse(c) PROVE Handling'
  BY <1>9 DEF Refuse, Arrives, Dequeue, Handling, TypeOK
<1>10. ASSUME NEW c \in Channels, Joined(c) PROVE Handling'
  BY <1>10 DEF Joined, Arrives, Handling, TypeOK
<1>11. ASSUME NEW c \in Channels, CallStarts(c) PROVE Handling'
  <2>1. \A b \in Channels : b # c => queue'[b] = queue[b] /\ handled'[b] = handled[b]
    BY <1>11 DEF CallStarts, Dequeue, TypeOK
  <2>2. ~handled'[c]
    BY <1>11 DEF CallStarts, TypeOK
  <2> QED
    BY <2>1, <2>2 DEF Handling
<1>12. ASSUME NEW c \in Channels, Left(c) PROVE Handling'
  BY <1>12 DEF Left, Arrives, Handling, TypeOK
<1>13. ASSUME NEW c \in Channels, CallEnds(c) PROVE Handling'
  BY <1>13 DEF CallEnds, Dequeue, Handling, TypeOK
<1>14. ASSUME NEW c \in Channels, Track(c) PROVE Handling'
  BY <1>14 DEF Track, Arrives, Dequeue, Handling, TypeOK
<1>15. ASSUME NEW c \in Channels, Forbidden(c) PROVE Handling'
  <2>1. ~handled[c] /\ UNCHANGED handled
    BY <1>15 DEF Forbidden, Arrives
  <2>2. \A b \in Channels : b # c => queue'[b] = queue[b]
    <3>1. \E q : queue' = [queue EXCEPT ![c] = q]
      BY <1>15 DEF Forbidden, Dequeue
    <3> QED
      BY <3>1 DEF TypeOK
  <2> QED
    BY <2>1, <2>2 DEF Handling
<1>16. ASSUME NEW c \in Channels, Lose(c) PROVE Handling'
  BY <1>16 DEF Lose, Dequeue, Handling, TypeOK
<1>17. ASSUME NEW c \in Channels, Retry(c) PROVE Handling'
  BY <1>17 DEF Retry, Handling, TypeOK
<1>18. ASSUME NEW c \in Channels, DeleteChannel(c) PROVE Handling'
  BY <1>18 DEF DeleteChannel, LiveKit, Handling
<1>19. ASSUME NEW u \in Users, Kick(u) PROVE Handling'
  BY <1>19 DEF Kick, LiveKit, Handling
<1>20. ASSUME NEW u \in Users, KickDeletes(u) PROVE Handling'
  BY <1>20 DEF KickDeletes, LiveKit, Handling
<1>21. ASSUME NEW u \in Users, NEW c \in Channels, FindStateless(u, c)
     PROVE  Handling'
  BY <1>21 DEF FindStateless, LiveKit, Handling
<1>22. ASSUME NEW u \in Users, NEW c \in Channels, Heal(u, c)
     PROVE  Handling'
  BY <1>22 DEF Heal, LiveKit, Handling
<1>23. CASE UNCHANGED vars
  BY <1>23 DEF vars, Handling
<1> QED
  BY <1>1, <1>2, <1>3, <1>4, <1>5, <1>6, <1>7, <1>8, <1>9, <1>10, <1>11, <1>12,
     <1>13, <1>14, <1>15, <1>16, <1>17, <1>18, <1>19, <1>20, <1>21, <1>22, <1>23
     DEF Next, Client, Ingress

\* Who has joined: how the queue of the room and the connections may change.
LEMMA JoinersAppended ==
    ASSUME NEW q \in Seq(Event), NEW C, JoinersStay(q, C), NEW e \in Event,
           e.type # "joined" \/ C[e.conn] = "in"
    PROVE  JoinersStay(Append(q, e), C)
BY Appended DEF JoinersStay

LEMMA JoinersTaken ==
    ASSUME NEW q \in Seq(Event), NEW C, JoinersStay(q, C), q # <<>>
    PROVE  JoinersStay(Tail(q), C)
<1> SUFFICES ASSUME NEW i \in DOMAIN Tail(q), Tail(q)[i].type = "joined",
                    C[Tail(q)[i].conn] # "in"
             PROVE  \E j \in DOMAIN Tail(q) :
                       j > i /\ Tail(q)[j].type = "left" /\ Tail(q)[j].conn = Tail(q)[i].conn
  BY DEF JoinersStay
<1>1. i \in Nat /\ i + 1 \in DOMAIN q /\ Tail(q)[i] = q[i + 1]
  BY Taken
<1>2. PICK j \in DOMAIN q : j > i + 1 /\ q[j].type = "left" /\ q[j].conn = q[i + 1].conn
  BY <1>1 DEF JoinersStay
<1>3. j \in Nat /\ j # 1 /\ j - 1 > i
  BY <1>1, <1>2, Taken
<1>4. j - 1 \in DOMAIN Tail(q) /\ Tail(q)[j - 1] = q[j]
  BY <1>3, Taken
<1> QED
  BY <1>1, <1>2, <1>3, <1>4

LEMMA JoinersOut ==
    ASSUME NEW q \in Seq(Event), NEW C, JoinersStay(q, C), NEW D, NEW e \in Event,
           e.type = "left",
           \A k \in Conns : C[k] = "in" => D[k] = "in" \/ k = e.conn
    PROVE  JoinersStay(Append(q, e), D)
<1> DEFINE r == Append(q, e)
<1> SUFFICES ASSUME NEW i \in DOMAIN r, r[i].type = "joined", D[r[i].conn] # "in"
             PROVE  \E j \in DOMAIN r :
                       j > i /\ r[j].type = "left" /\ r[j].conn = r[i].conn
  BY DEF JoinersStay
<1>1. /\ Len(q) \in Nat /\ DOMAIN q = 1 .. Len(q) /\ DOMAIN r = 1 .. (Len(q) + 1)
      /\ \A j \in DOMAIN q : r[j] = q[j]
      /\ r[Len(q) + 1] = e
  BY Appended
<1> HIDE DEF r
<1>2. i \in DOMAIN q /\ q[i] = r[i] /\ i < Len(q) + 1
  BY <1>1
<1>3. q[i].conn \in Conns
  BY <1>2, Webhooks
<1>4. CASE C[q[i].conn] = "in"
  BY <1>1, <1>2, <1>3, <1>4
<1>5. CASE C[q[i].conn] # "in"
  BY <1>1, <1>2, <1>5 DEF JoinersStay
<1> QED
  BY <1>4, <1>5

LEMMA JoinersKept ==
    ASSUME NEW q \in Seq(Event), NEW C, JoinersStay(q, C), NEW D,
           \A i \in DOMAIN q : C[q[i].conn] = "in" => D[q[i].conn] = "in"
    PROVE  JoinersStay(q, D)
BY DEF JoinersStay

LEMMA JoiningKept ==
    ASSUME TypeOK, Joining, UNCHANGED queue, existing' \subseteq existing,
           lost \subseteq lost',
           \A k \in Conns : conn[k] = "in" => conn'[k] = "in"
    PROVE  Joining'
<1> SUFFICES ASSUME NEW c \in existing' \ lost' PROVE JoinersStay(queue[c], conn')
  BY DEF Joining
<1>1. c \in Channels /\ queue[c] \in Seq(Event) /\ JoinersStay(queue[c], conn)
  BY DEF TypeOK, Joining
<1>2. \A i \in DOMAIN queue[c] : queue[c][i].conn \in Conns
  BY <1>1, Webhooks
<1> QED
  BY <1>1, <1>2, JoinersKept

LEMMA JoiningBy ==
    ASSUME TypeOK, Addressed, Joining, NEW b \in Channels, NEW r,
           queue' = [queue EXCEPT ![b] = r], existing' \subseteq existing,
           lost \subseteq lost', b \in existing' \ lost' => JoinersStay(r, conn'),
           \A k \in Conns : ChannelOf[k] # b /\ conn[k] = "in" => conn'[k] = "in"
    PROVE  Joining'
<1> SUFFICES ASSUME NEW c \in existing' \ lost' PROVE JoinersStay(queue'[c], conn')
  BY DEF Joining
<1>1. c \in Channels /\ queue[c] \in Seq(Event) /\ JoinersStay(queue[c], conn)
  BY DEF TypeOK, Joining
<1>2. CASE c = b
  BY <1>2 DEF TypeOK
<1>3. CASE c # b
  <2>1. queue'[c] = queue[c]
    BY <1>1, <1>3 DEF TypeOK
  <2>2. \A i \in DOMAIN queue[c] :
           queue[c][i].conn \in Conns /\ ChannelOf[queue[c][i].conn] # b
    BY <1>1, <1>3, Webhooks DEF Addressed, About
  <2> QED
    BY <1>1, <2>1, <2>2, JoinersKept
<1> QED
  BY <1>2, <1>3

\* Every step leaves whoever has joined in the room, or on his way out of it.
LEMMA JoiningStep == TypeOK /\ Addressed /\ Joining /\ [Next]_vars => Joining'
<1> SUFFICES ASSUME TypeOK, Addressed, Joining, [Next]_vars PROVE Joining'
  OBVIOUS
<1> USE VoiceAssumption
<1>a. \A c \in Channels : queue[c] \in Seq(Event)
  BY DEF TypeOK
<1>b. \A c \in existing \ lost : c \in Channels /\ JoinersStay(queue[c], conn)
  BY DEF TypeOK, Joining
<1>1. ASSUME NEW k \in Conns, Ask(k) PROVE Joining'
  BY <1>1, JoiningKept DEF Ask, History, TypeOK
<1>2. ASSUME NEW k \in Conns, AskForce(k) PROVE Joining'
  BY <1>2, JoiningKept DEF AskForce, History, TypeOK
<1>3. ASSUME NEW k \in Conns, ForceOne(k) PROVE Joining'
  <2>1. UNCHANGED <<queue, existing, lost>>
    BY <1>3 DEF ForceOne
  <2>2. \A d \in Conns : conn[d] = "in" => conn'[d] = "in"
    BY <1>3 DEF ForceOne, TypeOK
  <2> QED
    BY <2>1, <2>2, JoiningKept
<1>4. ASSUME NEW k \in Conns, ForceDone(k) PROVE Joining'
  BY <1>4, JoiningKept DEF ForceDone, History, TypeOK
<1>5. ASSUME NEW k \in Conns, Connect(k) PROVE Joining'
  <2> DEFINE c == ChannelOf[k]
  <2> DEFINE e == Webhook("joined", k, Present(c) = {})
  <2>1. e \in Event /\ e.conn = k
    BY JoinedHook
  <2>2. queue' = [queue EXCEPT ![c] = Append(queue[c], e)] /\ UNCHANGED <<existing, lost>>
    BY <1>5 DEF Connect, History
  <2>3. conn'[k] = "in" /\ \A d \in Conns : conn[d] = "in" => conn'[d] = "in"
    BY <1>5 DEF Connect, TypeOK
  <2> HIDE DEF c, e
  <2>4. c \in Channels
    BY DEF c
  <2>5. ASSUME c \in existing \ lost PROVE JoinersStay(Append(queue[c], e), conn')
    <3>1. \A i \in DOMAIN queue[c] : queue[c][i].conn \in Conns
      BY <1>a, <2>4, Webhooks
    <3>2. JoinersStay(queue[c], conn')
      <4>1. queue[c] \in Seq(Event) /\ JoinersStay(queue[c], conn)
        BY <1>a, <1>b, <2>4, <2>5
      <4>2. \A i \in DOMAIN queue[c] :
               conn[queue[c][i].conn] = "in" => conn'[queue[c][i].conn] = "in"
        BY <2>3, <3>1
      <4> QED
        BY <4>1, <4>2 DEF JoinersStay
    <3>3. queue[c] \in Seq(Event) /\ conn'[e.conn] = "in"
      BY <1>a, <2>1, <2>3, <2>4
    <3> QED
      BY <2>1, <3>2, <3>3, JoinersAppended
  <2> QED
    BY <2>2, <2>3, <2>4, <2>5, JoiningBy
<1>6. ASSUME NEW k \in Conns, Reconnect(k) PROVE Joining'
  <2> DEFINE c == ChannelOf[k]
  <2>1. PICK d \in Conns :
           /\ ChannelOf[d] = c
           /\ conn' = [conn EXCEPT ![d] = "out", ![k] = "in"]
           /\ queue' = [queue EXCEPT ![c] = @ \o <<Webhook("left", d, FALSE),
                           Webhook("joined", k, Present(c) = {d})>>]
    BY <1>6 DEF Reconnect, Present, ConnsIn
  <2> DEFINE e == Webhook("left", d, FALSE)
  <2> DEFINE f == Webhook("joined", k, Present(c) = {d})
  <2>4. e \in Event /\ e.conn = d /\ e.type = "left"
    BY LeftHook
  <2>5. f \in Event /\ f.conn = k /\ f.type = "joined"
    <3> DEFINE only == Present(c) = {d}
    <3>1. only \in BOOLEAN
      OBVIOUS
    <3> HIDE DEF only
    <3>2. /\ Webhook("joined", k, only) \in Event
          /\ Webhook("joined", k, only).conn = k
          /\ Webhook("joined", k, only).type = "joined"
      BY <3>1, Webhooks
    <3> QED
      BY <3>2 DEF only
  <2>2. /\ e \in Event /\ e.conn = d /\ e.type = "left"
        /\ f \in Event /\ f.conn = k /\ f.type = "joined"
    BY <2>4, <2>5
  <2>6. queue' = [queue EXCEPT ![c] = queue[c] \o <<e, f>>]
    BY <2>1
  <2>7. queue[c] \o <<e, f>> = Append(Append(queue[c], e), f)
    <3> HIDE DEF c, e, f
    <3>1. queue[c] \in Seq(Event)
      BY <1>a DEF c
    <3> QED
      BY <2>2, <3>1, Two
  <2>3. queue' = [queue EXCEPT ![c] = Append(Append(queue[c], e), f)]
    BY <2>6, <2>7
  <2>8. conn'[k] = "in" /\ \A x \in Conns : conn[x] = "in" => conn'[x] = "in" \/ x = d
    BY <2>1 DEF TypeOK
  <2>9. UNCHANGED <<existing, lost>>
    BY <1>6 DEF Reconnect, History
  <2> HIDE DEF e, f
  <2>10. ASSUME c \in existing \ lost
         PROVE  JoinersStay(Append(Append(queue[c], e), f), conn')
    <3>1. JoinersStay(Append(queue[c], e), conn')
      BY <1>a, <1>b, <2>2, <2>8, <2>10, JoinersOut
    <3> QED
      BY <1>a, <2>2, <2>8, <3>1, JoinersAppended, Appended
  <2> QED
    BY <2>1, <2>3, <2>8, <2>9, <2>10, JoiningBy
<1>7. ASSUME NEW k \in Conns, Leave(k) PROVE Joining'
  <2> DEFINE c == ChannelOf[k]
  <2> DEFINE e == Webhook("left", k, FALSE)
  <2>1. e \in Event /\ e.conn = k /\ e.type = "left"
    BY Webhooks
  <2>2. queue' = [queue EXCEPT ![c] = Append(queue[c], e)] /\ UNCHANGED <<existing, lost>>
    BY <1>7 DEF Leave, History
  <2>3. \A x \in Conns : conn[x] = "in" => conn'[x] = "in" \/ x = k
    BY <1>7 DEF Leave, TypeOK
  <2> HIDE DEF e
  <2>4. ASSUME c \in existing \ lost PROVE JoinersStay(Append(queue[c], e), conn')
    BY <1>a, <1>b, <2>1, <2>3, <2>4, JoinersOut
  <2> QED
    BY <2>2, <2>3, <2>4, JoiningBy
<1>8. ASSUME NEW k \in Conns, PublishTrack(k) PROVE Joining'
  <2> DEFINE c == ChannelOf[k]
  <2>1. PICK type \in {"track", "forbidden"} :
           queue' = [queue EXCEPT ![c] = Append(@, Webhook(type, k, FALSE))]
    BY <1>8 DEF PublishTrack
  <2> DEFINE e == Webhook(type, k, FALSE)
  <2>2. e \in Event /\ e.type # "joined"
    <3>1. CASE type = "track"
      BY <3>1, Webhooks
    <3>2. CASE type = "forbidden"
      BY <3>2, Webhooks
    <3> QED
      BY <3>1, <3>2
  <2>3. queue' = [queue EXCEPT ![c] = Append(queue[c], e)]
    BY <2>1
  <2>4. UNCHANGED <<conn, existing, lost>>
    BY <1>8 DEF PublishTrack, History
  <2> HIDE DEF e
  <2>5. ASSUME c \in existing \ lost PROVE JoinersStay(Append(queue[c], e), conn)
    BY <1>a, <1>b, <2>2, <2>5, JoinersAppended
  <2> QED
    BY <2>3, <2>4, <2>5, JoiningBy
<1>9. ASSUME NEW c \in Channels, Refuse(c) PROVE Joining'
  <2>1. queue[c] # <<>> /\ queue' = [queue EXCEPT ![c] = Tail(queue[c])]
    BY <1>9 DEF Refuse, Dequeue, Arrives
  <2>2. UNCHANGED <<conn, existing, lost>>
    BY <1>9 DEF Refuse, History
  <2>3. ASSUME c \in existing \ lost PROVE JoinersStay(Tail(queue[c]), conn)
    BY <1>a, <1>b, <2>1, <2>3, JoinersTaken
  <2> QED
    BY <2>1, <2>2, <2>3, JoiningBy
<1>10. ASSUME NEW c \in Channels, Joined(c) PROVE Joining'
  BY <1>10, JoiningKept DEF Joined
<1>11. ASSUME NEW c \in Channels, CallStarts(c) PROVE Joining'
  <2>1. queue[c] # <<>> /\ queue' = [queue EXCEPT ![c] = Tail(queue[c])]
    BY <1>11 DEF CallStarts, Dequeue, Arrives
  <2>2. UNCHANGED <<conn, existing, lost>>
    BY <1>11 DEF CallStarts, History
  <2>3. ASSUME c \in existing \ lost PROVE JoinersStay(Tail(queue[c]), conn)
    BY <1>a, <1>b, <2>1, <2>3, JoinersTaken
  <2> QED
    BY <2>1, <2>2, <2>3, JoiningBy
<1>12. ASSUME NEW c \in Channels, Left(c) PROVE Joining'
  BY <1>12, JoiningKept DEF Left
<1>13. ASSUME NEW c \in Channels, CallEnds(c) PROVE Joining'
  <2>1. queue[c] # <<>> /\ queue' = [queue EXCEPT ![c] = Tail(queue[c])]
    BY <1>13 DEF CallEnds, Dequeue, Arrives
  <2>2. UNCHANGED <<conn, existing, lost>>
    BY <1>13 DEF CallEnds, History
  <2>3. ASSUME c \in existing \ lost PROVE JoinersStay(Tail(queue[c]), conn)
    BY <1>a, <1>b, <2>1, <2>3, JoinersTaken
  <2> QED
    BY <2>1, <2>2, <2>3, JoiningBy
<1>14. ASSUME NEW c \in Channels, Track(c) PROVE Joining'
  <2>1. queue[c] # <<>> /\ queue' = [queue EXCEPT ![c] = Tail(queue[c])]
    BY <1>14 DEF Track, Dequeue, Arrives
  <2>2. UNCHANGED <<conn, existing, lost>>
    BY <1>14 DEF Track, History
  <2>3. ASSUME c \in existing \ lost PROVE JoinersStay(Tail(queue[c]), conn)
    BY <1>a, <1>b, <2>1, <2>3, JoinersTaken
  <2> QED
    BY <2>1, <2>2, <2>3, JoiningBy
<1>15. ASSUME NEW c \in Channels, Forbidden(c) PROVE Joining'
  <2>1. queue[c] # <<>> /\ UNCHANGED <<existing, lost>>
    BY <1>15 DEF Forbidden, Arrives, History
  <2>2. CASE queue' = [queue EXCEPT ![c] = Tail(queue[c])] /\ UNCHANGED conn
    <3>1. ASSUME c \in existing \ lost PROVE JoinersStay(Tail(queue[c]), conn)
      BY <1>a, <1>b, <2>1, <3>1, JoinersTaken
    <3> QED
      BY <2>1, <2>2, <3>1, JoiningBy
  <2>3. ASSUME NEW d \in Conns, ChannelOf[d] = c, conn' = [conn EXCEPT ![d] = "out"],
               queue' = [queue EXCEPT ![c] = Append(Tail(@), Webhook("left", d, FALSE))]
        PROVE  Joining'
    <3> DEFINE e == Webhook("left", d, FALSE)
    <3>1. e \in Event /\ e.conn = d /\ e.type = "left"
      BY LeftHook
    <3>2. queue' = [queue EXCEPT ![c] = Append(Tail(queue[c]), e)]
      BY <2>3
    <3>3. \A x \in Conns : conn[x] = "in" => conn'[x] = "in" \/ x = d
      BY <2>3 DEF TypeOK
    <3> HIDE DEF e
    <3>4. ASSUME c \in existing \ lost PROVE JoinersStay(Append(Tail(queue[c]), e), conn')
      <4>1. JoinersStay(Tail(queue[c]), conn) /\ Tail(queue[c]) \in Seq(Event)
        BY <1>a, <1>b, <2>1, <3>4, JoinersTaken, Taken
      <4>2. \A x \in Conns : conn[x] = "in" => conn'[x] = "in" \/ x = e.conn
        BY <3>1, <3>3
      <4> DEFINE q == Tail(queue[c])
      <4> HIDE DEF q
      <4>3. q \in Seq(Event) /\ JoinersStay(q, conn)
        BY <4>1 DEF q
      <4>4. JoinersStay(Append(q, e), conn')
        BY <3>1, <4>2, <4>3, JoinersOut
      <4> QED
        BY <4>4 DEF q
    <3>5. \A x \in Conns : ChannelOf[x] # c /\ conn[x] = "in" => conn'[x] = "in"
      BY <2>3, <3>3
    <3> QED
      BY <2>1, <3>2, <3>4, <3>5, JoiningBy
  <2> QED
    BY <1>15, <2>2, <2>3 DEF Forbidden, Dequeue, Present, ConnsIn
<1>16. ASSUME NEW c \in Channels, Lose(c) PROVE Joining'
  <2>1. queue' = [queue EXCEPT ![c] = Tail(queue[c])] /\ UNCHANGED <<conn, existing>>
    BY <1>16 DEF Lose, Dequeue
  <2>2. lost' = lost \cup {c}
    BY <1>16 DEF Lose
  <2> QED
    BY <2>1, <2>2, JoiningBy
<1>17. ASSUME NEW c \in Channels, Retry(c) PROVE Joining'
  BY <1>17, JoiningKept DEF Retry, History
<1>18. ASSUME NEW c \in Channels, DeleteChannel(c) PROVE Joining'
  BY <1>18, JoiningKept DEF DeleteChannel, LiveKit, History, Counted
<1>19. ASSUME NEW u \in Users, Kick(u) PROVE Joining'
  BY <1>19, JoiningKept DEF Kick, LiveKit, History
<1>20. ASSUME NEW u \in Users, KickDeletes(u) PROVE Joining'
  BY <1>20, JoiningKept DEF KickDeletes, LiveKit, History
<1>21. ASSUME NEW u \in Users, NEW c \in Channels, FindStateless(u, c)
     PROVE  Joining'
  BY <1>21, JoiningKept DEF FindStateless, LiveKit, History
<1>22. ASSUME NEW u \in Users, NEW c \in Channels, Heal(u, c)
     PROVE  Joining'
  BY <1>22, JoiningKept DEF Heal, LiveKit, History
<1>23. CASE UNCHANGED vars
  BY <1>23, JoiningKept DEF vars
<1> QED
  BY <1>1, <1>2, <1>3, <1>4, <1>5, <1>6, <1>7, <1>8, <1>9, <1>10, <1>11, <1>12,
     <1>13, <1>14, <1>15, <1>16, <1>17, <1>18, <1>19, <1>20, <1>21, <1>22, <1>23
     DEF Next, Client, Ingress

\* Connection k accounts for the record of its user, if there is one.
Held(k) == conn[k] = "in" \/ Leaving(k) \/ <<UserOf[k], ChannelOf[k]>> \notin members

\* How the end of a connection stays in the queue, and gets into it.
LEMMA HeldKept ==
    ASSUME NEW k \in Conns, conn[k] = "in" \/ Leaving(k), UNCHANGED queue,
           conn[k] = "in" => conn'[k] = "in",
           \A c \in Channels : handled'[c] => handled[c]
    PROVE  Held(k)'
BY VoiceAssumption DEF Held, Leaving

\* The queue of no room but c changes.
Elsewhere(c) ==
    \A b \in Channels : b # c => queue'[b] = queue[b] /\ handled'[b] = handled[b]

LEMMA HeldElsewhere ==
    ASSUME NEW k \in Conns, conn[k] = "in" \/ Leaving(k), NEW c \in Channels,
           ChannelOf[k] # c, Elsewhere(c), conn[k] = "in" => conn'[k] = "in"
    PROVE  Held(k)'
<1>1. ChannelOf[k] \in Channels
  BY VoiceAssumption
<1> QED
  BY <1>1 DEF Held, Leaving, Elsewhere

LEMMA HeldGrows ==
    ASSUME NEW k \in Conns, conn[k] = "in" \/ Leaving(k), NEW c \in Channels,
           Elsewhere(c), handled'[c] = handled[c],
           \A i \in DOMAIN queue[c] : i \in DOMAIN queue'[c] /\ queue'[c][i] = queue[c][i],
           conn[k] = "in" => conn'[k] = "in"
    PROVE  Held(k)'
<1>1. CASE ChannelOf[k] # c
  BY <1>1, HeldElsewhere
<1>2. CASE ChannelOf[k] = c
  BY <1>2 DEF Held, Leaving
<1> QED
  BY <1>1, <1>2

LEMMA HeldShifts ==
    ASSUME NEW k \in Conns, conn[k] = "in" \/ Leaving(k), NEW c \in Channels,
           Elsewhere(c), ~handled'[c],
           \A i \in DOMAIN queue[c] :
               i # 1 => \E j \in DOMAIN queue'[c] : queue'[c][j] = queue[c][i],
           handled[c] \/ queue[c][1].type # "left",
           conn[k] = "in" => conn'[k] = "in"
    PROVE  Held(k)'
<1>1. CASE ChannelOf[k] # c
  BY <1>1, HeldElsewhere
<1>2. CASE ChannelOf[k] = c /\ Leaving(k)
  <2>1. PICK i \in DOMAIN queue[c] :
           queue[c][i].type = "left" /\ queue[c][i].conn = k /\ (i = 1 => ~handled[c])
    BY <1>2 DEF Leaving
  <2>2. PICK j \in DOMAIN queue'[c] : queue'[c][j] = queue[c][i]
    BY <2>1
  <2> QED
    BY <1>2, <2>1, <2>2 DEF Held, Leaving
<1>3. CASE conn[k] = "in"
  BY <1>3 DEF Held
<1> QED
  BY <1>1, <1>2, <1>3

LEMMA HeldOut ==
    ASSUME NEW k \in Conns, NEW i \in DOMAIN queue'[ChannelOf[k]],
           queue'[ChannelOf[k]][i].type = "left", queue'[ChannelOf[k]][i].conn = k,
           i = 1 => ~handled'[ChannelOf[k]]
    PROVE  Held(k)'
BY DEF Held, Leaving

\* Every step leaves whoever is in a room, or on his way out of it, so, or off the record.
LEMMA HeldStep ==
    ASSUME TypeOK, Handling, [Next]_vars, NEW x \in Conns, conn[x] = "in" \/ Leaving(x),
           ChannelOf[x] \in existing \ lost'
    PROVE  Held(x)'
<1> USE VoiceAssumption
<1>a. \A c \in Channels : queue[c] \in Seq(Event)
  BY DEF TypeOK
<1>1. ASSUME NEW k \in Conns, Ask(k) PROVE Held(x)'
  <2>1. UNCHANGED <<queue, handled>> /\ (conn[x] = "in" => conn'[x] = "in")
    BY <1>1 DEF Ask, TypeOK
  <2> QED
    BY <2>1, HeldKept
<1>2. ASSUME NEW k \in Conns, AskForce(k) PROVE Held(x)'
  <2>1. UNCHANGED <<queue, handled>> /\ (conn[x] = "in" => conn'[x] = "in")
    BY <1>2 DEF AskForce, TypeOK
  <2> QED
    BY <2>1, HeldKept
<1>3. ASSUME NEW k \in Conns, ForceOne(k) PROVE Held(x)'
  <2>1. UNCHANGED <<queue, handled>> /\ (conn[x] = "in" => conn'[x] = "in")
    BY <1>3 DEF ForceOne, TypeOK
  <2> QED
    BY <2>1, HeldKept
<1>4. ASSUME NEW k \in Conns, ForceDone(k) PROVE Held(x)'
  <2>1. UNCHANGED <<queue, handled>> /\ (conn[x] = "in" => conn'[x] = "in")
    BY <1>4 DEF ForceDone, TypeOK
  <2> QED
    BY <2>1, HeldKept
<1>5. ASSUME NEW k \in Conns, Connect(k) PROVE Held(x)'
  <2> DEFINE c == ChannelOf[k]
  <2> DEFINE e == Webhook("joined", k, Present(c) = {})
  <2>1. e \in Event
    BY Webhooks
  <2>2. queue' = [queue EXCEPT ![c] = Append(queue[c], e)] /\ UNCHANGED handled
        /\ (conn[x] = "in" => conn'[x] = "in")
    BY <1>5 DEF Connect, TypeOK
  <2> HIDE DEF e
  <2>3. \A i \in DOMAIN queue[c] :
           i \in DOMAIN Append(queue[c], e) /\ Append(queue[c], e)[i] = queue[c][i]
    BY <1>a, <2>1, Appended
  <2>4. Elsewhere(c) /\ queue'[c] = Append(queue[c], e)
    BY <2>2 DEF Elsewhere, TypeOK
  <2> HIDE DEF c
  <2>5. c \in Channels
    BY DEF c
  <2> QED
    BY <2>2, <2>3, <2>4, <2>5, HeldGrows
<1>6. ASSUME NEW k \in Conns, Reconnect(k) PROVE Held(x)'
  <2> DEFINE c == ChannelOf[k]
  <2>1. PICK d \in Conns :
           /\ ChannelOf[d] = c
           /\ conn' = [conn EXCEPT ![d] = "out", ![k] = "in"]
           /\ queue' = [queue EXCEPT ![c] = @ \o <<Webhook("left", d, FALSE),
                           Webhook("joined", k, Present(c) = {d})>>]
    BY <1>6 DEF Reconnect, Present, ConnsIn
  <2> DEFINE e == Webhook("left", d, FALSE)
  <2> DEFINE f == Webhook("joined", k, Present(c) = {d})
  <2>4. e \in Event /\ e.conn = d /\ e.type = "left"
    BY LeftHook
  <2>5. f \in Event /\ f.conn = k /\ f.type = "joined"
    <3> DEFINE only == Present(c) = {d}
    <3>1. only \in BOOLEAN
      OBVIOUS
    <3> HIDE DEF only
    <3>2. /\ Webhook("joined", k, only) \in Event
          /\ Webhook("joined", k, only).conn = k
          /\ Webhook("joined", k, only).type = "joined"
      BY <3>1, Webhooks
    <3> QED
      BY <3>2 DEF only
  <2>2. /\ e \in Event /\ e.conn = d /\ e.type = "left"
        /\ f \in Event /\ f.conn = k /\ f.type = "joined"
    BY <2>4, <2>5
  <2>6. queue' = [queue EXCEPT ![c] = queue[c] \o <<e, f>>]
    BY <2>1
  <2>7. queue[c] \o <<e, f>> = Append(Append(queue[c], e), f)
    <3> HIDE DEF c, e, f
    <3>1. queue[c] \in Seq(Event)
      BY <1>a DEF c
    <3> QED
      BY <2>2, <3>1, Two
  <2>3. queue' = [queue EXCEPT ![c] = Append(Append(queue[c], e), f)]
    BY <2>6, <2>7
  <2>8. UNCHANGED handled /\ (conn[x] = "in" => conn'[x] = "in" \/ x = d)
    BY <1>6, <2>1 DEF Reconnect, TypeOK
  <2> DEFINE r == Append(Append(queue[c], e), f)
  <2> HIDE DEF e, f
  <2>9. /\ \A i \in DOMAIN queue[c] : i \in DOMAIN r /\ r[i] = queue[c][i]
        /\ Len(queue[c]) + 1 \in DOMAIN r /\ r[Len(queue[c]) + 1] = e
    <3>1. queue[c] \in Seq(Event) /\ Append(queue[c], e) \in Seq(Event)
      BY <1>a, <2>2, Appended
    <3>2. Len(Append(queue[c], e)) = Len(queue[c]) + 1
      BY <3>1
    <3> QED
      BY <2>2, <3>1, <3>2, Appended
  <2>10. Len(queue[c]) + 1 = 1 => ~handled'[c]
    <3>1. Len(queue[c]) = 0 => queue[c] = <<>>
      BY <1>a
    <3>2. Len(queue[c]) \in Nat
      BY <1>a
    <3> QED
      BY <2>8, <3>1, <3>2 DEF Handling
  <2>11. Elsewhere(c) /\ queue'[c] = r
    BY <2>3, <2>8 DEF Elsewhere, TypeOK
  <2> HIDE DEF r
  <2>12. CASE x = d
    <3> DEFINE i == Len(queue[c]) + 1
    <3>1. i \in DOMAIN queue'[c] /\ queue'[c][i] = e /\ (i = 1 => ~handled'[c])
      BY <2>9, <2>10, <2>11
    <3> HIDE DEF i
    <3>2. ChannelOf[x] = c /\ e.type = "left" /\ e.conn = x
      BY <2>1, <2>2, <2>12
    <3> QED
      BY <3>1, <3>2, HeldOut
  <2>13. CASE x # d
    BY <2>8, <2>9, <2>11, <2>13, HeldGrows
  <2> QED
    BY <2>12, <2>13
<1>7. ASSUME NEW k \in Conns, Leave(k) PROVE Held(x)'
  <2> DEFINE c == ChannelOf[k]
  <2> DEFINE e == Webhook("left", k, FALSE)
  <2>1. e \in Event /\ e.conn = k /\ e.type = "left"
    BY Webhooks
  <2>2. queue' = [queue EXCEPT ![c] = Append(queue[c], e)] /\ UNCHANGED handled
        /\ (conn[x] = "in" => conn'[x] = "in" \/ x = k)
    BY <1>7 DEF Leave, TypeOK
  <2> DEFINE r == Append(queue[c], e)
  <2> HIDE DEF e
  <2>3. /\ \A i \in DOMAIN queue[c] : i \in DOMAIN r /\ r[i] = queue[c][i]
        /\ Len(queue[c]) + 1 \in DOMAIN r /\ r[Len(queue[c]) + 1] = e
    BY <1>a, <2>1, Appended
  <2>4. Len(queue[c]) + 1 = 1 => ~handled'[c]
    <3>1. Len(queue[c]) = 0 => queue[c] = <<>>
      BY <1>a
    <3>2. Len(queue[c]) \in Nat
      BY <1>a
    <3> QED
      BY <2>2, <3>1, <3>2 DEF Handling
  <2>5. Elsewhere(c) /\ queue'[c] = r
    BY <2>2 DEF Elsewhere, TypeOK
  <2> HIDE DEF r
  <2>6. CASE x = k
    BY <2>1, <2>3, <2>4, <2>5, <2>6, HeldOut
  <2>7. CASE x # k
    BY <2>2, <2>3, <2>5, <2>7, HeldGrows
  <2> QED
    BY <2>6, <2>7
<1>8. ASSUME NEW k \in Conns, PublishTrack(k) PROVE Held(x)'
  <2> DEFINE c == ChannelOf[k]
  <2>1. PICK type \in {"track", "forbidden"} :
           queue' = [queue EXCEPT ![c] = Append(@, Webhook(type, k, FALSE))]
    BY <1>8 DEF PublishTrack
  <2> DEFINE e == Webhook(type, k, FALSE)
  <2>2. e \in Event
    <3>1. CASE type = "track"
      BY <3>1, Webhooks
    <3>2. CASE type = "forbidden"
      BY <3>2, Webhooks
    <3> QED
      BY <3>1, <3>2
  <2>3. queue' = [queue EXCEPT ![c] = Append(queue[c], e)] /\ UNCHANGED <<conn, handled>>
    BY <1>8, <2>1 DEF PublishTrack
  <2> HIDE DEF e
  <2>4. \A i \in DOMAIN queue[c] :
           i \in DOMAIN Append(queue[c], e) /\ Append(queue[c], e)[i] = queue[c][i]
    BY <1>a, <2>2, Appended
  <2>5. Elsewhere(c) /\ queue'[c] = Append(queue[c], e)
    BY <2>3 DEF Elsewhere, TypeOK
  <2> QED
    BY <2>3, <2>4, <2>5, HeldGrows
<1>9. ASSUME NEW c \in Channels, Refuse(c) PROVE Held(x)'
  <2>1. ChannelOf[x] # c /\ UNCHANGED <<conn, handled>>
    BY <1>9 DEF Refuse
  <2>2. Elsewhere(c)
    BY <1>9 DEF Refuse, Dequeue, Elsewhere, TypeOK
  <2> QED
    BY <2>1, <2>2, HeldElsewhere
<1>10. ASSUME NEW c \in Channels, Joined(c) PROVE Held(x)'
  <2>1. UNCHANGED <<conn, queue>> /\ queue[c] # <<>>
    BY <1>10 DEF Joined, Arrives
  <2>2. queue[c][1].type = "joined" /\ \A b \in Channels : b # c => handled'[b] = handled[b]
    BY <1>10, <2>1, HeadOfQueue DEF Joined, Arrives, TypeOK
  <2> QED
    BY <2>1, <2>2 DEF Held, Leaving
<1>11. ASSUME NEW c \in Channels, CallStarts(c) PROVE Held(x)'
  <2>1. queue[c] # <<>> /\ queue'[c] = Tail(queue[c]) /\ handled[c]
    BY <1>11 DEF CallStarts, Dequeue, TypeOK
  <2>2. ~handled'[c] /\ UNCHANGED conn /\ Elsewhere(c)
    BY <1>11 DEF CallStarts, Dequeue, Elsewhere, TypeOK
  <2>3. \A i \in DOMAIN queue[c] :
           i # 1 => \E j \in DOMAIN Tail(queue[c]) : Tail(queue[c])[j] = queue[c][i]
    BY <1>a, <2>1, Taken
  <2> QED
    BY <2>1, <2>2, <2>3, HeldShifts
<1>12. ASSUME NEW c \in Channels, Left(c) PROVE Held(x)'
  <2>1. UNCHANGED <<conn, queue>> /\ queue[c] # <<>>
    BY <1>12 DEF Left, Arrives
  <2>2. \A b \in Channels : b # c => handled'[b] = handled[b]
    BY <1>12 DEF Left, TypeOK
  <2>3. <<UserOf[queue[c][1].conn], c>> \notin members'
    BY <1>12, <2>1, HeadOfQueue DEF Left, DeleteState
  <2> QED
    BY <2>1, <2>2, <2>3 DEF Held, Leaving
<1>13. ASSUME NEW c \in Channels, CallEnds(c) PROVE Held(x)'
  <2>1. queue[c] # <<>> /\ queue'[c] = Tail(queue[c]) /\ handled[c]
    BY <1>13 DEF CallEnds, Dequeue, TypeOK
  <2>2. ~handled'[c] /\ UNCHANGED conn /\ Elsewhere(c)
    BY <1>13 DEF CallEnds, Dequeue, Elsewhere, TypeOK
  <2>3. \A i \in DOMAIN queue[c] :
           i # 1 => \E j \in DOMAIN Tail(queue[c]) : Tail(queue[c])[j] = queue[c][i]
    BY <1>a, <2>1, Taken
  <2> QED
    BY <2>1, <2>2, <2>3, HeldShifts
<1>14. ASSUME NEW c \in Channels, Track(c) PROVE Held(x)'
  <2>1. queue[c] # <<>> /\ queue'[c] = Tail(queue[c]) /\ Elsewhere(c)
    BY <1>14 DEF Track, Arrives, Dequeue, Elsewhere, TypeOK
  <2>2. ~handled'[c] /\ UNCHANGED <<conn, handled>> /\ queue[c][1].type # "left"
    BY <1>14, <2>1, HeadOfQueue DEF Track, Arrives
  <2>3. \A i \in DOMAIN queue[c] :
           i # 1 => \E j \in DOMAIN Tail(queue[c]) : Tail(queue[c])[j] = queue[c][i]
    BY <1>a, <2>1, Taken
  <2> QED
    BY <2>1, <2>2, <2>3, HeldShifts
<1>15. ASSUME NEW c \in Channels, Forbidden(c) PROVE Held(x)'
  <2>1. queue[c] # <<>> /\ ~handled[c] /\ UNCHANGED handled /\ queue[c][1].type # "left"
    BY <1>15, HeadOfQueue DEF Forbidden, Arrives
  <2>2. CASE queue' = [queue EXCEPT ![c] = Tail(queue[c])] /\ UNCHANGED conn
    <3>2. Elsewhere(c) /\ queue'[c] = Tail(queue[c])
      BY <2>1, <2>2 DEF Elsewhere, TypeOK
    <3>1. \A i \in DOMAIN queue[c] :
             i # 1 => \E j \in DOMAIN Tail(queue[c]) : Tail(queue[c])[j] = queue[c][i]
      BY <1>a, <2>1, Taken
    <3> QED
      BY <2>1, <2>2, <3>1, <3>2, HeldShifts
  <2>3. ASSUME NEW d \in Conns, ChannelOf[d] = c, conn' = [conn EXCEPT ![d] = "out"],
               queue' = [queue EXCEPT ![c] = Append(Tail(@), Webhook("left", d, FALSE))]
        PROVE  Held(x)'
    <3> DEFINE e == Webhook("left", d, FALSE)
    <3> DEFINE q == Tail(queue[c])
    <3> DEFINE r == Append(q, e)
    <3>1. e \in Event /\ e.conn = d /\ e.type = "left"
      BY LeftHook
    <3>2. /\ Elsewhere(c) /\ queue'[c] = r
          /\ conn[x] = "in" => conn'[x] = "in" \/ x = d
      BY <2>1, <2>3 DEF Elsewhere, TypeOK
    <3>3. /\ q \in Seq(Event)
          /\ \A i \in DOMAIN queue[c] :
                i # 1 => i - 1 \in DOMAIN q /\ q[i - 1] = queue[c][i]
      BY <1>a, <2>1, Taken
    <3> HIDE DEF e, q
    <3>4. /\ \A i \in DOMAIN q : i \in DOMAIN r /\ r[i] = q[i]
          /\ Len(q) + 1 \in DOMAIN r /\ r[Len(q) + 1] = e
      BY <3>1, <3>3, Appended
    <3> HIDE DEF r
    <3>5. CASE x = d
      <4> DEFINE i == Len(q) + 1
      <4>1. i \in DOMAIN queue'[c] /\ queue'[c][i] = e
        BY <3>2, <3>4
      <4>2. i = 1 => ~handled'[c]
        BY <2>1
      <4> HIDE DEF i
      <4> QED
        BY <2>3, <3>1, <3>5, <4>1, <4>2, HeldOut
    <3>6. CASE x # d
      <4>1. \A i \in DOMAIN queue[c] : i # 1 => \E j \in DOMAIN r : r[j] = queue[c][i]
        BY <3>3, <3>4
      <4> QED
        BY <2>1, <3>2, <3>6, <4>1, HeldShifts
    <3> QED
      BY <3>5, <3>6
  <2> QED
    BY <1>15, <2>2, <2>3 DEF Forbidden, Dequeue, Present, ConnsIn
<1>16. ASSUME NEW c \in Channels, Lose(c) PROVE Held(x)'
  <2>1. ChannelOf[x] # c /\ UNCHANGED conn
    BY <1>16 DEF Lose
  <2>2. Elsewhere(c)
    BY <1>16 DEF Lose, Dequeue, Elsewhere, TypeOK
  <2> QED
    BY <2>1, <2>2, HeldElsewhere
<1>17. ASSUME NEW c \in Channels, Retry(c) PROVE Held(x)'
  <2>1. UNCHANGED <<conn, queue>> /\ \A b \in Channels : handled'[b] => handled[b]
    BY <1>17 DEF Retry, TypeOK
  <2> QED
    BY <2>1, HeldKept
<1>18. ASSUME NEW c \in Channels, DeleteChannel(c) PROVE Held(x)'
  BY <1>18, HeldKept DEF DeleteChannel, LiveKit
<1>19. ASSUME NEW u \in Users, Kick(u) PROVE Held(x)'
  BY <1>19, HeldKept DEF Kick, LiveKit
<1>20. ASSUME NEW u \in Users, KickDeletes(u) PROVE Held(x)'
  BY <1>20, HeldKept DEF KickDeletes, LiveKit
<1>21. ASSUME NEW u \in Users, NEW c \in Channels, FindStateless(u, c)
     PROVE  Held(x)'
  BY <1>21, HeldKept DEF FindStateless, LiveKit
<1>22. ASSUME NEW u \in Users, NEW c \in Channels, Heal(u, c)
     PROVE  Held(x)'
  BY <1>22, HeldKept DEF Heal, LiveKit
<1>23. CASE UNCHANGED vars
  BY <1>23, HeldKept DEF vars
<1> QED
  BY <1>1, <1>2, <1>3, <1>4, <1>5, <1>6, <1>7, <1>8, <1>9, <1>10, <1>11, <1>12,
     <1>13, <1>14, <1>15, <1>16, <1>17, <1>18, <1>19, <1>20, <1>21, <1>22, <1>23
     DEF Next, Client, Ingress

\* Nobody but who joins is put on record; channels do not come back, and lost webhooks
\* stay lost.
Recorded ==
    /\ \A s \in members' \ members :
          \E c \in Channels : Joined(c) /\ s = <<UserOf[Head(queue[c]).conn], c>>
    /\ existing' \subseteq existing
    /\ lost \subseteq lost'

LEMMA RecordStep == ASSUME TypeOK, [Next]_vars PROVE Recorded
<1>1. ASSUME NEW k \in Conns, Ask(k) PROVE Recorded
  BY <1>1 DEF Recorded, Ask, Record, History
<1>2. ASSUME NEW k \in Conns, AskForce(k) PROVE Recorded
  BY <1>2 DEF Recorded, AskForce, Record, History
<1>3. ASSUME NEW k \in Conns, ForceOne(k) PROVE Recorded
  BY <1>3 DEF Recorded, ForceOne, DeleteState, Record, History
<1>4. ASSUME NEW k \in Conns, ForceDone(k) PROVE Recorded
  BY <1>4 DEF Recorded, ForceDone, Record, History
<1>5. ASSUME NEW k \in Conns, Connect(k) PROVE Recorded
  BY <1>5 DEF Recorded, Connect, Record, History
<1>6. ASSUME NEW k \in Conns, Reconnect(k) PROVE Recorded
  BY <1>6 DEF Recorded, Reconnect, Record, History
<1>7. ASSUME NEW k \in Conns, Leave(k) PROVE Recorded
  BY <1>7 DEF Recorded, Leave, Record, History
<1>8. ASSUME NEW k \in Conns, PublishTrack(k) PROVE Recorded
  BY <1>8 DEF Recorded, PublishTrack, Record, History
<1>9. ASSUME NEW c \in Channels, Refuse(c) PROVE Recorded
  BY <1>9 DEF Recorded, Refuse, Record, History
<1>10. ASSUME NEW c \in Channels, Joined(c) PROVE Recorded
  BY <1>10 DEF Recorded, Joined, CreateState, Record, History
<1>11. ASSUME NEW c \in Channels, CallStarts(c) PROVE Recorded
  BY <1>11 DEF Recorded, CallStarts, Record, History
<1>12. ASSUME NEW c \in Channels, Left(c) PROVE Recorded
  BY <1>12 DEF Recorded, Left, DeleteState, Record, History
<1>13. ASSUME NEW c \in Channels, CallEnds(c) PROVE Recorded
  BY <1>13 DEF Recorded, CallEnds, Record, History
<1>14. ASSUME NEW c \in Channels, Track(c) PROVE Recorded
  BY <1>14 DEF Recorded, Track, Record, History
<1>15. ASSUME NEW c \in Channels, Forbidden(c) PROVE Recorded
  BY <1>15 DEF Recorded, Forbidden, DeleteState, Record, History
<1>16. ASSUME NEW c \in Channels, Lose(c) PROVE Recorded
  BY <1>16 DEF Recorded, Lose, Record, History
<1>17. ASSUME NEW c \in Channels, Retry(c) PROVE Recorded
  BY <1>17 DEF Recorded, Retry, Record, History
<1>18. ASSUME NEW c \in Channels, DeleteChannel(c) PROVE Recorded
  BY <1>18 DEF Recorded, DeleteChannel, Record, History
<1>19. ASSUME NEW u \in Users, Kick(u) PROVE Recorded
  BY <1>19 DEF Recorded, Kick, Record, History
<1>20. ASSUME NEW u \in Users, KickDeletes(u) PROVE Recorded
  BY <1>20 DEF Recorded, KickDeletes, DeleteState, Record, History
<1>21. ASSUME NEW u \in Users, NEW c \in Channels, FindStateless(u, c)
     PROVE  Recorded
  BY <1>21 DEF Recorded, FindStateless, Record, History
<1>22. ASSUME NEW u \in Users, NEW c \in Channels, Heal(u, c)
     PROVE  Recorded
  BY <1>22 DEF Recorded, Heal, DeleteState, Record, History
<1>23. CASE UNCHANGED vars
  BY <1>23 DEF Recorded, vars, Record, History
<1> QED
  BY <1>1, <1>2, <1>3, <1>4, <1>5, <1>6, <1>7, <1>8, <1>9, <1>10, <1>11, <1>12,
     <1>13, <1>14, <1>15, <1>16, <1>17, <1>18, <1>19, <1>20, <1>21, <1>22, <1>23
     DEF Next, Client, Ingress

\* Every step leaves nobody on record but who is in the room, or on his way out of it.
LEMMA NoGhostStep ==
    TypeOK /\ Addressed /\ Joining /\ Handling /\ NoGhost /\ [Next]_vars => NoGhost'
<1> SUFFICES ASSUME TypeOK, Addressed, Joining, Handling, NoGhost, [Next]_vars,
                    NEW u \in Users, NEW c \in existing' \ lost', <<u, c>> \in members'
             PROVE  \E k \in ConnsOf(u) \cap ConnsIn(c) : conn'[k] = "in" \/ Leaving(k)'
  BY DEF NoGhost
<1>1. c \in existing \ lost' /\ c \in existing \ lost /\ c \in Channels
  BY RecordStep DEF Recorded, TypeOK
<1>2. CASE <<u, c>> \in members
  <2>1. PICK k \in ConnsOf(u) \cap ConnsIn(c) : conn[k] = "in" \/ Leaving(k)
    BY <1>1, <1>2 DEF NoGhost
  <2>2. k \in Conns /\ UserOf[k] = u /\ ChannelOf[k] = c
    BY DEF ConnsOf, ConnsIn
  <2>3. Held(k)'
    BY <1>1, <2>1, <2>2, HeldStep
  <2> QED
    BY <2>2, <2>3 DEF Held
<1>3. CASE <<u, c>> \notin members
  <2>1. Joined(c) /\ u = UserOf[Head(queue[c]).conn]
    BY <1>3, RecordStep DEF Recorded
  <2>2. queue[c] # <<>> /\ Head(queue[c]).type = "joined" /\ UNCHANGED <<conn, queue>>
    BY <2>1 DEF Joined, Arrives
  <2>3. PICK k \in Conns : k = Head(queue[c]).conn
    BY <1>1, <2>2, HeadOfQueue
  <2>4. 1 \in DOMAIN queue[c] /\ Head(queue[c]) = queue[c][1]
    BY <1>1, <2>2, HeadOfQueue
  <2>5. \/ conn[k] = "in"
        \/ \E j \in DOMAIN queue[c] : j > 1 /\ queue[c][j].type = "left" /\ queue[c][j].conn = k
    BY <1>1, <2>2, <2>3, <2>4 DEF Joining, JoinersStay
  <2>6. ChannelOf[k] = c
    BY <1>1, <2>3, <2>4 DEF Addressed, About
  <2>7. conn'[k] = "in" \/ Leaving(k)'
    BY <2>2, <2>5, <2>6 DEF Leaving
  <2>8. k \in ConnsOf(u) \cap ConnsIn(c)
    BY <2>1, <2>3, <2>6 DEF ConnsOf, ConnsIn
  <2> QED
    BY <2>7, <2>8
<1> QED
  BY <1>2, <1>3

\* The invariant is inductive, and holds of every state.
LEMMA InvStep == IInv /\ [Next]_vars => IInv'
BY TypeStep, AddressedStep, JoiningStep, HandlingStep, NoGhostStep DEF IInv

LEMMA Invariance == Spec => []IInv
BY InitInv, InvStep, PTL DEF Spec

\* Type correctness, for any users, channels and connections.
THEOREM TypeCorrect == Spec => []TypeOK
<1>1. IInv => TypeOK
  BY DEF IInv
<1> QED
  BY <1>1, Invariance, PTL

\* Nobody is recorded in a call that he is neither in nor about to be removed from,
\* but for lost webhooks and deleted channels (voice-ingress and the requests beside it).
THEOREM NoGhosts == Spec => []NoGhost
<1>1. IInv => NoGhost
  BY DEF IInv
<1> QED
  BY <1>1, Invariance, PTL

-----------------------------------------------------------------------------
(* What a step does to one room *)

Untouched(c) ==
    queue'[c] = queue[c] /\ (handled'[c] => handled[c]) /\ Present(c)' = Present(c)

Notified(c) ==
    \E e \in Event :
        /\ e.type \notin {"joined", "left"}
        /\ queue'[c] = Append(queue[c], e)
        /\ handled'[c] = handled[c] /\ Present(c)' = Present(c)

Entering(c, k) ==
    /\ k \in ConnsIn(c) \ Present(c)
    /\ Present(c) \cap ConnsOf(UserOf[k]) = {}
    /\ queue'[c] = Append(queue[c], Webhook("joined", k, Present(c) = {}))
    /\ handled'[c] = handled[c] /\ Present(c)' = Present(c) \cup {k}

Replacing(c, k, d) ==
    /\ k \in ConnsIn(c) \ Present(c)
    /\ d \in Present(c) \cap ConnsOf(UserOf[k])
    /\ queue'[c] = Append(Append(queue[c], Webhook("left", d, FALSE)),
                          Webhook("joined", k, Present(c) = {d}))
    /\ handled'[c] = handled[c] /\ Present(c)' = (Present(c) \ {d}) \cup {k}

Exiting(c, k) ==
    /\ k \in Present(c)
    /\ queue'[c] = Append(queue[c], Webhook("left", k, FALSE))
    /\ handled'[c] = handled[c] /\ Present(c)' = Present(c) \ {k}

\* LiveKit's part
Moves(c) ==
    \/ Untouched(c) \/ Notified(c)
    \/ \E k \in Conns : Entering(c, k) \/ Exiting(c, k) \/ \E d \in Conns : Replacing(c, k, d)

\* Nobody is put on record in the room, and no message is sent.
Unmarked(c) ==
    /\ \A u \in Users : <<u, c>> \in members' => <<u, c>> \in members
    /\ started'[c] = started[c]
    /\ unfinished' \cap ConnsIn(c) \subseteq unfinished \cap ConnsIn(c)

\* The daemon's part
Answers(c) ==
    \/ Refuse(c) \/ Lose(c) \/ Joined(c) \/ CallStarts(c) \/ Left(c) \/ CallEnds(c)
    \/ Track(c) \/ Forbidden(c)

RoomStep(c) == (Moves(c) /\ Unmarked(c)) \/ Answers(c)

LEMMA Unanswered ==
    ASSUME TypeOK, NEW c \in Channels, UNCHANGED <<members, started, unfinished>>
    PROVE  Unmarked(c)
BY DEF Unmarked

\* No step of the API touches a room, but for its members.
LEMMA Aside ==
    ASSUME NEW c \in Channels, UNCHANGED <<queue, handled>>,
           \A k \in Conns : conn'[k] = "in" <=> conn[k] = "in"
    PROVE  Untouched(c)
<1>1. Present(c)' = Present(c)
  BY DEF Present, ConnsIn
<1> QED
  BY <1>1 DEF Untouched

\* What happens in another room
LEMMA Apart ==
    ASSUME NEW b \in Channels, NEW c \in Channels, c # b, Elsewhere(b),
           \A k \in Conns : ChannelOf[k] # b => conn'[k] = conn[k]
    PROVE  Untouched(c)
<1>1. Present(c)' = Present(c)
  BY DEF Present, ConnsIn
<1> QED
  BY <1>1 DEF Untouched, Elsewhere

LEMMA RoomSteps ==
    ASSUME TypeOK, Addressed, [Next]_vars, NEW c \in Channels
    PROVE  RoomStep(c)
<1> USE VoiceAssumption
<1>1. ASSUME NEW k \in Conns, Ask(k) PROVE RoomStep(c)
  <2>1. UNCHANGED <<queue, handled, members, started, unfinished>>
        /\ \A x \in Conns : conn'[x] = "in" <=> conn[x] = "in"
    BY <1>1 DEF Ask, Record, Messages, TypeOK
  <2> QED
    BY <2>1, Aside, Unanswered DEF RoomStep, Moves
<1>2. ASSUME NEW k \in Conns, AskForce(k) PROVE RoomStep(c)
  <2>1. UNCHANGED <<queue, handled, members, started, unfinished>>
        /\ \A x \in Conns : conn'[x] = "in" <=> conn[x] = "in"
    BY <1>2 DEF AskForce, Record, Messages, TypeOK
  <2> QED
    BY <2>1, Aside, Unanswered DEF RoomStep, Moves
<1>3. ASSUME NEW k \in Conns, ForceOne(k) PROVE RoomStep(c)
  <2>1. UNCHANGED <<queue, handled>> /\ \A x \in Conns : conn'[x] = "in" <=> conn[x] = "in"
    BY <1>3 DEF ForceOne, TypeOK
  <2>2. Unmarked(c)
    BY <1>3 DEF ForceOne, DeleteState, Record, Messages, Unmarked
  <2> QED
    BY <2>1, <2>2, Aside DEF RoomStep, Moves
<1>4. ASSUME NEW k \in Conns, ForceDone(k) PROVE RoomStep(c)
  <2>1. UNCHANGED <<queue, handled, members, started, unfinished>>
        /\ \A x \in Conns : conn'[x] = "in" <=> conn[x] = "in"
    BY <1>4 DEF ForceDone, Record, Messages, TypeOK
  <2> QED
    BY <2>1, Aside, Unanswered DEF RoomStep, Moves
<1>5. ASSUME NEW k \in Conns, Connect(k) PROVE RoomStep(c)
  <2> DEFINE b == ChannelOf[k]
  <2>1. /\ UNCHANGED <<handled, members, started, unfinished>>
        /\ conn[k] = "asked" /\ conn' = [conn EXCEPT ![k] = "in"]
        /\ Present(b) \cap ConnsOf(UserOf[k]) = {}
        /\ queue' = [queue EXCEPT ![b] =
                        Append(queue[b], Webhook("joined", k, Present(b) = {}))]
    BY <1>5 DEF Connect, Record, Messages
  <2>2. CASE c # b
    <3>1. Elsewhere(b) /\ \A x \in Conns : ChannelOf[x] # b => conn'[x] = conn[x]
      BY <2>1 DEF Elsewhere, TypeOK
    <3> QED
      BY <2>1, <2>2, <3>1, Apart, Unanswered DEF RoomStep, Moves
  <2>3. CASE c = b
    <3>1. Present(c)' = Present(c) \cup {k} /\ k \in ConnsIn(c) \ Present(c)
      BY <2>1, <2>3 DEF Present, ConnsIn, TypeOK
    <3>2. queue'[c] = Append(queue[c], Webhook("joined", k, Present(c) = {}))
      BY <2>1, <2>3 DEF TypeOK
    <3> QED
      BY <2>1, <2>3, <3>1, <3>2, Unanswered DEF RoomStep, Moves, Entering
  <2> QED
    BY <2>2, <2>3
<1>6. ASSUME NEW k \in Conns, Reconnect(k) PROVE RoomStep(c)
  <2> DEFINE b == ChannelOf[k]
  <2>1. PICK d \in Present(b) \cap ConnsOf(UserOf[k]) :
           /\ conn' = [conn EXCEPT ![d] = "out", ![k] = "in"]
           /\ queue' = [queue EXCEPT ![b] = queue[b] \o
                 <<Webhook("left", d, FALSE), Webhook("joined", k, Present(b) = {d})>>]
    BY <1>6 DEF Reconnect
  <2>2. UNCHANGED <<handled, members, started, unfinished>> /\ conn[k] = "asked"
    BY <1>6 DEF Reconnect, Record, Messages
  <2>3. d \in Conns /\ ChannelOf[d] = b /\ conn[d] = "in"
    BY DEF Present, ConnsIn
  <2>4. CASE c # b
    <3>1. Elsewhere(b) /\ \A x \in Conns : ChannelOf[x] # b => conn'[x] = conn[x]
      BY <2>1, <2>2, <2>3 DEF Elsewhere, TypeOK
    <3> QED
      BY <2>2, <2>4, <3>1, Apart, Unanswered DEF RoomStep, Moves
  <2>5. CASE c = b
    <3>1. Present(c)' = (Present(c) \ {d}) \cup {k} /\ k \in ConnsIn(c) \ Present(c)
      BY <2>1, <2>2, <2>3, <2>5 DEF Present, ConnsIn, TypeOK
    <3> DEFINE e == Webhook("left", d, FALSE)
    <3> DEFINE f == Webhook("joined", k, Present(c) = {d})
    <3>2. queue'[c] = queue[c] \o <<e, f>>
      BY <2>1, <2>5 DEF TypeOK
    <3>3. e \in Event
      BY <2>3, LeftHook
    <3>4. f \in Event
      <4> DEFINE only == Present(c) = {d}
      <4>1. only \in BOOLEAN
        OBVIOUS
      <4> HIDE DEF only
      <4>2. Webhook("joined", k, only) \in Event
        BY <4>1, JoinedHook
      <4> QED
        BY <4>2 DEF only
    <3>5. queue[c] \in Seq(Event)
      BY DEF TypeOK
    <3> HIDE DEF e, f
    <3>6. queue'[c] = Append(Append(queue[c], e), f)
      BY <3>2, <3>3, <3>4, <3>5, Two
    <3>7. Replacing(c, k, d)
      BY <2>1, <2>2, <2>5, <3>1, <3>6 DEF Replacing, e, f
    <3> QED
      BY <2>2, <2>3, <3>7, Unanswered DEF RoomStep, Moves
  <2> QED
    BY <2>4, <2>5
<1>7. ASSUME NEW k \in Conns, Leave(k) PROVE RoomStep(c)
  <2> DEFINE b == ChannelOf[k]
  <2>1. /\ UNCHANGED <<handled, members, started, unfinished>>
        /\ conn[k] = "in" /\ conn' = [conn EXCEPT ![k] = "out"]
        /\ queue' = [queue EXCEPT ![b] = Append(queue[b], Webhook("left", k, FALSE))]
    BY <1>7 DEF Leave, Record, Messages
  <2>2. CASE c # b
    <3>1. Elsewhere(b) /\ \A x \in Conns : ChannelOf[x] # b => conn'[x] = conn[x]
      BY <2>1 DEF Elsewhere, TypeOK
    <3> QED
      BY <2>1, <2>2, <3>1, Apart, Unanswered DEF RoomStep, Moves
  <2>3. CASE c = b
    <3>1. Present(c)' = Present(c) \ {k} /\ k \in Present(c)
      BY <2>1, <2>3 DEF Present, ConnsIn, TypeOK
    <3>2. queue'[c] = Append(queue[c], Webhook("left", k, FALSE))
      BY <2>1, <2>3 DEF TypeOK
    <3> QED
      BY <2>1, <2>3, <3>1, <3>2, Unanswered DEF RoomStep, Moves, Exiting
  <2> QED
    BY <2>2, <2>3
<1>8. ASSUME NEW k \in Conns, PublishTrack(k) PROVE RoomStep(c)
  <2> DEFINE b == ChannelOf[k]
  <2>1. PICK type \in {"track", "forbidden"} :
           queue' = [queue EXCEPT ![b] = Append(queue[b], Webhook(type, k, FALSE))]
    BY <1>8 DEF PublishTrack
  <2>2. UNCHANGED <<conn, handled, members, started, unfinished>>
    BY <1>8 DEF PublishTrack, Record, Messages
  <2>3. CASE c # b
    <3>1. Elsewhere(b)
      BY <2>1, <2>2 DEF Elsewhere, TypeOK
    <3> QED
      BY <2>2, <2>3, <3>1, Apart, Unanswered DEF RoomStep, Moves
  <2>4. CASE c = b
    <3> DEFINE e == Webhook(type, k, FALSE)
    <3>1. e \in Event /\ e.type \notin {"joined", "left"}
      <4>1. CASE type = "track"
        BY <4>1, Webhooks
      <4>2. CASE type = "forbidden"
        BY <4>2, Webhooks
      <4> QED
        BY <4>1, <4>2
    <3>2. queue'[c] = Append(queue[c], e) /\ Present(c)' = Present(c)
      BY <2>1, <2>2, <2>4 DEF TypeOK, Present, ConnsIn
    <3> HIDE DEF e
    <3> QED
      BY <2>2, <3>1, <3>2, Unanswered DEF RoomStep, Moves, Notified
  <2> QED
    BY <2>3, <2>4
<1>9. ASSUME NEW b \in Channels, b # c,
             Refuse(b) \/ Lose(b) \/ Joined(b) \/ CallStarts(b) \/ Left(b) \/ CallEnds(b)
             \/ Track(b) \/ Forbidden(b)
      PROVE  RoomStep(c)
  <2>1. /\ Elsewhere(b) /\ started'[c] = started[c]
        /\ \A x \in Conns : ChannelOf[x] # b => conn'[x] = conn[x]
    <3>1. CASE Forbidden(b)
      <4>1. UNCHANGED <<handled, started>>
        BY <3>1 DEF Forbidden, Messages
      <4>2. \A a \in Channels : a # b => queue'[a] = queue[a]
        BY <3>1 DEF Forbidden, Dequeue, TypeOK
      <4>3. UNCHANGED conn
            \/ \E d \in Conns : ChannelOf[d] = b /\ conn' = [conn EXCEPT ![d] = "out"]
        BY <3>1 DEF Forbidden, Present, ConnsIn
      <4>4. \A x \in Conns : ChannelOf[x] # b => conn'[x] = conn[x]
        BY <4>3 DEF TypeOK
      <4> QED
        BY <4>1, <4>2, <4>4 DEF Elsewhere
    <3>2. CASE Refuse(b) \/ Lose(b) \/ Track(b)
      BY <3>2 DEF Refuse, Lose, Track, Dequeue, Elsewhere, Messages, TypeOK
    <3>3. CASE Joined(b) \/ Left(b)
      BY <3>3 DEF Joined, Left, Elsewhere, Messages, TypeOK
    <3>4. CASE CallStarts(b)
      BY <1>9, <3>4 DEF CallStarts, Dequeue, Elsewhere, Messages, TypeOK
    <3>5. CASE CallEnds(b)
      BY <1>9, <3>5 DEF CallEnds, Dequeue, Elsewhere, Messages, TypeOK
    <3> QED
      BY <1>9, <3>1, <3>2, <3>3, <3>4, <3>5
  <2>2. \A u \in Users : <<u, c>> \in members' => <<u, c>> \in members
    <3>1. CASE Joined(b)
      BY <1>9, <3>1 DEF Joined, CreateState
    <3>2. CASE Left(b) \/ Forbidden(b)
      <4>1. members' \subseteq members
        BY <3>2 DEF Left, Forbidden, DeleteState
      <4> QED
        BY <4>1
    <3>3. CASE Refuse(b) \/ Lose(b) \/ CallStarts(b) \/ CallEnds(b) \/ Track(b)
      BY <3>3 DEF Refuse, Lose, Track, CallStarts, CallEnds, Record
    <3> QED
      BY <1>9, <3>1, <3>2, <3>3
  <2>3. unfinished' \cap ConnsIn(c) \subseteq unfinished \cap ConnsIn(c)
    <3>1. CASE CallStarts(b)
      <4>1. queue[b] # <<>>
        BY <3>1 DEF CallStarts
      <4>2. ChannelOf[Head(queue[b]).conn] = b
        BY <4>1, HeadOfQueue DEF Addressed, About
      <4> QED
        BY <1>9, <3>1, <4>2 DEF CallStarts, Messages, ConnsIn
    <3>2. CASE CallEnds(b)
      BY <3>2 DEF CallEnds, Messages
    <3>3. CASE ~CallStarts(b) /\ ~CallEnds(b)
      BY <1>9, <3>3 DEF Forbidden, Refuse, Lose, Track, Joined, Left, Messages
    <3> QED
      BY <3>1, <3>2, <3>3
  <2> QED
    BY <1>9, <2>1, <2>2, <2>3, Apart DEF RoomStep, Moves, Unmarked
<1>10. ASSUME NEW b \in Channels, Retry(b) PROVE RoomStep(c)
  <2>1. UNCHANGED <<conn, queue, members, started, unfinished>>
    BY <1>10 DEF Retry, Record, Messages
  <2>2. handled'[c] => handled[c]
    BY <1>10 DEF Retry, TypeOK
  <2>3. Present(c)' = Present(c)
    BY <2>1 DEF Present, ConnsIn
  <2> QED
    BY <2>1, <2>2, <2>3, Unanswered DEF RoomStep, Moves, Untouched
<1>11. ASSUME NEW b \in Channels, DeleteChannel(b) PROVE RoomStep(c)
  BY <1>11, Aside, Unanswered DEF RoomStep, Moves, DeleteChannel, LiveKit, Record, Messages
<1>12. ASSUME NEW u \in Users, Kick(u) PROVE RoomStep(c)
  BY <1>12, Aside, Unanswered DEF RoomStep, Moves, Kick, LiveKit, Record, Messages
<1>13. ASSUME NEW u \in Users, KickDeletes(u) PROVE RoomStep(c)
  <2>1. Unmarked(c)
    BY <1>13 DEF KickDeletes, DeleteState, Messages, Unmarked
  <2> QED
    BY <1>13, <2>1, Aside DEF RoomStep, Moves, KickDeletes, LiveKit
<1>14. ASSUME NEW u \in Users, NEW b \in Channels, FindStateless(u, b) PROVE RoomStep(c)
  BY <1>14, Aside, Unanswered DEF RoomStep, Moves, FindStateless, LiveKit, Record, Messages
<1>15. ASSUME NEW u \in Users, NEW b \in Channels, Heal(u, b) PROVE RoomStep(c)
  <2>1. Unmarked(c)
    BY <1>15 DEF Heal, DeleteState, Messages, Unmarked
  <2> QED
    BY <1>15, <2>1, Aside DEF RoomStep, Moves, Heal, LiveKit
<1>16. CASE UNCHANGED vars
  BY <1>16, Aside, Unanswered DEF RoomStep, Moves, vars
<1> QED
  BY <1>1, <1>2, <1>3, <1>4, <1>5, <1>6, <1>7, <1>8, <1>9, <1>10, <1>11, <1>12, <1>13,
     <1>14, <1>15, <1>16 DEF Next, Client, Ingress, RoomStep, Answers

-----------------------------------------------------------------------------
(* Calls *)

\* More webhooks, fewer members and fewer open messages leave a first joiner the first.
LEMMA AnewGrows ==
    ASSUME TypeOK, TypeOK', NEW c \in Channels, NEW i \in DOMAIN queue[c], Unmarked(c),
           handled'[c] => handled[c], Len(queue[c]) <= Len(queue'[c]),
           \A j \in DOMAIN queue[c] : queue'[c][j] = queue[c][j],
           Anew(queue[c], i, c)
    PROVE  Anew(queue[c], i, c)'
<1> DEFINE q == queue[c]
<1> DEFINE r == queue'[c]
<1>1. q \in Seq(Event) /\ r \in Seq(Event)
  BY DEF TypeOK
<1>2. /\ Len(q) \in Nat /\ Len(r) \in Nat /\ DOMAIN q = 1 .. Len(q) /\ DOMAIN r = 1 .. Len(r)
      /\ \A j \in DOMAIN q : j \in DOMAIN r /\ r[j] = q[j]
      /\ i \in Nat /\ i <= Len(q)
  BY <1>1
<1>3. \A h \in DOMAIN r : h < i => h \in DOMAIN q
  BY <1>2
<1> HIDE DEF q, r
<1>4. ASSUME unfinished' \cap ConnsIn(c) # {}
      PROVE  \E j \in DOMAIN r : j < i /\ r[j].type = "left"
  <2>1. unfinished \cap ConnsIn(c) # {}
    BY <1>4 DEF Unmarked
  <2> QED
    BY <1>2, <2>1 DEF Anew, q
<1>5. ASSUME NEW u \in Users, <<u, c>> \in members', i # 1
      PROVE  \E j \in DOMAIN r : /\ j < i /\ r[j].type = "left" /\ UserOf[r[j].conn] = u
                                 /\ j = 1 => ~handled'[c]
  <2>1. <<u, c>> \in members
    BY <1>5 DEF Unmarked
  <2> QED
    BY <1>2, <1>5, <2>1 DEF Anew, q
<1>6. ASSUME NEW h \in DOMAIN r, h < i, r[h].type = "joined"
      PROVE  \E j \in DOMAIN r : h < j /\ j < i /\ r[j].type = "left" /\ r[j].conn = r[h].conn
  BY <1>2, <1>3, <1>6 DEF Anew, q
<1> QED
  BY <1>4, <1>5, <1>6 DEF Anew, r

\* The first webhook goes.
LEMMA AnewShifts ==
    ASSUME TypeOK, TypeOK', NEW c \in Channels, NEW i \in DOMAIN queue[c], i # 1,
           Len(queue[c]) - 1 <= Len(queue'[c]), ~handled'[c],
           \A j \in DOMAIN queue[c] : j # 1 => queue'[c][j - 1] = queue[c][j],
           Anew(queue[c], i, c),
           unfinished' \cap ConnsIn(c) # {} =>
               \E j \in DOMAIN queue[c] : j # 1 /\ j < i /\ queue[c][j].type = "left",
           \A u \in Users : <<u, c>> \in members' =>
               \E j \in DOMAIN queue[c] :
                   j # 1 /\ j < i /\ queue[c][j].type = "left" /\ UserOf[queue[c][j].conn] = u
    PROVE  Anew(queue[c], i - 1, c)'
<1> DEFINE q == queue[c]
<1> DEFINE r == queue'[c]
<1>1. q \in Seq(Event) /\ r \in Seq(Event)
  BY DEF TypeOK
<1>2. /\ Len(q) \in Nat /\ Len(r) \in Nat /\ DOMAIN q = 1 .. Len(q) /\ DOMAIN r = 1 .. Len(r)
      /\ i \in Nat /\ i <= Len(q) /\ Len(q) - 1 <= Len(r)
  BY <1>1
<1>3. \A j \in DOMAIN q : j # 1 => /\ j - 1 \in DOMAIN r /\ r[j - 1] = q[j]
                                   /\ (j < i => j - 1 < i - 1)
  BY <1>2
<1>4. \A h \in DOMAIN r : h < i - 1 => /\ h + 1 \in DOMAIN q /\ h + 1 # 1 /\ h + 1 < i
                                       /\ r[h] = q[h + 1]
  <2> SUFFICES ASSUME NEW h \in DOMAIN r, h < i - 1
               PROVE  /\ h + 1 \in DOMAIN q /\ h + 1 # 1 /\ h + 1 < i /\ r[h] = q[h + 1]
    OBVIOUS
  <2>1. h + 1 \in DOMAIN q /\ h + 1 # 1 /\ h + 1 < i /\ (h + 1) - 1 = h
    BY <1>2
  <2> QED
    BY <1>3, <2>1
<1> HIDE DEF q, r
<1>5. ASSUME unfinished' \cap ConnsIn(c) # {}
      PROVE  \E j \in DOMAIN r : j < i - 1 /\ r[j].type = "left"
  BY <1>3, <1>5 DEF q
<1>6. ASSUME NEW u \in Users, <<u, c>> \in members'
      PROVE  \E j \in DOMAIN r : j < i - 1 /\ r[j].type = "left" /\ UserOf[r[j].conn] = u
  BY <1>3, <1>6 DEF q
<1>7. ASSUME NEW h \in DOMAIN r, h < i - 1, r[h].type = "joined"
      PROVE  \E j \in DOMAIN r :
                 h < j /\ j < i - 1 /\ r[j].type = "left" /\ r[j].conn = r[h].conn
  <2>1. h + 1 \in DOMAIN q /\ h + 1 < i /\ r[h] = q[h + 1] /\ h \in Nat /\ h # 0
    BY <1>2, <1>4, <1>7
  <2>2. PICK j \in DOMAIN q :
           h + 1 < j /\ j < i /\ q[j].type = "left" /\ q[j].conn = q[h + 1].conn
    BY <1>7, <2>1 DEF Anew, q
  <2>3. j # 1 /\ h < j - 1
    BY <1>2, <2>1, <2>2
  <2> QED
    BY <1>3, <2>1, <2>2, <2>3
<1> QED
  BY <1>5, <1>6, <1>7 DEF Anew, r

\* What the last webhooks of a room are.
LEMMA Longer ==
    \A q \in Seq(Event), e \in Event :
        /\ Append(q, e) \in Seq(Event) /\ Len(Append(q, e)) = Len(q) + 1
        /\ DOMAIN Append(q, e) = DOMAIN q \cup {Len(q) + 1}
        /\ \A j \in DOMAIN q : Append(q, e)[j] = q[j]
        /\ Append(q, e)[Len(q) + 1] = e
        /\ \A j \in DOMAIN q : j < Len(q) + 1
        /\ Len(q) + 1 = 1 => q = <<>>
OBVIOUS

LEMMA OneMessageMoves ==
    ASSUME IInv, IInv', NEW c \in existing \ lost, c \in existing' \ lost', OneMessageIn(c),
           Moves(c), Unmarked(c)
    PROVE  OneMessageIn(c)'
<1> USE DEF OneMessageIn
<1> DEFINE q == queue[c]
<1> DEFINE r == queue'[c]
<1> DEFINE open == unfinished \cap ConnsIn(c)
<1>1. TypeOK /\ TypeOK' /\ c \in Channels /\ q \in Seq(Event) /\ r \in Seq(Event)
  BY DEF IInv, TypeOK
<1>2. unfinished' \cap ConnsIn(c) \subseteq {started'[c]}
      /\ (unfinished' \cap ConnsIn(c) # {} => open # {})
  BY DEF Unmarked
<1>3. ASSUME NEW u \in Users, <<u, c>> \in members'
      PROVE  \E k \in ConnsOf(u) : k \in Present(c) \/ (Leaving(k) /\ ChannelOf[k] = c)
  BY <1>3 DEF Unmarked, IInv, NoGhost, Present, ConnsIn
<1>4. ASSUME NEW u \in Users, NEW k \in ConnsOf(u), Leaving(k), ChannelOf[k] = c
      PROVE  \E j \in DOMAIN q : /\ q[j].type = "left" /\ UserOf[q[j].conn] = u
                                 /\ j = 1 => ~handled[c]
  BY <1>4 DEF Leaving, ConnsOf
<1>5. ASSUME NEW h \in DOMAIN q, q[h].type = "joined"
      PROVE  \/ q[h].conn \in Present(c)
             \/ \E j \in DOMAIN q : h < j /\ q[j].type = "left" /\ q[j].conn = q[h].conn
  <2>1. q[h].conn \in Conns /\ ChannelOf[q[h].conn] = c
    BY <1>1, <1>5, Webhooks DEF IInv, Addressed, About
  <2> QED
    BY <1>5, <2>1 DEF IInv, Joining, JoinersStay, Present, ConnsIn
<1>6. ASSUME handled'[c] => handled[c], Len(q) <= Len(r),
             \A j \in DOMAIN q : r[j] = q[j], NEW i \in DOMAIN q,
             r[i].type = "joined", r[i].first
      PROVE  Anew(queue[c], i, c)'
  <2>1. Anew(queue[c], i, c)
    BY <1>6
  <2> QED
    BY <1>1, <1>6, <2>1, AnewGrows
<1>7. CASE Untouched(c)
  <2>1. r = q /\ Present(c)' = Present(c) /\ (handled'[c] => handled[c]) /\ Len(q) <= Len(r)
    BY <1>1, <1>7 DEF Untouched
  <2> QED
    BY <1>2, <1>6, <2>1
<1>8. CASE Notified(c)
  <2>1. PICK e \in Event : /\ e.type \notin {"joined", "left"}
                           /\ r = Append(q, e)
                           /\ handled'[c] = handled[c] /\ Present(c)' = Present(c)
    BY <1>8 DEF Notified
  <2>2. /\ Len(q) <= Len(r) /\ DOMAIN r = DOMAIN q \cup {Len(q) + 1}
        /\ r[Len(q) + 1] = e /\ \A j \in DOMAIN q : r[j] = q[j]
    BY <1>1, <2>1, Longer
  <2> HIDE DEF q, r
  <2>3. ASSUME NEW i \in DOMAIN r, r[i].type = "joined", r[i].first
        PROVE  Anew(queue[c], i, c)'
    <3>1. i \in DOMAIN q
      BY <2>1, <2>2, <2>3
    <3> QED
      BY <1>6, <2>1, <2>2, <2>3, <3>1
  <2>4. open # {} => Present(c)' # {} \/ \E i \in DOMAIN r : r[i].type = "left"
    BY <2>1, <2>2 DEF q
  <2> QED
    BY <1>2, <2>3, <2>4 DEF r
<1>9. ASSUME NEW k \in Conns, Exiting(c, k) PROVE OneMessageIn(c)'
  <2> DEFINE e == Webhook("left", k, FALSE)
  <2>1. e \in Event /\ e.type = "left" /\ r = Append(q, e) /\ handled'[c] = handled[c]
    BY <1>9, LeftHook DEF Exiting
  <2> HIDE DEF e
  <2>2. /\ Len(q) <= Len(r) /\ DOMAIN r = DOMAIN q \cup {Len(q) + 1}
        /\ r[Len(q) + 1] = e /\ \A j \in DOMAIN q : r[j] = q[j]
    BY <1>1, <2>1, Longer
  <2> HIDE DEF q, r
  <2>3. ASSUME NEW i \in DOMAIN r, r[i].type = "joined", r[i].first
        PROVE  Anew(queue[c], i, c)'
    <3>1. i \in DOMAIN q
      BY <2>1, <2>2, <2>3
    <3> QED
      BY <1>6, <2>1, <2>2, <2>3, <3>1
  <2>4. \E i \in DOMAIN r : r[i].type = "left"
    BY <2>1, <2>2
  <2> QED
    BY <1>2, <2>3, <2>4 DEF r
<1>10. ASSUME NEW k \in Conns, Entering(c, k) PROVE OneMessageIn(c)'
  <2> DEFINE e == Webhook("joined", k, Present(c) = {})
  <2>1. /\ e \in Event /\ e.type = "joined" /\ e.first = (Present(c) = {})
        /\ r = Append(q, e) /\ handled'[c] = handled[c] /\ k \in Present(c)'
    <3> DEFINE none == Present(c) = {}
    <3>1. none \in BOOLEAN
      OBVIOUS
    <3> HIDE DEF none
    <3>2. /\ Webhook("joined", k, none) \in Event
          /\ Webhook("joined", k, none).type = "joined"
          /\ Webhook("joined", k, none).first = none
      BY <3>1, JoinedHook DEF Webhook
    <3>3. e \in Event /\ e.type = "joined" /\ e.first = (Present(c) = {})
      BY <3>2 DEF none
    <3> QED
      BY <1>10, <3>3 DEF Entering
  <2> HIDE DEF e
  <2>2. /\ Len(q) <= Len(r) /\ DOMAIN r = DOMAIN q \cup {Len(q) + 1}
        /\ r[Len(q) + 1] = e /\ \A j \in DOMAIN q : r[j] = q[j] /\ j < Len(q) + 1
        /\ Len(q) + 1 = 1 => q = <<>>
        /\ Len(q) \in Nat
    BY <1>1, <2>1, Longer
  <2> HIDE DEF q, r
  <2>0. PICK n \in Nat : n = Len(q) + 1
    BY <1>1, <2>2
  <2>3. ASSUME Present(c) = {} PROVE Anew(queue[c], n, c)'
    <3>1. ASSUME unfinished' \cap ConnsIn(c) # {}
          PROVE  \E j \in DOMAIN r : j < n /\ r[j].type = "left"
      BY <1>2, <2>0, <2>2, <2>3, <3>1 DEF q
    <3>2. ASSUME NEW u \in Users, <<u, c>> \in members'
          PROVE  \E j \in DOMAIN r :
                     /\ j < n /\ r[j].type = "left" /\ UserOf[r[j].conn] = u
                     /\ j = 1 => ~handled'[c]
      <4>1. PICK x \in ConnsOf(u) : Leaving(x) /\ ChannelOf[x] = c
        BY <1>3, <2>3, <3>2
      <4>2. PICK j \in DOMAIN q : /\ q[j].type = "left" /\ UserOf[q[j].conn] = u
                                  /\ j = 1 => ~handled[c]
        BY <1>4, <4>1
      <4> QED
        BY <2>0, <2>1, <2>2, <4>2
    <3>3. ASSUME NEW h \in DOMAIN r, h < n, r[h].type = "joined"
          PROVE  \E j \in DOMAIN r : /\ h < j /\ j < n
                                     /\ r[j].type = "left" /\ r[j].conn = r[h].conn
      <4>1. h \in DOMAIN q
        BY <2>0, <2>2, <3>3
      <4>2. PICK j \in DOMAIN q : h < j /\ q[j].type = "left" /\ q[j].conn = q[h].conn
        BY <1>5, <2>2, <2>3, <3>3, <4>1
      <4> QED
        BY <2>0, <2>2, <4>1, <4>2
    <3> QED
      BY <3>1, <3>2, <3>3 DEF Anew, r
  <2>4. ASSUME NEW i \in DOMAIN r, r[i].type = "joined", r[i].first
        PROVE  Anew(queue[c], i, c)'
    <3>1. CASE i \in DOMAIN q
      BY <1>6, <2>1, <2>2, <2>4, <3>1
    <3>2. CASE i = n
      BY <2>0, <2>1, <2>2, <2>3, <2>4, <3>2
    <3> QED
      BY <2>0, <2>2, <3>1, <3>2
  <2> QED
    BY <1>2, <2>1, <2>4 DEF r
<1>11. ASSUME NEW k \in Conns, NEW d \in Conns, Replacing(c, k, d) PROVE OneMessageIn(c)'
  <2> DEFINE e == Webhook("left", d, FALSE)
  <2> DEFINE f == Webhook("joined", k, Present(c) = {d})
  <2>1. e \in Event /\ e.type = "left" /\ e.conn = d
    BY LeftHook
  <2>2. f \in Event /\ f.type = "joined" /\ f.first = (Present(c) = {d})
    <3> DEFINE only == Present(c) = {d}
    <3>1. only \in BOOLEAN
      OBVIOUS
    <3> HIDE DEF only
    <3>2. /\ Webhook("joined", k, only) \in Event
          /\ Webhook("joined", k, only).type = "joined"
          /\ Webhook("joined", k, only).first = only
      BY <3>1, JoinedHook DEF Webhook
    <3> QED
      BY <3>2 DEF only
  <2>3. /\ r = Append(Append(q, e), f) /\ handled'[c] = handled[c] /\ k \in Present(c)'
        /\ d \in Present(c)
    BY <1>11 DEF Replacing
  <2> HIDE DEF e, f
  <2>4. /\ Len(q) <= Len(r) /\ DOMAIN r = DOMAIN q \cup {Len(q) + 1, Len(q) + 2}
        /\ r[Len(q) + 1] = e /\ r[Len(q) + 2] = f
        /\ \A j \in DOMAIN q : r[j] = q[j] /\ j < Len(q) + 1
        /\ Len(q) \in Nat /\ (Len(q) + 1 = 1 => q = <<>>)
    <3> DEFINE s == Append(q, e)
    <3>1. /\ s \in Seq(Event) /\ Len(s) = Len(q) + 1 /\ DOMAIN s = DOMAIN q \cup {Len(q) + 1}
          /\ s[Len(q) + 1] = e /\ \A j \in DOMAIN q : s[j] = q[j] /\ j < Len(q) + 1
          /\ Len(q) \in Nat /\ (Len(q) + 1 = 1 => q = <<>>)
      BY <1>1, <2>1, Longer
    <3> HIDE DEF s
    <3>2. /\ Len(r) = Len(s) + 1 /\ DOMAIN r = DOMAIN s \cup {Len(s) + 1}
          /\ r[Len(s) + 1] = f /\ \A j \in DOMAIN s : r[j] = s[j]
      BY <2>2, <2>3, <3>1, Longer DEF s
    <3> QED
      BY <3>1, <3>2
  <2>5. q = <<>> => ~handled[c]
    BY <1>1 DEF IInv, Handling
  <2> HIDE DEF q, r
  <2>0. PICK n \in Nat : n = Len(q) + 2
    BY <1>1, <2>4
  <2>6. ASSUME Present(c) = {d} PROVE Anew(queue[c], n, c)'
    <3>1. Len(q) + 1 \in DOMAIN r /\ Len(q) + 1 < n
          /\ r[Len(q) + 1].type = "left" /\ r[Len(q) + 1].conn = d
      BY <2>0, <2>1, <2>4
    <3>2. ASSUME NEW u \in Users, <<u, c>> \in members'
          PROVE  \E j \in DOMAIN r :
                     /\ j < n /\ r[j].type = "left" /\ UserOf[r[j].conn] = u
                     /\ j = 1 => ~handled'[c]
      <4>1. CASE d \in ConnsOf(u)
        BY <2>0, <2>3, <2>4, <2>5, <3>1, <4>1 DEF ConnsOf
      <4>2. CASE d \notin ConnsOf(u)
        <5>1. PICK x \in ConnsOf(u) : Leaving(x) /\ ChannelOf[x] = c
          BY <1>3, <2>6, <3>2, <4>2
        <5>2. PICK j \in DOMAIN q : /\ q[j].type = "left" /\ UserOf[q[j].conn] = u
                                    /\ j = 1 => ~handled[c]
          BY <1>4, <5>1
        <5>3. j \in DOMAIN r /\ r[j] = q[j] /\ j < n
          BY <1>1, <2>0, <2>4 DEF q
        <5> QED
          BY <2>3, <5>2, <5>3
      <4> QED
        BY <4>1, <4>2
    <3>3. ASSUME NEW h \in DOMAIN r, h < n, r[h].type = "joined"
          PROVE  \E j \in DOMAIN r : /\ h < j /\ j < n
                                     /\ r[j].type = "left" /\ r[j].conn = r[h].conn
      <4>1. h \in DOMAIN q /\ r[h] = q[h]
        BY <2>0, <2>4, <3>1, <3>3
      <4>2. CASE q[h].conn = d
        BY <2>0, <2>4, <3>1, <4>1, <4>2
      <4>3. CASE q[h].conn # d
        <5>1. PICK j \in DOMAIN q : h < j /\ q[j].type = "left" /\ q[j].conn = q[h].conn
          BY <1>5, <2>6, <3>3, <4>1, <4>3
        <5>2. j \in DOMAIN r /\ r[j] = q[j] /\ j < n
          BY <1>1, <2>0, <2>4 DEF q
        <5> QED
          BY <4>1, <5>1, <5>2
      <4> QED
        BY <4>2, <4>3
    <3> QED
      BY <3>1, <3>2, <3>3 DEF Anew, r
  <2>7. ASSUME NEW i \in DOMAIN r, r[i].type = "joined", r[i].first
        PROVE  Anew(queue[c], i, c)'
    <3>1. CASE i \in DOMAIN q
      BY <1>6, <2>3, <2>4, <2>7, <3>1
    <3>2. CASE i = n
      BY <2>0, <2>2, <2>4, <2>6, <2>7, <3>2
    <3> QED
      BY <2>0, <2>1, <2>4, <2>7, <3>1, <3>2
  <2> QED
    BY <1>2, <2>3, <2>7 DEF r
<1> QED
  BY <1>7, <1>8, <1>9, <1>10, <1>11 DEF Moves

LEMMA OneMessageAnswers ==
    ASSUME IInv, IInv', NEW c \in existing \ lost, c \in existing' \ lost', OneMessageIn(c),
           Answers(c)
    PROVE  OneMessageIn(c)'
<1> DEFINE q == queue[c]
<1> DEFINE r == queue'[c]
<1> DEFINE open == unfinished \cap ConnsIn(c)
<1>1. /\ TypeOK /\ TypeOK' /\ c \in Channels
      /\ q \in Seq(Event) /\ r \in Seq(Event)
  BY DEF IInv, TypeOK
<1>2. ASSUME NEW i \in DOMAIN q, q[i].type = "joined", q[i].first
      PROVE  Anew(queue[c], i, c)
  BY <1>2 DEF OneMessageIn
<1>3. ASSUME NEW h \in DOMAIN q, q[h].type = "joined"
      PROVE  \/ Present(c) # {}
             \/ \E j \in DOMAIN q : h < j /\ q[j].type = "left" /\ q[j].conn = q[h].conn
  <2>1. q[h].conn \in Conns /\ ChannelOf[q[h].conn] = c
    BY <1>1, <1>3, Webhooks DEF IInv, Addressed, About
  <2> QED
    BY <1>3, <2>1 DEF IInv, Joining, JoinersStay, Present, ConnsIn
<1>4. q # <<>> /\ 1 \in DOMAIN q /\ Head(q) = q[1] /\ q[1].conn \in ConnsIn(c)
  <2>1. q # <<>>
    BY <1>1 DEF Answers, Refuse, Lose, Joined, CallStarts, Left, CallEnds, Track, Forbidden,
                Arrives
  <2> QED
    BY <1>1, <2>1, HeadOfQueue DEF IInv, Addressed, About, ConnsIn
<1>5. /\ DOMAIN q = 1 .. Len(q) /\ Len(q) \in Nat
      /\ DOMAIN Tail(q) = 1 .. (Len(q) - 1) /\ Tail(q) \in Seq(Event)
      /\ Len(Tail(q)) = Len(q) - 1
      /\ \A i \in DOMAIN q : i # 1 => i - 1 \in DOMAIN Tail(q) /\ Tail(q)[i - 1] = q[i]
      /\ \A i \in DOMAIN Tail(q) : i + 1 \in DOMAIN q /\ i + 1 # 1 /\ Tail(q)[i] = q[i + 1]
  BY <1>1, <1>4
\* The first webhook is taken away; what remains to be shown of the others.
<1>6. ASSUME r = Tail(q), ~handled'[c],
             unfinished' \cap ConnsIn(c) \subseteq {started'[c]},
             unfinished' \cap ConnsIn(c) # {} =>
                 Present(c)' # {} \/ \E j \in DOMAIN q : j # 1 /\ q[j].type = "left",
             \A i \in DOMAIN q : i # 1 /\ q[i].type = "joined" /\ q[i].first =>
                 /\ unfinished' \cap ConnsIn(c) # {} =>
                       \E j \in DOMAIN q : j # 1 /\ j < i /\ q[j].type = "left"
                 /\ \A u \in Users : <<u, c>> \in members' =>
                       \E j \in DOMAIN q :
                           j # 1 /\ j < i /\ q[j].type = "left" /\ UserOf[q[j].conn] = u
      PROVE  OneMessageIn(c)'
  <2> HIDE DEF q, r
  <2>1. ASSUME NEW i \in DOMAIN r, r[i].type = "joined", r[i].first
        PROVE  Anew(queue[c], i, c)'
    <3>1. PICK n \in DOMAIN q : n = i + 1
      BY <1>5, <1>6
    <3>2. n # 1 /\ q[n] = r[i] /\ n - 1 = i
      BY <1>5, <1>6, <3>1
    <3>3. Anew(queue[c], n, c)
      BY <1>2, <2>1, <3>2
    <3>4. Len(q) - 1 <= Len(r) /\ \A j \in DOMAIN q : j # 1 => r[j - 1] = q[j]
      BY <1>5, <1>6
    <3>5. /\ unfinished' \cap ConnsIn(c) # {} =>
                \E j \in DOMAIN q : j # 1 /\ j < n /\ q[j].type = "left"
          /\ \A u \in Users : <<u, c>> \in members' =>
                \E j \in DOMAIN q :
                    j # 1 /\ j < n /\ q[j].type = "left" /\ UserOf[q[j].conn] = u
      <4>1. n # 1 /\ q[n].type = "joined" /\ q[n].first
        BY <2>1, <3>2
      <4> QED
        BY <1>6, <4>1
    <3>6. Anew(queue[c], n - 1, c)'
      BY <1>1, <1>6, <3>2, <3>3, <3>4, <3>5, AnewShifts DEF q, r
    <3> QED
      BY <3>2, <3>6
  <2>2. unfinished' \cap ConnsIn(c) # {} =>
            Present(c)' # {} \/ \E j \in DOMAIN r : r[j].type = "left"
    <3>1. ASSUME NEW j \in DOMAIN q, j # 1, q[j].type = "left"
          PROVE  j - 1 \in DOMAIN r /\ r[j - 1].type = "left"
      BY <1>5, <1>6, <3>1
    <3> QED
      BY <1>6, <3>1
  <2> QED
    BY <1>6, <2>1, <2>2 DEF OneMessageIn, r
<1>7. CASE Refuse(c)
  BY <1>7 DEF Refuse
<1>8. CASE Lose(c)
  BY <1>8 DEF Lose
<1>9. CASE Joined(c)
  <2>1. /\ q[1].type = "joined" /\ ~handled[c] /\ r = q /\ Present(c)' = Present(c)
        /\ UNCHANGED <<started, unfinished>>
        /\ members' = members \cup {<<UserOf[q[1].conn], c>>}
    BY <1>4, <1>9 DEF Joined, Arrives, CreateState, Messages, Present
  <2>2. ASSUME NEW i \in DOMAIN q, q[i].type = "joined", q[i].first
        PROVE  Anew(queue[c], i, c)'
    <3>1. Anew(queue[c], i, c)
      BY <1>2, <2>2
    <3>2. unfinished' \cap ConnsIn(c) # {} => \E j \in DOMAIN q : j < i /\ q[j].type = "left"
      BY <2>1, <3>1 DEF Anew
    <3>3. ASSUME NEW u \in Users, <<u, c>> \in members', i # 1
          PROVE  \E j \in DOMAIN q :
                    /\ j < i /\ q[j].type = "left" /\ UserOf[q[j].conn] = u
                    /\ j = 1 => ~handled'[c]
      <4>1. CASE u = UserOf[q[1].conn]
        <5>1. PICK j \in DOMAIN q :
                 1 < j /\ j < i /\ q[j].type = "left" /\ q[j].conn = q[1].conn
          <6>1. 1 < i
            BY <1>5, <3>3
          <6>2. \A h \in DOMAIN q : h < i /\ q[h].type = "joined" =>
                   \E j \in DOMAIN q :
                       h < j /\ j < i /\ q[j].type = "left" /\ q[j].conn = q[h].conn
            BY <3>1 DEF Anew
          <6> QED
            BY <1>4, <2>1, <6>1, <6>2
        <5> QED
          BY <1>5, <4>1, <5>1
      <4>2. CASE u # UserOf[q[1].conn]
        <5>1. <<u, c>> \in members
          BY <2>1, <3>3, <4>2
        <5>2. PICK j \in DOMAIN q : j < i /\ q[j].type = "left" /\ UserOf[q[j].conn] = u
          BY <3>1, <3>3, <5>1 DEF Anew
        <5>3. j # 1
          BY <2>1, <5>2
        <5> QED
          BY <5>2, <5>3
      <4> QED
        BY <4>1, <4>2
    <3>4. \A h \in DOMAIN q : h < i /\ q[h].type = "joined" =>
             \E j \in DOMAIN q : h < j /\ j < i /\ q[j].type = "left" /\ q[j].conn = q[h].conn
      BY <3>1 DEF Anew
    <3> HIDE DEF q, r
    <3>5. r = q
      BY <2>1
    <3> QED
      BY <3>2, <3>3, <3>4, <3>5 DEF Anew, r
  <2> QED
    BY <2>1, <2>2 DEF OneMessageIn
<1>10. CASE Left(c)
  <2>1. /\ q[1].type = "left" /\ ~handled[c] /\ r = q /\ Present(c)' = Present(c)
        /\ UNCHANGED <<started, unfinished>>
        /\ members' = members \ {<<UserOf[q[1].conn], c>>}
    BY <1>4, <1>10 DEF Left, Arrives, DeleteState, Messages, Present
  <2>2. ASSUME NEW i \in DOMAIN q, q[i].type = "joined", q[i].first
        PROVE  Anew(queue[c], i, c)'
    <3>1. Anew(queue[c], i, c)
      BY <1>2, <2>2
    <3>2. unfinished' \cap ConnsIn(c) # {} => \E j \in DOMAIN q : j < i /\ q[j].type = "left"
      BY <2>1, <3>1 DEF Anew
    <3>3. ASSUME NEW u \in Users, <<u, c>> \in members', i # 1
          PROVE  \E j \in DOMAIN q :
                    /\ j < i /\ q[j].type = "left" /\ UserOf[q[j].conn] = u
                    /\ j = 1 => ~handled'[c]
      <4>1. <<u, c>> \in members /\ u # UserOf[q[1].conn]
        BY <2>1, <3>3
      <4>2. PICK j \in DOMAIN q : j < i /\ q[j].type = "left" /\ UserOf[q[j].conn] = u
        BY <3>1, <3>3, <4>1 DEF Anew
      <4>3. j # 1
        BY <4>1, <4>2
      <4> QED
        BY <4>2, <4>3
    <3>4. \A h \in DOMAIN q : h < i /\ q[h].type = "joined" =>
             \E j \in DOMAIN q : h < j /\ j < i /\ q[j].type = "left" /\ q[j].conn = q[h].conn
      BY <3>1 DEF Anew
    <3> HIDE DEF q, r
    <3>5. r = q
      BY <2>1
    <3> QED
      BY <3>2, <3>3, <3>4, <3>5 DEF Anew, r
  <2> QED
    BY <2>1, <2>2 DEF OneMessageIn
<1>11. CASE CallStarts(c)
  <2>1. /\ q[1].type = "joined" /\ handled[c] /\ r = Tail(q) /\ ~handled'[c]
        /\ Present(c)' = Present(c) /\ UNCHANGED members
    BY <1>1, <1>4, <1>11 DEF CallStarts, Dequeue, Record, Present, TypeOK
  <2>2. \A j \in DOMAIN q : q[j].type = "left" => j # 1
    BY <2>1
  <2>3. ASSUME NEW i \in DOMAIN q, i # 1, q[i].type = "joined", q[i].first
        PROVE  /\ \E j \in DOMAIN q : j # 1 /\ j < i /\ q[j].type = "left"
               /\ \A u \in Users : <<u, c>> \in members' =>
                       \E j \in DOMAIN q :
                           j # 1 /\ j < i /\ q[j].type = "left" /\ UserOf[q[j].conn] = u
    <3>1. Anew(queue[c], i, c) /\ 1 < i
      BY <1>2, <1>5, <2>3
    <3>2. PICK j \in DOMAIN q : 1 < j /\ j < i /\ q[j].type = "left"
      BY <1>4, <2>1, <3>1 DEF Anew
    <3>3. \A u \in Users : <<u, c>> \in members =>
             \E k \in DOMAIN q : k < i /\ q[k].type = "left" /\ UserOf[q[k].conn] = u
      BY <2>3, <3>1 DEF Anew
    <3> QED
      BY <2>1, <2>2, <3>2, <3>3
  <2>4. unfinished' \cap ConnsIn(c) # {} =>
            Present(c)' # {} \/ \E j \in DOMAIN q : j # 1 /\ q[j].type = "left"
    BY <1>3, <1>4, <2>1
  <2>5. unfinished' \cap ConnsIn(c) \subseteq {started'[c]}
    <3>1. CASE q[1].first
      <4>1. started'[c] = q[1].conn /\ unfinished' = unfinished \cup {q[1].conn}
        BY <1>1, <1>4, <1>11, <3>1 DEF CallStarts, TypeOK
      <4>2. Anew(queue[c], 1, c)
        BY <1>2, <1>4, <2>1, <3>1
      <4>3. open = {}
        <5>1. \A j \in DOMAIN q : ~(j < 1)
          BY <1>5
        <5> QED
          BY <4>2, <5>1 DEF Anew
      <4> QED
        BY <4>1, <4>3
    <3>2. CASE ~q[1].first
      BY <1>4, <1>11, <3>2 DEF CallStarts, Messages, OneMessageIn
    <3> QED
      BY <3>1, <3>2
  <2> QED
    BY <1>6, <2>1, <2>3, <2>4, <2>5
<1>12. CASE CallEnds(c)
  <2>1. /\ q[1].type = "left" /\ handled[c] /\ r = Tail(q) /\ ~handled'[c]
        /\ Present(c)' = Present(c) /\ UNCHANGED members
    BY <1>1, <1>4, <1>12 DEF CallEnds, Dequeue, Record, Present, TypeOK
  <2>2. CASE \A u \in Users : <<u, c>> \notin members
    <3>1. unfinished' = unfinished \ {started[c]}
      BY <1>12, <2>2 DEF CallEnds
    <3>2. unfinished' \cap ConnsIn(c) = {}
      BY <3>1 DEF OneMessageIn
    <3> QED
      BY <1>6, <2>1, <2>2, <3>2
  <2>3. ASSUME NEW w \in Users, <<w, c>> \in members PROVE OneMessageIn(c)'
    <3>1. UNCHANGED <<started, unfinished>>
      BY <1>12, <2>3 DEF CallEnds, Messages
    <3>2. ASSUME NEW i \in DOMAIN q, i # 1, q[i].type = "joined", q[i].first,
                 NEW u \in Users, <<u, c>> \in members
          PROVE  \E j \in DOMAIN q :
                     j # 1 /\ j < i /\ q[j].type = "left" /\ UserOf[q[j].conn] = u
      <4>1. Anew(queue[c], i, c)
        BY <1>2, <3>2
      <4>2. PICK j \in DOMAIN q : /\ j < i /\ q[j].type = "left" /\ UserOf[q[j].conn] = u
                                  /\ j = 1 => ~handled[c]
        BY <3>2, <4>1 DEF Anew
      <4> QED
        BY <2>1, <4>2
    <3>3. Present(c) # {} \/ \E j \in DOMAIN q : j # 1 /\ q[j].type = "left"
      <4>1. PICK k \in ConnsOf(w) \cap ConnsIn(c) : conn[k] = "in" \/ Leaving(k)
        BY <2>3 DEF IInv, NoGhost
      <4>2. CASE conn[k] = "in"
        BY <4>1, <4>2 DEF Present
      <4>3. CASE Leaving(k)
        BY <2>1, <4>1, <4>3 DEF Leaving, ConnsIn
      <4> QED
        BY <4>1, <4>2, <4>3
    <3>4. unfinished' \cap ConnsIn(c) \subseteq {started'[c]}
      BY <3>1 DEF OneMessageIn
    <3>5. \A i \in DOMAIN q : i # 1 /\ q[i].type = "joined" /\ q[i].first =>
             \E j \in DOMAIN q : j # 1 /\ j < i /\ q[j].type = "left"
      BY <2>3, <3>2
    <3>6. \A i \in DOMAIN q : i # 1 /\ q[i].type = "joined" /\ q[i].first =>
             \A u \in Users : <<u, c>> \in members' =>
                 \E j \in DOMAIN q :
                     j # 1 /\ j < i /\ q[j].type = "left" /\ UserOf[q[j].conn] = u
      BY <2>1, <3>2
    <3> HIDE DEF q, r
    <3> QED
      BY <1>6, <2>1, <3>3, <3>4, <3>5, <3>6
  <2> QED
    BY <2>2, <2>3
<1>13. CASE Track(c)
  <2>1. /\ q[1].type = "track" /\ r = Tail(q) /\ ~handled'[c] /\ Present(c)' = Present(c)
        /\ UNCHANGED <<members, started, unfinished>>
    BY <1>1, <1>4, <1>13 DEF Track, Arrives, Dequeue, Messages, Present, TypeOK
  <2>2. \A j \in DOMAIN q : q[j].type = "left" => j # 1
    BY <2>1
  <2>3. ASSUME NEW i \in DOMAIN q, i # 1, q[i].type = "joined", q[i].first
        PROVE  /\ unfinished' \cap ConnsIn(c) # {} =>
                     \E j \in DOMAIN q : j # 1 /\ j < i /\ q[j].type = "left"
               /\ \A u \in Users : <<u, c>> \in members' =>
                     \E j \in DOMAIN q :
                         j # 1 /\ j < i /\ q[j].type = "left" /\ UserOf[q[j].conn] = u
    <3>1. Anew(queue[c], i, c)
      BY <1>2, <2>3
    <3>2. \A u \in Users : <<u, c>> \in members =>
             \E k \in DOMAIN q : k < i /\ q[k].type = "left" /\ UserOf[q[k].conn] = u
      BY <2>3, <3>1 DEF Anew
    <3>3. open # {} => \E j \in DOMAIN q : j < i /\ q[j].type = "left"
      BY <3>1 DEF Anew
    <3> QED
      BY <2>1, <2>2, <3>2, <3>3
  <2>4. unfinished' \cap ConnsIn(c) # {} =>
            Present(c)' # {} \/ \E j \in DOMAIN q : j # 1 /\ q[j].type = "left"
    BY <2>1, <2>2 DEF OneMessageIn
  <2>5. unfinished' \cap ConnsIn(c) \subseteq {started'[c]}
    BY <2>1 DEF OneMessageIn
  <2> QED
    BY <1>6, <2>1, <2>3, <2>4, <2>5
<1>14. CASE Forbidden(c)
  <2>1. /\ q[1].type = "forbidden" /\ ~handled'[c] /\ members' \subseteq members
        /\ UNCHANGED <<started, unfinished>>
    BY <1>1, <1>4, <1>14 DEF Forbidden, Arrives, DeleteState, Messages, TypeOK
  <2>2. \A j \in DOMAIN q : q[j].type = "left" => j # 1
    BY <2>1
  <2>3. ASSUME NEW i \in DOMAIN q, i # 1, q[i].type = "joined", q[i].first
        PROVE  /\ unfinished' \cap ConnsIn(c) # {} =>
                     \E j \in DOMAIN q : j # 1 /\ j < i /\ q[j].type = "left"
               /\ \A u \in Users : <<u, c>> \in members' =>
                     \E j \in DOMAIN q :
                         j # 1 /\ j < i /\ q[j].type = "left" /\ UserOf[q[j].conn] = u
    <3>1. Anew(queue[c], i, c)
      BY <1>2, <2>3
    <3>2. \A u \in Users : <<u, c>> \in members =>
             \E k \in DOMAIN q : k < i /\ q[k].type = "left" /\ UserOf[q[k].conn] = u
      BY <2>3, <3>1 DEF Anew
    <3>3. open # {} => \E j \in DOMAIN q : j < i /\ q[j].type = "left"
      BY <3>1 DEF Anew
    <3> QED
      BY <2>1, <2>2, <3>2, <3>3
  <2>4. unfinished' \cap ConnsIn(c) \subseteq {started'[c]}
    BY <2>1 DEF OneMessageIn
  <2>5. CASE r = Tail(q) /\ UNCHANGED conn
    <3>1. unfinished' \cap ConnsIn(c) # {} =>
              Present(c)' # {} \/ \E j \in DOMAIN q : j # 1 /\ q[j].type = "left"
      BY <2>1, <2>2, <2>5 DEF OneMessageIn, Present
    <3> QED
      BY <1>6, <2>1, <2>3, <2>4, <2>5, <3>1
  <2>6. ASSUME NEW d \in Conns, r = Append(Tail(q), Webhook("left", d, FALSE))
        PROVE  OneMessageIn(c)'
    <3> DEFINE e == Webhook("left", d, FALSE)
    <3>1. e \in Event /\ e.type = "left"
      BY LeftHook
    <3> DEFINE t == Tail(q)
    <3> HIDE DEF e, t
    <3>2. /\ Len(r) = Len(t) + 1 /\ DOMAIN r = DOMAIN t \cup {Len(t) + 1}
          /\ r[Len(t) + 1] = e /\ \A j \in DOMAIN t : r[j] = t[j]
      <4>1. r = Append(t, e) /\ t \in Seq(Event)
        BY <1>5, <2>6 DEF e, t
      <4> HIDE DEF r
      <4> QED
        BY <3>1, <4>1, Longer
    <3>3. ASSUME NEW i \in DOMAIN r, r[i].type = "joined", r[i].first
          PROVE  Anew(queue[c], i, c)'
      <4>1. i \in DOMAIN t /\ r[i] = t[i]
        BY <3>1, <3>2, <3>3
      <4>2. PICK n \in DOMAIN q : n = i + 1
        BY <1>5, <4>1 DEF t
      <4>3. n # 1 /\ q[n] = r[i] /\ n - 1 = i
        BY <1>1, <1>5, <4>1, <4>2 DEF t
      <4>4. Anew(queue[c], n, c)
        BY <1>2, <3>3, <4>3
      <4>5. Len(q) - 1 <= Len(r) /\ \A j \in DOMAIN q : j # 1 => r[j - 1] = q[j]
        <5>1. Len(t) = Len(q) - 1 /\ Len(q) \in Nat
          BY <1>5 DEF t
        <5>2. \A j \in DOMAIN q : j # 1 => j - 1 \in DOMAIN t /\ t[j - 1] = q[j]
          BY <1>5 DEF t
        <5> HIDE DEF q, r
        <5> QED
          BY <3>2, <5>1, <5>2
      <4>6. Anew(queue[c], n - 1, c)'
        <5>1. q[n].type = "joined" /\ q[n].first
          BY <3>3, <4>3
        <5>2. /\ unfinished' \cap ConnsIn(c) # {} =>
                     \E j \in DOMAIN q : j # 1 /\ j < n /\ q[j].type = "left"
              /\ \A u \in Users : <<u, c>> \in members' =>
                     \E j \in DOMAIN q :
                         j # 1 /\ j < n /\ q[j].type = "left" /\ UserOf[q[j].conn] = u
          BY <2>3, <4>3, <5>1
        <5>3. n # 1 /\ ~handled'[c] /\ TypeOK /\ TypeOK' /\ c \in Channels
          BY <1>1, <2>1, <4>3
        <5> HIDE DEF e, t
        <5> QED
          BY <4>4, <4>5, <5>2, <5>3, AnewShifts
      <4> QED
        BY <4>3, <4>6
    <3>4. \E j \in DOMAIN r : r[j].type = "left"
      BY <3>1, <3>2
    <3> QED
      BY <2>4, <3>3, <3>4 DEF OneMessageIn
  <2>7. \/ r = Tail(q) /\ UNCHANGED conn
        \/ \E d \in Conns : r = Append(Tail(q), Webhook("left", d, FALSE))
    BY <1>1, <1>14 DEF Forbidden, Dequeue, Present, ConnsIn, TypeOK
  <2> QED
    BY <2>5, <2>6, <2>7
<1> QED
  BY <1>7, <1>8, <1>9, <1>10, <1>11, <1>12, <1>13, <1>14 DEF Answers

\* Of the "call started" messages of a channel one at most has no end, whatever happens.
LEMMA OneMessageStep == IInv /\ OneMessage /\ [Next]_vars => OneMessage'
<1> SUFFICES ASSUME IInv, OneMessage, [Next]_vars, NEW c \in existing' \ lost'
             PROVE  OneMessageIn(c)'
  BY DEF OneMessage
<1>1. IInv'
  BY InvStep
<1>2. c \in existing \ lost /\ c \in Channels /\ RoomStep(c)
  BY RecordStep, RoomSteps DEF Recorded, IInv, TypeOK
<1>3. OneMessageIn(c)
  BY <1>2 DEF OneMessage
<1> QED
  BY <1>1, <1>2, <1>3, OneMessageMoves, OneMessageAnswers DEF RoomStep

\* When the last one has left, every "call started" message of the channel has its end
\* (voice-ingress, set_channel_call_started_system_message and its end).
THEOREM CallsHaveEnds == Spec => []CallsEnd
<1>1. Init => OneMessage
  BY DEF Init, OneMessage, OneMessageIn
<1>2. IInv /\ OneMessage => CallsEnd
  BY DEF OneMessage, OneMessageIn, CallsEnd
<1> QED
  BY <1>1, <1>2, Invariance, OneMessageStep, PTL DEF Spec

-----------------------------------------------------------------------------
(* The record and LiveKit *)

\* What a step does to the record of u in c: nothing, or ...
Kept(u, c) ==
    /\ <<u, c>> \in members' <=> <<u, c>> \in members
    /\ where'[Slot(u, c)] = where[Slot(u, c)]
    /\ state[Slot(u, c)] = "full" => state'[Slot(u, c)] = "full"

\* ... his state in d, which shares its keys, is deleted ...
Expels(u, d) ==
    /\ DeleteState(u, d)
    /\ \/ NoteApart(u)
       \/ Heal(u, d)
       \/ /\ Left(d) \/ Forbidden(d)
          /\ UserOf[Head(queue[d]).conn] = u
          /\ NoteCrossed(u, d)

\* ... or written.
Enrols(u, d) == Joined(d) /\ UserOf[Head(queue[d]).conn] = u

Touches(u, c) ==
    \/ Kept(u, c)
    \/ \E d \in Channels : ParentOf[d] = ParentOf[c] /\ (Expels(u, d) \/ Enrols(u, d))

LEMMA SlotIs ==
    ASSUME NEW u \in Users, NEW c \in Channels
    PROVE  Slot(u, c) \in Users \X Parents
BY VoiceAssumption DEF Slot

LEMMA SameSlot ==
    ASSUME NEW u \in Users, NEW c \in Channels, NEW w \in Users, NEW d \in Channels
    PROVE  Slot(u, c) = Slot(w, d) <=> u = w /\ ParentOf[c] = ParentOf[d]
BY DEF Slot

\* A deleted state is nobody else's.
LEMMA DeletesOne ==
    ASSUME TypeOK, NEW u \in Users, NEW c \in Channels, NEW w \in Users, NEW d \in Channels,
           DeleteState(w, d)
    PROVE  Kept(u, c) \/ (u = w /\ ParentOf[d] = ParentOf[c])
<1> SUFFICES ASSUME ~(u = w /\ ParentOf[d] = ParentOf[c]) PROVE Kept(u, c)
  OBVIOUS
<1>1. Slot(u, c) # Slot(w, d) /\ <<u, c>> # <<w, d>>
  BY SameSlot
<1> DEFINE s == Slot(u, c)
<1> DEFINE t == Slot(w, d)
<1> DEFINE K == Users \X Parents
<1>2. s \in K /\ t \in K
  BY SlotIs
<1>3. where' = [where EXCEPT ![t] = None] /\ state' = [state EXCEPT ![t] = "none"]
      /\ members' = members \ {<<w, d>>}
  BY DEF DeleteState
<1>4. DOMAIN where = K /\ DOMAIN state = K
  BY DEF TypeOK
<1> HIDE DEF s, t, K
<1>5. where'[s] = where[s] /\ state'[s] = state[s]
  BY <1>1, <1>2, <1>3, <1>4 DEF s, t
<1> QED
  BY <1>1, <1>3, <1>5 DEF Kept, s

LEMMA KeptRecord ==
    ASSUME UNCHANGED Record, NEW u, NEW c
    PROVE  Touches(u, c)
BY DEF Touches, Kept, Record

\* A step touches the record of a user where it expels or enrols him.
LEMMA TouchStep ==
    ASSUME TypeOK, [Next]_vars, NEW u \in Users, NEW c \in Channels
    PROVE  Touches(u, c)
<1> USE VoiceAssumption
<1>1. ASSUME NEW k \in Conns, Client(k), ~ForceOne(k) PROVE Touches(u, c)
  BY <1>1, KeptRecord DEF Client, Ask, AskForce, ForceDone, Connect, Reconnect, Leave,
         PublishTrack
<1>2. ASSUME NEW k \in Conns, ForceOne(k) PROVE Touches(u, c)
  <2>1. PICK d \in Channels : UNCHANGED Record
                              \/ (DeleteState(UserOf[k], d) /\ NoteApart(UserOf[k]))
    BY <1>2 DEF ForceOne, TypeOK
  <2>2. CASE UNCHANGED Record
    BY <2>2, KeptRecord
  <2>3. CASE DeleteState(UserOf[k], d) /\ NoteApart(UserOf[k])
    <3>1. UserOf[k] \in Users
      OBVIOUS
    <3> QED
      BY <2>3, <3>1, DeletesOne DEF Touches, Expels
  <2> QED
    BY <2>1, <2>2, <2>3
<1>3. ASSUME NEW d \in Channels,
             Refuse(d) \/ CallStarts(d) \/ CallEnds(d) \/ Lose(d) \/ Retry(d) \/ DeleteChannel(d)
      PROVE  Touches(u, c)
  BY <1>3, KeptRecord DEF Refuse, CallStarts, CallEnds, Lose, Retry, DeleteChannel
<1>4. ASSUME NEW d \in Channels, Left(d) \/ Forbidden(d) PROVE Touches(u, c)
  <2> DEFINE w == UserOf[Head(queue[d]).conn]
  <2>1. queue[d] # <<>> /\ DeleteState(w, d) /\ NoteCrossed(w, d)
    BY <1>4 DEF Left, Forbidden, Arrives
  <2>2. w \in Users
    BY <2>1, HeadOfQueue
  <2>3. Kept(u, c) \/ (u = w /\ ParentOf[d] = ParentOf[c])
    BY <2>1, <2>2, DeletesOne
  <2> QED
    BY <1>4, <2>1, <2>3 DEF Touches, Expels
<1>5. ASSUME NEW d \in Channels, Joined(d) PROVE Touches(u, c)
  <2> DEFINE w == UserOf[Head(queue[d]).conn]
  <2>1. queue[d] # <<>> /\ CreateState(w, d)
    BY <1>5 DEF Joined, Arrives
  <2>2. w \in Users
    BY <2>1, HeadOfQueue
  <2>3. CASE u = w /\ ParentOf[d] = ParentOf[c]
    BY <1>5, <2>3 DEF Touches, Enrols
  <2>4. CASE ~(u = w /\ ParentOf[d] = ParentOf[c])
    <3>1. Slot(u, c) # Slot(w, d) /\ <<u, c>> # <<w, d>>
      BY <2>2, <2>4, SameSlot
    <3> DEFINE s == Slot(u, c)
    <3> DEFINE t == Slot(w, d)
    <3> DEFINE K == Users \X Parents
    <3>2. s \in K /\ t \in K
      BY <2>2, SlotIs
    <3>3. where' = [where EXCEPT ![t] = d] /\ state' = [state EXCEPT ![t] = "full"]
          /\ members' = members \cup {<<w, d>>}
      BY <2>1 DEF CreateState
    <3>4. DOMAIN where = K /\ DOMAIN state = K
      BY DEF TypeOK
    <3>6. s # t
      BY <3>1
    <3> HIDE DEF w, s, t, K
    <3>5. where'[s] = where[s] /\ state'[s] = state[s]
      BY <3>2, <3>3, <3>4, <3>6
    <3> QED
      BY <3>1, <3>3, <3>5 DEF Touches, Kept, s
  <2> QED
    BY <2>3, <2>4
<1>6. ASSUME NEW d \in Channels, Track(d) PROVE Touches(u, c)
  <2> DEFINE t == Slot(UserOf[Head(queue[d]).conn], d)
  <2> DEFINE s == Slot(u, c)
  <2> DEFINE K == Users \X Parents
  <2>1. queue[d] # <<>> /\ UNCHANGED <<members, where>>
        /\ state' = [state EXCEPT ![t] = IF @ = "full" THEN @ ELSE "partial"]
    BY <1>6 DEF Track, Arrives
  <2>2. s \in K /\ t \in K
    BY <2>1, HeadOfQueue, SlotIs
  <2>3. DOMAIN state = K
    BY DEF TypeOK
  <2> HIDE DEF s, t, K
  <2>4. state[s] = "full" => state'[s] = "full"
    BY <2>1, <2>2, <2>3
  <2> QED
    BY <2>1, <2>4 DEF Touches, Kept, s
<1>7. ASSUME NEW w \in Users, Kick(w) PROVE Touches(u, c)
  BY <1>7, KeptRecord DEF Kick
<1>8. ASSUME NEW w \in Users, KickDeletes(w) PROVE Touches(u, c)
  <2>1. kicking[w] \in Channels /\ DeleteState(w, kicking[w]) /\ NoteApart(w)
    BY <1>8 DEF KickDeletes, TypeOK
  <2> QED
    BY <2>1, DeletesOne DEF Touches, Expels
<1>9. ASSUME NEW w \in Users, NEW d \in Channels, FindStateless(w, d) PROVE Touches(u, c)
  BY <1>9, KeptRecord DEF FindStateless
<1>10. ASSUME NEW w \in Users, NEW d \in Channels, Heal(w, d) PROVE Touches(u, c)
  <2>1. DeleteState(w, d)
    BY <1>10 DEF Heal
  <2> QED
    BY <1>10, <2>1, DeletesOne DEF Touches, Expels
<1>11. CASE UNCHANGED vars
  BY <1>11, KeptRecord DEF vars, Record
<1> QED
  BY <1>1, <1>2, <1>3, <1>4, <1>5, <1>6, <1>7, <1>8, <1>9, <1>10, <1>11
     DEF Next, Ingress

\* What has happened has happened; readers find what there is to be found.
Recalled ==
    /\ apart \subseteq apart' /\ crossed \subseteq crossed'
    /\ \A s \in healing' \ healing :
          \E u \in Users, c \in Channels : s = <<u, c>> /\ FindStateless(u, c)

LEMMA HistoryStep == ASSUME TypeOK, [Next]_vars PROVE Recalled
<1> USE DEF Recalled
<1>1. ASSUME NEW k \in Conns, Client(k) PROVE Recalled
  <2>1. UNCHANGED <<healing, crossed>>
    BY <1>1 DEF Client, Ask, AskForce, ForceOne, ForceDone, Connect, Reconnect, Leave,
           PublishTrack, Requests, History
  <2>2. apart \subseteq apart'
    BY <1>1 DEF Client, Ask, AskForce, ForceOne, ForceDone, Connect, Reconnect, Leave,
           PublishTrack, NoteApart, History
  <2> QED
    BY <2>1, <2>2
<1>2. ASSUME NEW c \in Channels, Ingress(c) PROVE Recalled
  <2>1. UNCHANGED <<healing, apart>>
    BY <1>2 DEF Ingress, Refuse, Joined, CallStarts, Left, CallEnds, Track, Forbidden,
           Requests, History
  <2>2. crossed \subseteq crossed'
    BY <1>2 DEF Ingress, Refuse, Joined, CallStarts, Left, CallEnds, Track, Forbidden,
           NoteCrossed, History
  <2> QED
    BY <2>1, <2>2
<1>3. ASSUME NEW c \in Channels, Lose(c) \/ Retry(c) \/ DeleteChannel(c) PROVE Recalled
  BY <1>3 DEF Lose, Retry, DeleteChannel, Requests, History
<1>4. ASSUME NEW u \in Users, Kick(u) \/ KickDeletes(u) PROVE Recalled
  BY <1>4 DEF Kick, KickDeletes, NoteApart, History
<1>5. ASSUME NEW u \in Users, NEW c \in Channels, FindStateless(u, c) PROVE Recalled
  <2>1. healing' = healing \cup {<<u, c>>} /\ UNCHANGED <<apart, crossed>>
    BY <1>5 DEF FindStateless, History
  <2> QED
    BY <1>5, <2>1
<1>6. ASSUME NEW u \in Users, NEW c \in Channels, Heal(u, c) PROVE Recalled
  BY <1>6 DEF Heal, History
<1>7. CASE UNCHANGED vars
  BY <1>7 DEF vars
<1> QED
  BY <1>1, <1>2, <1>3, <1>4, <1>5, <1>6, <1>7 DEF Next


\* The exceptions of AgreesAtRest only grow.
LEMMA Spared ==
    ASSUME TypeOK, [Next]_vars, NEW u \in Users \ (apart' \cup crossed'),
           NEW c \in Undamaged'
    PROVE  /\ u \in Users \ (apart \cup crossed) /\ c \in Undamaged
           /\ c \in Channels /\ c \in existing \ lost /\ c \in existing' \ lost'
<1>1. u \in Users \ (apart \cup crossed)
  BY HistoryStep DEF Recalled
<1>2. c \in existing' /\ \A d \in lost' : ParentOf[d] # ParentOf[c]
  BY DEF Undamaged
<1>3. existing' \subseteq existing /\ lost \subseteq lost'
  BY RecordStep DEF Recorded
<1> QED
  BY <1>1, <1>2, <1>3 DEF Undamaged, TypeOK

\* Every step leaves one connection of a user in a room.
LEMMA SingleStep == TypeOK /\ Addressed /\ Single /\ [Next]_vars => Single'
<1> SUFFICES ASSUME TypeOK, Addressed, Single, [Next]_vars, NEW c \in Channels,
                    NEW k \in Present(c)', NEW d \in Present(c)', UserOf[k] = UserOf[d]
             PROVE  k = d
  <2>1. \A k \in Conns : ChannelOf[k] \in Channels
    BY VoiceAssumption
  <2> QED
    BY <2>1 DEF Single, Present, ConnsIn
<1>1. ASSUME NEW x \in Present(c), NEW y \in Present(c), UserOf[x] = UserOf[y] PROVE x = y
  BY <1>1 DEF Single, Present, ConnsIn
<1>2. CASE Present(c)' \subseteq Present(c)
  BY <1>1, <1>2
<1>3. ASSUME NEW x \in Conns, Entering(c, x) PROVE k = d
  <2>1. Present(c)' = Present(c) \cup {x} /\ Present(c) \cap ConnsOf(UserOf[x]) = {}
    BY <1>3 DEF Entering
  <2>2. \A y \in Present(c) : y \in ConnsOf(UserOf[y])
    BY DEF Present, ConnsIn, ConnsOf
  <2> QED
    BY <1>1, <2>1, <2>2
<1>4. ASSUME NEW x \in Conns, NEW y \in Conns, Replacing(c, x, y) PROVE k = d
  <2>1. Present(c)' = (Present(c) \ {y}) \cup {x} /\ y \in Present(c) /\ UserOf[x] = UserOf[y]
    BY <1>4 DEF Replacing, ConnsOf
  <2> QED
    BY <1>1, <2>1
<1>5. CASE Answers(c)
  <2>1. ASSUME NEW y \in Conns, conn' = [conn EXCEPT ![y] = "out"]
        PROVE  Present(c)' \subseteq Present(c)
    BY <2>1 DEF Present, ConnsIn, TypeOK
  <2>2. Present(c)' \subseteq Present(c)
    <3>1. CASE Forbidden(c)
      <4>1. UNCHANGED conn \/ \E y \in Conns : conn' = [conn EXCEPT ![y] = "out"]
        BY <3>1 DEF Forbidden, Present, ConnsIn
      <4> QED
        BY <2>1, <4>1 DEF Present
    <3>2. CASE ~Forbidden(c)
      BY <1>5, <3>2 DEF Answers, Refuse, Lose, Joined, CallStarts, Left, CallEnds, Track,
             Present
    <3> QED
      BY <3>1, <3>2
  <2> QED
    BY <1>2, <2>2
<1>6. CASE Untouched(c) \/ Notified(c) \/ \E x \in Conns : Exiting(c, x)
  BY <1>2, <1>6 DEF Untouched, Notified, Exiting
<1> QED
  BY <1>3, <1>4, <1>5, <1>6, RoomSteps DEF RoomStep, Moves

\* The keys of a member go on describing his call: who deletes or writes those of another
\* channel of the server is noted.
LEMMA KeysFitStep ==
    TypeOK /\ NoGhost /\ KeysFit /\ NothingToHeal /\ [Next]_vars => KeysFit'
<1> SUFFICES ASSUME TypeOK, NoGhost, KeysFit, NothingToHeal, [Next]_vars,
                    NEW u \in Users \ (apart' \cup crossed'), NEW c \in Undamaged',
                    <<u, c>> \in members'
             PROVE  where'[Slot(u, c)] = c /\ state'[Slot(u, c)] = "full"
  BY DEF KeysFit
<1>1. /\ u \in Users /\ u \in Users \ (apart \cup crossed) /\ c \in Undamaged
      /\ c \in Channels /\ c \in existing \ lost
  BY Spared
<1>2. CASE Kept(u, c)
  BY <1>1, <1>2 DEF Kept, KeysFit
<1>3. ASSUME NEW d \in Channels, ParentOf[d] = ParentOf[c], Expels(u, d)
      PROVE  FALSE
  <2>1. c # d /\ <<u, c>> \in members
    BY <1>3 DEF Expels, DeleteState
  <2>2. CASE NoteApart(u)
    <3>1. PICK k \in ConnsOf(u) : conn[k] = "in" \/ Leaving(k)
      BY <1>1, <2>1 DEF NoGhost
    <3> QED
      BY <2>2, <3>1 DEF NoteApart
  <2>3. CASE Heal(u, d)
    <3>1. <<u, d>> \in healing
      BY <2>3 DEF Heal
    <3>2. PICK e \in lost : ParentOf[e] = ParentOf[d]
      BY <1>1, <3>1 DEF NothingToHeal
    <3> QED
      BY <1>1, <1>3, <3>2 DEF Undamaged
  <2>4. CASE NoteCrossed(u, d)
    <3>1. InAnother(u, d)
      BY <1>1, <1>3, <2>1 DEF InAnother
    <3> QED
      BY <2>4, <3>1 DEF NoteCrossed
  <2> QED
    BY <1>3, <2>2, <2>3, <2>4 DEF Expels
<1>4. ASSUME NEW d \in Channels, ParentOf[d] = ParentOf[c], Enrols(u, d)
      PROVE  where'[Slot(u, c)] = c /\ state'[Slot(u, c)] = "full"
  <2>1. CreateState(u, d) /\ NoteCrossed(u, d)
    BY <1>4 DEF Enrols, Joined
  <2>2. CASE c = d
    <3>1. Slot(u, c) \in Users \X Parents
      BY <1>1, SlotIs
    <3> QED
      BY <2>1, <2>2, <3>1 DEF CreateState, TypeOK
  <2>3. CASE c # d
    <3>1. <<u, c>> \in members
      BY <2>1, <2>3 DEF CreateState
    <3>2. InAnother(u, d)
      BY <1>1, <1>4, <2>3, <3>1 DEF InAnother
    <3> QED
      BY <2>1, <3>2 DEF NoteCrossed
  <2> QED
    BY <2>2, <2>3
<1> QED
  BY <1>1, <1>2, <1>3, <1>4, TouchStep DEF Touches

\* No reader finds fault with them.
LEMMA NothingToHealStep ==
    TypeOK /\ KeysFit /\ NothingToHeal /\ [Next]_vars => NothingToHeal'
<1> SUFFICES ASSUME TypeOK, KeysFit, NothingToHeal, [Next]_vars,
                    NEW u \in Users \ (apart' \cup crossed'), NEW c \in Channels,
                    <<u, c>> \in healing'
             PROVE  \E d \in lost' : ParentOf[d] = ParentOf[c]
  BY DEF NothingToHeal
<1>1. u \in Users \ (apart \cup crossed) /\ lost \subseteq lost'
  BY HistoryStep, RecordStep DEF Recalled, Recorded
<1>2. CASE <<u, c>> \in healing
  BY <1>1, <1>2 DEF NothingToHeal
<1>3. CASE <<u, c>> \notin healing
  <2>1. FindStateless(u, c)
    BY <1>3, HistoryStep DEF Recalled
  <2>2. c \in existing /\ <<u, c>> \in members /\ state[Slot(u, c)] # "full"
    BY <2>1 DEF FindStateless
  <2>3. c \notin Undamaged
    BY <1>1, <2>2 DEF KeysFit
  <2> QED
    BY <1>1, <2>2, <2>3 DEF Undamaged
<1> QED
  BY <1>2, <1>3


\* The two ways to be registered.
LEMMA RegisteredMember ==
    ASSUME NEW k \in Conns, NEW q, queue'[ChannelOf[k]] = q,
           <<UserOf[k], ChannelOf[k]>> \in members', NeverLeaves(q, 1, UserOf[k])
    PROVE  Registered(k)'
BY DEF Registered, NeverLeaves

LEMMA RegisteredSoon ==
    ASSUME NEW k \in Conns, NEW q, queue'[ChannelOf[k]] = q, NEW i \in DOMAIN q,
           q[i].type = "joined", q[i].conn = k, i = 1 => ~handled'[ChannelOf[k]],
           NeverLeaves(q, i, UserOf[k])
    PROVE  Registered(k)'
BY DEF Registered, NeverLeaves

\* The queue of a room as it grows and as it shrinks.
LEMMA RegisteredGrows ==
    ASSUME NEW k \in Conns, NEW q \in Seq(Event), NEW e \in Event,
           queue[ChannelOf[k]] = q, queue'[ChannelOf[k]] = Append(q, e), Registered(k),
           handled'[ChannelOf[k]] => handled[ChannelOf[k]],
           <<UserOf[k], ChannelOf[k]>> \in members => <<UserOf[k], ChannelOf[k]>> \in members',
           ~(e.type = "left" /\ UserOf[e.conn] = UserOf[k])
    PROVE  Registered(k)'
<1> DEFINE r == Append(q, e)
<1> DEFINE c == ChannelOf[k]
<1> DEFINE u == UserOf[k]
<1>1. /\ DOMAIN r = DOMAIN q \cup {Len(q) + 1} /\ \A j \in DOMAIN q : r[j] = q[j]
      /\ r[Len(q) + 1] = e
  BY Longer
<1> HIDE DEF r
<1>2. ASSUME NEW n, NeverLeaves(q, n, u) PROVE NeverLeaves(r, n, u)
  BY <1>1, <1>2 DEF NeverLeaves
<1>3. CASE <<u, c>> \in members /\ NeverLeaves(queue[c], 1, u)
  <2>1. <<u, c>> \in members' /\ NeverLeaves(r, 1, u)
    BY <1>2, <1>3
  <2> QED
    BY <2>1, RegisteredMember DEF r
<1>4. ASSUME NEW i \in DOMAIN q, q[i].type = "joined", q[i].conn = k, i = 1 => ~handled[c],
             NeverLeaves(q, i, u)
      PROVE  Registered(k)'
  <2>1. NeverLeaves(r, i, u) /\ i \in DOMAIN r /\ r[i] = q[i] /\ (i = 1 => ~handled'[c])
    BY <1>1, <1>2, <1>4
  <2> QED
    BY <1>4, <2>1, RegisteredSoon DEF r
<1> QED
  BY <1>3, <1>4 DEF Registered

LEMMA RegisteredShifts ==
    ASSUME NEW k \in Conns, NEW q \in Seq(Event), q # <<>>,
           queue[ChannelOf[k]] = q, queue'[ChannelOf[k]] = Tail(q), Registered(k),
           handled[ChannelOf[k]] \/ q[1].type # "joined", ~handled'[ChannelOf[k]],
           <<UserOf[k], ChannelOf[k]>> \in members => <<UserOf[k], ChannelOf[k]>> \in members'
    PROVE  Registered(k)'
<1> DEFINE r == Tail(q)
<1> DEFINE c == ChannelOf[k]
<1> DEFINE u == UserOf[k]
<1>1. /\ \A i \in DOMAIN r : i \in Nat /\ i + 1 \in DOMAIN q /\ r[i] = q[i + 1]
      /\ \A i \in DOMAIN q : /\ i \in Nat
                             /\ i # 1 => i - 1 \in DOMAIN r /\ r[i - 1] = q[i]
  BY Taken
<1> HIDE DEF r
<1>2. ASSUME NEW n \in DOMAIN q, NeverLeaves(q, n, u) PROVE NeverLeaves(r, n - 1, u)
  <2> SUFFICES ASSUME NEW j \in DOMAIN r, j >= n - 1
               PROVE  ~(r[j].type = "left" /\ UserOf[r[j].conn] = u)
    BY DEF NeverLeaves
  <2>1. j + 1 \in DOMAIN q /\ j + 1 >= n /\ r[j] = q[j + 1]
    BY <1>1
  <2> QED
    BY <1>2, <2>1 DEF NeverLeaves
<1>3. CASE <<u, c>> \in members /\ NeverLeaves(queue[c], 1, u)
  <2>1. <<u, c>> \in members' /\ NeverLeaves(r, 1, u)
    <3>1. \A j \in DOMAIN r : j + 1 \in DOMAIN q /\ j + 1 >= 1 /\ r[j] = q[j + 1]
      BY <1>1
    <3> QED
      BY <1>3, <3>1 DEF NeverLeaves
  <2> QED
    BY <2>1, RegisteredMember DEF r
<1>4. ASSUME NEW i \in DOMAIN q, q[i].type = "joined", q[i].conn = k, i = 1 => ~handled[c],
             NeverLeaves(q, i, u)
      PROVE  Registered(k)'
  <2>1. i # 1
    BY <1>4
  <2>2. PICK n \in DOMAIN r : n = i - 1
    BY <1>1, <2>1
  <2>3. NeverLeaves(r, n, u) /\ r[n] = q[i] /\ ~handled'[c]
    BY <1>1, <1>2, <1>4, <2>1, <2>2
  <2> QED
    BY <1>4, <2>2, <2>3, RegisteredSoon DEF r
<1> QED
  BY <1>3, <1>4 DEF Registered

\* Who stays in a room while LiveKit moves others stays registered.
LEMMA RegisteredMoves ==
    ASSUME TypeOK, Single, NEW k \in Conns, conn[k] = "in", conn'[k] = "in", Registered(k),
           Moves(ChannelOf[k]),
           <<UserOf[k], ChannelOf[k]>> \in members => <<UserOf[k], ChannelOf[k]>> \in members'
    PROVE  Registered(k)'
<1> DEFINE c == ChannelOf[k]
<1> DEFINE q == queue[c]
<1>1. c \in Channels /\ q \in Seq(Event) /\ k \in Present(c) /\ k \in Present(c)'
  BY VoiceAssumption DEF TypeOK, Present, ConnsIn
<1>2. CASE Untouched(c)
  <2>1. queue'[c] = q /\ (handled'[c] => handled[c])
    BY <1>2 DEF Untouched
  <2> QED
    BY <2>1, RegisteredMember, RegisteredSoon DEF Registered
<1>3. CASE Notified(c)
  <2>1. PICK e \in Event : /\ e.type \notin {"joined", "left"}
                           /\ queue'[c] = Append(q, e) /\ handled'[c] = handled[c]
    BY <1>3 DEF Notified
  <2> QED
    BY <1>1, <2>1, RegisteredGrows
<1>4. ASSUME NEW x \in Conns, Entering(c, x) PROVE Registered(k)'
  <2> DEFINE e == Webhook("joined", x, Present(c) = {})
  <2>1. e \in Event /\ e.type = "joined" /\ queue'[c] = Append(q, e)
        /\ handled'[c] = handled[c]
    BY <1>4, JoinedHook DEF Entering
  <2> HIDE DEF e
  <2> QED
    BY <1>1, <2>1, RegisteredGrows
<1>5. ASSUME NEW x \in Conns, Exiting(c, x) PROVE Registered(k)'
  <2> DEFINE e == Webhook("left", x, FALSE)
  <2>1. e \in Event /\ e.conn = x /\ queue'[c] = Append(q, e)
        /\ handled'[c] = handled[c] /\ x \in Present(c) /\ k # x
    BY <1>1, <1>5, LeftHook DEF Exiting
  <2>2. UserOf[x] # UserOf[k]
    BY <1>1, <2>1 DEF Single, Present, ConnsIn
  <2> HIDE DEF e
  <2> QED
    BY <1>1, <2>1, <2>2, RegisteredGrows
<1>6. ASSUME NEW x \in Conns, NEW d \in Conns, Replacing(c, x, d) PROVE Registered(k)'
  <2> DEFINE e == Webhook("left", d, FALSE)
  <2> DEFINE f == Webhook("joined", x, Present(c) = {d})
  <2>1. e \in Event /\ e.conn = d
    BY LeftHook
  <2>2. f \in Event /\ f.type = "joined"
    <3> DEFINE only == Present(c) = {d}
    <3>1. only \in BOOLEAN
      OBVIOUS
    <3> HIDE DEF only
    <3>2. Webhook("joined", x, only) \in Event /\ Webhook("joined", x, only).type = "joined"
      BY <3>1, JoinedHook
    <3> QED
      BY <3>2 DEF only
  <2>3. /\ queue'[c] = Append(Append(q, e), f) /\ handled'[c] = handled[c]
        /\ d \in Present(c) /\ x \notin Present(c)
        /\ Present(c)' = (Present(c) \ {d}) \cup {x}
    BY <1>6 DEF Replacing
  <2>4. UserOf[d] # UserOf[k]
    BY <1>1, <2>3 DEF Single, Present, ConnsIn
  <2> HIDE DEF e, f
  <2> DEFINE r == Append(Append(q, e), f)
  <2>5. /\ DOMAIN r = DOMAIN q \cup {Len(q) + 1, Len(q) + 2}
        /\ r[Len(q) + 1] = e /\ r[Len(q) + 2] = f /\ \A j \in DOMAIN q : r[j] = q[j]
    <3> DEFINE s == Append(q, e)
    <3>1. /\ s \in Seq(Event) /\ Len(s) = Len(q) + 1 /\ DOMAIN s = DOMAIN q \cup {Len(q) + 1}
          /\ s[Len(q) + 1] = e /\ \A j \in DOMAIN q : s[j] = q[j]
          /\ Len(q) \in Nat
      BY <1>1, <2>1, Longer
    <3> HIDE DEF s
    <3>2. /\ DOMAIN r = DOMAIN s \cup {Len(s) + 1}
          /\ r[Len(s) + 1] = f /\ \A j \in DOMAIN s : r[j] = s[j]
      BY <2>2, <3>1, Longer DEF s
    <3> QED
      BY <3>1, <3>2
  <2>6. queue'[c] = r
    BY <2>3
  <2> HIDE DEF r
  <2>7. ASSUME NEW n, NeverLeaves(q, n, UserOf[k]) PROVE NeverLeaves(r, n, UserOf[k])
    BY <2>1, <2>2, <2>4, <2>5, <2>7 DEF NeverLeaves
  <2>8. CASE <<UserOf[k], c>> \in members /\ NeverLeaves(q, 1, UserOf[k])
    BY <2>6, <2>7, <2>8, RegisteredMember
  <2>9. ASSUME NEW i \in DOMAIN q, q[i].type = "joined", q[i].conn = k, i = 1 => ~handled[c],
               NeverLeaves(q, i, UserOf[k])
        PROVE  Registered(k)'
    <3>1. NeverLeaves(r, i, UserOf[k]) /\ i \in DOMAIN r /\ r[i] = q[i]
          /\ (i = 1 => ~handled'[c])
      BY <2>3, <2>5, <2>7, <2>9
    <3> QED
      BY <2>6, <2>9, <3>1, RegisteredSoon
  <2> QED
    BY <2>8, <2>9 DEF Registered
<1> QED
  BY <1>2, <1>3, <1>4, <1>5, <1>6 DEF Moves

\* Who comes into a room is registered.
LEMMA RegisteredEnters ==
    ASSUME TypeOK, Handling, NEW k \in Conns, conn[k] # "in", conn'[k] = "in",
           Moves(ChannelOf[k])
    PROVE  Registered(k)'
<1> DEFINE c == ChannelOf[k]
<1> DEFINE q == queue[c]
<1>1. /\ c \in Channels /\ q \in Seq(Event) /\ k \notin Present(c) /\ k \in Present(c)'
      /\ (q = <<>> => ~handled[c])
  BY VoiceAssumption DEF TypeOK, Present, ConnsIn, Handling
<1>2. CASE Entering(c, k)
  <2> DEFINE e == Webhook("joined", k, Present(c) = {})
  <2> DEFINE r == Append(q, e)
  <2>1. e \in Event /\ e.type = "joined" /\ e.conn = k /\ queue'[c] = r
        /\ handled'[c] = handled[c]
    BY <1>2, JoinedHook DEF Entering
  <2> HIDE DEF e
  <2>2. /\ DOMAIN r = DOMAIN q \cup {Len(q) + 1} /\ r[Len(q) + 1] = e
        /\ \A j \in DOMAIN q : j < Len(q) + 1
        /\ Len(q) \in Nat /\ (Len(q) + 1 = 1 => q = <<>>)
    BY <1>1, <2>1, Longer
  <2>3. PICK n \in Nat : n = Len(q) + 1
    BY <2>2
  <2> HIDE DEF r
  <2>4. NeverLeaves(r, n, UserOf[k])
    <3>1. ASSUME NEW j \in DOMAIN r, j >= n PROVE r[j] = e
      BY <2>2, <2>3, <3>1
    <3> QED
      BY <2>1, <3>1 DEF NeverLeaves
  <2>5. n \in DOMAIN r /\ r[n] = e /\ (n = 1 => ~handled'[c])
    BY <1>1, <2>1, <2>2, <2>3
  <2> QED
    BY <2>1, <2>4, <2>5, RegisteredSoon
<1>3. ASSUME NEW d \in Conns, Replacing(c, k, d) PROVE Registered(k)'
  <2> DEFINE e == Webhook("left", d, FALSE)
  <2> DEFINE f == Webhook("joined", k, Present(c) = {d})
  <2>1. e \in Event
    BY LeftHook
  <2>2. f \in Event /\ f.type = "joined" /\ f.conn = k
    <3> DEFINE only == Present(c) = {d}
    <3>1. only \in BOOLEAN
      OBVIOUS
    <3> HIDE DEF only
    <3>2. Webhook("joined", k, only) \in Event /\ Webhook("joined", k, only).type = "joined"
          /\ Webhook("joined", k, only).conn = k
      BY <3>1, JoinedHook
    <3> QED
      BY <3>2 DEF only
  <2> DEFINE s == Append(q, e)
  <2> DEFINE r == Append(s, f)
  <2>3. queue'[c] = r
    BY <1>3 DEF Replacing
  <2> HIDE DEF e, f
  <2>4. s \in Seq(Event) /\ Len(s) = Len(q) + 1 /\ Len(q) \in Nat
    BY <1>1, <2>1, Longer
  <2> HIDE DEF s
  <2>5. /\ DOMAIN r = DOMAIN s \cup {Len(s) + 1} /\ r[Len(s) + 1] = f
        /\ \A j \in DOMAIN s : j < Len(s) + 1
    BY <2>2, <2>4, Longer
  <2>6. PICK n \in Nat : n = Len(s) + 1
    BY <2>4
  <2> HIDE DEF r
  <2>7. NeverLeaves(r, n, UserOf[k])
    <3>1. ASSUME NEW j \in DOMAIN r, j >= n PROVE r[j] = f
      <4>1. j \notin DOMAIN s
        BY <2>4, <2>5, <2>6, <3>1
      <4> QED
        BY <2>5, <4>1
    <3> QED
      BY <2>2, <3>1 DEF NeverLeaves
  <2>8. n \in DOMAIN r /\ r[n] = f /\ n # 1
    BY <2>4, <2>5, <2>6
  <2> QED
    BY <2>2, <2>3, <2>7, <2>8, RegisteredSoon
<1>4. ASSUME NEW x \in Conns, x # k, Entering(c, x) PROVE FALSE
  BY <1>1, <1>4 DEF Entering
<1>5. ASSUME NEW x \in Conns, NEW d \in Conns, x # k, Replacing(c, x, d) PROVE FALSE
  BY <1>1, <1>5 DEF Replacing
<1>6. ASSUME Untouched(c) \/ Notified(c) \/ \E x \in Conns : Exiting(c, x) PROVE FALSE
  BY <1>1, <1>6 DEF Untouched, Notified, Exiting
<1> QED
  BY <1>2, <1>3, <1>4, <1>5, <1>6 DEF Moves


\* The daemon's answers leave whoever is in registered, except for a forbidden track of his
\* own, which puts him out.
LEMMA RegisteredAnswers ==
    ASSUME TypeOK, Addressed, Single, NEW k \in Conns, conn'[k] = "in",
           conn[k] = "in", Registered(k),
           ChannelOf[k] \in existing \ lost', Answers(ChannelOf[k])
    PROVE  Registered(k)'
<1> DEFINE c == ChannelOf[k]
<1> DEFINE u == UserOf[k]
<1> DEFINE q == queue[c]
<1> DEFINE w == UserOf[q[1].conn]
<1>1. c \in Channels /\ u \in Users /\ q \in Seq(Event) /\ k \in Present(c) \cap ConnsOf(u)
  BY VoiceAssumption DEF TypeOK, Present, ConnsIn, ConnsOf
<1>2. q # <<>> /\ 1 \in DOMAIN q /\ Head(q) = q[1]
  <2>1. q # <<>>
    BY DEF Answers, Refuse, Lose, Joined, CallStarts, Left, CallEnds, Track, Forbidden, Arrives
  <2> QED
    BY <1>1, <2>1, HeadOfQueue
<1>3. CASE Refuse(c) \/ Lose(c)
  BY <1>3 DEF Refuse, Lose
<1>4. CASE Joined(c)
  <2>1. /\ queue' = queue /\ members' = members \cup {<<w, c>>}
    BY <1>2, <1>4 DEF Joined, CreateState
  <2>2. CASE <<u, c>> \in members /\ NeverLeaves(q, 1, u)
    BY <2>1, <2>2, RegisteredMember
  <2>3. ASSUME NEW i \in DOMAIN q, q[i].type = "joined", q[i].conn = k, NeverLeaves(q, i, u)
        PROVE  Registered(k)'
    <3>1. CASE i = 1
      BY <2>1, <2>3, <3>1, RegisteredMember
    <3>2. CASE i # 1
      BY <2>1, <2>3, <3>2, RegisteredSoon
    <3> QED
      BY <3>1, <3>2
  <2> QED
    BY <2>2, <2>3 DEF Registered
<1>5. CASE CallStarts(c) \/ CallEnds(c) \/ Track(c)
  <2>1. /\ handled[c] \/ q[1].type # "joined"
        /\ ~handled'[c] /\ queue'[c] = Tail(q) /\ UNCHANGED members
    <3>1. CASE CallStarts(c)
      BY <1>1, <3>1 DEF CallStarts, Dequeue, Record, TypeOK
    <3>2. CASE CallEnds(c)
      BY <1>1, <3>2 DEF CallEnds, Dequeue, Record, TypeOK
    <3>3. CASE Track(c)
      BY <1>1, <1>2, <3>3 DEF Track, Arrives, Dequeue, TypeOK
    <3> QED
      BY <1>5, <3>1, <3>2, <3>3
  <2> QED
    BY <1>1, <1>2, <2>1, RegisteredShifts
<1>6. CASE Left(c)
  <2>1. /\ queue' = queue /\ members' = members \ {<<w, c>>} /\ q[1].type = "left"
    BY <1>2, <1>6 DEF Left, Arrives, DeleteState
  <2>2. CASE <<u, c>> \in members /\ NeverLeaves(q, 1, u)
    <3>1. w # u
      BY <1>2, <2>1, <2>2 DEF NeverLeaves
    <3> QED
      BY <2>1, <2>2, <3>1, RegisteredMember
  <2>3. ASSUME NEW i \in DOMAIN q, q[i].type = "joined", q[i].conn = k, NeverLeaves(q, i, u)
        PROVE  Registered(k)'
    <3>1. i # 1
      BY <2>1, <2>3
    <3> QED
      BY <2>1, <2>3, <3>1, RegisteredSoon
  <2> QED
    BY <2>2, <2>3 DEF Registered
<1>7. CASE Forbidden(c)
  <2> DEFINE there == Present(c) \cap ConnsOf(w)
  <2>1. /\ q[1].type = "forbidden" /\ ~handled[c] /\ UNCHANGED handled
        /\ members' = members \ {<<w, c>>}
    BY <1>2, <1>7 DEF Forbidden, Arrives, DeleteState
  <2>2. \/ there = {} /\ queue'[c] = Tail(q)
        \/ \E d \in there : /\ conn' = [conn EXCEPT ![d] = "out"]
                            /\ queue'[c] = Append(Tail(q), Webhook("left", d, FALSE))
    <3>1. \/ there = {} /\ queue' = [queue EXCEPT ![c] = Tail(q)]
          \/ \E d \in there :
                /\ conn' = [conn EXCEPT ![d] = "out"]
                /\ queue' = [queue EXCEPT ![c] = Append(Tail(q), Webhook("left", d, FALSE))]
      BY <1>2, <1>7 DEF Forbidden, Dequeue
    <3>2. DOMAIN queue = Channels
      BY DEF TypeOK
    <3> HIDE DEF there
    <3> QED
      BY <1>1, <3>1, <3>2
  <2>3. CASE there = {} /\ queue'[c] = Tail(q)
    <3>1. u # w
      BY <1>1, <2>3
    <3> QED
      BY <1>1, <1>2, <2>1, <2>3, <3>1, RegisteredShifts
  <2>4. ASSUME NEW d \in there, conn' = [conn EXCEPT ![d] = "out"],
               queue'[c] = Append(Tail(q), Webhook("left", d, FALSE))
        PROVE  Registered(k)'
    <3>1. d # k /\ d \in Conns /\ ChannelOf[d] = c /\ UserOf[d] = w /\ conn[d] = "in"
      BY <2>4 DEF TypeOK, Present, ConnsIn, ConnsOf
    <3>2. u # w
      BY <3>1 DEF Single
    <3> DEFINE e == Webhook("left", d, FALSE)
    <3>3. e \in Event /\ e.conn = d
      BY <3>1, LeftHook
    <3> DEFINE t == Tail(q)
    <3>4. /\ t \in Seq(Event)
          /\ \A i \in DOMAIN q : i # 1 => i - 1 \in DOMAIN t /\ t[i - 1] = q[i]
          /\ \A i \in DOMAIN t : i \in Nat /\ i + 1 \in DOMAIN q /\ t[i] = q[i + 1]
          /\ \A i \in DOMAIN q : i \in Nat
      BY <1>1, <1>2, Taken
    <3> HIDE DEF e, t
    <3> DEFINE r == Append(t, e)
    <3>5. /\ DOMAIN r = DOMAIN t \cup {Len(t) + 1} /\ \A j \in DOMAIN t : r[j] = t[j]
          /\ r[Len(t) + 1] = e
      BY <3>3, <3>4, Longer
    <3>6. queue'[c] = r
      BY <2>4 DEF t, e
    <3> HIDE DEF r
    <3>7. ASSUME NEW n \in DOMAIN q, n # 1, NeverLeaves(q, n, u)
          PROVE  NeverLeaves(r, n - 1, u)
      <4> SUFFICES ASSUME NEW j \in DOMAIN r, j >= n - 1
                   PROVE  ~(r[j].type = "left" /\ UserOf[r[j].conn] = u)
        BY DEF NeverLeaves
      <4>1. CASE j \in DOMAIN t
        <5>1. j + 1 \in DOMAIN q /\ j + 1 >= n /\ r[j] = q[j + 1]
          BY <3>4, <3>5, <4>1
        <5> QED
          BY <3>7, <5>1 DEF NeverLeaves
      <4>2. CASE j = Len(t) + 1
        BY <3>1, <3>2, <3>3, <3>5, <4>2
      <4> QED
        BY <3>5, <4>1, <4>2
    <3>8. CASE <<u, c>> \in members /\ NeverLeaves(q, 1, u)
      <4>1. NeverLeaves(r, 1, u)
        <5> SUFFICES ASSUME NEW j \in DOMAIN r
                     PROVE  ~(r[j].type = "left" /\ UserOf[r[j].conn] = u)
          BY DEF NeverLeaves
        <5>1. CASE j \in DOMAIN t
          <6>1. j + 1 \in DOMAIN q /\ j + 1 >= 1 /\ r[j] = q[j + 1]
            BY <3>4, <3>5, <5>1
          <6> QED
            BY <3>8, <6>1 DEF NeverLeaves
        <5>2. CASE j = Len(t) + 1
          BY <3>1, <3>2, <3>3, <3>5, <5>2
        <5> QED
          BY <3>5, <5>1, <5>2
      <4>2. <<u, c>> \in members'
        BY <2>1, <3>2, <3>8
      <4> QED
        BY <3>6, <4>1, <4>2, RegisteredMember
    <3>9. ASSUME NEW i \in DOMAIN q, q[i].type = "joined", q[i].conn = k, NeverLeaves(q, i, u)
          PROVE  Registered(k)'
      <4>1. i # 1
        BY <2>1, <3>9
      <4>2. PICK n \in DOMAIN r : n = i - 1
        BY <3>4, <3>5, <4>1
      <4>3. NeverLeaves(r, n, u) /\ r[n] = q[i] /\ ~handled'[c]
        BY <2>1, <3>4, <3>5, <3>7, <3>9, <4>1, <4>2
      <4> QED
        BY <3>6, <3>9, <4>2, <4>3, RegisteredSoon
    <3> QED
      BY <3>8, <3>9 DEF Registered
  <2> QED
    BY <2>2, <2>3, <2>4
<1> QED
  BY <1>3, <1>4, <1>5, <1>6, <1>7 DEF Answers

LEMMA EnteredStep ==
    TypeOK /\ Addressed /\ Handling /\ Single /\ NothingToHeal /\ Entered /\ [Next]_vars
        => Entered'
<1> SUFFICES ASSUME TypeOK, Addressed, Handling, Single, NothingToHeal, Entered, [Next]_vars,
                    NEW k \in Conns, conn'[k] = "in",
                    UserOf[k] \notin apart' \cup crossed', ChannelOf[k] \in Undamaged'
             PROVE  Registered(k)'
  BY DEF Entered
<1> DEFINE c == ChannelOf[k]
<1> DEFINE u == UserOf[k]
<1>1. u \in Users /\ u \in Users \ (apart' \cup crossed') /\ c \in Undamaged'
  BY VoiceAssumption
<1>2. /\ u \in Users \ (apart \cup crossed) /\ c \in Undamaged
      /\ c \in Channels /\ c \in existing \ lost /\ c \in existing' \ lost'
  BY <1>1, Spared
<1>3. RoomStep(c)
  BY <1>2, RoomSteps
<1>4. ASSUME conn[k] = "in" PROVE Registered(k)
  BY <1>2, <1>4 DEF Entered
<1>5. CASE Answers(c) /\ conn[k] = "in"
  BY <1>2, <1>4, <1>5, RegisteredAnswers
<1>6. ASSUME Answers(c), conn[k] # "in" PROVE FALSE
  <2>1. CASE Forbidden(c)
    BY <1>6, <2>1 DEF Forbidden, TypeOK
  <2>2. CASE ~Forbidden(c)
    BY <1>6, <2>2 DEF Answers, Refuse, Lose, Joined, CallStarts, Left, CallEnds, Track
  <2> QED
    BY <2>1, <2>2
<1>7. CASE ~Answers(c) /\ conn[k] # "in"
  BY <1>3, <1>7, RegisteredEnters DEF RoomStep
<1>8. CASE ~Answers(c) /\ conn[k] = "in"
  <2>1. ASSUME <<u, c>> \in members, <<u, c>> \notin members' PROVE FALSE
    <3>1. PICK d \in Channels : ParentOf[d] = ParentOf[c] /\ (Expels(u, d) \/ Enrols(u, d))
      BY <1>1, <1>2, <2>1, TouchStep DEF Touches, Kept
    <3>2. ~Enrols(u, d)
      BY <2>1 DEF Enrols, Joined, CreateState
    <3>3. d = c /\ Expels(u, c)
      BY <2>1, <3>1, <3>2 DEF Expels, DeleteState
    <3>4. ~Left(c) /\ ~Forbidden(c)
      BY <1>8 DEF Answers
    <3>5. CASE NoteApart(u)
      BY <1>1, <1>8, <3>5 DEF NoteApart, ConnsOf
    <3>6. CASE Heal(u, c)
      <4>1. PICK b \in lost : ParentOf[b] = ParentOf[c]
        BY <1>2, <3>6 DEF Heal, NothingToHeal
      <4> QED
        BY <1>2, <4>1 DEF Undamaged
    <3> QED
      BY <3>3, <3>4, <3>5, <3>6 DEF Expels
  <2>2. Moves(c)
    BY <1>3, <1>8 DEF RoomStep
  <2> QED
    BY <1>4, <1>8, <2>1, <2>2, RegisteredMoves
<1> QED
  BY <1>5, <1>6, <1>7, <1>8

\* The invariant behind the agreement is inductive.
LEMMA AgreeStep == AgreeInv /\ [Next]_vars => AgreeInv'
BY InvStep, SingleStep, KeysFitStep, NothingToHealStep, EnteredStep DEF AgreeInv, IInv

\* Once everything is handled the record is what LiveKit has and the keys describe it, but
\* for the exceptions that AgreesAtRest names (voice-ingress and the requests beside it).
THEOREM RecordAgrees == Spec => []AgreesAtRest
<1>1. Init => AgreeInv
  <2>1. Init => Single /\ KeysFit /\ NothingToHeal /\ Entered
    BY DEF Init, Single, KeysFit, NothingToHeal, Entered
  <2> QED
    BY <2>1, InitInv DEF AgreeInv
<1>2. AgreeInv => AgreesAtRest
  <2> SUFFICES ASSUME AgreeInv, NEW u \in Users \ (apart \cup crossed), Quiet(u),
                      NEW c \in Undamaged
               PROVE  /\ <<u, c>> \in members <=> Present(c) \cap ConnsOf(u) # {}
                      /\ <<u, c>> \in members =>
                            where[Slot(u, c)] = c /\ state[Slot(u, c)] = "full"
    BY DEF AgreesAtRest
  <2>1. c \in existing \ lost /\ u \in Users
    BY DEF Undamaged
  <2>2. ASSUME NEW k \in ConnsOf(u), ChannelOf[k] = c, NEW i \in DOMAIN queue[c],
               queue[c][i].conn = k
        PROVE  FALSE
    BY <2>2 DEF Quiet, ConnsOf
  <2>3. ASSUME <<u, c>> \in members PROVE Present(c) \cap ConnsOf(u) # {}
    <3>1. PICK k \in ConnsOf(u) \cap ConnsIn(c) : conn[k] = "in" \/ Leaving(k)
      BY <2>1, <2>3 DEF AgreeInv, IInv, NoGhost
    <3>2. ChannelOf[k] = c
      BY DEF ConnsIn
    <3>3. ~Leaving(k)
      BY <2>2, <3>2 DEF Leaving
    <3> QED
      BY <3>1, <3>3 DEF Present
  <2>4. ASSUME NEW k \in Present(c) \cap ConnsOf(u) PROVE <<u, c>> \in members
    <3>1. k \in Conns /\ conn[k] = "in" /\ ChannelOf[k] = c /\ UserOf[k] = u
      BY DEF Present, ConnsIn, ConnsOf
    <3>2. Registered(k)
      BY <3>1 DEF AgreeInv, Entered
    <3> QED
      BY <2>2, <3>1, <3>2 DEF Registered
  <2>5. <<u, c>> \in members => where[Slot(u, c)] = c /\ state[Slot(u, c)] = "full"
    BY DEF AgreeInv, KeysFit
  <2> QED
    BY <2>3, <2>4, <2>5
<1> QED
  BY <1>1, <1>2, AgreeStep, PTL DEF Spec

=============================================================================
