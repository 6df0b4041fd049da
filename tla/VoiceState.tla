---------------------------- MODULE VoiceState ----------------------------
(***************************************************************************)
(* Who is in which call.  LiveKit knows; the API keeps its own record in   *)
(* Redis, which the webhooks of LiveKit (daemons/voice-ingress), requests  *)
(* to join a call, kicks, and readers that repair what they find all       *)
(* change (database/src/voice and its callers).                            *)
(*                                                                         *)
(* A connection is one use of the token that join_call hands out.  LiveKit *)
(* sends the events of one room one after another, those of different      *)
(* rooms independently, and gives up on an event after some attempts.      *)
(*                                                                         *)
(* The key node:{channel} is written only by a move that has read it for   *)
(* the old channel before, so no channel ever has a node: a move panics on *)
(* it (member_edit.rs:193), as does the deletion of a channel with a call  *)
(* on, and no request disconnects anybody from LiveKit.  That is why there *)
(* is no action for moves.                                                 *)
(*                                                                         *)
(* A Redis pipeline is a step: the server runs the few commands it holds   *)
(* as it reads them.  Not covered: max_users, permissions, the values of   *)
(* the flags (camera, ...), the events and notifications sent out, and a   *)
(* webhook that fails after its "call started" message and is repeated.    *)
(***************************************************************************)
EXTENDS Naturals, Sequences

CONSTANTS
    Users,
    Channels,
    ParentOf,    \* ParentOf[c]: the server of c, or what stands for c itself
    Parents,
    Conns,       \* connections: each stands for one token
    UserOf,      \* UserOf[k]
    ChannelOf,   \* ChannelOf[k]
    None,
    MaxRequests, \* bound on the tracks, kicks and deletions in one behaviour
    MaxLost      \* bound on the webhooks LiveKit gives up on or delivers again

ASSUME VoiceAssumption ==
    /\ ParentOf \in [Channels -> Parents]
    /\ UserOf \in [Conns -> Users]
    /\ ChannelOf \in [Conns -> Channels]
    /\ None \notin Channels \cup Conns
    /\ MaxRequests \in Nat
    /\ MaxLost \in Nat

VARIABLES
    conn,        \* conn[k]: where connection k is, as LiveKit and its client know
    forcing,     \* forcing[k]: channels whose state the join of k has still to delete
    queue,       \* queue[c]: the webhooks of room c; the first is being handled
    handled,     \* handled[c]: whether the state has been changed for the first of them
    members,     \* pairs <<u, c>>: u is in vc_members:{c}, and c is in vc:{u}
    where,       \* where[<<u, p>>]: the value of the key {u}:{p}
    state,       \* state[<<u, p>>]: whether all, some or none of the keys of a state exist
    kicking,     \* kicking[u]: the channel a kick has read for u
    healing,     \* pairs <<u, c>> that a reader has found without a state
    started,     \* started[c]: the value of call_started_message:{c}
    unfinished,  \* connections whose "call started" message has no end
    existing,    \* channels that exist
    requests,    \* how many tracks, kicks and deletions there were
    losses,      \* how many webhooks were lost or delivered again
    lost,        \* history: channels of which a webhook was lost
    apart,       \* history: users whose state was deleted under their connection
    crossed      \* history: users whose join, end or removal was handled while another
                 \* channel of the same server had them on record

vars == <<conn, forcing, queue, handled, members, where, state, kicking, healing,
          started, unfinished, existing, requests, losses, lost, apart, crossed>>

ConnsOf(u) == {k \in Conns : UserOf[k] = u}

ConnsIn(c) == {k \in Conns : ChannelOf[k] = c}

Event == [type : {"joined", "left", "track", "forbidden"}, conn : Conns, first : BOOLEAN]

TypeOK ==
    /\ conn \in [Conns -> {"idle", "forcing", "asked", "refused", "in", "out"}]
    /\ forcing \in [Conns -> SUBSET Channels]
    /\ queue \in [Channels -> Seq(Event)]
    /\ handled \in [Channels -> BOOLEAN]
    /\ members \in SUBSET (Users \X Channels)
    /\ where \in [Users \X Parents -> Channels \cup {None}]
    /\ state \in [Users \X Parents -> {"none", "partial", "full"}]
    /\ kicking \in [Users -> Channels \cup {None}]
    /\ healing \in SUBSET (Users \X Channels)
    /\ started \in [Channels -> Conns \cup {None}]
    /\ unfinished \in SUBSET Conns
    /\ existing \in SUBSET Channels
    /\ requests \in 0 .. MaxRequests
    /\ losses \in 0 .. MaxLost
    /\ lost \in SUBSET Channels
    /\ apart \in SUBSET Users
    /\ crossed \in SUBSET Users

Init ==
    /\ conn = [k \in Conns |-> "idle"]
    /\ forcing = [k \in Conns |-> {}]
    /\ queue = [c \in Channels |-> <<>>]
    /\ handled = [c \in Channels |-> FALSE]
    /\ members = {}
    /\ where = [s \in Users \X Parents |-> None]
    /\ state = [s \in Users \X Parents |-> "none"]
    /\ kicking = [u \in Users |-> None]
    /\ healing = {}
    /\ started = [c \in Channels |-> None]
    /\ unfinished = {}
    /\ existing = Channels
    /\ requests = 0
    /\ losses = 0
    /\ lost = {}
    /\ apart = {}
    /\ crossed = {}

LiveKit == <<conn, queue, handled>>
Record == <<members, where, state>>
Requests == <<forcing, kicking, healing>>
Messages == <<started, unfinished>>
Bounds == <<requests, losses>>
History == <<lost, apart, crossed>>

-----------------------------------------------------------------------------
(* The record in Redis *)

\* The keys of a state carry the user and the parent, not the channel.
Slot(u, c) == <<u, ParentOf[c]>>

\* Mutant: the key of the user names the server.
CreateNamesServer(u, c) ==
    /\ members' = members \cup {<<u, c>>}
    /\ where' = [where EXCEPT ![Slot(u, c)] = ParentOf[c]]
    /\ state' = [state EXCEPT ![Slot(u, c)] = "full"]

\* Mutant: the flags are left to the first track.
CreateWithoutFlags(u, c) ==
    /\ members' = members \cup {<<u, c>>}
    /\ where' = [where EXCEPT ![Slot(u, c)] = c]
    /\ UNCHANGED state

CreateState(u, c) ==
    /\ members' = members \cup {<<u, c>>}
    /\ where' = [where EXCEPT ![Slot(u, c)] = c]
    /\ state' = [state EXCEPT ![Slot(u, c)] = "full"]

\* Mutant: the user stays in the set of the channel.
DeleteKeysOnly(u, c) ==
    /\ where' = [where EXCEPT ![Slot(u, c)] = None]
    /\ state' = [state EXCEPT ![Slot(u, c)] = "none"]
    /\ UNCHANGED members

\* delete_voice_state: whichever channel the keys name by now.
DeleteState(u, c) ==
    /\ members' = members \ {<<u, c>>}
    /\ where' = [where EXCEPT ![Slot(u, c)] = None]
    /\ state' = [state EXCEPT ![Slot(u, c)] = "none"]

\* The webhook of k's end has not been handled.
Leaving(k) ==
    \E i \in DOMAIN queue[ChannelOf[k]] :
        LET e == queue[ChannelOf[k]][i]
        IN  e.type = "left" /\ e.conn = k /\ (i = 1 => ~handled[ChannelOf[k]])

\* A request deletes a state while LiveKit has the user, or has still to say he is gone.
NoteApart(u) ==
    apart' = IF \E k \in ConnsOf(u) : conn[k] = "in" \/ Leaving(k)
             THEN apart \cup {u} ELSE apart

-----------------------------------------------------------------------------
(* join_call *)

\* raise_if_in_voice: nobody is let in while any channel is in vc:{u}.
Ask(k) ==
    /\ conn[k] = "idle"
    /\ ChannelOf[k] \in existing
    /\ \A c \in Channels : <<UserOf[k], c>> \notin members
    /\ conn' = [conn EXCEPT ![k] = "asked"]
    /\ UNCHANGED <<queue, handled, Record, Requests, Messages, existing, Bounds, History>>

\* force_disconnect: get_user_voice_channels.
AskForce(k) ==
    /\ conn[k] = "idle"
    /\ ChannelOf[k] \in existing
    /\ conn' = [conn EXCEPT ![k] = "forcing"]
    /\ forcing' = [forcing EXCEPT ![k] = {c \in Channels : <<UserOf[k], c>> \in members}]
    /\ UNCHANGED <<queue, handled, Record, kicking, healing, Messages, existing, Bounds,
                   History>>

\* One turn of its loop.  There is no node, so nothing is asked of LiveKit; a channel
\* that no longer exists ends the request.
ForceOne(k) ==
    /\ conn[k] = "forcing"
    /\ \E c \in forcing[k] :
          IF c \in existing
          THEN /\ forcing' = [forcing EXCEPT ![k] = forcing[k] \ {c}]
               /\ DeleteState(UserOf[k], c)
               /\ NoteApart(UserOf[k])
               /\ UNCHANGED conn
          ELSE /\ forcing' = [forcing EXCEPT ![k] = {}]
               /\ conn' = [conn EXCEPT ![k] = "refused"]
               /\ UNCHANGED <<Record, apart>>
    /\ UNCHANGED <<queue, handled, kicking, healing, Messages, existing, Bounds, lost,
                   crossed>>

ForceDone(k) ==
    /\ conn[k] = "forcing"
    /\ forcing[k] = {}
    /\ conn' = [conn EXCEPT ![k] = "asked"]
    /\ UNCHANGED <<queue, handled, Record, Requests, Messages, existing, Bounds, History>>

-----------------------------------------------------------------------------
(* LiveKit *)

Counted == requests < MaxRequests /\ requests' = requests + 1

Webhook(type, k, first) == [type |-> type, conn |-> k, first |-> first]

Present(c) == {k \in ConnsIn(c) : conn[k] = "in"}

\* The client uses its token.
Connect(k) ==
    LET c == ChannelOf[k]
    IN
    /\ conn[k] = "asked"
    /\ Present(c) \cap ConnsOf(UserOf[k]) = {}
    /\ conn' = [conn EXCEPT ![k] = "in"]
    /\ queue' = [queue EXCEPT ![c] = Append(@, Webhook("joined", k, Present(c) = {}))]
    /\ UNCHANGED <<handled, Record, Requests, Messages, existing, Bounds, History>>

\* LiveKit has one participant per identity in a room: the one that is there leaves.
Reconnect(k) ==
    LET c == ChannelOf[k]
    IN
    /\ conn[k] = "asked"
    /\ \E d \in Present(c) \cap ConnsOf(UserOf[k]) :
          /\ conn' = [conn EXCEPT ![d] = "out", ![k] = "in"]
          /\ queue' = [queue EXCEPT ![c] =
                @ \o <<Webhook("left", d, FALSE), Webhook("joined", k, Present(c) = {d})>>]
    /\ UNCHANGED <<handled, Record, Requests, Messages, existing, Bounds, History>>

Leave(k) ==
    /\ conn[k] = "in"
    /\ conn' = [conn EXCEPT ![k] = "out"]
    /\ queue' = [queue EXCEPT ![ChannelOf[k]] = Append(@, Webhook("left", k, FALSE))]
    /\ UNCHANGED <<handled, Record, Requests, Messages, existing, Bounds, History>>

\* A track is published or changed; "forbidden" ones are too large, or data.
PublishTrack(k) ==
    /\ conn[k] = "in"
    /\ Counted
    /\ \E type \in {"track", "forbidden"} :
          queue' = [queue EXCEPT ![ChannelOf[k]] = Append(@, Webhook(type, k, FALSE))]
    /\ UNCHANGED <<conn, handled, Record, Requests, Messages, existing, losses, History>>

\* The event is answered, or given up.
Dequeue(c) == queue' = [queue EXCEPT ![c] = Tail(@)]

\* No attempt to deliver the event succeeds, or the handler fails after it has changed
\* the state.
Lose(c) ==
    /\ queue[c] # <<>>
    /\ losses < MaxLost
    /\ losses' = losses + 1
    /\ Dequeue(c)
    /\ handled' = [handled EXCEPT ![c] = FALSE]
    /\ lost' = lost \cup {c}
    /\ UNCHANGED <<conn, Record, Requests, Messages, existing, requests, apart, crossed>>

\* The handler fails after it has changed the state, and the event is delivered again.
Retry(c) ==
    /\ handled[c]
    /\ losses < MaxLost
    /\ losses' = losses + 1
    /\ handled' = [handled EXCEPT ![c] = FALSE]
    /\ UNCHANGED <<conn, queue, Record, Requests, Messages, existing, requests, History>>

-----------------------------------------------------------------------------
(* ingress *)

Arrives(c, type) == queue[c] # <<>> /\ Head(queue[c]).type = type /\ ~handled[c]

\* The channel is looked up first; without it every attempt is answered with an error.
Refuse(c) ==
    /\ queue[c] # <<>>
    /\ ~handled[c]
    /\ c \notin existing
    /\ Dequeue(c)
    /\ UNCHANGED <<conn, handled, Record, Requests, Messages, existing, Bounds, History>>

\* u is on record in another channel of the same server: they share their keys.
InAnother(u, c) ==
    \E d \in Channels \ {c} : ParentOf[d] = ParentOf[c] /\ <<u, d>> \in members

NoteCrossed(u, c) ==
    crossed' = IF InAnother(u, c) THEN crossed \cup {u} ELSE crossed

\* participant_joined, up to the event that tells the others.
Joined(c) ==
    LET k == Head(queue[c]).conn
        u == UserOf[k]
    IN
    /\ Arrives(c, "joined")
    /\ c \in existing
    /\ CreateState(u, c)
    /\ handled' = [handled EXCEPT ![c] = TRUE]
    /\ NoteCrossed(u, c)
    /\ UNCHANGED <<conn, queue, Requests, Messages, existing, Bounds, lost, apart>>

\* The first to join: the "call started" message.
CallStarts(c) ==
    /\ queue[c] # <<>> /\ Head(queue[c]).type = "joined" /\ handled[c]
    /\ IF Head(queue[c]).first
       THEN /\ started' = [started EXCEPT ![c] = Head(queue[c]).conn]
            /\ unfinished' = unfinished \cup {Head(queue[c]).conn}
       ELSE UNCHANGED Messages
    /\ Dequeue(c)
    /\ handled' = [handled EXCEPT ![c] = FALSE]
    /\ UNCHANGED <<conn, Record, Requests, existing, Bounds, History>>

\* Mutant: nothing to do for somebody who is not on record.
LeftIfRecorded(c) ==
    LET u == UserOf[Head(queue[c]).conn]
    IN
    /\ Arrives(c, "left")
    /\ c \in existing
    /\ IF <<u, c>> \in members
       THEN /\ DeleteState(u, c)
            /\ handled' = [handled EXCEPT ![c] = TRUE]
            /\ UNCHANGED queue
       ELSE /\ Dequeue(c)
            /\ UNCHANGED <<handled, Record>>
    /\ NoteCrossed(u, c)
    /\ UNCHANGED <<conn, Requests, Messages, existing, Bounds, lost, apart>>

\* Mutant: only the state that the keys describe is deleted.
LeftOfNamed(c) ==
    LET u == UserOf[Head(queue[c]).conn]
    IN
    /\ Arrives(c, "left")
    /\ c \in existing
    /\ IF where[Slot(u, c)] = c THEN DeleteState(u, c) ELSE UNCHANGED Record
    /\ handled' = [handled EXCEPT ![c] = TRUE]
    /\ NoteCrossed(u, c)
    /\ UNCHANGED <<conn, queue, Requests, Messages, existing, Bounds, lost, apart>>

\* participant_left, up to the event that tells the others.
Left(c) ==
    LET u == UserOf[Head(queue[c]).conn]
    IN
    /\ Arrives(c, "left")
    /\ c \in existing
    /\ DeleteState(u, c)
    /\ handled' = [handled EXCEPT ![c] = TRUE]
    /\ NoteCrossed(u, c)
    /\ UNCHANGED <<conn, queue, Requests, Messages, existing, Bounds, lost, apart>>

\* The last to leave: the message gets its end.
CallEnds(c) ==
    /\ queue[c] # <<>> /\ Head(queue[c]).type = "left" /\ handled[c]
    /\ IF \A u \in Users : <<u, c>> \notin members
       THEN /\ started' = [started EXCEPT ![c] = None]
            /\ unfinished' = unfinished \ {started[c]}
       ELSE UNCHANGED Messages
    /\ Dequeue(c)
    /\ handled' = [handled EXCEPT ![c] = FALSE]
    /\ UNCHANGED <<conn, Record, Requests, existing, Bounds, History>>

\* update_voice_state_tracks writes its key whether or not there is a state.
Track(c) ==
    LET slot == Slot(UserOf[Head(queue[c]).conn], c)
    IN
    /\ Arrives(c, "track")
    /\ c \in existing
    /\ state' = [state EXCEPT ![slot] = IF @ = "full" THEN @ ELSE "partial"]
    /\ Dequeue(c)
    /\ UNCHANGED <<conn, handled, members, where, Requests, Messages, existing, Bounds,
                   History>>

\* A forbidden track: LiveKit removes the participant (the webhook names the node), if
\* it is still there, and the state is deleted.
Forbidden(c) ==
    LET u == UserOf[Head(queue[c]).conn]
        there == Present(c) \cap ConnsOf(u)
    IN
    /\ Arrives(c, "forbidden")
    /\ c \in existing
    /\ DeleteState(u, c)
    /\ \/ /\ there = {}
          /\ Dequeue(c)
          /\ UNCHANGED conn
       \/ \E d \in there :
             /\ conn' = [conn EXCEPT ![d] = "out"]
             /\ queue' = [queue EXCEPT ![c] = Append(Tail(@), Webhook("left", d, FALSE))]
    /\ NoteCrossed(u, c)
    /\ UNCHANGED <<handled, Requests, Messages, existing, Bounds, lost, apart>>

-----------------------------------------------------------------------------
(* Other requests *)

\* member_remove, ban_create and leaving a server: the channel the keys name.
Kick(u) ==
    /\ kicking[u] = None
    /\ Counted
    /\ \E p \in Parents :
          /\ where[<<u, p>>] # None
          /\ kicking' = [kicking EXCEPT ![u] = where[<<u, p>>]]
    /\ UNCHANGED <<LiveKit, forcing, healing, Record, Messages, existing, losses, History>>

KickDeletes(u) ==
    /\ kicking[u] # None
    /\ DeleteState(u, kicking[u])
    /\ NoteApart(u)
    /\ kicking' = [kicking EXCEPT ![u] = None]
    /\ UNCHANGED <<LiveKit, forcing, healing, Messages, existing, Bounds, lost, crossed>>

\* get_channel_voice_state, for a Ready or a new member: a member without a state.
FindStateless(u, c) ==
    /\ c \in existing
    /\ <<u, c>> \in members
    /\ state[Slot(u, c)] # "full"
    /\ healing' = healing \cup {<<u, c>>}
    /\ UNCHANGED <<LiveKit, forcing, kicking, Record, Messages, existing, Bounds, History>>

Heal(u, c) ==
    /\ <<u, c>> \in healing
    /\ DeleteState(u, c)
    /\ healing' = healing \ {<<u, c>>}
    /\ UNCHANGED <<LiveKit, forcing, kicking, Messages, existing, Bounds, History>>

\* channel_delete.  With a call on, it panics for want of a node once the channel is
\* gone; without one there is nothing more to do.
DeleteChannel(c) ==
    /\ c \in existing
    /\ Counted
    /\ existing' = existing \ {c}
    /\ UNCHANGED <<LiveKit, Requests, Record, Messages, losses, History>>

-----------------------------------------------------------------------------
Client(k) ==
    \/ Ask(k) \/ AskForce(k) \/ ForceOne(k) \/ ForceDone(k)
    \/ Connect(k) \/ Reconnect(k) \/ Leave(k) \/ PublishTrack(k)

Ingress(c) ==
    \/ Refuse(c) \/ Joined(c) \/ CallStarts(c) \/ Left(c) \/ CallEnds(c)
    \/ Track(c) \/ Forbidden(c)

Next ==
    \/ \E k \in Conns : Client(k)
    \/ \E c \in Channels : Ingress(c) \/ Lose(c) \/ Retry(c) \/ DeleteChannel(c)
    \/ \E u \in Users : Kick(u) \/ KickDeletes(u)
    \/ \E u \in Users, c \in Channels : FindStateless(u, c) \/ Heal(u, c)

Spec == Init /\ [][Next]_vars

\* LiveKit delivers the webhooks of each room, and the daemon answers them.
FairSpec == Spec /\ \A c \in Channels : WF_vars(Ingress(c))

-----------------------------------------------------------------------------
(* Properties *)

\* Nobody is recorded in a call that he is neither in nor about to be removed from: he
\* could not join another one.  A lost webhook and a deleted channel are the only ways.
NoGhost ==
    \A u \in Users, c \in existing \ lost :
        <<u, c>> \in members =>
            \E k \in ConnsOf(u) \cap ConnsIn(c) : conn[k] = "in" \/ Leaving(k)

\* Nothing of u is under way.
Quiet(u) ==
    /\ \A k \in ConnsOf(u) :
          /\ conn[k] # "forcing"
          /\ \A i \in DOMAIN queue[ChannelOf[k]] : UserOf[queue[ChannelOf[k]][i].conn] # u
    /\ kicking[u] = None
    /\ \A c \in Channels : <<u, c>> \notin healing

\* Channels that exist, of servers of which no webhook was lost
Undamaged == {c \in existing : \A d \in lost : ParentOf[d] # ParentOf[c]}

\* Once everything is handled the record is what LiveKit has, and each member has its
\* state, whatever the order in which the events of several rooms, requests and readers
\* came.  The exceptions are servers of which a webhook was lost, users whose state a
\* request deleted under their connection, and users whose join, end or removal (for a
\* forbidden track) was handled while they were on record in another channel of the same
\* server.
AgreesAtRest ==
    \A u \in Users \ (apart \cup crossed) :
        Quiet(u) =>
            \A c \in Undamaged :
                /\ <<u, c>> \in members <=> Present(c) \cap ConnsOf(u) # {}
                /\ <<u, c>> \in members =>
                      where[Slot(u, c)] = c /\ state[Slot(u, c)] = "full"

\* When the last one has left, every "call started" message of the channel has its end,
\* requests and readers that deleted states in the middle of the call notwithstanding.
CallsEnd ==
    \A c \in existing \ lost :
        queue[c] = <<>> /\ Present(c) = {} => unfinished \cap ConnsIn(c) = {}

Gone(u) == \A k \in ConnsOf(u) : conn[k] \in {"out", "refused"}

\* A user who has left every call can join another one in the end.
LeavesAreNoticed ==
    \A u \in Users :
        Gone(u) ~> \A c \in existing \ lost : <<u, c>> \notin members

-----------------------------------------------------------------------------
(* Inductive invariant *)

\* The webhooks in q are about connections to c.
About(q, c) == \A i \in DOMAIN q : ChannelOf[q[i].conn] = c

\* Whoever has joined, says q, is in according to C, or q says later that he left.
JoinersStay(q, C) ==
    \A i \in DOMAIN q :
        q[i].type = "joined" =>
            \/ C[q[i].conn] = "in"
            \/ \E j \in DOMAIN q : j > i /\ q[j].type = "left" /\ q[j].conn = q[i].conn

Addressed == \A c \in Channels : About(queue[c], c)

Joining == \A c \in existing \ lost : JoinersStay(queue[c], conn)

Handling == \A c \in Channels : handled[c] => queue[c] # <<>>

IInv == TypeOK /\ Addressed /\ Joining /\ Handling /\ NoGhost

\* LiveKit has one participant per identity in a room.
Single ==
    \A k, d \in Conns :
        conn[k] = "in" /\ conn[d] = "in" /\ ChannelOf[k] = ChannelOf[d]
            /\ UserOf[k] = UserOf[d] => k = d

\* The keys of a member describe the call he is a member of ...
KeysFit ==
    \A u \in Users \ (apart \cup crossed), c \in Undamaged :
        <<u, c>> \in members => where[Slot(u, c)] = c /\ state[Slot(u, c)] = "full"

\* ... so that no reader finds fault with them.
NothingToHeal ==
    \A u \in Users \ (apart \cup crossed), c \in Channels :
        <<u, c>> \in healing => \E d \in lost : ParentOf[d] = ParentOf[c]

\* The webhooks in q from n on do not say that u left.
NeverLeaves(q, n, u) ==
    \A j \in DOMAIN q : j >= n => ~(q[j].type = "left" /\ UserOf[q[j].conn] = u)

\* The user of k is a member, or the webhook that makes him one is under way; after that
\* none says that he left.
Registered(k) ==
    LET c == ChannelOf[k]
        u == UserOf[k]
    IN  \/ <<u, c>> \in members /\ NeverLeaves(queue[c], 1, u)
        \/ \E i \in DOMAIN queue[c] :
              /\ queue[c][i].type = "joined" /\ queue[c][i].conn = k
              /\ i = 1 => ~handled[c]
              /\ NeverLeaves(queue[c], i, u)

Entered ==
    \A k \in Conns :
        /\ conn[k] = "in"
        /\ UserOf[k] \notin apart \cup crossed
        /\ ChannelOf[k] \in Undamaged
        => Registered(k)

AgreeInv == IInv /\ Single /\ KeysFit /\ NothingToHeal /\ Entered

\* Between two of the first to join, everybody on record has left.
Anew(q, i, c) ==
    /\ unfinished \cap ConnsIn(c) # {} => \E j \in DOMAIN q : j < i /\ q[j].type = "left"
    /\ \A u \in Users : <<u, c>> \in members /\ i # 1 =>
          \E j \in DOMAIN q : /\ j < i /\ q[j].type = "left" /\ UserOf[q[j].conn] = u
                              /\ j = 1 => ~handled[c]
    /\ \A h \in DOMAIN q : h < i /\ q[h].type = "joined" =>
          \E j \in DOMAIN q : h < j /\ j < i /\ q[j].type = "left" /\ q[j].conn = q[h].conn

\* One message at most has no end, and whoever is left in the room, or the end of his
\* connection, will give it one.
OneMessageIn(c) ==
    /\ unfinished \cap ConnsIn(c) \subseteq {started[c]}
    /\ unfinished \cap ConnsIn(c) # {} =>
          Present(c) # {} \/ \E i \in DOMAIN queue[c] : queue[c][i].type = "left"
    /\ \A i \in DOMAIN queue[c] :
          queue[c][i].type = "joined" /\ queue[c][i].first => Anew(queue[c], i, c)

OneMessage == \A c \in existing \ lost : OneMessageIn(c)

CallInv == IInv /\ OneMessage

=============================================================================
