---------------------------- MODULE ServerFeed ----------------------------
(***************************************************************************)
(* How one member of a server comes to see its channels: requests to the   *)
(* API edit the server in the database and publish what they did, the      *)
(* member's session (bonfire) keeps a copy of the server, works out from   *)
(* it which channels the member may view, subscribes to them and rewrites  *)
(* the events, and the client keeps the channels it is told of.            *)
(*                                                                         *)
(* Of a permission only the bit ViewChannel is kept: a value is what an    *)
(* override does to it.  Timeouts, muting and the owner do not touch it.   *)
(* Not covered: changes of rank, joining and leaving the server, and other *)
(* kinds of channel.  Who may make a request is not covered either: any    *)
(* edit can be made at any time.                                           *)
(***************************************************************************)
EXTENDS Naturals, Sequences

CONSTANTS
    Roles,
    Rank,         \* Rank[r]: roles of a lower rank are applied later
    Channels,
    None,
    FirstRoles,   \* roles and channels that exist from the start
    FirstChannels,
    MaxEdits      \* bound on the edits in one behaviour

Override == {"neutral", "allow", "deny"}

ChannelData == [default : Override, roles : [Roles -> Override]]

ASSUME FeedAssumption ==
    /\ Rank \in [Roles -> Nat]
    /\ \A r, q \in Roles : Rank[r] = Rank[q] => r = q
    /\ Roles \cap Channels = {}
    /\ None \notin Roles \cup Channels \cup ChannelData
    /\ FirstRoles \subseteq Roles
    /\ FirstChannels \subseteq Channels
    /\ MaxEdits \in Nat

VARIABLES
    db,       \* the server, its channels and the member in the database
    edits,    \* how many edits have been begun
    reading,  \* reading[i]: edit i has read a channel or the server: what it does, and the copy
    sending,  \* sending[i]: what edit i has still to publish, and to delete after that
    phase,    \* how far the session has come with its Ready payload
    cache,    \* what the session keeps of db
    subs,     \* channels the session wants to hear
    redis,    \* channels it is subscribed to
    inbox,    \* events on their way from Redis to the session
    outbox,   \* events on their way from the session to the client
    known,    \* channels the client knows
    unheard,  \* history: channels the session has cached without hearing them
    used,     \* history: ids that were ever given out
    late,     \* history: roles made since the session has read the server
    mixed     \* history: an edit overlapped with another one or with the Ready payload

vars == <<db, edits, reading, sending, phase, cache, subs, redis, inbox, outbox, known,
          unheard, used, late, mixed>>

\* default and roles say what the server does to ViewChannel, mine the member's roles,
\* listed the server's list of channels, chan the channels.
View ==
    [default : BOOLEAN, roles : [Roles -> Override \cup {"absent"}], mine : SUBSET Roles,
     listed : SUBSET Channels, chan : [Channels -> ChannelData \cup {None}]]

Event ==
    [type : {"server"}, default : BOOLEAN] \cup
    [type : {"listed"}, listed : SUBSET Channels] \cup
    [type : {"role"}, role : Roles, perms : Override] \cup
    [type : {"roleDeleted"}, role : Roles] \cup
    [type : {"member"}, roles : SUBSET Roles] \cup
    [type : {"create"}, chan : Channels, data : ChannelData] \cup
    [type : {"default"}, chan : Channels, perms : Override] \cup
    [type : {"overrides"}, chan : Channels, perms : [Roles -> Override]] \cup
    [type : {"rename"}, chan : Channels] \cup
    [type : {"delete"}, chan : Channels]

\* What an event means for the channels of the client.
Told == [delete : SUBSET Channels, create : SUBSET Channels]

Edits == 1 .. MaxEdits

\* What an edit has read, and what it is about to write.
Overriding == [chan : Channels, role : Roles, perms : Override, copy : [Roles -> Override]]
Listing == [chan : Channels, copy : SUBSET Channels]

Sending == [events : Seq(Event), after : {None} \cup Channels \cup Roles]

TypeOK ==
    /\ db \in View
    /\ edits \in 0 .. MaxEdits
    /\ reading \in [Edits -> {None} \cup Overriding \cup Listing]
    /\ sending \in [Edits -> Sending]
    /\ phase \in {"off", "member", "server", "ready", "live"}
    /\ cache \in View
    /\ subs \in SUBSET Channels
    /\ redis \in SUBSET Channels
    /\ inbox \in Seq(Event)
    /\ outbox \in Seq(Told)
    /\ known \in SUBSET Channels
    /\ unheard \in SUBSET Channels
    /\ used \in SUBSET (Roles \cup Channels)
    /\ late \in SUBSET Roles
    /\ mixed \in BOOLEAN

Plain == [default |-> "neutral", roles |-> [r \in Roles |-> "neutral"]]

Nothing ==
    [default |-> FALSE, roles |-> [r \in Roles |-> "absent"], mine |-> {}, listed |-> {},
     chan |-> [c \in Channels |-> None]]

Sent == [events |-> <<>>, after |-> None]

Init ==
    /\ \E view \in BOOLEAN, perms \in Override, mine \in SUBSET FirstRoles :
          db = [default |-> view,
                roles |-> [r \in Roles |-> IF r \in FirstRoles THEN perms ELSE "absent"],
                mine |-> mine,
                listed |-> FirstChannels,
                chan |-> [c \in Channels |-> IF c \in FirstChannels THEN Plain ELSE None]]
    /\ edits = 0
    /\ reading = [i \in Edits |-> None]
    /\ sending = [i \in Edits |-> Sent]
    /\ phase = "off"
    /\ cache = Nothing
    /\ subs = {}
    /\ redis = {}
    /\ inbox = <<>>
    /\ outbox = <<>>
    /\ known = {}
    /\ unheard = {}
    /\ used = FirstRoles \cup FirstChannels
    /\ late = {}
    /\ mixed = FALSE

Session == <<phase, cache, subs, redis, outbox, unheard>>

-----------------------------------------------------------------------------
(* Permissions *)

\* The last of the given roles, in order of application, that says anything, decides.
Decide(roles, perms, base) ==
    LET deciding == {r \in roles : perms[r] \in {"allow", "deny"}}
    IN  IF deciding = {} THEN base
        ELSE \E r \in deciding :
                perms[r] = "allow" /\ \A q \in deciding : Rank[r] <= Rank[q]

\* calculate_server_permissions
MayViewServer(v) == Decide(v.mine, v.roles, v.default)

\* calculate_channel_permissions of a server channel
MayView(v, data) ==
    Decide({r \in v.mine : v.roles[r] # "absent"}, data.roles,
           IF data.default = "neutral" THEN MayViewServer(v) ELSE data.default = "allow")

HasChannels(v) == {c \in Channels : v.chan[c] # None}
Viewable(v) == {c \in HasChannels(v) : MayView(v, v.chan[c])}

-----------------------------------------------------------------------------
(* Requests to the API *)

Idle(i) == reading[i] = None /\ sending[i] = Sent

\* A new edit, and whether anything else is under way.
Begin ==
    /\ edits < MaxEdits
    /\ edits' = edits + 1
    /\ mixed' = (mixed \/ phase \notin {"off", "live"} \/ \E i \in Edits : ~Idle(i))

\* What is to be published once the database has been written, and what is to be deleted
\* from it once that has been published.
Send(i, events, after) == sending' = [sending EXCEPT ![i] = [events |-> events, after |-> after]]

Write(event) == Begin /\ Send(edits + 1, <<event>>, None)

SetServerDefault ==
    /\ \E view \in BOOLEAN :
          /\ db' = [db EXCEPT !.default = view]
          /\ Write([type |-> "server", default |-> view])
    /\ UNCHANGED <<reading, Session, inbox, known, used, late>>

\* Mutant: the event has the role as it was before.
CreateRoleReadsBefore(r) ==
    /\ r \notin used
    /\ db' = [db EXCEPT !.roles[r] = "neutral"]
    /\ Write([type |-> "role", role |-> r, perms |-> db.roles[r]])
    /\ used' = used \cup {r}
    /\ late' = IF phase \in {"off", "member"} THEN late ELSE late \cup {r}
    /\ UNCHANGED <<reading, Session, inbox, known>>

CreateRole(r) ==
    /\ r \notin used
    /\ db' = [db EXCEPT !.roles[r] = "neutral"]
    /\ Write([type |-> "role", role |-> r, perms |-> "neutral"])
    /\ used' = used \cup {r}
    /\ late' = IF phase \in {"off", "member"} THEN late ELSE late \cup {r}
    /\ UNCHANGED <<reading, Session, inbox, known>>

SetRole(r) ==
    /\ db.roles[r] # "absent"
    /\ \E perms \in Override :
          /\ db' = [db EXCEPT !.roles[r] = perms]
          /\ Write([type |-> "role", role |-> r, perms |-> perms])
    /\ UNCHANGED <<reading, Session, inbox, known, used, late>>

DeleteRole(r) ==
    /\ db.roles[r] # "absent"
    /\ Begin
    /\ Send(edits + 1, <<[type |-> "roleDeleted", role |-> r]>>, r)
    /\ UNCHANGED <<db, reading, Session, inbox, known, used, late>>

SetMemberRoles ==
    /\ \E roles \in SUBSET {r \in Roles : db.roles[r] # "absent"} :
          /\ db' = [db EXCEPT !.mine = roles]
          /\ Write([type |-> "member", roles |-> roles])
    /\ UNCHANGED <<reading, Session, inbox, known, used, late>>

SetChannelDefault(c) ==
    /\ db.chan[c] # None
    /\ \E perms \in Override :
          /\ db' = [db EXCEPT !.chan[c].default = perms]
          /\ Write([type |-> "default", chan |-> c, perms |-> perms])
    /\ UNCHANGED <<reading, Session, inbox, known, used, late>>

\* Any other change to a channel.
RenameChannel(c) ==
    /\ db.chan[c] # None
    /\ Write([type |-> "rename", chan |-> c])
    /\ UNCHANGED <<db, reading, Session, inbox, known, used, late>>

\* The event has all the overrides of the channel as the request has read them before.
ReadOverrides(c, r) ==
    /\ db.chan[c] # None
    /\ db.roles[r] # "absent"
    /\ Begin
    /\ \E perms \in Override :
          reading' = [reading EXCEPT ![edits + 1] =
                        [chan |-> c, role |-> r, perms |-> perms, copy |-> db.chan[c].roles]]
    /\ UNCHANGED <<db, sending, Session, inbox, known, used, late>>

WriteOverride(i) ==
    LET q == reading[i]
    IN
    /\ q # None
    /\ "role" \in DOMAIN q
    /\ db' = [db EXCEPT !.chan[q.chan] =
                IF @ = None THEN None ELSE [@ EXCEPT !.roles[q.role] = q.perms]]
    /\ Send(i, <<[type |-> "overrides", chan |-> q.chan,
                   perms |-> [q.copy EXCEPT ![q.role] = q.perms]]>>, None)
    /\ reading' = [reading EXCEPT ![i] = None]
    /\ UNCHANGED <<edits, Session, inbox, known, used, late, mixed>>

\* The list of channels that is written is the one the request has read before.
InsertChannel(c) ==
    /\ c \notin used
    /\ Begin
    /\ db' = [db EXCEPT !.chan[c] = Plain]
    /\ reading' = [reading EXCEPT ![edits + 1] = [chan |-> c, copy |-> db.listed]]
    /\ used' = used \cup {c}
    /\ UNCHANGED <<sending, Session, inbox, known, late>>

ListChannel(i) ==
    LET q == reading[i]
    IN
    /\ q # None
    /\ "role" \notin DOMAIN q
    /\ db' = [db EXCEPT !.listed = q.copy \cup {q.chan}]
    /\ Send(i, <<[type |-> "listed", listed |-> q.copy \cup {q.chan}],
                 [type |-> "create", chan |-> q.chan, data |-> Plain]>>, None)
    /\ reading' = [reading EXCEPT ![i] = None]
    /\ UNCHANGED <<edits, Session, inbox, known, used, late, mixed>>

DeleteChannel(c) ==
    /\ db.chan[c] # None
    /\ Begin
    /\ Send(edits + 1, <<[type |-> "delete", chan |-> c]>>, c)
    /\ UNCHANGED <<db, reading, Session, inbox, known, used, late>>

\* Redis hands an event to those who are subscribed now: to the topic of the channel when
\* it is deleted, to that of the server otherwise.
Publish(i) ==
    LET e == Head(sending[i].events)
        heard == IF e.type = "delete" THEN e.chan \in redis ELSE phase = "live"
    IN
    /\ sending[i].events # <<>>
    /\ sending' = [sending EXCEPT ![i].events = Tail(@)]
    /\ inbox' = IF heard THEN Append(inbox, e) ELSE inbox
    /\ UNCHANGED <<db, edits, reading, Session, known, used, late, mixed>>

\* A role is taken from the members and from one of the channels; the few writes to the
\* database are one step.
FinishRole(i) ==
    LET r == sending[i].after
    IN
    /\ sending[i].events = <<>>
    /\ r \in Roles
    /\ \E c \in Channels :
          db' = [db EXCEPT !.roles[r] = "absent", !.mine = @ \ {r},
                           !.chan[c] = IF @ = None THEN None
                                       ELSE [@ EXCEPT !.roles[r] = "neutral"]]
    /\ sending' = [sending EXCEPT ![i] = Sent]
    /\ UNCHANGED <<edits, reading, Session, inbox, known, used, late, mixed>>

FinishChannel(i) ==
    LET c == sending[i].after
    IN
    /\ sending[i].events = <<>>
    /\ c \in Channels
    /\ db' = [db EXCEPT !.listed = @ \ {c}, !.chan[c] = None]
    /\ sending' = [sending EXCEPT ![i] = Sent]
    /\ UNCHANGED <<edits, reading, Session, inbox, known, used, late, mixed>>

-----------------------------------------------------------------------------
(* The session: Ready *)

ReadMember ==
    /\ phase = "off"
    /\ phase' = "member"
    /\ cache' = [cache EXCEPT !.mine = db.mine]
    /\ mixed' = (mixed \/ \E i \in Edits : ~Idle(i))
    /\ UNCHANGED <<db, edits, reading, sending, subs, redis, inbox, outbox, known, unheard,
                   used, late>>

ReadServer ==
    /\ phase = "member"
    /\ phase' = "server"
    /\ cache' = [cache EXCEPT !.default = db.default, !.roles = db.roles, !.listed = db.listed]
    /\ UNCHANGED <<db, edits, reading, sending, subs, redis, inbox, outbox, known, unheard,
                   used, late, mixed>>

\* The channels of server v that the database has and the member may view.
Fetched(v, chans) == {c \in chans : db.chan[c] # None /\ MayView(v, db.chan[c])}

Tell(deleted, created) ==
    outbox' = IF deleted \cup created = {} THEN outbox
              ELSE Append(outbox, [delete |-> deleted, create |-> created])

ReadChannels ==
    LET seen == Fetched(cache, cache.listed)
    IN
    /\ phase = "server"
    /\ phase' = "ready"
    /\ cache' = [cache EXCEPT !.chan = [c \in Channels |-> IF c \in seen THEN db.chan[c] ELSE None]]
    /\ subs' = seen
    /\ Tell({}, seen)
    /\ UNCHANGED <<db, edits, reading, sending, redis, inbox, known, unheard, used, late, mixed>>

\* The turn of the listener's loop starts with the changes of its subscriptions.
Subscribe ==
    /\ phase \in {"ready", "live"}
    /\ phase = "live" => redis # subs
    /\ phase' = "live"
    /\ redis' = subs
    /\ UNCHANGED <<db, edits, reading, sending, cache, subs, inbox, outbox, known, unheard,
                   used, late, mixed>>

-----------------------------------------------------------------------------
(* The session: events *)

Incoming(type) ==
    /\ phase = "live"
    /\ redis = subs
    /\ inbox # <<>>
    /\ Head(inbox).type = type
    /\ inbox' = Tail(inbox)
    /\ UNCHANGED <<db, edits, reading, sending, phase, redis, known, used, late, mixed>>

\* The session keeps v and hears the channels of s from now on.
Keep(v, s) ==
    /\ cache' = v
    /\ subs' = s
    /\ unheard' = unheard \cup (HasChannels(v) \ s)

\* Of the channels it has, the session drops those the member may no longer view; those
\* of the server's list that it has not are fetched.
Dropped(v) == HasChannels(v) \ Viewable(v)
Found(v) == Fetched(v, v.listed \ HasChannels(v))

Refreshed(v) ==
    [v EXCEPT !.chan = [c \in Channels |-> IF c \in Dropped(v) THEN None
                                          ELSE IF c \in Found(v) THEN db.chan[c] ELSE @[c]]]

\* Mutant: the channels the session already has are not subscribed to.
RecalculateFetched(v) ==
    Keep(Refreshed(v), (subs \cup Found(v)) \ Dropped(v)) /\ Tell(Dropped(v), Found(v))

\* Mutant: the client is not told of the channels that are dropped.
RecalculateSilently(v) ==
    Keep(Refreshed(v), (subs \cup Viewable(v) \cup Found(v)) \ Dropped(v)) /\ Tell({}, Found(v))

\* recalculate_server
Recalculate(v) ==
    /\ Keep(Refreshed(v), (subs \cup Viewable(v) \cup Found(v)) \ Dropped(v))
    /\ Tell(Dropped(v), Found(v))

Leave(v) == Keep(v, subs) /\ Tell({}, {})

ServerUpdate ==
    LET e == Head(inbox)
    IN
    \/ Incoming("server") /\ Recalculate([cache EXCEPT !.default = e.default])
    \/ Incoming("listed") /\ Leave([cache EXCEPT !.listed = e.listed])

ServerMemberUpdate ==
    Incoming("member") /\ Recalculate([cache EXCEPT !.mine = Head(inbox).roles])

\* A role that the session does not have is not added.
ServerRoleUpdate ==
    LET e == Head(inbox)
        v == IF cache.roles[e.role] = "absent" THEN cache
             ELSE [cache EXCEPT !.roles[e.role] = e.perms]
    IN
    /\ Incoming("role")
    /\ IF e.role \in cache.mine THEN Recalculate(v) ELSE Leave(v)

ServerRoleDelete ==
    LET e == Head(inbox)
        v == [cache EXCEPT !.roles[e.role] = "absent"]
    IN
    /\ Incoming("roleDeleted")
    /\ IF e.role \in cache.mine THEN Recalculate(v) ELSE Leave(v)

ChannelCreate ==
    LET e == Head(inbox)
    IN
    /\ Incoming("create")
    /\ Keep([cache EXCEPT !.chan[e.chan] = e.data], subs \cup {e.chan})
    /\ Tell({}, {e.chan})

ChannelDelete ==
    LET e == Head(inbox)
    IN
    /\ Incoming("delete")
    /\ Keep([cache EXCEPT !.chan[e.chan] = None], subs \ {e.chan})
    /\ Tell({e.chan}, {})

Applied(data, e) ==
    CASE e.type = "default" -> [data EXCEPT !.default = e.perms]
      [] e.type = "overrides" -> [data EXCEPT !.roles = e.perms]
      [] e.type = "rename" -> data

\* Mutant: a channel that the session does not have is not fetched.
UpdatedIfCached(e) == [cache EXCEPT !.chan[e.chan] = IF @ = None THEN None ELSE Applied(@, e)]

\* A channel that the session does not have is fetched.
Updated(e) == [cache EXCEPT !.chan[e.chan] = IF @ = None THEN db.chan[e.chan] ELSE Applied(@, e)]

\* The client is told of the channel when the member may view it only now, and told that it
\* is gone when he no longer may; the session keeps it in either case.
ChannelUpdate ==
    LET e == Head(inbox)
        v == Updated(e)
        could == e.chan \in Viewable(cache)
        can == e.chan \in Viewable(v)
    IN
    /\ \E type \in {"default", "overrides", "rename"} : Incoming(type)
    /\ \/ could = can /\ Leave(v)
       \/ ~could /\ can /\ Keep(v, subs \cup {e.chan}) /\ Tell({}, {e.chan})
       \/ could /\ ~can /\ Keep(v, subs \ {e.chan}) /\ Tell({e.chan}, {})

-----------------------------------------------------------------------------
(* The client *)

HandleEvent ==
    /\ outbox # <<>>
    /\ known' = (known \ Head(outbox).delete) \cup Head(outbox).create
    /\ outbox' = Tail(outbox)
    /\ UNCHANGED <<db, edits, reading, sending, phase, cache, subs, redis, inbox, unheard,
                   used, late, mixed>>

-----------------------------------------------------------------------------
Request(i) == WriteOverride(i) \/ ListChannel(i) \/ Publish(i) \/ FinishRole(i) \/ FinishChannel(i)

Next ==
    \/ SetServerDefault \/ SetMemberRoles
    \/ \E r \in Roles : CreateRole(r) \/ SetRole(r) \/ DeleteRole(r)
    \/ \E c \in Channels :
          \/ SetChannelDefault(c) \/ RenameChannel(c) \/ InsertChannel(c) \/ DeleteChannel(c)
          \/ \E r \in Roles : ReadOverrides(c, r)
    \/ \E i \in Edits : Request(i)
    \/ ReadMember \/ ReadServer \/ ReadChannels \/ Subscribe
    \/ ServerUpdate \/ ServerMemberUpdate \/ ServerRoleUpdate \/ ServerRoleDelete
    \/ ChannelCreate \/ ChannelDelete \/ ChannelUpdate
    \/ HandleEvent

Spec == Init /\ [][Next]_vars

-----------------------------------------------------------------------------
(* Properties *)

Cached == HasChannels(cache)

\* The session hears every channel that, by what it has been told, the member may view,
\* and none that it does not keep: whichever of the events makes the difference.
HearsWhatItMayView ==
    phase \in {"ready", "live"} => Viewable(cache) \subseteq subs /\ subs \subseteq Cached

\* The client knows the channels whose events it gets.  The exception is a channel that
\* the session has kept without hearing it: it may hear it later and not tell the client.
ClientKnowsWhatItHears ==
    phase \in {"ready", "live"} /\ outbox = <<>> =>
        \A c \in Channels \ unheard : c \in subs <=> c \in known

Quiet ==
    /\ phase = "live" /\ redis = subs /\ inbox = <<>>
    /\ \A i \in Edits : Idle(i)

\* Edits that follow one another reach the session, however far it lags behind them and
\* whatever it reads from the database meanwhile: it hears the channels the member may
\* view.  The exceptions are edits that overlap, or are made while the session reads its
\* Ready payload, and roles made since, which the session does not know.
FollowsSerialEdits ==
    Quiet /\ ~mixed /\ db.mine \cap late = {} =>
        \A c \in db.listed :
            /\ MayView(db, db.chan[c]) => c \in subs
            /\ c \in Cached => MayView(cache, cache.chan[c]) = MayView(db, db.chan[c])

-----------------------------------------------------------------------------
(* Inductive invariant *)

\* Before its Ready payload the session hears nothing.
Silent == phase \notin {"ready", "live"} => subs = {}

\* What the session keeps and does not hear is on record as such.
Noticed == phase \in {"ready", "live"} => Cached \ subs \subseteq unheard

Mentions(told, c) == c \in told.delete \cup told.create

\* The last that the client has been, or will be, told of a channel is whether the
\* session hears it.
LastWord ==
    \A c \in Channels \ unheard :
        /\ \A i \in DOMAIN outbox :
              /\ Mentions(outbox[i], c)
              /\ \A j \in DOMAIN outbox : j > i => ~Mentions(outbox[j], c)
              => (c \in subs <=> c \in outbox[i].create)
        /\ (\A i \in DOMAIN outbox : ~Mentions(outbox[i], c)) => (c \in subs <=> c \in known)

IInv == TypeOK /\ Silent /\ Noticed /\ HearsWhatItMayView /\ LastWord

\* The rest is for edits that follow one another.  What the one under way has read is still
\* so,
StillSo(q) ==
    /\ q \in Overriding => db.chan[q.chan] # None /\ q.copy = db.chan[q.chan].roles
    /\ q \in Listing => db.chan[q.chan] = Plain /\ q.copy = db.listed

\* and it is the only one, while the session does not read its Ready payload.
Alone ==
    /\ \A i \in Edits : Idle(i) \/ (i = edits /\ phase \in {"off", "live"})
    /\ \A i \in Edits : reading[i] # None => sending[i] = Sent /\ StillSo(reading[i])
    /\ \A i \in Edits : \A n \in DOMAIN sending[i].events :
          sending[i].events[n].type = "delete" => Len(sending[i].events) = 1
    /\ db.listed \subseteq HasChannels(db)

\* Nothing reaches a session that has not subscribed.
Unsubscribed ==
    /\ phase # "live" => inbox = <<>> /\ redis = {}
    /\ phase \in {"off", "member"} => late = {}

\* Ids are given out once, the member has roles that exist, and a role the session has not
\* read is unknown to it.
Ids ==
    /\ \A r \in Roles \ used : db.roles[r] = "absent" /\ cache.roles[r] = "absent"
    /\ \A c \in Channels \ used : db.chan[c] = None
    /\ \A i \in Edits : sending[i].after # None => sending[i].after \in used
    /\ \A r \in db.mine : db.roles[r] # "absent"
    /\ \A r \in late : r \in used /\ cache.roles[r] = "absent"

\* What the session has still to hear of: the events in its inbox, then those that the
\* edit under way has to publish.
Pending == IF edits \in Edits THEN sending[edits].events ELSE <<>>
Coming == inbox \o Pending

NoneIn(q, S) == \A i \in DOMAIN q : q[i] \notin S

\* If events of q are in S, the last of them is in T.
LastIn(q, S, T) ==
    \A i \in DOMAIN q : q[i] \in S /\ (\A j \in DOMAIN q : j > i => q[j] \notin S) => q[i] \in T

About(type) == {e \in Event : e.type = type}
AboutRole(type, r) == {e \in Event : e.type = type /\ e.role = r}
AboutChannel(types, c) == {e \in Event : e.type \in types /\ e.chan = c}

\* Roles that were deleted, and the roles and channels that an edit is about to delete.
Gone == {r \in Roles \cap used : db.roles[r] = "absent"}
Leaving(x) == \E i \in Edits : sending[i].after = x
Staying == {c \in db.listed : ~Leaving(c)}

\* The last the session hears of each part of the server, or else its copy, is what the
\* database has: of the default,
DefaultFollows ==
    /\ LastIn(Coming, About("server"), {e \in Event : e.default = db.default})
    /\ NoneIn(Coming, About("server")) => cache.default = db.default

\* of the member's roles,
MineFollows ==
    /\ LastIn(Coming, About("member"), {e \in Event : e.roles \ Gone = db.mine})
    /\ NoneIn(Coming, About("member")) => cache.mine \ Gone = db.mine

\* of a role that the session has read,
RoleFollows(r) ==
    \/ /\ db.roles[r] = "absent" \/ Leaving(r)
       /\ cache.roles[r] = "absent" \/ ~NoneIn(Coming, AboutRole("roleDeleted", r))
    \/ /\ db.roles[r] # "absent" /\ ~Leaving(r)
       /\ cache.roles[r] # "absent" /\ NoneIn(Coming, AboutRole("roleDeleted", r))
       /\ LastIn(Coming, AboutRole("role", r), {e \in Event : e.perms = db.roles[r]})
       /\ NoneIn(Coming, AboutRole("role", r)) => cache.roles[r] = db.roles[r]

\* of the list: it has the channel, now or when the channel is announced,
HasListed(q, list, c) ==
    \/ c \in list /\ \A i \in DOMAIN q : q[i].type = "listed" => c \in q[i].listed
    \/ \E i, j \in DOMAIN q :
          /\ i < j /\ q[i].type = "listed" /\ q[j] \in AboutChannel({"create"}, c)
          /\ \A k \in DOMAIN q : k >= i /\ q[k].type = "listed" => c \in q[k].listed

ListFollows(c) == HasListed(Coming, cache.listed, c)

\* of what a channel does to everybody, and to the roles that are left.
ChannelDefaultFollows(c) ==
    LET says(e) == IF e.type = "create" THEN e.data.default ELSE e.perms
        S == AboutChannel({"create", "default"}, c)
        now == db.chan[c].default
    IN  /\ LastIn(Coming, S, {e \in Event : says(e) = now})
        /\ c \in Cached /\ NoneIn(Coming, S) => cache.chan[c].default = now

OverridesFollow(c) ==
    LET says(e) == IF e.type = "create" THEN e.data.roles ELSE e.perms
        S == AboutChannel({"create", "overrides"}, c)
        Agrees(f) == \A r \in Roles \ Gone : f[r] = db.chan[c].roles[r]
    IN  /\ LastIn(Coming, S, {e \in Event : Agrees(says(e))})
        /\ c \in Cached /\ NoneIn(Coming, S) => Agrees(cache.chan[c].roles)

\* A channel that the session has not is one the member may not view, unless the session
\* is to hear of it, or of the end of one of the member's roles.
NotMissed(c) ==
    /\ c \notin Cached
    /\ NoneIn(Coming, AboutChannel({"create", "default", "overrides", "rename"}, c))
    /\ \A r \in cache.mine : NoneIn(Coming, AboutRole("roleDeleted", r))
    => ~MayView(cache, db.chan[c])

\* It does not hear of the deletion of one that stays.
StaysDeleted(c) ==
    NoneIn(Coming, AboutChannel({"delete"}, c)) \/ (c \in used /\ (db.chan[c] = None \/ Leaving(c)))

Follows ==
    /\ phase # "off" => MineFollows
    /\ phase \in {"server", "ready", "live"} =>
          /\ DefaultFollows
          /\ \A r \in Roles \ late : RoleFollows(r)
          /\ \A c \in Staying : ListFollows(c)
    /\ phase \in {"ready", "live"} =>
          /\ \A c \in Channels : StaysDeleted(c)
          /\ \A c \in Staying : ChannelDefaultFollows(c) /\ OverridesFollow(c) /\ NotMissed(c)

FollowInv == IInv /\ Unsubscribed /\ Ids /\ (~mixed => Alone /\ Follows)

=============================================================================
