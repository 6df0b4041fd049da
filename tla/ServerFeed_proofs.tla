------------------------ MODULE ServerFeed_proofs ------------------------
(***************************************************************************)
(* Proofs about ServerFeed, for any roles, ranks, channels and number of   *)
(* edits.                                                                  *)
(***************************************************************************)
EXTENDS ServerFeed, TLAPS

\* The copies of a server.
LEMMA Views ==
    ASSUME NEW v \in View
    PROVE  /\ v.default \in BOOLEAN
           /\ v.roles \in [Roles -> Override \cup {"absent"}]
           /\ v.mine \in SUBSET Roles
           /\ v.listed \in SUBSET Channels
           /\ v.chan \in [Channels -> ChannelData \cup {None}]
BY DEF View

LEMMA ViewOf ==
    ASSUME NEW v \in View
    PROVE  /\ \A b \in BOOLEAN : [v EXCEPT !.default = b] \in View
           /\ \A f \in [Roles -> Override \cup {"absent"}] : [v EXCEPT !.roles = f] \in View
           /\ \A m \in SUBSET Roles : [v EXCEPT !.mine = m] \in View
           /\ \A l \in SUBSET Channels : [v EXCEPT !.listed = l] \in View
           /\ \A g \in [Channels -> ChannelData \cup {None}] : [v EXCEPT !.chan = g] \in View
BY DEF View

LEMMA ViewWithRole ==
    ASSUME NEW v \in View, NEW r \in Roles, NEW p \in Override \cup {"absent"}
    PROVE  [v EXCEPT !.roles[r] = p] \in View
<1>1. [v.roles EXCEPT ![r] = p] \in [Roles -> Override \cup {"absent"}]
  BY Views
<1>2. [v EXCEPT !.roles[r] = p] = [v EXCEPT !.roles = [v.roles EXCEPT ![r] = p]]
  OBVIOUS
<1> QED
  BY <1>1, <1>2, ViewOf

LEMMA ViewWithChannel ==
    ASSUME NEW v \in View, NEW c \in Channels, NEW d \in ChannelData \cup {None}
    PROVE  [v EXCEPT !.chan[c] = d] \in View
<1>1. [v.chan EXCEPT ![c] = d] \in [Channels -> ChannelData \cup {None}]
  BY Views
<1>2. [v EXCEPT !.chan[c] = d] = [v EXCEPT !.chan = [v.chan EXCEPT ![c] = d]]
  OBVIOUS
<1> QED
  BY <1>1, <1>2, ViewOf

\* The data of a channel.
LEMMA Data ==
    /\ Plain \in ChannelData
    /\ \A d \in ChannelData : d.default \in Override /\ d.roles \in [Roles -> Override]
    /\ \A d \in ChannelData, p \in Override : [d EXCEPT !.default = p] \in ChannelData
    /\ \A d \in ChannelData, f \in [Roles -> Override] : [d EXCEPT !.roles = f] \in ChannelData
    /\ \A d \in ChannelData, r \in Roles, p \in Override :
          [d EXCEPT !.roles[r] = p] \in ChannelData
    /\ None \notin ChannelData
BY FeedAssumption DEF ChannelData, Plain, Override

\* What an event carries.
LEMMA Events ==
    ASSUME NEW e \in Event
    PROVE  /\ e.type = "server" => e.default \in BOOLEAN
           /\ e.type = "listed" => e.listed \in SUBSET Channels
           /\ e.type = "role" => e.role \in Roles /\ e.perms \in Override
           /\ e.type = "roleDeleted" => e.role \in Roles
           /\ e.type = "member" => e.roles \in SUBSET Roles
           /\ e.type = "create" => e.chan \in Channels /\ e.data \in ChannelData
           /\ e.type = "default" => e.chan \in Channels /\ e.perms \in Override
           /\ e.type = "overrides" => e.chan \in Channels /\ e.perms \in [Roles -> Override]
           /\ e.type = "rename" => e.chan \in Channels
           /\ e.type = "delete" => e.chan \in Channels
BY DEF Event

LEMMA Queues ==
    /\ \A q \in Seq(Event) : q # <<>> => Head(q) \in Event /\ Tail(q) \in Seq(Event)
    /\ \A q \in Seq(Event), x \in Event : Append(q, x) \in Seq(Event)
    /\ \A x \in Event : <<x>> \in Seq(Event)
    /\ \A x, y \in Event : <<x, y>> \in Seq(Event)
    /\ \A q \in Seq(Told) : q # <<>> => Head(q) \in Told /\ Tail(q) \in Seq(Told)
    /\ \A q \in Seq(Told), x \in Told : Append(q, x) \in Seq(Told)
OBVIOUS

LEMMA InitType == Init => TypeOK
<1> SUFFICES ASSUME Init PROVE TypeOK
  OBVIOUS
<1>1. Nothing \in View
  BY DEF Nothing, View
<1>2. db \in View
  <2>1. PICK view \in BOOLEAN, perms \in Override, mine \in SUBSET FirstRoles :
           db = [default |-> view,
                 roles |-> [r \in Roles |-> IF r \in FirstRoles THEN perms ELSE "absent"],
                 mine |-> mine,
                 listed |-> FirstChannels,
                 chan |-> [c \in Channels |-> IF c \in FirstChannels THEN Plain ELSE None]]
    BY DEF Init
  <2>2. [r \in Roles |-> IF r \in FirstRoles THEN perms ELSE "absent"]
           \in [Roles -> Override \cup {"absent"}]
    OBVIOUS
  <2>3. [c \in Channels |-> IF c \in FirstChannels THEN Plain ELSE None]
           \in [Channels -> ChannelData \cup {None}]
    BY Data
  <2>4. mine \in SUBSET Roles /\ FirstChannels \in SUBSET Channels
    BY FeedAssumption
  <2> QED
    BY <2>1, <2>2, <2>3, <2>4 DEF View
<1>3. Sent \in Sending
  BY DEF Sent, Sending
<1>4. edits \in 0 .. MaxEdits /\ mixed \in BOOLEAN
  <2>1. edits = 0 /\ MaxEdits \in Nat
    BY FeedAssumption DEF Init
  <2>2. edits \in 0 .. MaxEdits
    BY <2>1
  <2>3. mixed \in BOOLEAN
    BY DEF Init
  <2> QED
    BY <2>2, <2>3
<1>5. reading \in [Edits -> {None} \cup Overriding \cup Listing]
  BY DEF Init
<1>6. inbox \in Seq(Event) /\ outbox \in Seq(Told)
  BY DEF Init
<1>7. used \in SUBSET (Roles \cup Channels)
  BY FeedAssumption DEF Init
<1> QED
  BY <1>1, <1>2, <1>3, <1>4, <1>5, <1>6, <1>7 DEF Init, TypeOK

\* How the bookkeeping of edits changes.
LEMMA BeginTypes ==
    ASSUME TypeOK, Begin
    PROVE  edits' \in 0 .. MaxEdits /\ edits + 1 \in Edits /\ mixed' \in BOOLEAN
BY FeedAssumption DEF TypeOK, Begin, Edits

LEMMA SendTypes ==
    ASSUME TypeOK, NEW i \in Edits, NEW q \in Seq(Event),
           NEW a \in {None} \cup Channels \cup Roles, Send(i, q, a)
    PROVE  sending' \in [Edits -> Sending]
<1>1. [events |-> q, after |-> a] \in Sending
  BY DEF Sending
<1> QED
  BY <1>1 DEF Send, TypeOK

LEMMA WriteTypes ==
    ASSUME TypeOK, NEW e \in Event, Write(e)
    PROVE  /\ edits' \in 0 .. MaxEdits
           /\ sending' \in [Edits -> Sending]
           /\ mixed' \in BOOLEAN
BY BeginTypes, SendTypes, Queues DEF Write

\* What the session keeps, hears and tells.
LEMMA KeepTypes ==
    ASSUME TypeOK, NEW v \in View, NEW s \in SUBSET Channels, Keep(v, s)
    PROVE  cache' \in View /\ subs' \in SUBSET Channels /\ unheard' \in SUBSET Channels
BY DEF Keep, HasChannels, TypeOK

LEMMA TellTypes ==
    ASSUME TypeOK, NEW d \in SUBSET Channels, NEW c \in SUBSET Channels, Tell(d, c)
    PROVE  outbox' \in Seq(Told)
<1>1. [delete |-> d, create |-> c] \in Told
  BY DEF Told
<1>2. outbox' = outbox \/ outbox' = Append(outbox, [delete |-> d, create |-> c])
  BY DEF Tell
<1> QED
  BY <1>1, <1>2, Queues DEF TypeOK

LEMMA Subsets ==
    ASSUME NEW v
    PROVE  /\ HasChannels(v) \subseteq Channels
           /\ Viewable(v) \subseteq HasChannels(v)
           /\ Dropped(v) \subseteq HasChannels(v)
           /\ Found(v) \subseteq v.listed \ HasChannels(v)
           /\ \A c \in Found(v) : db.chan[c] # None /\ MayView(v, db.chan[c])
BY DEF HasChannels, Viewable, Dropped, Found, Fetched

LEMMA RefreshedType ==
    ASSUME TypeOK, NEW v \in View
    PROVE  Refreshed(v) \in View
<1> DEFINE g == [c \in Channels |-> IF c \in Dropped(v) THEN None
                                   ELSE IF c \in Found(v) THEN db.chan[c] ELSE v.chan[c]]
<1>1. db.chan \in [Channels -> ChannelData \cup {None}]
  BY Views DEF TypeOK
<1>2. g \in [Channels -> ChannelData \cup {None}]
  BY <1>1, Views
<1>3. Refreshed(v) = [v EXCEPT !.chan = g]
  BY DEF Refreshed
<1> HIDE DEF g
<1> QED
  BY <1>2, <1>3, ViewOf

LEMMA RecalculateTypes ==
    ASSUME TypeOK, NEW v \in View, Recalculate(v)
    PROVE  /\ cache' \in View /\ subs' \in SUBSET Channels
           /\ unheard' \in SUBSET Channels /\ outbox' \in Seq(Told)
<1> DEFINE s == (subs \cup Viewable(v) \cup Found(v)) \ Dropped(v)
<1>1. /\ s \in SUBSET Channels
      /\ Dropped(v) \in SUBSET Channels
      /\ Found(v) \in SUBSET Channels
  BY Subsets, Views DEF TypeOK
<1>2. Keep(Refreshed(v), s) /\ Tell(Dropped(v), Found(v))
  BY DEF Recalculate
<1> HIDE DEF s
<1> QED
  BY <1>1, <1>2, RefreshedType, KeepTypes, TellTypes

LEMMA LeaveTypes ==
    ASSUME TypeOK, NEW v \in View, Leave(v)
    PROVE  /\ cache' \in View /\ subs' \in SUBSET Channels
           /\ unheard' \in SUBSET Channels /\ outbox' \in Seq(Told)
BY KeepTypes, TellTypes DEF Leave, TypeOK

LEMMA IncomingTypes ==
    ASSUME TypeOK, NEW t, Incoming(t), cache' \in View, subs' \in SUBSET Channels,
           unheard' \in SUBSET Channels, outbox' \in Seq(Told)
    PROVE  TypeOK'
<1>1. inbox' \in Seq(Event)
  BY Queues DEF Incoming, TypeOK
<1> QED
  BY <1>1 DEF Incoming, TypeOK

LEMMA IncomingEvent ==
    ASSUME TypeOK, NEW t, Incoming(t)
    PROVE  Head(inbox) \in Event /\ Head(inbox).type = t
BY Queues DEF Incoming, TypeOK

\* The copy that takes an event in.
LEMMA AppliedIsData ==
    ASSUME NEW e \in Event, e.type \in {"default", "overrides", "rename"},
           NEW d \in ChannelData \cup {None}, d # None
    PROVE  Applied(d, e) \in ChannelData /\ Applied(d, e) # None
<1>1. CASE e.type = "default"
  BY <1>1, Data, Events DEF Applied
<1>2. CASE e.type = "overrides"
  BY <1>2, Data, Events DEF Applied
<1>3. CASE e.type = "rename"
  BY <1>3 DEF Applied
<1> QED
  BY <1>1, <1>2, <1>3, Data

LEMMA UpdatedType ==
    ASSUME TypeOK, NEW e \in Event, e.type \in {"default", "overrides", "rename"}
    PROVE  Updated(e) \in View /\ e.chan \in Channels
<1>1. e.chan \in Channels
  BY Events
<1>2. db.chan[e.chan] \in ChannelData \cup {None}
      /\ cache.chan[e.chan] \in ChannelData \cup {None}
  BY <1>1, Views DEF TypeOK
<1>3. \A x \in ChannelData : Applied(x, e) \in ChannelData
  BY AppliedIsData, Data
<1> DEFINE d == IF cache.chan[e.chan] = None THEN db.chan[e.chan]
                ELSE Applied(cache.chan[e.chan], e)
<1>4. d \in ChannelData \cup {None}
  BY <1>2, <1>3
<1>5. Updated(e) = [cache EXCEPT !.chan[e.chan] = d]
  BY DEF Updated
<1> HIDE DEF d
<1>6. cache \in View
  BY DEF TypeOK
<1> QED
  BY <1>1, <1>4, <1>5, <1>6, ViewWithChannel

\* Every step keeps the types.
LEMMA TypeStep == TypeOK /\ [Next]_vars => TypeOK'
<1> SUFFICES ASSUME TypeOK, [Next]_vars PROVE TypeOK'
  OBVIOUS
<1>a. db \in View /\ cache \in View
  BY DEF TypeOK
<1>b. inbox # <<>> => Head(inbox) \in Event /\ Tail(inbox) \in Seq(Event)
  BY Queues DEF TypeOK
<1>1. CASE SetServerDefault
  <2>1. PICK view \in BOOLEAN :
           db' = [db EXCEPT !.default = view] /\ Write([type |-> "server", default |-> view])
    BY <1>1 DEF SetServerDefault
  <2>2. [type |-> "server", default |-> view] \in Event
    BY DEF Event, Override
  <2>3. db' \in View
    BY <1>a, <2>1, ViewOf
  <2>4. edits' \in 0 .. MaxEdits /\ sending' \in [Edits -> Sending] /\ mixed' \in BOOLEAN
    BY <2>1, <2>2, WriteTypes
  <2> QED
    BY <1>1, <2>3, <2>4 DEF SetServerDefault, Session, TypeOK
<1>2. CASE SetMemberRoles
  <2>1. PICK roles \in SUBSET Roles :
           db' = [db EXCEPT !.mine = roles] /\ Write([type |-> "member", roles |-> roles])
    BY <1>2 DEF SetMemberRoles
  <2>2. [type |-> "member", roles |-> roles] \in Event
    BY DEF Event, Override
  <2>3. db' \in View
    BY <1>a, <2>1, ViewOf
  <2>4. edits' \in 0 .. MaxEdits /\ sending' \in [Edits -> Sending] /\ mixed' \in BOOLEAN
    BY <2>1, <2>2, WriteTypes
  <2> QED
    BY <1>2, <2>3, <2>4 DEF SetMemberRoles, Session, TypeOK
<1>3. ASSUME NEW r \in Roles, CreateRole(r) PROVE TypeOK'
  <2>1. db' = [db EXCEPT !.roles[r] = "neutral"] /\ Write([type |-> "role", role |-> r, perms |-> "neutral"])
    BY <1>3 DEF CreateRole
  <2>2. [type |-> "role", role |-> r, perms |-> "neutral"] \in Event
    BY DEF Event, Override
  <2>3. db' \in View
    BY <1>a, <2>1, ViewWithRole DEF Override
  <2>4. edits' \in 0 .. MaxEdits /\ sending' \in [Edits -> Sending] /\ mixed' \in BOOLEAN
    BY <2>1, <2>2, WriteTypes
  <2> QED
    BY <1>3, <2>3, <2>4 DEF CreateRole, Session, TypeOK
<1>4. ASSUME NEW r \in Roles, SetRole(r) PROVE TypeOK'
  <2>1. PICK perms \in Override :
           db' = [db EXCEPT !.roles[r] = perms] /\ Write([type |-> "role", role |-> r, perms |-> perms])
    BY <1>4 DEF SetRole
  <2>2. [type |-> "role", role |-> r, perms |-> perms] \in Event
    BY DEF Event, Override
  <2>3. db' \in View
    BY <1>a, <2>1, ViewWithRole
  <2>4. edits' \in 0 .. MaxEdits /\ sending' \in [Edits -> Sending] /\ mixed' \in BOOLEAN
    BY <2>1, <2>2, WriteTypes
  <2> QED
    BY <1>4, <2>3, <2>4 DEF SetRole, Session, TypeOK
<1>5. ASSUME NEW r \in Roles, DeleteRole(r) PROVE TypeOK'
  <2>1. <<[type |-> "roleDeleted", role |-> r]>> \in Seq(Event)
    BY Queues DEF Event
  <2>2. Begin /\ Send(edits + 1, <<[type |-> "roleDeleted", role |-> r]>>, r)
    BY <1>5 DEF DeleteRole
  <2>3. edits' \in 0 .. MaxEdits /\ edits + 1 \in Edits /\ mixed' \in BOOLEAN
    BY <2>2, BeginTypes
  <2>4. sending' \in [Edits -> Sending]
    BY <2>1, <2>2, <2>3, SendTypes
  <2> QED
    BY <1>5, <2>3, <2>4 DEF DeleteRole, Session, TypeOK
<1>6. ASSUME NEW c \in Channels, SetChannelDefault(c) PROVE TypeOK'
  <2>1. PICK perms \in Override :
           /\ db' = [db EXCEPT !.chan[c].default = perms]
           /\ Write([type |-> "default", chan |-> c, perms |-> perms])
    BY <1>6 DEF SetChannelDefault
  <2>2. [type |-> "default", chan |-> c, perms |-> perms] \in Event
    BY DEF Event
  <2>3. db' \in View
    <3>1. db.chan[c] \in ChannelData
      BY <1>6, <1>a, Views DEF SetChannelDefault
    <3>2. [db.chan[c] EXCEPT !.default = perms] \in ChannelData
      BY <3>1, Data
    <3>3. db' = [db EXCEPT !.chan[c] = [db.chan[c] EXCEPT !.default = perms]]
      BY <2>1
    <3> QED
      BY <1>a, <3>2, <3>3, ViewWithChannel
  <2>4. edits' \in 0 .. MaxEdits /\ sending' \in [Edits -> Sending] /\ mixed' \in BOOLEAN
    BY <2>1, <2>2, WriteTypes
  <2> QED
    BY <1>6, <2>3, <2>4 DEF SetChannelDefault, Session, TypeOK
<1>7. ASSUME NEW c \in Channels, RenameChannel(c) PROVE TypeOK'
  <2>1. [type |-> "rename", chan |-> c] \in Event
    BY DEF Event
  <2>2. edits' \in 0 .. MaxEdits /\ sending' \in [Edits -> Sending] /\ mixed' \in BOOLEAN
    BY <1>7, <2>1, WriteTypes DEF RenameChannel
  <2> QED
    BY <1>7, <2>2 DEF RenameChannel, Session, TypeOK
<1>8. ASSUME NEW c \in Channels, InsertChannel(c) PROVE TypeOK'
  <2>1. edits' \in 0 .. MaxEdits /\ edits + 1 \in Edits /\ mixed' \in BOOLEAN
    BY <1>8, BeginTypes DEF InsertChannel
  <2>2. [chan |-> c, copy |-> db.listed] \in Listing
    BY <1>a, Views DEF Listing
  <2>3. reading' \in [Edits -> {None} \cup Overriding \cup Listing]
    BY <1>8, <2>1, <2>2 DEF InsertChannel, TypeOK
  <2>4. db' \in View
    BY <1>8, <1>a, Data, ViewWithChannel DEF InsertChannel
  <2> QED
    BY <1>8, <2>1, <2>3, <2>4 DEF InsertChannel, Session, TypeOK
<1>9. ASSUME NEW c \in Channels, DeleteChannel(c) PROVE TypeOK'
  <2>1. <<[type |-> "delete", chan |-> c]>> \in Seq(Event)
    BY Queues DEF Event
  <2>2. Begin /\ Send(edits + 1, <<[type |-> "delete", chan |-> c]>>, c)
    BY <1>9 DEF DeleteChannel
  <2>3. edits' \in 0 .. MaxEdits /\ edits + 1 \in Edits /\ mixed' \in BOOLEAN
    BY <2>2, BeginTypes
  <2>4. sending' \in [Edits -> Sending]
    BY <2>1, <2>2, <2>3, SendTypes
  <2> QED
    BY <1>9, <2>3, <2>4 DEF DeleteChannel, Session, TypeOK
<1>10. ASSUME NEW c \in Channels, NEW r \in Roles, ReadOverrides(c, r)
     PROVE  TypeOK'
  <2>1. PICK perms \in Override :
           reading' = [reading EXCEPT ![edits + 1] =
                         [chan |-> c, role |-> r, perms |-> perms, copy |-> db.chan[c].roles]]
    BY <1>10 DEF ReadOverrides
  <2>2. edits' \in 0 .. MaxEdits /\ edits + 1 \in Edits /\ mixed' \in BOOLEAN
    BY <1>10, BeginTypes DEF ReadOverrides
  <2>3. [chan |-> c, role |-> r, perms |-> perms, copy |-> db.chan[c].roles] \in Overriding
    BY <1>10, <1>a, Views, Data DEF ReadOverrides, Overriding
  <2>4. reading' \in [Edits -> {None} \cup Overriding \cup Listing]
    BY <2>1, <2>2, <2>3 DEF TypeOK
  <2> QED
    BY <1>10, <2>2, <2>4 DEF ReadOverrides, Session, TypeOK
<1>11. ASSUME NEW i \in Edits, WriteOverride(i) PROVE TypeOK'
  <2> DEFINE q == reading[i]
  <2>1. /\ q \in Overriding
        /\ db' = [db EXCEPT !.chan[q.chan] =
                     IF @ = None THEN None ELSE [@ EXCEPT !.roles[q.role] = q.perms]]
        /\ Send(i, <<[type |-> "overrides", chan |-> q.chan,
                       perms |-> [q.copy EXCEPT ![q.role] = q.perms]]>>, None)
    BY <1>11 DEF WriteOverride, TypeOK, Listing
  <2>2. reading' \in [Edits -> {None} \cup Overriding \cup Listing]
    BY <1>11 DEF WriteOverride, TypeOK
  <2> HIDE DEF q
  <2>3. /\ q.chan \in Channels /\ q.role \in Roles /\ q.perms \in Override
        /\ q.copy \in [Roles -> Override]
    BY <2>1 DEF Overriding
  <2>4. db' \in View
    <3> DEFINE d == IF db.chan[q.chan] = None THEN None
                    ELSE [db.chan[q.chan] EXCEPT !.roles[q.role] = q.perms]
    <3>1. d \in ChannelData \cup {None}
      BY <1>a, <2>3, Views, Data
    <3>2. db' = [db EXCEPT !.chan[q.chan] = d]
      BY <2>1
    <3> HIDE DEF d
    <3> QED
      BY <1>a, <2>3, <3>1, <3>2, ViewWithChannel
  <2>5. sending' \in [Edits -> Sending]
    <3> DEFINE e == [type |-> "overrides", chan |-> q.chan,
                     perms |-> [q.copy EXCEPT ![q.role] = q.perms]]
    <3>1. [q.copy EXCEPT ![q.role] = q.perms] \in [Roles -> Override]
      BY <2>3
    <3>2. e \in Event
      BY <2>3, <3>1 DEF Event
    <3> HIDE DEF e
    <3>3. <<e>> \in Seq(Event)
      BY <3>2, Queues
    <3> QED
      BY <2>1, <3>3, SendTypes DEF e
  <2> QED
    BY <1>11, <2>2, <2>4, <2>5 DEF WriteOverride, Session, TypeOK
<1>12. ASSUME NEW i \in Edits, ListChannel(i) PROVE TypeOK'
  <2> DEFINE q == reading[i]
  <2>1. /\ q \in Listing
        /\ db' = [db EXCEPT !.listed = q.copy \cup {q.chan}]
        /\ Send(i, <<[type |-> "listed", listed |-> q.copy \cup {q.chan}],
                     [type |-> "create", chan |-> q.chan, data |-> Plain]>>, None)
    BY <1>12 DEF ListChannel, TypeOK, Overriding
  <2>2. reading' \in [Edits -> {None} \cup Overriding \cup Listing]
    BY <1>12 DEF ListChannel, TypeOK
  <2> HIDE DEF q
  <2>3. q.chan \in Channels /\ q.copy \cup {q.chan} \in SUBSET Channels
    BY <2>1 DEF Listing
  <2>4. db' \in View
    BY <1>a, <2>1, <2>3, ViewOf
  <2>5. sending' \in [Edits -> Sending]
    <3> DEFINE e == [type |-> "listed", listed |-> q.copy \cup {q.chan}]
    <3> DEFINE f == [type |-> "create", chan |-> q.chan, data |-> Plain]
    <3>1. e \in Event
      BY <2>3 DEF Event
    <3>2. f \in Event
      BY <2>3, Data DEF Event
    <3> HIDE DEF e, f
    <3>3. <<e, f>> \in Seq(Event)
      BY <3>1, <3>2, Queues
    <3> QED
      BY <2>1, <3>3, SendTypes DEF e, f
  <2> QED
    BY <1>12, <2>2, <2>4, <2>5 DEF ListChannel, Session, TypeOK
<1>13. ASSUME NEW i \in Edits, Publish(i) PROVE TypeOK'
  <2> DEFINE s == sending[i]
  <2>1. s \in Sending /\ s.events # <<>>
    BY <1>13 DEF Publish, TypeOK
  <2>2. s.events \in Seq(Event) /\ s.after \in {None} \cup Channels \cup Roles
    BY <2>1 DEF Sending
  <2>3. Head(s.events) \in Event /\ Tail(s.events) \in Seq(Event)
    BY <2>1, <2>2, Queues
  <2>4. [s EXCEPT !.events = Tail(s.events)] \in Sending
    BY <2>1, <2>3 DEF Sending
  <2>5. sending' = [sending EXCEPT ![i] = [s EXCEPT !.events = Tail(s.events)]]
    BY <1>13 DEF Publish, TypeOK
  <2>6. sending' \in [Edits -> Sending]
    BY <2>4, <2>5 DEF TypeOK
  <2>7. inbox' = Append(inbox, Head(s.events)) \/ inbox' = inbox
    BY <1>13 DEF Publish
  <2>8. inbox' \in Seq(Event)
    BY <2>3, <2>7, Queues DEF TypeOK
  <2> QED
    BY <1>13, <2>6, <2>8 DEF Publish, Session, TypeOK
<1>14. ASSUME NEW i \in Edits, FinishRole(i) PROVE TypeOK'
  <2> DEFINE r == sending[i].after
  <2>1. PICK c \in Channels :
           db' = [db EXCEPT !.roles[r] = "absent", !.mine = @ \ {r},
                            !.chan[c] = IF @ = None THEN None
                                        ELSE [@ EXCEPT !.roles[r] = "neutral"]]
    BY <1>14 DEF FinishRole
  <2>2. r \in Roles
    BY <1>14 DEF FinishRole
  <2> DEFINE d == IF db.chan[c] = None THEN None
                  ELSE [db.chan[c] EXCEPT !.roles[r] = "neutral"]
  <2>3. d \in ChannelData \cup {None}
    BY <1>a, <2>2, Views, Data DEF Override
  <2> HIDE DEF r
  <2>4. /\ [db.roles EXCEPT ![r] = "absent"] \in [Roles -> Override \cup {"absent"}]
        /\ db.mine \ {r} \in SUBSET Roles
        /\ [db.chan EXCEPT ![c] = d] \in [Channels -> ChannelData \cup {None}]
    <3> HIDE DEF d
    <3> QED
      BY <1>a, <2>2, <2>3, Views
  <2>5. db' = [default |-> db.default, roles |-> [db.roles EXCEPT ![r] = "absent"],
               mine |-> db.mine \ {r}, listed |-> db.listed,
               chan |-> [db.chan EXCEPT ![c] = d]]
    BY <1>a, <2>1 DEF View
  <2>6. db' \in View
    <3> HIDE DEF d
    <3> QED
      BY <1>a, <2>4, <2>5, Views DEF View
  <2>7. Sent \in Sending
    BY DEF Sent, Sending
  <2> QED
    BY <1>14, <2>6, <2>7 DEF FinishRole, Session, TypeOK
<1>15. ASSUME NEW i \in Edits, FinishChannel(i) PROVE TypeOK'
  <2> DEFINE c == sending[i].after
  <2>1. c \in Channels /\ db' = [db EXCEPT !.listed = @ \ {c}, !.chan[c] = None]
    BY <1>15 DEF FinishChannel
  <2> HIDE DEF c
  <2>2. [db EXCEPT !.listed = db.listed \ {c}] \in View
    BY <1>a, ViewOf, Views
  <2>3. db' = [[db EXCEPT !.listed = db.listed \ {c}] EXCEPT !.chan[c] = None]
    BY <1>a, <2>1 DEF View
  <2>4. db' \in View
    <3> DEFINE v == [db EXCEPT !.listed = db.listed \ {c}]
    <3> HIDE DEF v
    <3>1. v \in View
      BY <2>2 DEF v
    <3>2. [v EXCEPT !.chan[c] = None] \in View
      BY <2>1, <3>1, ViewWithChannel
    <3> QED
      BY <2>3, <3>2 DEF v
  <2>5. Sent \in Sending
    BY DEF Sent, Sending
  <2> QED
    BY <1>15, <2>4, <2>5 DEF FinishChannel, Session, TypeOK
<1>16. CASE ReadMember
  <2>1. cache' \in View
    BY <1>16, <1>a, ViewOf, Views DEF ReadMember
  <2>2. mixed' \in BOOLEAN
    BY <1>16 DEF ReadMember, TypeOK
  <2> QED
    BY <1>16, <2>1, <2>2 DEF ReadMember, TypeOK
<1>17. CASE ReadServer
  <2>1. cache' = [default |-> db.default, roles |-> db.roles, mine |-> cache.mine,
                  listed |-> db.listed, chan |-> cache.chan]
    BY <1>17, <1>a DEF ReadServer, View
  <2>2. cache' \in View
    BY <1>a, <2>1, Views DEF View
  <2> QED
    BY <1>17, <2>2 DEF ReadServer, TypeOK
<1>18. CASE ReadChannels
  <2> DEFINE seen == Fetched(cache, cache.listed)
  <2> DEFINE g == [c \in Channels |-> IF c \in seen THEN db.chan[c] ELSE None]
  <2>1. seen \in SUBSET Channels /\ {} \in SUBSET Channels
    BY <1>a, Views DEF Fetched
  <2>2. g \in [Channels -> ChannelData \cup {None}]
    BY <1>a, Views
  <2>3. cache' = [cache EXCEPT !.chan = g] /\ subs' = seen /\ Tell({}, seen)
    BY <1>18 DEF ReadChannels
  <2> HIDE DEF g, seen
  <2>4. cache' \in View
    BY <1>a, <2>2, <2>3, ViewOf
  <2>5. outbox' \in Seq(Told)
    BY <2>1, <2>3, TellTypes
  <2> QED
    BY <1>18, <2>1, <2>3, <2>4, <2>5 DEF ReadChannels, TypeOK
<1>19. CASE Subscribe
  BY <1>19 DEF Subscribe, TypeOK
<1>20. CASE ServerUpdate
  <2> DEFINE e == Head(inbox)
  <2>1. CASE Incoming("server") /\ Recalculate([cache EXCEPT !.default = e.default])
    <3>1. [cache EXCEPT !.default = e.default] \in View
      BY <1>a, <2>1, IncomingEvent, Events, ViewOf
    <3> QED
      BY <2>1, <3>1, RecalculateTypes, IncomingTypes
  <2>2. CASE Incoming("listed") /\ Leave([cache EXCEPT !.listed = e.listed])
    <3>1. [cache EXCEPT !.listed = e.listed] \in View
      BY <1>a, <2>2, IncomingEvent, Events, ViewOf
    <3> QED
      BY <2>2, <3>1, LeaveTypes, IncomingTypes
  <2> QED
    BY <1>20, <2>1, <2>2 DEF ServerUpdate
<1>21. CASE ServerMemberUpdate
  <2>1. [cache EXCEPT !.mine = Head(inbox).roles] \in View
    BY <1>21, <1>a, IncomingEvent, Events, ViewOf DEF ServerMemberUpdate
  <2> QED
    BY <1>21, <2>1, RecalculateTypes, IncomingTypes DEF ServerMemberUpdate
<1>22. CASE ServerRoleUpdate
  <2> DEFINE e == Head(inbox)
  <2> DEFINE v == IF cache.roles[e.role] = "absent" THEN cache
                 ELSE [cache EXCEPT !.roles[e.role] = e.perms]
  <2>1. Incoming("role") /\ (Recalculate(v) \/ Leave(v))
    BY <1>22 DEF ServerRoleUpdate
  <2>2. v \in View
    BY <1>a, <2>1, IncomingEvent, Events, ViewWithRole
  <2> HIDE DEF v
  <2> QED
    BY <2>1, <2>2, RecalculateTypes, LeaveTypes, IncomingTypes
<1>23. CASE ServerRoleDelete
  <2> DEFINE e == Head(inbox)
  <2> DEFINE v == [cache EXCEPT !.roles[e.role] = "absent"]
  <2>1. Incoming("roleDeleted") /\ (Recalculate(v) \/ Leave(v))
    BY <1>23 DEF ServerRoleDelete
  <2>2. v \in View
    BY <1>a, <2>1, IncomingEvent, Events, ViewWithRole
  <2> HIDE DEF v
  <2> QED
    BY <2>1, <2>2, RecalculateTypes, LeaveTypes, IncomingTypes
<1>24. CASE ChannelCreate
  <2> DEFINE e == Head(inbox)
  <2> DEFINE v == [cache EXCEPT !.chan[e.chan] = e.data]
  <2>1. Incoming("create") /\ Keep(v, subs \cup {e.chan}) /\ Tell({}, {e.chan})
    BY <1>24 DEF ChannelCreate
  <2>2. e \in Event /\ e.type = "create"
    BY <2>1, IncomingEvent
  <2>3. e.chan \in Channels /\ e.data \in ChannelData \cup {None}
    BY <2>2, Events
  <2>4. v \in View
    BY <1>a, <2>3, ViewWithChannel
  <2> HIDE DEF v, e
  <2>5. subs \cup {e.chan} \in SUBSET Channels /\ {e.chan} \in SUBSET Channels /\ {} \in SUBSET Channels
    BY <2>3 DEF TypeOK
  <2>6. cache' \in View /\ subs' \in SUBSET Channels /\ unheard' \in SUBSET Channels
    BY <2>1, <2>4, <2>5, KeepTypes
  <2>7. outbox' \in Seq(Told)
    BY <2>1, <2>5, TellTypes
  <2> QED
    BY <2>1, <2>6, <2>7, IncomingTypes
<1>25. CASE ChannelDelete
  <2> DEFINE e == Head(inbox)
  <2> DEFINE v == [cache EXCEPT !.chan[e.chan] = None]
  <2>1. Incoming("delete") /\ Keep(v, subs \ {e.chan}) /\ Tell({e.chan}, {})
    BY <1>25 DEF ChannelDelete
  <2>2. e \in Event /\ e.type = "delete"
    BY <2>1, IncomingEvent
  <2>3. e.chan \in Channels /\ None \in ChannelData \cup {None}
    BY <2>2, Events
  <2>4. v \in View
    BY <1>a, <2>3, ViewWithChannel
  <2> HIDE DEF v, e
  <2>5. subs \ {e.chan} \in SUBSET Channels /\ {e.chan} \in SUBSET Channels /\ {} \in SUBSET Channels
    BY <2>3 DEF TypeOK
  <2>6. cache' \in View /\ subs' \in SUBSET Channels /\ unheard' \in SUBSET Channels
    BY <2>1, <2>4, <2>5, KeepTypes
  <2>7. outbox' \in Seq(Told)
    BY <2>1, <2>5, TellTypes
  <2> QED
    BY <2>1, <2>6, <2>7, IncomingTypes
<1>26. CASE ChannelUpdate
  <2> DEFINE e == Head(inbox)
  <2> DEFINE v == Updated(e)
  <2>1. PICK t \in {"default", "overrides", "rename"} : Incoming(t)
    BY <1>26 DEF ChannelUpdate
  <2>2. e \in Event /\ e.type = t
    BY <2>1, IncomingEvent
  <2>3. v \in View /\ e.chan \in Channels
    BY <2>2, UpdatedType
  <2>4. \/ Leave(v)
        \/ Keep(v, subs \cup {e.chan}) /\ Tell({}, {e.chan})
        \/ Keep(v, subs \ {e.chan}) /\ Tell({e.chan}, {})
    BY <1>26 DEF ChannelUpdate
  <2> HIDE DEF v, e
  <2>5. /\ subs \cup {e.chan} \in SUBSET Channels /\ subs \ {e.chan} \in SUBSET Channels
        /\ {e.chan} \in SUBSET Channels /\ {} \in SUBSET Channels
    BY <2>3 DEF TypeOK
  <2>6. /\ cache' \in View /\ subs' \in SUBSET Channels
        /\ unheard' \in SUBSET Channels /\ outbox' \in Seq(Told)
    BY <2>3, <2>4, <2>5, LeaveTypes, KeepTypes, TellTypes
  <2> QED
    BY <2>1, <2>6, IncomingTypes
<1>27. CASE HandleEvent
  <2>1. Head(outbox) \in Told /\ Tail(outbox) \in Seq(Told)
    BY <1>27, Queues DEF HandleEvent, TypeOK
  <2>2. known' \in SUBSET Channels
    BY <1>27, <2>1 DEF HandleEvent, Told, TypeOK
  <2> QED
    BY <1>27, <2>1, <2>2 DEF HandleEvent, TypeOK
<1>28. CASE UNCHANGED vars
  BY <1>28 DEF vars, TypeOK
<1> QED
  BY <1>1, <1>2, <1>3, <1>4, <1>5, <1>6, <1>7, <1>8, <1>9, <1>10, <1>11, <1>12,
     <1>13, <1>14, <1>15, <1>16, <1>17, <1>18, <1>19, <1>20, <1>21, <1>22, <1>23,
     <1>24, <1>25, <1>26, <1>27, <1>28
     DEF Next, Request

\* A permission depends on the member's roles only.
LEMMA DecideDepends ==
    ASSUME NEW R, NEW f, NEW g, NEW base, \A r \in R : f[r] = g[r]
    PROVE  Decide(R, f, base) = Decide(R, g, base)
<1>1. {r \in R : f[r] \in {"allow", "deny"}} = {r \in R : g[r] \in {"allow", "deny"}}
  OBVIOUS
<1> QED
  BY <1>1 DEF Decide

LEMMA MayViewDepends ==
    ASSUME NEW v \in View, NEW w \in View, w.mine = v.mine, w.default = v.default,
           \A r \in v.mine : w.roles[r] = v.roles[r], NEW d
    PROVE  MayView(w, d) = MayView(v, d)
<1>1. MayViewServer(w) = MayViewServer(v)
  BY DecideDepends DEF MayViewServer
<1>2. {r \in w.mine : w.roles[r] # "absent"} = {r \in v.mine : v.roles[r] # "absent"}
  OBVIOUS
<1> QED
  BY <1>1, <1>2 DEF MayView

\* What the session knows of the channels, and the client of the session.
Feed == Silent /\ Noticed /\ HearsWhatItMayView /\ LastWord

LEMMA FeedUnchanged ==
    ASSUME Feed, UNCHANGED <<phase, cache, subs, outbox, known, unheard>>
    PROVE  Feed'
BY DEF Feed, Silent, Noticed, HearsWhatItMayView, LastWord, Cached, Mentions

\* What the session tells stays the last word if it is true of each channel it is about,
\* and the others are heard as before.
LEMMA LastWordTold ==
    ASSUME TypeOK, LastWord, NEW d \in SUBSET Channels, NEW new \in SUBSET Channels,
           Tell(d, new), UNCHANGED known, unheard \subseteq unheard',
           \A c \in Channels \ unheard' :
               /\ c \in new => c \in subs'
               /\ c \in d \ new => c \notin subs'
               /\ c \notin d \cup new => (c \in subs' <=> c \in subs)
    PROVE  LastWord'
<1> DEFINE t == [delete |-> d, create |-> new]
<1>1. CASE outbox' = outbox /\ d \cup new = {}
  <2>1. \A c \in Channels \ unheard' : c \in subs' <=> c \in subs
    BY <1>1
  <2> QED
    BY <1>1, <2>1 DEF LastWord, Mentions
<1>2. CASE outbox' = Append(outbox, t)
  <2> DEFINE q == outbox
  <2>1. q \in Seq(Told) /\ t \in Told
    BY DEF TypeOK, Told
  <2>2. /\ Len(q) \in Nat /\ DOMAIN q = 1 .. Len(q) /\ DOMAIN outbox' = 1 .. (Len(q) + 1)
        /\ \A i \in DOMAIN q : outbox'[i] = q[i]
        /\ outbox'[Len(q) + 1] = t
    BY <1>2, <2>1
  <2>3. t.delete = d /\ t.create = new
    OBVIOUS
  <2> HIDE DEF t
  <2> SUFFICES ASSUME NEW c \in Channels \ unheard'
               PROVE  /\ \A i \in DOMAIN outbox' :
                            /\ Mentions(outbox'[i], c)
                            /\ \A j \in DOMAIN outbox' : j > i => ~Mentions(outbox'[j], c)
                            => (c \in subs' <=> c \in outbox'[i].create)
                      /\ (\A i \in DOMAIN outbox' : ~Mentions(outbox'[i], c))
                            => (c \in subs' <=> c \in known)
    BY DEF LastWord, Mentions
  <2>4. /\ \A i \in DOMAIN q :
              /\ Mentions(q[i], c)
              /\ \A j \in DOMAIN q : j > i => ~Mentions(q[j], c)
              => (c \in subs <=> c \in q[i].create)
        /\ (\A i \in DOMAIN q : ~Mentions(q[i], c)) => (c \in subs <=> c \in known)
    BY DEF LastWord
  <2>5. CASE Mentions(t, c)
    BY <2>2, <2>3, <2>5 DEF Mentions
  <2>6. CASE ~Mentions(t, c)
    <3>1. c \in subs' <=> c \in subs
      BY <2>3, <2>6 DEF Mentions
    <3>2. ASSUME NEW i \in DOMAIN outbox', Mentions(outbox'[i], c),
                 \A j \in DOMAIN outbox' : j > i => ~Mentions(outbox'[j], c)
          PROVE  c \in subs' <=> c \in outbox'[i].create
      <4>1. i \in DOMAIN q /\ outbox'[i] = q[i]
        BY <2>2, <2>6, <3>2
      <4>2. \A j \in DOMAIN q : j > i => ~Mentions(q[j], c)
        BY <2>2, <3>2
      <4> QED
        BY <2>4, <3>1, <3>2, <4>1, <4>2
    <3>3. ASSUME \A i \in DOMAIN outbox' : ~Mentions(outbox'[i], c)
          PROVE  c \in subs' <=> c \in known
      <4>1. \A i \in DOMAIN q : ~Mentions(q[i], c)
        BY <2>2, <3>3
      <4> QED
        BY <2>4, <3>1, <4>1
    <3> QED
      BY <3>2, <3>3
  <2> QED
    BY <2>5, <2>6
<1> QED
  BY <1>1, <1>2 DEF Tell

LEMMA FeedTold ==
    ASSUME TypeOK, Feed, NEW d \in SUBSET Channels, NEW new \in SUBSET Channels,
           Tell(d, new), UNCHANGED known, phase' \in {"ready", "live"},
           Viewable(cache') \subseteq subs', subs' \subseteq HasChannels(cache'),
           HasChannels(cache') \ subs' \subseteq unheard', unheard \subseteq unheard',
           \A c \in Channels \ unheard' :
               /\ c \in new => c \in subs'
               /\ c \in d \ new => c \notin subs'
               /\ c \notin d \cup new => (c \in subs' <=> c \in subs)
    PROVE  Feed'
<1>1. LastWord'
  BY LastWordTold DEF Feed
<1> QED
  BY <1>1 DEF Feed, Silent, Noticed, HearsWhatItMayView, Cached

\* The session works out its channels anew.
LEMMA RecalculateFeeds ==
    ASSUME TypeOK, Feed, phase = "live", UNCHANGED <<phase, known>>,
           NEW v \in View, v.chan = cache.chan, Recalculate(v)
    PROVE  Feed'
<1> DEFINE s == (subs \cup Viewable(v) \cup Found(v)) \ Dropped(v)
<1> DEFINE w == Refreshed(v)
<1>1. /\ cache' = w /\ subs' = s /\ Tell(Dropped(v), Found(v))
      /\ unheard' = unheard \cup (HasChannels(w) \ s)
  BY DEF Recalculate, Keep
<1>2. /\ HasChannels(v) = Cached
      /\ subs \subseteq HasChannels(v) /\ HasChannels(v) \ subs \subseteq unheard
  BY DEF Feed, HearsWhatItMayView, Noticed, HasChannels, Cached
<1>3. /\ HasChannels(v) \subseteq Channels /\ Viewable(v) \subseteq HasChannels(v)
      /\ Dropped(v) = HasChannels(v) \ Viewable(v)
      /\ Found(v) \subseteq Channels \ HasChannels(v)
      /\ \A c \in Found(v) : db.chan[c] # None /\ MayView(v, db.chan[c])
  BY Subsets, Views DEF Dropped
<1>4. w \in View /\ \A d : MayView(w, d) = MayView(v, d)
  <2>1. w \in View
    BY RefreshedType
  <2>2. w.mine = v.mine /\ w.default = v.default /\ w.roles = v.roles
    BY DEF Refreshed, View
  <2> QED
    BY <2>1, <2>2, MayViewDepends
<1>5. \A c \in Channels : w.chan[c] = IF c \in Dropped(v) THEN None
                                     ELSE IF c \in Found(v) THEN db.chan[c] ELSE v.chan[c]
  BY DEF Refreshed, View
<1>6. HasChannels(w) = (HasChannels(v) \ Dropped(v)) \cup Found(v)
  BY <1>3, <1>5 DEF HasChannels
<1>7. Viewable(w) \subseteq s
  BY <1>3, <1>6 DEF Viewable
<1>8. s \subseteq HasChannels(w)
  BY <1>2, <1>3, <1>6
<1>9. ASSUME NEW c \in Channels \ unheard'
      PROVE  /\ c \in Found(v) => c \in s
             /\ c \in Dropped(v) \ Found(v) => c \notin s
             /\ c \notin Dropped(v) \cup Found(v) => (c \in s <=> c \in subs)
  BY <1>1, <1>2, <1>3
<1>10. /\ Dropped(v) \in SUBSET Channels /\ Found(v) \in SUBSET Channels
       /\ unheard \subseteq unheard' /\ phase' \in {"ready", "live"}
  BY <1>1, <1>3
<1> HIDE DEF s, w
<1> QED
  BY <1>1, <1>7, <1>8, <1>9, <1>10, FeedTold

\* The session takes in what changes none of the permissions.
LEMMA LeaveFeeds ==
    ASSUME TypeOK, Feed, phase = "live", UNCHANGED <<phase, known>>,
           NEW v \in View, v.chan = cache.chan, v.mine = cache.mine,
           v.default = cache.default, \A r \in cache.mine : v.roles[r] = cache.roles[r],
           Leave(v)
    PROVE  Feed'
<1>1. \A d : MayView(v, d) = MayView(cache, d)
  BY MayViewDepends DEF TypeOK
<1>2. HasChannels(v) = Cached /\ Viewable(v) = Viewable(cache)
  BY <1>1 DEF HasChannels, Cached, Viewable
<1>3. cache' = v /\ subs' = subs /\ unheard' = unheard \cup (Cached \ subs) /\ outbox' = outbox
  BY <1>2 DEF Leave, Keep, Tell
<1>4. unheard' = unheard
  BY <1>3 DEF Feed, Noticed
<1> QED
  BY <1>2, <1>3, <1>4 DEF Feed, Silent, Noticed, HearsWhatItMayView, LastWord,
         Cached, Mentions

\* One channel changes in the session's copy.
LEMMA OneChannel ==
    ASSUME TypeOK, NEW c \in Channels, NEW d \in ChannelData \cup {None}, NEW v,
           v = [cache EXCEPT !.chan[c] = d]
    PROVE  /\ v \in View
           /\ HasChannels(v) = IF d = None THEN Cached \ {c} ELSE Cached \cup {c}
           /\ Viewable(v) \ {c} = Viewable(cache) \ {c}
           /\ c \in Viewable(v) <=> d # None /\ MayView(v, d)
<1>1. cache \in View
  BY DEF TypeOK
<1>2. v \in View
  BY <1>1, ViewWithChannel
<1>3. v.mine = cache.mine /\ v.default = cache.default /\ v.roles = cache.roles
  BY <1>1 DEF View
<1>4. \A x : MayView(v, x) = MayView(cache, x)
  BY <1>1, <1>2, <1>3, MayViewDepends
<1>5. v.chan = [cache.chan EXCEPT ![c] = d]
  BY <1>1 DEF View
<1>6. \A b \in Channels : v.chan[b] = IF b = c THEN d ELSE cache.chan[b]
  BY <1>1, <1>5, Views
<1>7. HasChannels(v) = IF d = None THEN Cached \ {c} ELSE Cached \cup {c}
  BY <1>6 DEF HasChannels, Cached
<1>8. Viewable(v) \ {c} = Viewable(cache) \ {c}
  BY <1>4, <1>6 DEF Viewable, HasChannels
<1>9. c \in Viewable(v) <=> d # None /\ MayView(v, d)
  BY <1>6 DEF Viewable, HasChannels
<1> QED
  BY <1>2, <1>7, <1>8, <1>9

\* Every step keeps the session's and the client's view of the channels consistent.
LEMMA FeedStep == TypeOK /\ Feed /\ [Next]_vars => Feed'
<1> SUFFICES ASSUME TypeOK, Feed, [Next]_vars PROVE Feed'
  OBVIOUS
<1>a. db \in View /\ cache \in View
  BY DEF TypeOK
<1>b. ASSUME NEW t, Incoming(t)
      PROVE  /\ Head(inbox) \in Event /\ Head(inbox).type = t
             /\ phase = "live" /\ UNCHANGED <<phase, known>>
  BY <1>b, IncomingEvent DEF Incoming
<1>1. CASE SetServerDefault
  BY <1>1, FeedUnchanged DEF SetServerDefault, Session
<1>2. CASE SetMemberRoles
  BY <1>2, FeedUnchanged DEF SetMemberRoles, Session
<1>3. ASSUME NEW r \in Roles, CreateRole(r) PROVE Feed'
  BY <1>3, FeedUnchanged DEF CreateRole, Session
<1>4. ASSUME NEW r \in Roles, SetRole(r) PROVE Feed'
  BY <1>4, FeedUnchanged DEF SetRole, Session
<1>5. ASSUME NEW r \in Roles, DeleteRole(r) PROVE Feed'
  BY <1>5, FeedUnchanged DEF DeleteRole, Session
<1>6. ASSUME NEW c \in Channels, SetChannelDefault(c) PROVE Feed'
  BY <1>6, FeedUnchanged DEF SetChannelDefault, Session
<1>7. ASSUME NEW c \in Channels, RenameChannel(c) PROVE Feed'
  BY <1>7, FeedUnchanged DEF RenameChannel, Session
<1>8. ASSUME NEW c \in Channels, InsertChannel(c) PROVE Feed'
  BY <1>8, FeedUnchanged DEF InsertChannel, Session
<1>9. ASSUME NEW c \in Channels, DeleteChannel(c) PROVE Feed'
  BY <1>9, FeedUnchanged DEF DeleteChannel, Session
<1>10. ASSUME NEW c \in Channels, NEW r \in Roles, ReadOverrides(c, r)
     PROVE  Feed'
  BY <1>10, FeedUnchanged DEF ReadOverrides, Session
<1>11. ASSUME NEW i \in Edits, WriteOverride(i) PROVE Feed'
  BY <1>11, FeedUnchanged DEF WriteOverride, Session
<1>12. ASSUME NEW i \in Edits, ListChannel(i) PROVE Feed'
  BY <1>12, FeedUnchanged DEF ListChannel, Session
<1>13. ASSUME NEW i \in Edits, Publish(i) PROVE Feed'
  BY <1>13, FeedUnchanged DEF Publish, Session
<1>14. ASSUME NEW i \in Edits, FinishRole(i) PROVE Feed'
  BY <1>14, FeedUnchanged DEF FinishRole, Session
<1>15. ASSUME NEW i \in Edits, FinishChannel(i) PROVE Feed'
  BY <1>15, FeedUnchanged DEF FinishChannel, Session
<1>16. CASE ReadMember
  <2>1. phase \notin {"ready", "live"} /\ phase' \notin {"ready", "live"}
    BY <1>16 DEF ReadMember
  <2>2. UNCHANGED <<subs, outbox, known, unheard>>
    BY <1>16 DEF ReadMember
  <2> QED
    BY <2>1, <2>2 DEF Feed, Silent, Noticed, HearsWhatItMayView, LastWord, Mentions
<1>17. CASE ReadServer
  <2>1. phase \notin {"ready", "live"} /\ phase' \notin {"ready", "live"}
    BY <1>17 DEF ReadServer
  <2>2. UNCHANGED <<subs, outbox, known, unheard>>
    BY <1>17 DEF ReadServer
  <2> QED
    BY <2>1, <2>2 DEF Feed, Silent, Noticed, HearsWhatItMayView, LastWord, Mentions
<1>18. CASE ReadChannels
  <2> DEFINE seen == Fetched(cache, cache.listed)
  <2> DEFINE g == [c \in Channels |-> IF c \in seen THEN db.chan[c] ELSE None]
  <2> DEFINE w == [cache EXCEPT !.chan = g]
  <2>1. /\ phase = "server" /\ phase' = "ready" /\ subs' = seen /\ Tell({}, seen)
        /\ cache' = w /\ UNCHANGED <<known, unheard>>
    BY <1>18 DEF ReadChannels
  <2>2. seen \in SUBSET Channels /\ \A c \in seen : db.chan[c] # None
    BY <1>a, Views DEF Fetched
  <2>3. w.chan = g
    BY <1>a DEF View
  <2>4. HasChannels(w) = seen
    BY <2>2, <2>3 DEF HasChannels
  <2>5. Viewable(w) \subseteq seen
    BY <2>4 DEF Viewable
  <2>6. subs = {}
    BY <2>1 DEF Feed, Silent
  <2> HIDE DEF seen, w
  <2> QED
    BY <2>1, <2>2, <2>4, <2>5, <2>6, FeedTold
<1>19. CASE Subscribe
  <2>1. phase \in {"ready", "live"} /\ phase' \in {"ready", "live"}
    BY <1>19 DEF Subscribe
  <2>2. UNCHANGED <<cache, subs, outbox, known, unheard>>
    BY <1>19 DEF Subscribe
  <2> QED
    BY <2>1, <2>2 DEF Feed, Silent, Noticed, HearsWhatItMayView, LastWord, Mentions,
           Cached
<1>20. CASE ServerUpdate
  <2> DEFINE e == Head(inbox)
  <2>1. CASE Incoming("server") /\ Recalculate([cache EXCEPT !.default = e.default])
    <3> DEFINE v == [cache EXCEPT !.default = e.default]
    <3>1. v \in View
      BY <1>a, <1>b, <2>1, Events, ViewOf
    <3>2. v.chan = cache.chan
      BY <1>a DEF View
    <3> QED
      BY <1>b, <2>1, <3>1, <3>2, RecalculateFeeds
  <2>2. CASE Incoming("listed") /\ Leave([cache EXCEPT !.listed = e.listed])
    <3> DEFINE v == [cache EXCEPT !.listed = e.listed]
    <3>1. v \in View
      BY <1>a, <1>b, <2>2, Events, ViewOf
    <3>2. /\ v.chan = cache.chan /\ v.mine = cache.mine
          /\ v.default = cache.default /\ v.roles = cache.roles
      BY <1>a DEF View
    <3> QED
      BY <1>b, <2>2, <3>1, <3>2, LeaveFeeds
  <2> QED
    BY <1>20, <2>1, <2>2 DEF ServerUpdate
<1>21. CASE ServerMemberUpdate
  <2> DEFINE v == [cache EXCEPT !.mine = Head(inbox).roles]
  <2>1. Incoming("member") /\ Recalculate(v)
    BY <1>21 DEF ServerMemberUpdate
  <2>2. v \in View
    BY <1>a, <1>b, <2>1, Events, ViewOf
  <2>3. v.chan = cache.chan
    BY <1>a DEF View
  <2> QED
    BY <1>b, <2>1, <2>2, <2>3, RecalculateFeeds
<1>22. CASE ServerRoleUpdate
  <2> DEFINE e == Head(inbox)
  <2> DEFINE v == IF cache.roles[e.role] = "absent" THEN cache
                 ELSE [cache EXCEPT !.roles[e.role] = e.perms]
  <2>1. /\ Incoming("role")
        /\ IF e.role \in cache.mine THEN Recalculate(v) ELSE Leave(v)
    BY <1>22 DEF ServerRoleUpdate
  <2>2. e \in Event /\ e.role \in Roles /\ e.perms \in Override
    BY <1>b, <2>1, Events
  <2>3. v \in View
    BY <1>a, <2>2, ViewWithRole
  <2>4. v.chan = cache.chan /\ v.mine = cache.mine /\ v.default = cache.default
    BY <1>a DEF View
  <2>5. \A r \in Roles : r # e.role => v.roles[r] = cache.roles[r]
    BY <1>a DEF View
  <2>6. CASE e.role \in cache.mine
    BY <1>b, <2>1, <2>3, <2>4, <2>6, RecalculateFeeds
  <2>7. CASE e.role \notin cache.mine
    <3>1. \A r \in cache.mine : v.roles[r] = cache.roles[r]
      BY <1>a, <2>5, <2>7, Views
    <3> QED
      BY <1>b, <2>1, <2>3, <2>4, <2>7, <3>1, LeaveFeeds
  <2> QED
    BY <2>6, <2>7
<1>23. CASE ServerRoleDelete
  <2> DEFINE e == Head(inbox)
  <2> DEFINE v == [cache EXCEPT !.roles[e.role] = "absent"]
  <2>1. /\ Incoming("roleDeleted")
        /\ IF e.role \in cache.mine THEN Recalculate(v) ELSE Leave(v)
    BY <1>23 DEF ServerRoleDelete
  <2>2. e \in Event /\ e.role \in Roles
    BY <1>b, <2>1, Events
  <2>3. v \in View
    BY <1>a, <2>2, ViewWithRole
  <2>4. v.chan = cache.chan /\ v.mine = cache.mine /\ v.default = cache.default
    BY <1>a DEF View
  <2>5. \A r \in Roles : r # e.role => v.roles[r] = cache.roles[r]
    BY <1>a DEF View
  <2>6. CASE e.role \in cache.mine
    BY <1>b, <2>1, <2>3, <2>4, <2>6, RecalculateFeeds
  <2>7. CASE e.role \notin cache.mine
    <3>1. \A r \in cache.mine : v.roles[r] = cache.roles[r]
      BY <1>a, <2>5, <2>7, Views
    <3> QED
      BY <1>b, <2>1, <2>3, <2>4, <2>7, <3>1, LeaveFeeds
  <2> QED
    BY <2>6, <2>7
<1>24. CASE ChannelCreate
  <2> DEFINE e == Head(inbox)
  <2>1. Incoming("create")
    BY <1>24 DEF ChannelCreate
  <2>2. PICK c \in Channels, d \in ChannelData \cup {None} : c = e.chan /\ d = e.data
    BY <1>b, <2>1, Events
  <2>3. PICK v : v = [cache EXCEPT !.chan[c] = d]
    OBVIOUS
  <2>4. Keep(v, subs \cup {c}) /\ Tell({}, {c})
    BY <1>24, <2>2, <2>3 DEF ChannelCreate
  <2>5. d # None
    BY <1>b, <2>1, <2>2, Events, Data
  <2>6. cache' = v /\ subs' = subs \cup {c} /\ unheard' = unheard \cup (HasChannels(v) \ subs')
    BY <2>4 DEF Keep
  <2>7. Viewable(cache) \subseteq subs /\ subs \subseteq Cached
    BY <1>b, <2>1 DEF Feed, HearsWhatItMayView
  <2>8. Viewable(cache') \subseteq subs' /\ subs' \subseteq HasChannels(cache')
    BY <2>3, <2>5, <2>6, <2>7, OneChannel
  <2>9. {c} \in SUBSET Channels /\ {} \in SUBSET Channels
    OBVIOUS
  <2> QED
    BY <1>b, <2>1, <2>4, <2>6, <2>8, <2>9, FeedTold
<1>25. CASE ChannelDelete
  <2> DEFINE e == Head(inbox)
  <2>1. Incoming("delete")
    BY <1>25 DEF ChannelDelete
  <2>2. PICK c \in Channels, d \in ChannelData \cup {None} : c = e.chan /\ d = None
    BY <1>b, <2>1, Events
  <2>3. PICK v : v = [cache EXCEPT !.chan[c] = d]
    OBVIOUS
  <2>4. Keep(v, subs \ {c}) /\ Tell({c}, {})
    BY <1>25, <2>2, <2>3 DEF ChannelDelete
  <2>5. d = None
    BY <1>b, <2>1, <2>2, Events, Data
  <2>6. cache' = v /\ subs' = subs \ {c} /\ unheard' = unheard \cup (HasChannels(v) \ subs')
    BY <2>4 DEF Keep
  <2>7. Viewable(cache) \subseteq subs /\ subs \subseteq Cached
    BY <1>b, <2>1 DEF Feed, HearsWhatItMayView
  <2>8. Viewable(cache') \subseteq subs' /\ subs' \subseteq HasChannels(cache')
    BY <2>3, <2>5, <2>6, <2>7, OneChannel
  <2>9. {c} \in SUBSET Channels /\ {} \in SUBSET Channels
    OBVIOUS
  <2> QED
    BY <1>b, <2>1, <2>4, <2>6, <2>8, <2>9, FeedTold
<1>26. CASE ChannelUpdate
  <2> DEFINE e == Head(inbox)
  <2>1. PICK t \in {"default", "overrides", "rename"} : Incoming(t)
    BY <1>26 DEF ChannelUpdate
  <2>2. e \in Event /\ e.type = t /\ e.chan \in Channels
    BY <1>b, <2>1, Events
  <2>3. PICK c \in Channels : c = e.chan
    BY <2>2
  <2>4. PICK v : v = Updated(e)
    OBVIOUS
  <2>5. v \in View
    BY <2>2, <2>4, UpdatedType
  <2> DEFINE could == c \in Viewable(cache)
  <2> DEFINE can == c \in Viewable(v)
  <2>6. \/ could = can /\ Leave(v)
        \/ ~could /\ can /\ Keep(v, subs \cup {c}) /\ Tell({}, {c})
        \/ could /\ ~can /\ Keep(v, subs \ {c}) /\ Tell({c}, {})
    BY <1>26, <2>3, <2>4 DEF ChannelUpdate
  <2>7. /\ Viewable(v) \ {c} = Viewable(cache) \ {c}
        /\ \/ HasChannels(v) = Cached
           \/ HasChannels(v) = Cached \cup {c} /\ c \notin Cached
    <3> DEFINE d == IF cache.chan[c] = None THEN db.chan[c] ELSE Applied(cache.chan[c], e)
    <3>1. v = [cache EXCEPT !.chan[c] = d]
      BY <2>3, <2>4 DEF Updated
    <3>2. v.chan[c] = d /\ v.chan[c] \in ChannelData \cup {None}
      BY <1>a, <2>5, <3>1, Views DEF View
    <3> HIDE DEF d
    <3>3. /\ HasChannels(v) = IF d = None THEN Cached \ {c} ELSE Cached \cup {c}
          /\ Viewable(v) \ {c} = Viewable(cache) \ {c}
      BY <3>1, <3>2, OneChannel
    <3>4. c \in Cached => d # None
      BY <1>a, <2>1, <2>2, <2>3, AppliedIsData, Views DEF d, Cached, HasChannels
    <3> QED
      BY <3>3, <3>4
  <2>8. /\ Viewable(cache) \subseteq subs /\ subs \subseteq Cached
        /\ Cached \ subs \subseteq unheard
    BY <1>b, <2>1 DEF Feed, HearsWhatItMayView, Noticed
  <2>9. {c} \in SUBSET Channels /\ {} \in SUBSET Channels /\ phase' \in {"ready", "live"}
        /\ UNCHANGED known /\ Viewable(v) \subseteq HasChannels(v)
    BY <1>b, <2>1, Subsets
  <2>10. CASE could = can /\ Leave(v)
    <3>1. cache' = v /\ subs' = subs /\ Tell({}, {})
          /\ unheard' = unheard \cup (HasChannels(v) \ subs)
      BY <2>10 DEF Leave, Keep
    <3>2. Viewable(v) \subseteq subs /\ subs \subseteq HasChannels(v)
      BY <2>7, <2>8, <2>10
    <3> QED
      BY <2>9, <3>1, <3>2, FeedTold
  <2>11. CASE ~could /\ can /\ Keep(v, subs \cup {c}) /\ Tell({}, {c})
    <3>1. cache' = v /\ subs' = subs \cup {c} /\ Tell({}, {c})
          /\ unheard' = unheard \cup (HasChannels(v) \ subs')
      BY <2>11 DEF Keep
    <3>2. Viewable(v) \subseteq subs' /\ subs' \subseteq HasChannels(v)
      BY <2>7, <2>8, <2>9, <2>11, <3>1
    <3> QED
      BY <2>9, <3>1, <3>2, FeedTold
  <2>12. CASE could /\ ~can /\ Keep(v, subs \ {c}) /\ Tell({c}, {})
    <3>1. cache' = v /\ subs' = subs \ {c} /\ Tell({c}, {})
          /\ unheard' = unheard \cup (HasChannels(v) \ subs')
      BY <2>12 DEF Keep
    <3>2. Viewable(v) \subseteq subs' /\ subs' \subseteq HasChannels(v)
      BY <2>7, <2>8, <2>12, <3>1
    <3> QED
      BY <2>9, <3>1, <3>2, FeedTold
  <2> QED
    BY <2>6, <2>10, <2>11, <2>12
<1>27. CASE HandleEvent
  <2> DEFINE q == outbox
  <2>1. /\ q # <<>> /\ outbox' = Tail(q) /\ UNCHANGED <<phase, cache, subs, unheard>>
        /\ known' = (known \ q[1].delete) \cup q[1].create
    BY <1>27 DEF HandleEvent, TypeOK
  <2>2. q \in Seq(Told)
    BY DEF TypeOK
  <2>3. /\ 1 \in DOMAIN q /\ DOMAIN q = 1 .. Len(q) /\ Len(q) \in Nat
        /\ DOMAIN outbox' = 1 .. (Len(q) - 1)
        /\ \A i \in DOMAIN outbox' : i + 1 \in DOMAIN q /\ outbox'[i] = q[i + 1]
        /\ \A i \in DOMAIN q : i # 1 => i - 1 \in DOMAIN outbox' /\ outbox'[i - 1] = q[i]
    BY <2>1, <2>2
  <2>4. ASSUME NEW c \in Channels \ unheard
        PROVE  /\ \A i \in DOMAIN outbox' :
                     /\ Mentions(outbox'[i], c)
                     /\ \A j \in DOMAIN outbox' : j > i => ~Mentions(outbox'[j], c)
                     => (c \in subs <=> c \in outbox'[i].create)
               /\ (\A i \in DOMAIN outbox' : ~Mentions(outbox'[i], c))
                     => (c \in subs <=> c \in known')
    <3>1. /\ \A i \in DOMAIN q :
                /\ Mentions(q[i], c)
                /\ \A j \in DOMAIN q : j > i => ~Mentions(q[j], c)
                => (c \in subs <=> c \in q[i].create)
          /\ (\A i \in DOMAIN q : ~Mentions(q[i], c)) => (c \in subs <=> c \in known)
      BY DEF Feed, LastWord
    <3>2. ASSUME NEW i \in DOMAIN outbox', Mentions(outbox'[i], c),
                 \A j \in DOMAIN outbox' : j > i => ~Mentions(outbox'[j], c)
          PROVE  c \in subs <=> c \in outbox'[i].create
      <4>1. i + 1 \in DOMAIN q /\ outbox'[i] = q[i + 1] /\ i \in Nat
        BY <2>3
      <4>2. ASSUME NEW j \in DOMAIN q, j > i + 1 PROVE ~Mentions(q[j], c)
        <5>1. j # 1 /\ j - 1 > i
          BY <2>3, <4>1, <4>2
        <5> QED
          BY <2>3, <3>2, <5>1
      <4> QED
        BY <3>1, <3>2, <4>1, <4>2
    <3>3. ASSUME \A i \in DOMAIN outbox' : ~Mentions(outbox'[i], c)
          PROVE  c \in subs <=> c \in known'
      <4>1. \A j \in DOMAIN q : j # 1 => ~Mentions(q[j], c)
        BY <2>3, <3>3
      <4>2. \A j \in DOMAIN q : j > 1 => ~Mentions(q[j], c)
        BY <2>3, <4>1
      <4>3. CASE Mentions(q[1], c)
        BY <2>1, <2>3, <3>1, <4>2, <4>3 DEF Mentions
      <4>4. CASE ~Mentions(q[1], c)
        BY <2>1, <3>1, <4>1, <4>4 DEF Mentions
      <4> QED
        BY <4>3, <4>4
    <3> QED
      BY <3>2, <3>3
  <2>5. LastWord'
    BY <2>1, <2>4 DEF LastWord, Mentions
  <2> QED
    BY <2>1, <2>5 DEF Feed, Silent, Noticed, HearsWhatItMayView, Cached
<1>28. CASE UNCHANGED vars
  BY <1>28, FeedUnchanged DEF vars
<1> QED
  BY <1>1, <1>2, <1>3, <1>4, <1>5, <1>6, <1>7, <1>8, <1>9, <1>10, <1>11, <1>12,
     <1>13, <1>14, <1>15, <1>16, <1>17, <1>18, <1>19, <1>20, <1>21, <1>22, <1>23,
     <1>24, <1>25, <1>26, <1>27, <1>28
     DEF Next, Request

LEMMA InitInv == Init => IInv
<1> SUFFICES ASSUME Init PROVE IInv
  OBVIOUS
<1>1. TypeOK
  BY InitType
<1>2. outbox = <<>> /\ subs = {} /\ known = {} /\ phase = "off"
  BY DEF Init
<1> QED
  BY <1>1, <1>2 DEF IInv, Silent, Noticed, HearsWhatItMayView, LastWord

\* The invariant is inductive, and holds of every state.
LEMMA InvStep == IInv /\ [Next]_vars => IInv'
BY TypeStep, FeedStep DEF IInv, Feed

LEMMA Invariance == Spec => []IInv
BY InitInv, InvStep, PTL DEF Spec

\* Type correctness, for any roles, channels and number of edits.
THEOREM TypeCorrect == Spec => []TypeOK
<1>1. IInv => TypeOK
  BY DEF IInv
<1> QED
  BY <1>1, Invariance, PTL

\* A session hears the channels that, by its copy of the server, the member may view
\* (bonfire's recalculate_server and the handlers of events).
THEOREM Hears == Spec => []HearsWhatItMayView
<1>1. IInv => HearsWhatItMayView
  BY DEF IInv
<1> QED
  BY <1>1, Invariance, PTL

\* Once it has handled what it was told, the client knows the channels that its session
\* hears, but for those the session has kept without hearing them.
THEOREM ClientKnows == Spec => []ClientKnowsWhatItHears
<1>1. IInv => ClientKnowsWhatItHears
  BY DEF IInv, LastWord, ClientKnowsWhatItHears
<1> QED
  BY <1>1, Invariance, PTL

-----------------------------------------------------------------------------
(* Edits that follow one another.  First the sequences of events: the last word in them
   on a part of the server, when one is added, moved or heard. *)
LEMMA AppendLast ==
    ASSUME NEW q \in Seq(Event), NEW e \in Event, NEW S, NEW T
    PROVE  /\ NoneIn(Append(q, e), S) <=> NoneIn(q, S) /\ e \notin S
           /\ e \in S => (LastIn(Append(q, e), S, T) <=> e \in T)
           /\ e \notin S => (LastIn(Append(q, e), S, T) <=> LastIn(q, S, T))
<1> DEFINE p == Append(q, e)
<1>1. /\ Len(q) \in Nat /\ DOMAIN q = 1 .. Len(q) /\ DOMAIN p = 1 .. (Len(q) + 1)
      /\ \A i \in DOMAIN q : p[i] = q[i]
      /\ p[Len(q) + 1] = e
  OBVIOUS
<1> HIDE DEF p
<1> DEFINE n == Len(q) + 1
<1>2. n \in DOMAIN p /\ \A i \in DOMAIN p : i = n \/ i \in DOMAIN q
  BY <1>1
<1>3. \A i \in DOMAIN q : i \in DOMAIN p /\ n > i
  BY <1>1
<1>4. p[n] = e /\ ~(\E i \in DOMAIN p : i > n)
  BY <1>1
<1> HIDE DEF n
<1>5. NoneIn(p, S) <=> NoneIn(q, S) /\ e \notin S
  BY <1>1, <1>2, <1>3, <1>4 DEF NoneIn
<1>6. ASSUME e \in S PROVE LastIn(p, S, T) <=> e \in T
  BY <1>1, <1>2, <1>3, <1>4, <1>6 DEF LastIn
<1>7. ASSUME e \notin S PROVE LastIn(p, S, T) <=> LastIn(q, S, T)
  <2>1. \A i \in DOMAIN q : (\A j \in DOMAIN p : j > i => p[j] \notin S)
                            <=> (\A j \in DOMAIN q : j > i => q[j] \notin S)
    BY <1>1, <1>2, <1>3, <1>4, <1>7
  <2>2. \A i \in DOMAIN p : p[i] \in S => i \in DOMAIN q
    BY <1>2, <1>4, <1>7
  <2> QED
    BY <1>1, <1>3, <2>1, <2>2 DEF LastIn
<1> QED
  BY <1>5, <1>6, <1>7 DEF p

LEMMA TailLast ==
    ASSUME NEW q \in Seq(Event), q # <<>>, NEW S, NEW T
    PROVE  /\ NoneIn(q, S) <=> NoneIn(Tail(q), S) /\ Head(q) \notin S
           /\ LastIn(q, S, T) => LastIn(Tail(q), S, T)
           /\ LastIn(q, S, T) /\ NoneIn(Tail(q), S) /\ Head(q) \in S => Head(q) \in T
<1> DEFINE p == Tail(q)
<1>1. /\ 1 \in DOMAIN q /\ Head(q) = q[1]
      /\ \A i \in DOMAIN p : i \in Nat /\ i + 1 \in DOMAIN q /\ p[i] = q[i + 1]
      /\ \A i \in DOMAIN q : i \in Nat /\ i >= 1
      /\ \A i \in DOMAIN q : i # 1 => i - 1 \in DOMAIN p /\ p[i - 1] = q[i]
  OBVIOUS
<1> HIDE DEF p
<1>2. NoneIn(q, S) <=> NoneIn(p, S) /\ q[1] \notin S
  <2>1. ASSUME NoneIn(q, S) PROVE NoneIn(p, S) /\ q[1] \notin S
    BY <1>1, <2>1 DEF NoneIn
  <2>2. ASSUME NoneIn(p, S), q[1] \notin S, NEW i \in DOMAIN q PROVE q[i] \notin S
    <3>1. CASE i = 1
      BY <2>2, <3>1
    <3>2. CASE i # 1
      BY <1>1, <2>2, <3>2 DEF NoneIn
    <3> QED
      BY <3>1, <3>2
  <2> QED
    BY <2>1, <2>2 DEF NoneIn
<1>3. ASSUME LastIn(q, S, T) PROVE LastIn(p, S, T)
  <2> SUFFICES ASSUME NEW i \in DOMAIN p, p[i] \in S,
                      \A j \in DOMAIN p : j > i => p[j] \notin S
               PROVE  p[i] \in T
    BY DEF LastIn
  <2>1. i \in Nat /\ i + 1 \in DOMAIN q /\ q[i + 1] = p[i]
    BY <1>1
  <2>2. ASSUME NEW j \in DOMAIN q, j > i + 1 PROVE q[j] \notin S
    <3>1. j \in Nat /\ j # 1 /\ j - 1 > i
      BY <1>1, <2>1, <2>2
    <3> QED
      BY <1>1, <3>1
  <2> QED
    BY <1>3, <2>1, <2>2 DEF LastIn
<1>4. ASSUME LastIn(q, S, T), NoneIn(p, S), q[1] \in S PROVE q[1] \in T
  <2>1. ASSUME NEW j \in DOMAIN q, j > 1 PROVE q[j] \notin S
    <3>1. j - 1 \in DOMAIN p /\ p[j - 1] = q[j]
      BY <1>1, <2>1
    <3> QED
      BY <1>4, <3>1 DEF NoneIn
  <2>2. \A i \in DOMAIN q : q[i] \in S /\ (\A j \in DOMAIN q : j > i => q[j] \notin S) => q[i] \in T
    BY <1>4 DEF LastIn
  <2> QED
    BY ONLY <1>1, <1>4, <2>1, <2>2
<1> QED
  BY <1>1, <1>2, <1>3, <1>4 DEF p

LEMMA EmptyLast ==
    ASSUME NEW S, NEW T
    PROVE  NoneIn(<<>>, S) /\ LastIn(<<>>, S, T)
BY DEF NoneIn, LastIn

LEMMA MoreLast ==
    ASSUME NEW q, NEW S, NEW T, NEW U, LastIn(q, S, T), T \subseteq U
    PROVE  LastIn(q, S, U)
BY DEF LastIn

\* What the session has still to hear of, and how it changes.
LEMMA ComingType ==
    ASSUME TypeOK
    PROVE  Pending \in Seq(Event) /\ Coming \in Seq(Event)
<1>1. edits \in Edits => sending[edits].events \in Seq(Event)
  BY DEF TypeOK, Sending
<1>2. Pending \in Seq(Event)
  BY <1>1 DEF Pending
<1> QED
  BY <1>2 DEF Coming, TypeOK

LEMMA ComingMoves ==
    /\ \A p, q \in Seq(Event) : p # <<>> =>
          /\ p \o q # <<>> /\ Head(p \o q) = Head(p)
          /\ Tail(p \o q) = Tail(p) \o q
    /\ \A p \in Seq(Event) : p \o <<>> = p
    /\ \A p \in Seq(Event), e \in Event : p \o <<e>> = Append(p, e)
    /\ \A p \in Seq(Event), e, f \in Event : p \o <<e, f>> = Append(Append(p, e), f)
    /\ \A p, q \in Seq(Event) : q # <<>> => Append(p, Head(q)) \o Tail(q) = p \o q
<1>1. ASSUME NEW p \in Seq(Event), NEW q \in Seq(Event), p # <<>>
      PROVE  /\ p \o q # <<>> /\ Head(p \o q) = Head(p)
             /\ Tail(p \o q) = Tail(p) \o q
  BY <1>1
<1>2. ASSUME NEW p \in Seq(Event) PROVE p \o <<>> = p
  OBVIOUS
<1>3. ASSUME NEW p \in Seq(Event), NEW e \in Event PROVE p \o <<e>> = Append(p, e)
  OBVIOUS
<1>4. ASSUME NEW p \in Seq(Event), NEW e \in Event, NEW f \in Event
      PROVE  p \o <<e, f>> = Append(Append(p, e), f)
  OBVIOUS
<1>5. ASSUME NEW p \in Seq(Event), NEW q \in Seq(Event), q # <<>>
      PROVE  Append(p, Head(q)) \o Tail(q) = p \o q
  BY <1>5
<1> QED
  BY <1>1, <1>2, <1>3, <1>4, <1>5


\* Before an edit begins, nothing else is under way.
LEMMA Begins ==
    ASSUME TypeOK, Begin, ~mixed'
    PROVE  /\ ~mixed /\ phase \in {"off", "live"}
           /\ \A i \in Edits : reading[i] = None /\ sending[i] = Sent
           /\ edits + 1 \in Edits /\ edits' = edits + 1
           /\ Coming = inbox
           /\ \A x : x # None => ~Leaving(x)
<1>1. /\ ~mixed /\ phase \in {"off", "live"} /\ edits' = edits + 1
      /\ \A i \in Edits : reading[i] = None /\ sending[i] = Sent
  BY DEF Begin, Idle
<1>2. edits + 1 \in Edits
  BY BeginTypes
<1>3. Pending = <<>>
  BY <1>1 DEF Pending, Sent
<1>4. Coming = inbox
  BY <1>3, ComingMoves DEF Coming, TypeOK
<1>5. \A x : x # None => ~Leaving(x)
  BY <1>1 DEF Leaving, Sent
<1> QED
  BY <1>1, <1>2, <1>4, <1>5

\* What is to be published is what is now to come.
LEMMA Sends ==
    ASSUME TypeOK, NEW i \in Edits, i = edits', NEW q \in Seq(Event), NEW a,
           \A j \in Edits : sending[j] = Sent, Send(i, q, a), UNCHANGED inbox
    PROVE  /\ Coming' = inbox \o q
           /\ \A x : x # None => (Leaving(x)' <=> x = a)
<1>1. \A j \in Edits : sending'[j] = IF j = i THEN [events |-> q, after |-> a] ELSE Sent
  BY DEF Send, TypeOK
<1>2. Pending' = q
  BY <1>1 DEF Pending
<1>3. Coming' = inbox \o q
  BY <1>2 DEF Coming
<1>4. \A x : x # None => (Leaving(x)' <=> x = a)
  BY <1>1 DEF Leaving, Sent
<1> QED
  BY <1>3, <1>4

\* The steps by which the API changes the server, one after another: one that sends e,
Wrote(e) ==
    /\ Coming' = Append(Coming, e)
    /\ db'.default = IF e.type = "server" THEN e.default ELSE db.default
    /\ db'.mine = IF e.type = "member" THEN e.roles ELSE db.mine
    /\ e.type = "member" => \A r \in e.roles : db.roles[r] # "absent"
    /\ \A r \in Roles :
          db'.roles[r] = IF e.type = "role" /\ r = e.role THEN e.perms ELSE db.roles[r]
    /\ db'.listed = db.listed /\ e.type # "listed" /\ e.type # "create"
    /\ \A c \in Channels :
          \/ db'.chan[c] = db.chan[c]
             /\ ~(e.type \in {"default", "overrides"} /\ e.chan = c)
          \/ e.type = "default" /\ e.chan = c /\ db.chan[c] # None
             /\ db'.chan[c] = [db.chan[c] EXCEPT !.default = e.perms]
          \/ e.type = "overrides" /\ e.chan = c /\ db.chan[c] # None
             /\ db'.chan[c] = [db.chan[c] EXCEPT !.roles = e.perms]
    /\ \A x : x # None => ~Leaving(x)
    /\ \A x : x # None =>
          (Leaving(x)' <=> \/ e.type = "roleDeleted" /\ x = e.role
                           \/ e.type = "delete" /\ x = e.chan)
    /\ e.type = "roleDeleted" => db.roles[e.role] # "absent"
    /\ e.type = "delete" => db.chan[e.chan] # None
    /\ \/ UNCHANGED <<used, late>> /\ (e.type = "role" => db.roles[e.role] # "absent")
       \/ /\ e.type = "role" /\ e.role \notin used
          /\ used' = used \cup {e.role} /\ late' = late \cup {e.role}

\* the two of a new channel,
Inserted(c) ==
    /\ Coming' = Coming
    /\ UNCHANGED late
    /\ c \notin used /\ used' = used \cup {c}
    /\ UNCHANGED <<db.default, db.roles, db.mine, db.listed>>
    /\ \A d \in Channels : db'.chan[d] = IF d = c THEN Plain ELSE db.chan[d]
    /\ \A x : x # None => (Leaving(x)' <=> Leaving(x))

Listed(c) ==
    /\ \E e, f \in Event :
          /\ e.type = "listed" /\ e.listed = db.listed \cup {c}
          /\ f.type = "create" /\ f.chan = c /\ f.data = Plain
          /\ Coming' = Append(Append(Coming, e), f)
    /\ UNCHANGED <<late, used>>
    /\ UNCHANGED <<db.default, db.roles, db.mine, db.chan>>
    /\ db.chan[c] = Plain /\ db'.listed = db.listed \cup {c}
    /\ \A x : x # None => ~Leaving(x) /\ ~Leaving(x)'

\* the ends of a role and of a channel,
RoleGone(r, c) ==
    /\ Coming' = Coming
    /\ UNCHANGED <<late, used, db.default, db.listed>>
    /\ r \in used
    /\ db'.mine = db.mine \ {r}
    /\ \A p \in Roles : db'.roles[p] = IF p = r THEN "absent" ELSE db.roles[p]
    /\ \A d \in Channels :
          db'.chan[d] = IF d = c /\ db.chan[d] # None
                        THEN [db.chan[d] EXCEPT !.roles[r] = "neutral"] ELSE db.chan[d]
    /\ \A x : x # None => (Leaving(x) <=> x = r) /\ ~Leaving(x)'

ChannelGone(c) ==
    /\ Coming' = Coming
    /\ UNCHANGED <<late, used, db.default, db.roles, db.mine>>
    /\ db'.listed = db.listed \ {c}
    /\ \A d \in Channels : db'.chan[d] = IF d = c THEN None ELSE db.chan[d]
    /\ \A x : x # None => (Leaving(x) <=> x = c) /\ ~Leaving(x)'

\* and one that reads, or publishes what was to come, but for a deletion that nobody hears.
Passed ==
    /\ UNCHANGED <<db, late, used>>
    /\ \A x : x # None => (Leaving(x)' <=> Leaving(x))
    /\ \/ Coming' = Coming
       \/ \E e \in Event : e.type = "delete" /\ Coming' \in Seq(Event) /\ Coming = Append(Coming', e)

Edit ==
    \/ SetServerDefault \/ SetMemberRoles
    \/ \E r \in Roles : CreateRole(r) \/ SetRole(r) \/ DeleteRole(r)
    \/ \E c \in Channels :
          \/ SetChannelDefault(c) \/ RenameChannel(c) \/ InsertChannel(c) \/ DeleteChannel(c)
          \/ \E r \in Roles : ReadOverrides(c, r)
    \/ \E i \in Edits : Request(i)

Edited ==
    \/ \E e \in Event : Wrote(e)
    \/ \E c \in Channels : Inserted(c) \/ Listed(c) \/ ChannelGone(c)
    \/ \E r \in Roles, c \in Channels : RoleGone(r, c)
    \/ Passed


\* Every edit is one of these, once the session is live.
LEMMA EditShape ==
    ASSUME TypeOK, Ids, Alone, ~mixed', phase = "live", Edit
    PROVE  ~mixed /\ UNCHANGED <<phase, cache>> /\ Edited
<1>a. db \in View
  BY DEF TypeOK
<1>b. None \notin Roles /\ None \notin Channels /\ Roles \cap Channels = {}
  BY FeedAssumption
<1>c. \A r \in Roles, c \in Channels : r # c /\ r # None /\ c # None
  BY <1>b
<1>d. ASSUME Begin, NEW e \in Event, NEW a, Send(edits + 1, <<e>>, a), UNCHANGED inbox
      PROVE  /\ Coming' = Append(Coming, e)
             /\ \A x : x # None => ~Leaving(x)
             /\ \A x : x # None => (Leaving(x)' <=> x = a)
  <2>1. /\ edits + 1 \in Edits /\ edits' = edits + 1 /\ Coming = inbox
        /\ \A i \in Edits : sending[i] = Sent
        /\ \A x : x # None => ~Leaving(x)
    BY <1>d, Begins
  <2>2. <<e>> \in Seq(Event)
    BY Queues
  <2>3. Coming' = inbox \o <<e>> /\ \A x : x # None => (Leaving(x)' <=> x = a)
    BY <1>d, <2>1, <2>2, Sends
  <2> QED
    BY <2>1, <2>3, ComingMoves DEF TypeOK
<1>e. ASSUME Begin, NEW e \in Event, Write(e), UNCHANGED inbox
      PROVE  /\ Coming' = Append(Coming, e)
             /\ \A x : x # None => ~Leaving(x) /\ ~Leaving(x)'
  BY <1>d, <1>e DEF Write
<1>1. CASE SetServerDefault
  <2>1. PICK b \in BOOLEAN :
           db' = [db EXCEPT !.default = b] /\ Write([type |-> "server", default |-> b])
    BY <1>1 DEF SetServerDefault
  <2> DEFINE e == [type |-> "server", default |-> b]
  <2>2. e \in Event /\ e.type = "server" /\ e.default = b
    BY DEF Event
  <2>3. Begin /\ UNCHANGED <<inbox, phase, cache, used, late>>
    BY <1>1, <2>1 DEF SetServerDefault, Write, Session
  <2>4. /\ Coming' = Append(Coming, e)
        /\ \A x : x # None => ~Leaving(x) /\ ~Leaving(x)'
    BY <1>e, <2>1, <2>2, <2>3
  <2>5. /\ db'.default = b /\ db'.roles = db.roles /\ db'.mine = db.mine
        /\ db'.listed = db.listed /\ db'.chan = db.chan
    BY <1>a, <2>1 DEF View
  <2> HIDE DEF e
  <2>6. Wrote(e)
    BY <2>2, <2>3, <2>4, <2>5 DEF Wrote
  <2> QED
    BY <2>2, <2>3, <2>6, Begins DEF Edited
<1>2. CASE SetMemberRoles
  <2>1. PICK m \in SUBSET {r \in Roles : db.roles[r] # "absent"} :
           db' = [db EXCEPT !.mine = m] /\ Write([type |-> "member", roles |-> m])
    BY <1>2 DEF SetMemberRoles
  <2> DEFINE e == [type |-> "member", roles |-> m]
  <2>2. e \in Event /\ e.type = "member" /\ e.roles = m
    BY DEF Event
  <2>3. Begin /\ UNCHANGED <<inbox, phase, cache, used, late>>
    BY <1>2, <2>1 DEF SetMemberRoles, Write, Session
  <2>4. /\ Coming' = Append(Coming, e)
        /\ \A x : x # None => ~Leaving(x) /\ ~Leaving(x)'
    BY <1>e, <2>1, <2>2, <2>3
  <2>5. /\ db'.default = db.default /\ db'.roles = db.roles /\ db'.mine = m
        /\ db'.listed = db.listed /\ db'.chan = db.chan
    BY <1>a, <2>1 DEF View
  <2>6. \A r \in m : db.roles[r] # "absent"
    OBVIOUS
  <2> HIDE DEF e
  <2>7. Wrote(e)
    BY <2>2, <2>3, <2>4, <2>5, <2>6 DEF Wrote
  <2> QED
    BY <2>2, <2>3, <2>7, Begins DEF Edited
<1>3. ASSUME NEW r \in Roles, CreateRole(r) PROVE ~mixed /\ UNCHANGED <<phase, cache>> /\ Edited
  <2> DEFINE e == [type |-> "role", role |-> r, perms |-> "neutral"]
  <2>1. db' = [db EXCEPT !.roles[r] = "neutral"] /\ Write(e)
    BY <1>3 DEF CreateRole
  <2>2. e \in Event /\ e.type = "role" /\ e.role = r /\ e.perms = "neutral"
    BY DEF Event, Override
  <2>3. /\ Begin /\ UNCHANGED <<inbox, phase, cache>>
        /\ r \notin used /\ used' = used \cup {r} /\ late' = late \cup {r}
    BY <1>3, <2>1 DEF CreateRole, Write, Session
  <2>4. /\ Coming' = Append(Coming, e)
        /\ \A x : x # None => ~Leaving(x) /\ ~Leaving(x)'
    BY <1>e, <2>1, <2>2, <2>3
  <2>5. /\ db'.default = db.default /\ db'.roles = [db.roles EXCEPT ![r] = "neutral"]
        /\ db'.mine = db.mine /\ db'.listed = db.listed /\ db'.chan = db.chan
    BY <1>a, <2>1 DEF View
  <2>6. \A p \in Roles : db'.roles[p] = IF p = r THEN "neutral" ELSE db.roles[p]
    BY <1>a, <2>5, Views
  <2> HIDE DEF e
  <2>7. Wrote(e)
    BY <2>2, <2>3, <2>4, <2>5, <2>6 DEF Wrote
  <2> QED
    BY <2>2, <2>3, <2>7, Begins DEF Edited
<1>4. ASSUME NEW r \in Roles, SetRole(r) PROVE ~mixed /\ UNCHANGED <<phase, cache>> /\ Edited
  <2>1. PICK p \in Override :
           db' = [db EXCEPT !.roles[r] = p] /\ Write([type |-> "role", role |-> r, perms |-> p])
    BY <1>4 DEF SetRole
  <2> DEFINE e == [type |-> "role", role |-> r, perms |-> p]
  <2>2. e \in Event /\ e.type = "role" /\ e.role = r /\ e.perms = p
    BY DEF Event
  <2>3. Begin /\ UNCHANGED <<inbox, phase, cache, used, late>> /\ db.roles[r] # "absent"
    BY <1>4, <2>1 DEF SetRole, Write, Session
  <2>4. /\ Coming' = Append(Coming, e)
        /\ \A x : x # None => ~Leaving(x) /\ ~Leaving(x)'
    BY <1>e, <2>1, <2>2, <2>3
  <2>5. /\ db'.default = db.default /\ db'.roles = [db.roles EXCEPT ![r] = p]
        /\ db'.mine = db.mine /\ db'.listed = db.listed /\ db'.chan = db.chan
    BY <1>a, <2>1 DEF View
  <2>6. \A q \in Roles : db'.roles[q] = IF q = r THEN p ELSE db.roles[q]
    BY <1>a, <2>5, Views
  <2> HIDE DEF e
  <2>7. Wrote(e)
    BY <2>2, <2>3, <2>4, <2>5, <2>6 DEF Wrote
  <2> QED
    BY <2>2, <2>3, <2>7, Begins DEF Edited
<1>5. ASSUME NEW r \in Roles, DeleteRole(r) PROVE ~mixed /\ UNCHANGED <<phase, cache>> /\ Edited
  <2> DEFINE e == [type |-> "roleDeleted", role |-> r]
  <2>1. /\ Begin /\ Send(edits + 1, <<e>>, r) /\ db.roles[r] # "absent"
        /\ UNCHANGED <<db, inbox, phase, cache, used, late>>
    BY <1>5 DEF DeleteRole, Session
  <2>2. e \in Event /\ e.type = "roleDeleted" /\ e.role = r
    BY DEF Event
  <2>3. /\ Coming' = Append(Coming, e)
        /\ \A x : x # None => ~Leaving(x)
        /\ \A x : x # None => (Leaving(x)' <=> x = r)
    BY <1>d, <2>1, <2>2
  <2> HIDE DEF e
  <2>4. Wrote(e)
    BY <2>1, <2>2, <2>3 DEF Wrote
  <2> QED
    BY <2>1, <2>2, <2>4, Begins DEF Edited
<1>6. ASSUME NEW c \in Channels, SetChannelDefault(c) PROVE ~mixed /\ UNCHANGED <<phase, cache>> /\ Edited
  <2>1. PICK p \in Override :
           /\ db' = [db EXCEPT !.chan[c].default = p]
           /\ Write([type |-> "default", chan |-> c, perms |-> p])
    BY <1>6 DEF SetChannelDefault
  <2> DEFINE e == [type |-> "default", chan |-> c, perms |-> p]
  <2>2. e \in Event /\ e.type = "default" /\ e.chan = c /\ e.perms = p
    BY DEF Event
  <2>3. Begin /\ UNCHANGED <<inbox, phase, cache, used, late>> /\ db.chan[c] # None
    BY <1>6, <2>1 DEF SetChannelDefault, Write, Session
  <2>4. /\ Coming' = Append(Coming, e)
        /\ \A x : x # None => ~Leaving(x) /\ ~Leaving(x)'
    BY <1>e, <2>1, <2>2, <2>3
  <2>5. /\ db'.default = db.default /\ db'.roles = db.roles
        /\ db'.mine = db.mine /\ db'.listed = db.listed
        /\ db'.chan = [db.chan EXCEPT ![c] = [db.chan[c] EXCEPT !.default = p]]
    BY <1>a, <2>1 DEF View
  <2>6. \A d \in Channels : db'.chan[d] = IF d = c THEN [db.chan[c] EXCEPT !.default = p]
                                         ELSE db.chan[d]
    BY <1>a, <2>5, Views
  <2> HIDE DEF e
  <2>7. Wrote(e)
    BY <2>2, <2>3, <2>4, <2>5, <2>6 DEF Wrote
  <2> QED
    BY <2>2, <2>3, <2>7, Begins DEF Edited
<1>7. ASSUME NEW c \in Channels, RenameChannel(c) PROVE ~mixed /\ UNCHANGED <<phase, cache>> /\ Edited
  <2> DEFINE e == [type |-> "rename", chan |-> c]
  <2>1. Write(e) /\ UNCHANGED <<db, inbox, phase, cache, used, late>>
    BY <1>7 DEF RenameChannel, Session
  <2>2. e \in Event /\ e.type = "rename" /\ e.chan = c
    BY DEF Event
  <2>3. Begin
    BY <2>1 DEF Write
  <2>4. /\ Coming' = Append(Coming, e)
        /\ \A x : x # None => ~Leaving(x) /\ ~Leaving(x)'
    BY <1>e, <2>1, <2>2, <2>3
  <2> HIDE DEF e
  <2>5. Wrote(e)
    BY <2>1, <2>2, <2>4 DEF Wrote
  <2> QED
    BY <2>1, <2>2, <2>3, <2>5, Begins DEF Edited
<1>8. ASSUME NEW c \in Channels, InsertChannel(c) PROVE ~mixed /\ UNCHANGED <<phase, cache>> /\ Edited
  <2>1. /\ Begin /\ c \notin used /\ used' = used \cup {c}
        /\ db' = [db EXCEPT !.chan[c] = Plain]
        /\ UNCHANGED <<sending, inbox, phase, cache, late>>
    BY <1>8 DEF InsertChannel, Session
  <2>2. /\ edits' = edits + 1 /\ edits + 1 \in Edits /\ Coming = inbox
        /\ \A i \in Edits : sending[i] = Sent
    BY <2>1, Begins
  <2>3. Pending' = <<>>
    BY <2>1, <2>2 DEF Pending, Sent
  <2>4. Coming' = Coming
    BY <2>1, <2>2, <2>3, ComingMoves DEF Coming, TypeOK
  <2>5. \A x : Leaving(x)' <=> Leaving(x)
    BY <2>1 DEF Leaving
  <2>6. /\ db'.default = db.default /\ db'.roles = db.roles
        /\ db'.mine = db.mine /\ db'.listed = db.listed
        /\ db'.chan = [db.chan EXCEPT ![c] = Plain]
    BY <1>a, <2>1 DEF View
  <2>7. \A d \in Channels : db'.chan[d] = IF d = c THEN Plain ELSE db.chan[d]
    BY <1>a, <2>6, Views
  <2>8. Inserted(c)
    BY <2>1, <2>4, <2>5, <2>6, <2>7 DEF Inserted
  <2> QED
    BY <2>1, <2>8, Begins DEF Edited
<1>9. ASSUME NEW c \in Channels, DeleteChannel(c) PROVE ~mixed /\ UNCHANGED <<phase, cache>> /\ Edited
  <2> DEFINE e == [type |-> "delete", chan |-> c]
  <2>1. /\ Begin /\ Send(edits + 1, <<e>>, c) /\ db.chan[c] # None
        /\ UNCHANGED <<db, inbox, phase, cache, used, late>>
    BY <1>9 DEF DeleteChannel, Session
  <2>2. e \in Event /\ e.type = "delete" /\ e.chan = c
    BY DEF Event
  <2>3. /\ Coming' = Append(Coming, e)
        /\ \A x : x # None => ~Leaving(x)
        /\ \A x : x # None => (Leaving(x)' <=> x = c)
    BY <1>d, <2>1, <2>2
  <2> HIDE DEF e
  <2>4. Wrote(e)
    BY <2>1, <2>2, <2>3 DEF Wrote
  <2> QED
    BY <2>1, <2>2, <2>4, Begins DEF Edited
<1>10. ASSUME NEW c \in Channels, NEW r \in Roles, ReadOverrides(c, r)
       PROVE  ~mixed /\ UNCHANGED <<phase, cache>> /\ Edited
  <2>1. Begin /\ UNCHANGED <<db, sending, inbox, phase, cache, used, late>>
    BY <1>10 DEF ReadOverrides, Session
  <2>2. /\ edits' = edits + 1 /\ edits + 1 \in Edits /\ Coming = inbox
        /\ \A i \in Edits : sending[i] = Sent
    BY <2>1, Begins
  <2>3. Pending' = <<>>
    BY <2>1, <2>2 DEF Pending, Sent
  <2>4. Coming' = Coming
    BY <2>1, <2>2, <2>3, ComingMoves DEF Coming, TypeOK
  <2>5. \A x : Leaving(x)' <=> Leaving(x)
    BY <2>1 DEF Leaving
  <2>6. Passed
    BY <2>1, <2>4, <2>5 DEF Passed
  <2> QED
    BY <2>1, <2>6, Begins DEF Edited
<1>11. ASSUME NEW i \in Edits, WriteOverride(i)
       PROVE  ~mixed /\ UNCHANGED <<phase, cache>> /\ Edited
  <2> DEFINE q == reading[i]
  <2>1. /\ q \in Overriding /\ q # None
        /\ db' = [db EXCEPT !.chan[q.chan] =
                     IF @ = None THEN None ELSE [@ EXCEPT !.roles[q.role] = q.perms]]
        /\ Send(i, <<[type |-> "overrides", chan |-> q.chan,
                       perms |-> [q.copy EXCEPT ![q.role] = q.perms]]>>, None)
        /\ UNCHANGED <<edits, inbox, phase, cache, used, late, mixed>>
    BY <1>11 DEF WriteOverride, TypeOK, Listing, Session
  <2>2. /\ i = edits /\ \A j \in Edits : sending[j] = Sent
        /\ db.chan[q.chan] # None /\ q.copy = db.chan[q.chan].roles
    BY <2>1 DEF Alone, StillSo, Idle
  <2> HIDE DEF q
  <2>3. /\ q.chan \in Channels /\ q.role \in Roles /\ q.perms \in Override
        /\ q.copy \in [Roles -> Override]
    BY <2>1 DEF Overriding
  <2> DEFINE f == [q.copy EXCEPT ![q.role] = q.perms]
  <2> DEFINE e == [type |-> "overrides", chan |-> q.chan, perms |-> f]
  <2>4. f \in [Roles -> Override]
    BY <2>3
  <2>5. e \in Event /\ e.type = "overrides" /\ e.chan = q.chan /\ e.perms = f
    BY <2>3, <2>4 DEF Event
  <2>6. <<e>> \in Seq(Event)
    BY <2>5, Queues
  <2>7. Send(i, <<e>>, None) /\ i = edits'
    BY <2>1, <2>2
  <2>8. \A x : x # None => ~Leaving(x)
    BY <2>2 DEF Leaving, Sent
  <2>9. Pending = <<>> /\ Coming = inbox
    BY <2>2, ComingMoves DEF Pending, Coming, Sent, TypeOK
  <2>10. db'.chan[q.chan] = [db.chan[q.chan] EXCEPT !.roles = f]
    <3> DEFINE d == db.chan[q.chan]
    <3>1. d \in ChannelData
      BY <1>a, <2>2, <2>3, Views
    <3>2. [d EXCEPT !.roles[q.role] = q.perms] = [d EXCEPT !.roles = [d.roles EXCEPT ![q.role] = q.perms]]
      BY <3>1 DEF ChannelData
    <3>3. db'.chan[q.chan] = [d EXCEPT !.roles[q.role] = q.perms]
      BY <1>a, <2>1, <2>2, <2>3, Views DEF View
    <3> QED
      BY <2>2, <3>2, <3>3
  <2>11. \A c \in Channels : c # q.chan => db'.chan[c] = db.chan[c]
    BY <1>a, <2>1, Views DEF View
  <2>12. /\ db'.default = db.default /\ db'.roles = db.roles
         /\ db'.mine = db.mine /\ db'.listed = db.listed
    BY <1>a, <2>1 DEF View
  <2> HIDE DEF e, f
  <2>13. Coming' = inbox \o <<e>> /\ \A x : x # None => ~Leaving(x)'
    BY <2>1, <2>2, <2>6, <2>7, Sends
  <2>14. Coming' = Append(Coming, e)
    BY <2>5, <2>9, <2>13, ComingMoves DEF TypeOK
  <2>15. Wrote(e)
    <3>1. \A c \in Channels :
             \/ db'.chan[c] = db.chan[c]
                /\ ~(e.type \in {"default", "overrides"} /\ e.chan = c)
             \/ e.type = "overrides" /\ e.chan = c /\ db.chan[c] # None
                /\ db'.chan[c] = [db.chan[c] EXCEPT !.roles = e.perms]
      BY <2>2, <2>5, <2>10, <2>11
    <3>2. e.type = "overrides" /\ UNCHANGED <<used, late>>
      BY <2>1, <2>5
    <3> QED
      BY <2>8, <2>12, <2>13, <2>14, <3>1, <3>2 DEF Wrote
  <2> QED
    BY <2>1, <2>5, <2>15 DEF Edited
<1>12. ASSUME NEW i \in Edits, ListChannel(i)
       PROVE  ~mixed /\ UNCHANGED <<phase, cache>> /\ Edited
  <2> DEFINE q == reading[i]
  <2>1. /\ q \in Listing /\ q # None
        /\ db' = [db EXCEPT !.listed = q.copy \cup {q.chan}]
        /\ Send(i, <<[type |-> "listed", listed |-> q.copy \cup {q.chan}],
                     [type |-> "create", chan |-> q.chan, data |-> Plain]>>, None)
        /\ UNCHANGED <<edits, inbox, phase, cache, used, late, mixed>>
    BY <1>12 DEF ListChannel, TypeOK, Overriding, Session
  <2>2. /\ i = edits /\ \A j \in Edits : sending[j] = Sent
        /\ db.chan[q.chan] = Plain /\ q.copy = db.listed
    BY <2>1 DEF Alone, StillSo, Idle
  <2> HIDE DEF q
  <2>3. q.chan \in Channels /\ db.listed \cup {q.chan} \in SUBSET Channels
    BY <1>a, <2>1, Views DEF Listing
  <2> DEFINE e == [type |-> "listed", listed |-> db.listed \cup {q.chan}]
  <2> DEFINE f == [type |-> "create", chan |-> q.chan, data |-> Plain]
  <2>4. e \in Event /\ e.type = "listed" /\ e.listed = db.listed \cup {q.chan}
    BY <2>3 DEF Event
  <2>5. f \in Event /\ f.type = "create" /\ f.chan = q.chan /\ f.data = Plain
    BY <2>3, Data DEF Event
  <2>6. <<e, f>> \in Seq(Event)
    BY <2>4, <2>5, Queues
  <2>7. Send(i, <<e, f>>, None) /\ i = edits'
    BY <2>1, <2>2
  <2>8. \A x : x # None => ~Leaving(x)
    BY <2>2 DEF Leaving, Sent
  <2>9. Pending = <<>> /\ Coming = inbox
    BY <2>2, ComingMoves DEF Pending, Coming, Sent, TypeOK
  <2>10. /\ db'.default = db.default /\ db'.roles = db.roles /\ db'.chan = db.chan
         /\ db'.mine = db.mine /\ db'.listed = db.listed \cup {q.chan}
    BY <1>a, <2>1, <2>2 DEF View
  <2> HIDE DEF e, f
  <2>11. Coming' = inbox \o <<e, f>> /\ \A x : x # None => ~Leaving(x)'
    BY <2>1, <2>2, <2>6, <2>7, Sends
  <2>12. Coming' = Append(Append(Coming, e), f)
    BY <2>4, <2>5, <2>9, <2>11, ComingMoves DEF TypeOK
  <2>13. Listed(q.chan)
    BY <2>1, <2>2, <2>4, <2>5, <2>8, <2>10, <2>11, <2>12 DEF Listed
  <2> QED
    BY <2>1, <2>3, <2>13 DEF Edited
<1>13. ASSUME NEW i \in Edits, Publish(i)
       PROVE  ~mixed /\ UNCHANGED <<phase, cache>> /\ Edited
  <2> DEFINE q == sending[i].events
  <2> DEFINE e == Head(q)
  <2>1. /\ q # <<>>
        /\ sending' = [sending EXCEPT ![i].events = Tail(@)]
        /\ UNCHANGED <<edits, db, phase, cache, used, late, mixed>>
    BY <1>13 DEF Publish, Session
  <2>9. inbox' = Append(inbox, e) \/ (inbox' = inbox /\ e.type = "delete")
    BY <1>13 DEF Publish
  <2>2. i = edits
    BY <2>1 DEF Alone, Idle, Sent
  <2>3. q \in Seq(Event) /\ e \in Event /\ Tail(q) \in Seq(Event)
    BY <2>1, Queues DEF TypeOK, Sending
  <2>4. /\ sending'[i].events = Tail(q) /\ sending'[i].after = sending[i].after
        /\ \A j \in Edits : j # i => sending'[j] = sending[j]
    BY <2>1 DEF TypeOK, Sending
  <2>5. \A x : Leaving(x)' <=> Leaving(x)
    BY <2>4 DEF Leaving
  <2>6. Pending = q /\ Pending' = Tail(q)
    BY <2>1, <2>2, <2>4 DEF Pending
  <2>7. CASE inbox' = Append(inbox, e)
    <3>1. Coming' = Coming
      BY <2>1, <2>3, <2>6, <2>7, ComingMoves DEF Coming, TypeOK
    <3> QED
      BY <2>1, <2>5, <3>1 DEF Passed, Edited
  <2>8. CASE inbox' = inbox /\ e.type = "delete"
    <3>1. Len(q) = 1
      <4>1. 1 \in DOMAIN q /\ q[1] = e
        BY <2>1, <2>3
      <4>2. q[1].type = "delete" => Len(q) = 1
        BY <4>1 DEF Alone
      <4> QED
        BY <2>8, <4>1, <4>2
    <3>2. q = <<e>> /\ Tail(q) = <<>>
      <4>1. ASSUME NEW p \in Seq(Event), Len(p) = 1 PROVE p = <<Head(p)>>
        BY <4>1
      <4>2. ASSUME NEW p \in Seq(Event), Len(p) = 1 PROVE Tail(p) = <<>>
        <5>1. Tail(p) \in Seq(Event) /\ Len(Tail(p)) = 0
          BY <4>2
        <5>2. \A s \in Seq(Event) : Len(s) = 0 => s = <<>>
          OBVIOUS
        <5> QED
          BY <5>1, <5>2
      <4> QED
        BY <2>3, <3>1, <4>1, <4>2
    <3>3. Pending = <<e>> /\ Pending' = <<>>
      BY <2>6, <3>2
    <3> HIDE DEF e, q
    <3>4. inbox \in Seq(Event) /\ inbox' \in Seq(Event)
      BY <2>8 DEF TypeOK
    <3>5. Coming = Append(inbox, e) /\ Coming' = inbox
      BY <2>3, <2>8, <3>3, <3>4, ComingMoves DEF Coming
    <3>6. Coming' \in Seq(Event) /\ Coming = Append(Coming', e)
      BY <3>4, <3>5
    <3> QED
      BY <2>1, <2>3, <2>5, <2>8, <3>6 DEF Passed, Edited
  <2> QED
    BY <2>7, <2>8, <2>9
<1>14. ASSUME NEW i \in Edits, FinishRole(i)
       PROVE  ~mixed /\ UNCHANGED <<phase, cache>> /\ Edited
  <2> DEFINE r == sending[i].after
  <2>1. PICK c \in Channels :
           db' = [db EXCEPT !.roles[r] = "absent", !.mine = @ \ {r},
                            !.chan[c] = IF @ = None THEN None
                                        ELSE [@ EXCEPT !.roles[r] = "neutral"]]
    BY <1>14 DEF FinishRole
  <2>2. /\ r \in Roles /\ sending[i].events = <<>> /\ sending' = [sending EXCEPT ![i] = Sent]
        /\ UNCHANGED <<edits, inbox, phase, cache, used, late, mixed>>
    BY <1>14 DEF FinishRole, Session
  <2>3. i = edits /\ \A j \in Edits : j # i => sending[j] = Sent
    BY <1>b, <2>2 DEF Alone, Idle, Sent
  <2>4. r \in used
    BY <1>b, <2>2 DEF Ids
  <2>5. \A x : x # None => (Leaving(x) <=> x = r) /\ ~Leaving(x)'
    BY <2>2, <2>3 DEF Leaving, Sent, TypeOK
  <2>6. Coming' = Coming
    BY <2>2, <2>3 DEF Coming, Pending, Sent, TypeOK
  <2> HIDE DEF r
  <2>7. /\ db'.default = db.default /\ db'.listed = db.listed /\ db'.mine = db.mine \ {r}
        /\ db'.roles = [db.roles EXCEPT ![r] = "absent"]
        /\ db'.chan = [db.chan EXCEPT ![c] = IF db.chan[c] = None THEN None
                                        ELSE [db.chan[c] EXCEPT !.roles[r] = "neutral"]]
    BY <1>a, <2>1 DEF View
  <2>8. \A p \in Roles : db'.roles[p] = IF p = r THEN "absent" ELSE db.roles[p]
    BY <1>a, <2>7, Views
  <2>9. \A d \in Channels :
           db'.chan[d] = IF d = c /\ db.chan[d] # None
                         THEN [db.chan[d] EXCEPT !.roles[r] = "neutral"] ELSE db.chan[d]
    BY <1>a, <2>7, Views
  <2>10. RoleGone(r, c)
    BY <2>2, <2>4, <2>5, <2>6, <2>7, <2>8, <2>9 DEF RoleGone
  <2> QED
    BY <2>2, <2>10 DEF Edited, r
<1>15. ASSUME NEW i \in Edits, FinishChannel(i)
       PROVE  ~mixed /\ UNCHANGED <<phase, cache>> /\ Edited
  <2> DEFINE c == sending[i].after
  <2>1. /\ c \in Channels /\ db' = [db EXCEPT !.listed = @ \ {c}, !.chan[c] = None]
        /\ sending[i].events = <<>> /\ sending' = [sending EXCEPT ![i] = Sent]
        /\ UNCHANGED <<edits, inbox, phase, cache, used, late, mixed>>
    BY <1>15 DEF FinishChannel, Session
  <2>2. i = edits /\ \A j \in Edits : j # i => sending[j] = Sent
    BY <1>b, <2>1 DEF Alone, Idle, Sent
  <2>3. \A x : x # None => (Leaving(x) <=> x = c) /\ ~Leaving(x)'
    BY <2>1, <2>2 DEF Leaving, Sent, TypeOK
  <2>4. Coming' = Coming
    BY <2>1, <2>2 DEF Coming, Pending, Sent, TypeOK
  <2> HIDE DEF c
  <2>5. /\ db'.default = db.default /\ db'.roles = db.roles /\ db'.mine = db.mine
        /\ db'.listed = db.listed \ {c} /\ db'.chan = [db.chan EXCEPT ![c] = None]
    BY <1>a, <2>1 DEF View
  <2>6. \A d \in Channels : db'.chan[d] = IF d = c THEN None ELSE db.chan[d]
    BY <1>a, <2>5, Views
  <2>7. ChannelGone(c)
    BY <2>1, <2>3, <2>4, <2>5, <2>6 DEF ChannelGone
  <2> QED
    BY <2>1, <2>7 DEF Edited
<1> QED
  BY <1>1, <1>2, <1>3, <1>4, <1>5, <1>6, <1>7, <1>8, <1>9, <1>10, <1>11, <1>12, <1>13,
     <1>14, <1>15 DEF Edit, Request


\* The steps by which the session takes in the first event that is to come: it changes its
\* copy of the server,
TookServer(e) ==
    /\ cache'.default = IF e.type = "server" THEN e.default ELSE cache.default
    /\ cache'.mine = IF e.type = "member" THEN e.roles ELSE cache.mine
    /\ cache'.listed = IF e.type = "listed" THEN e.listed ELSE cache.listed
    /\ \A r \in Roles :
          cache'.roles[r] =
             IF e.type = "role" /\ e.role = r /\ cache.roles[r] # "absent" THEN e.perms
             ELSE IF e.type = "roleDeleted" /\ e.role = r THEN "absent" ELSE cache.roles[r]

\* and of the channel that it is about,
Tells(e, c) == e.type \in {"create", "default", "overrides", "rename", "delete"} /\ e.chan = c

TookChannel(e, c) ==
    \/ e.type = "create" /\ cache'.chan[c] = e.data
    \/ e.type = "delete" /\ cache'.chan[c] = None
    \/ /\ e.type \in {"default", "overrides", "rename"}
       /\ cache'.chan[c] = IF cache.chan[c] = None THEN db.chan[c] ELSE Applied(cache.chan[c], e)

\* and then either looks at another channel anew,
LookedAt(c) ==
    \/ cache.chan[c] # None /\ cache'.chan[c] = cache.chan[c]
    \/ cache.chan[c] # None /\ cache'.chan[c] = None /\ ~MayView(cache', cache.chan[c])
    \/ cache.chan[c] = None /\ db.chan[c] # None /\ cache'.chan[c] = db.chan[c]
    \/ /\ cache.chan[c] = None /\ cache'.chan[c] = None
       /\ c \in cache'.listed /\ db.chan[c] # None => ~MayView(cache', db.chan[c])

\* or has no reason to.
LeftAlone(e, c) ==
    /\ cache'.chan[c] = cache.chan[c] /\ UNCHANGED cache.mine
    /\ \A d : MayView(cache', d) = MayView(cache, d)
    /\ e.type = "roleDeleted" => e.role \notin cache.mine

Heard ==
    \/ ServerUpdate \/ ServerMemberUpdate \/ ServerRoleUpdate \/ ServerRoleDelete
    \/ ChannelCreate \/ ChannelDelete \/ ChannelUpdate

TookIn ==
    LET e == Head(Coming)
    IN  /\ Coming # <<>> /\ Coming' = Tail(Coming) /\ e \in Event
        /\ UNCHANGED <<db, phase, late, used, mixed>>
        /\ \A x : Leaving(x)' <=> Leaving(x)
        /\ TookServer(e)
        /\ \A c \in Channels :
              \/ Tells(e, c) /\ TookChannel(e, c)
              \/ ~Tells(e, c) /\ (LookedAt(c) \/ LeftAlone(e, c))

LEMMA Recalculates ==
    ASSUME TypeOK, NEW v \in View, v.chan = cache.chan, Recalculate(v)
    PROVE  /\ cache'.default = v.default /\ cache'.mine = v.mine
           /\ cache'.listed = v.listed /\ cache'.roles = v.roles
           /\ \A c \in Channels : LookedAt(c)
<1> DEFINE w == Refreshed(v)
<1>1. cache' = w
  BY DEF Recalculate, Keep
<1>2. /\ w \in View /\ w.default = v.default /\ w.mine = v.mine
      /\ w.listed = v.listed /\ w.roles = v.roles
  BY RefreshedType DEF Refreshed, View
<1>3. \A d : MayView(w, d) = MayView(v, d)
  BY <1>2, MayViewDepends
<1>4. \A c \in Channels : w.chan[c] = IF c \in Dropped(v) THEN None
                                     ELSE IF c \in Found(v) THEN db.chan[c] ELSE v.chan[c]
  BY DEF Refreshed, View
<1> HIDE DEF w
<1>5. ASSUME NEW c \in Channels PROVE LookedAt(c)
  <2>1. c \in Dropped(v) <=> cache.chan[c] # None /\ ~MayView(v, cache.chan[c])
    BY DEF Dropped, Viewable, HasChannels
  <2>2. c \in Found(v) <=> /\ c \in v.listed /\ cache.chan[c] = None
                           /\ db.chan[c] # None /\ MayView(v, db.chan[c])
    BY DEF Found, Fetched, HasChannels
  <2>3. w.chan[c] = IF c \in Dropped(v) THEN None
                    ELSE IF c \in Found(v) THEN db.chan[c] ELSE cache.chan[c]
    BY <1>4
  <2> QED
    BY <1>1, <1>2, <1>3, <2>1, <2>2, <2>3 DEF LookedAt
<1> QED
  BY <1>1, <1>2, <1>5

LEMMA Leaves ==
    ASSUME TypeOK, NEW v \in View, v.chan = cache.chan, v.mine = cache.mine,
           v.default = cache.default, \A r \in cache.mine : v.roles[r] = cache.roles[r],
           Leave(v)
    PROVE  /\ cache'.default = v.default /\ cache'.mine = v.mine
           /\ cache'.listed = v.listed /\ cache'.roles = v.roles
           /\ cache'.chan = cache.chan
           /\ \A d : MayView(cache', d) = MayView(cache, d)
<1>1. cache' = v
  BY DEF Leave, Keep
<1>2. \A d : MayView(v, d) = MayView(cache, d)
  BY MayViewDepends DEF TypeOK
<1> QED
  BY <1>1, <1>2

LEMMA KeepsOne ==
    ASSUME TypeOK, NEW c \in Channels, NEW x \in ChannelData \cup {None}, NEW s,
           Keep([cache EXCEPT !.chan[c] = x], s)
    PROVE  /\ cache'.default = cache.default /\ cache'.mine = cache.mine
           /\ cache'.listed = cache.listed /\ cache'.roles = cache.roles
           /\ cache'.chan[c] = x
           /\ \A d \in Channels : d # c => cache'.chan[d] = cache.chan[d]
           /\ \A d : MayView(cache', d) = MayView(cache, d)
<1> DEFINE v == [cache EXCEPT !.chan[c] = x]
<1>1. cache' = v /\ cache \in View
  BY DEF Keep, TypeOK
<1>2. v \in View
  BY <1>1, ViewWithChannel
<1>3. /\ v.default = cache.default /\ v.mine = cache.mine
      /\ v.listed = cache.listed /\ v.roles = cache.roles
      /\ v.chan = [cache.chan EXCEPT ![c] = x]
  BY <1>1 DEF View
<1>4. v.chan[c] = x /\ \A d \in Channels : d # c => v.chan[d] = cache.chan[d]
  BY <1>1, <1>3, Views
<1>5. \A d : MayView(v, d) = MayView(cache, d)
  BY <1>1, <1>2, <1>3, MayViewDepends
<1> HIDE DEF v
<1> QED
  BY <1>1, <1>3, <1>4, <1>5

LEMMA TakesIn ==
    ASSUME TypeOK, Heard
    PROVE  TookIn
<1>a. db \in View /\ cache \in View
  BY DEF TypeOK
<1> DEFINE e == Head(inbox)
<1>b. ASSUME NEW t, Incoming(t),
             e \in Event => TookServer(e) /\ \A c \in Channels :
                                \/ Tells(e, c) /\ TookChannel(e, c)
                                \/ ~Tells(e, c) /\ (LookedAt(c) \/ LeftAlone(e, c))
      PROVE  TookIn
  <2>1. e \in Event /\ inbox # <<>> /\ inbox' = Tail(inbox)
    BY <1>b, IncomingEvent DEF Incoming
  <2>2. UNCHANGED <<db, edits, sending, phase, late, used, mixed>>
    BY <1>b DEF Incoming
  <2>3. \A x : Leaving(x)' <=> Leaving(x)
    BY <2>2 DEF Leaving
  <2>4. Pending' = Pending /\ Pending \in Seq(Event) /\ inbox \in Seq(Event)
    BY <2>2, ComingType DEF Pending, TypeOK
  <2>5. Coming # <<>> /\ Coming' = Tail(Coming) /\ Head(Coming) = e
    BY <2>1, <2>4, ComingMoves DEF Coming
  <2> HIDE DEF e
  <2> QED
    BY <1>b, <2>1, <2>2, <2>3, <2>5 DEF TookIn
<1>c. ASSUME NEW t, Incoming(t) PROVE e \in Event /\ e.type = t
  BY <1>c, IncomingEvent
<1>1. CASE ServerUpdate
  <2>1. CASE Incoming("server") /\ Recalculate([cache EXCEPT !.default = e.default])
    <3> DEFINE v == [cache EXCEPT !.default = e.default]
    <3>1. e \in Event /\ e.type = "server"
      BY <1>c, <2>1
    <3>2. v \in View
      BY <1>a, <3>1, Events, ViewOf
    <3>3. /\ v.default = e.default /\ v.mine = cache.mine /\ v.listed = cache.listed
          /\ v.roles = cache.roles /\ v.chan = cache.chan
      BY <1>a DEF View
    <3> HIDE DEF v, e
    <3>4. /\ cache'.default = v.default /\ cache'.mine = v.mine
          /\ cache'.listed = v.listed /\ cache'.roles = v.roles
          /\ \A c \in Channels : LookedAt(c)
      BY <2>1, <3>2, <3>3, Recalculates DEF v
    <3>5. TookServer(e) /\ \A c \in Channels : ~Tells(e, c)
      BY <3>1, <3>3, <3>4 DEF TookServer, Tells
    <3> QED
      BY <1>b, <2>1, <3>4, <3>5 DEF e
  <2>2. CASE Incoming("listed") /\ Leave([cache EXCEPT !.listed = e.listed])
    <3> DEFINE v == [cache EXCEPT !.listed = e.listed]
    <3>1. e \in Event /\ e.type = "listed"
      BY <1>c, <2>2
    <3>2. v \in View
      BY <1>a, <3>1, Events, ViewOf
    <3>3. /\ v.default = cache.default /\ v.mine = cache.mine /\ v.listed = e.listed
          /\ v.roles = cache.roles /\ v.chan = cache.chan
      BY <1>a DEF View
    <3> HIDE DEF v, e
    <3>4. /\ cache'.default = v.default /\ cache'.mine = v.mine
          /\ cache'.listed = v.listed /\ cache'.roles = v.roles
          /\ cache'.chan = cache.chan
          /\ \A d : MayView(cache', d) = MayView(cache, d)
      BY <2>2, <3>2, <3>3, Leaves DEF v
    <3>5. TookServer(e) /\ \A c \in Channels : ~Tells(e, c) /\ LeftAlone(e, c)
      BY <3>1, <3>3, <3>4 DEF TookServer, Tells, LeftAlone
    <3> QED
      BY <1>b, <2>2, <3>5 DEF e
  <2> QED
    BY <1>1, <2>1, <2>2 DEF ServerUpdate
<1>2. CASE ServerMemberUpdate
  <2> DEFINE v == [cache EXCEPT !.mine = e.roles]
  <2>1. Incoming("member") /\ Recalculate(v)
    BY <1>2 DEF ServerMemberUpdate
  <2>2. e \in Event /\ e.type = "member"
    BY <1>c, <2>1
  <2>3. v \in View
    BY <1>a, <2>2, Events, ViewOf
  <2>4. /\ v.default = cache.default /\ v.mine = e.roles /\ v.listed = cache.listed
        /\ v.roles = cache.roles /\ v.chan = cache.chan
    BY <1>a DEF View
  <2> HIDE DEF v, e
  <2>5. /\ cache'.default = v.default /\ cache'.mine = v.mine
        /\ cache'.listed = v.listed /\ cache'.roles = v.roles
        /\ \A c \in Channels : LookedAt(c)
    BY <2>1, <2>3, <2>4, Recalculates
  <2>6. TookServer(e) /\ \A c \in Channels : ~Tells(e, c)
    BY <2>2, <2>4, <2>5 DEF TookServer, Tells
  <2> QED
    BY <1>b, <2>1, <2>5, <2>6 DEF e
<1>3. CASE ServerRoleUpdate
  <2> DEFINE v == IF cache.roles[e.role] = "absent" THEN cache
                 ELSE [cache EXCEPT !.roles[e.role] = e.perms]
  <2>1. /\ Incoming("role")
        /\ IF e.role \in cache.mine THEN Recalculate(v) ELSE Leave(v)
    BY <1>3 DEF ServerRoleUpdate
  <2>2. e \in Event /\ e.type = "role" /\ e.role \in Roles /\ e.perms \in Override
    BY <1>c, <2>1, Events
  <2>3. v \in View
    BY <1>a, <2>2, ViewWithRole
  <2>4. /\ v.default = cache.default /\ v.mine = cache.mine /\ v.listed = cache.listed
        /\ v.chan = cache.chan
    BY <1>a DEF View
  <2>5. \A r \in Roles : v.roles[r] = IF e.role = r /\ cache.roles[r] # "absent" THEN e.perms
                                     ELSE cache.roles[r]
    BY <1>a, <2>2, Views DEF View
  <2> HIDE DEF v, e
  <2>6. /\ cache'.default = v.default /\ cache'.mine = v.mine
        /\ cache'.listed = v.listed /\ cache'.roles = v.roles
        /\ \A c \in Channels : LookedAt(c) \/ LeftAlone(e, c)
    <3>1. CASE e.role \in cache.mine
      BY <2>1, <2>3, <2>4, <3>1, Recalculates
    <3>2. CASE e.role \notin cache.mine
      <4>1. \A r \in cache.mine : v.roles[r] = cache.roles[r]
        BY <1>a, <2>5, <3>2, Views
      <4>2. /\ cache'.default = v.default /\ cache'.mine = v.mine
            /\ cache'.listed = v.listed /\ cache'.roles = v.roles
            /\ cache'.chan = cache.chan
            /\ \A d : MayView(cache', d) = MayView(cache, d)
        BY <2>1, <2>3, <2>4, <3>2, <4>1, Leaves
      <4> QED
        BY <2>2, <2>4, <4>2 DEF LeftAlone
    <3> QED
      BY <3>1, <3>2
  <2>7. TookServer(e) /\ \A c \in Channels : ~Tells(e, c)
    BY <2>2, <2>4, <2>5, <2>6 DEF TookServer, Tells
  <2> QED
    BY <1>b, <2>1, <2>6, <2>7 DEF e
<1>4. CASE ServerRoleDelete
  <2> DEFINE v == [cache EXCEPT !.roles[e.role] = "absent"]
  <2>1. /\ Incoming("roleDeleted")
        /\ IF e.role \in cache.mine THEN Recalculate(v) ELSE Leave(v)
    BY <1>4 DEF ServerRoleDelete
  <2>2. e \in Event /\ e.type = "roleDeleted" /\ e.role \in Roles
    BY <1>c, <2>1, Events
  <2>3. v \in View
    BY <1>a, <2>2, ViewWithRole
  <2>4. /\ v.default = cache.default /\ v.mine = cache.mine /\ v.listed = cache.listed
        /\ v.chan = cache.chan
    BY <1>a DEF View
  <2>5. \A r \in Roles : v.roles[r] = IF e.role = r THEN "absent" ELSE cache.roles[r]
    BY <1>a, <2>2, Views DEF View
  <2> HIDE DEF v, e
  <2>6. /\ cache'.default = v.default /\ cache'.mine = v.mine
        /\ cache'.listed = v.listed /\ cache'.roles = v.roles
        /\ \A c \in Channels : LookedAt(c) \/ LeftAlone(e, c)
    <3>1. CASE e.role \in cache.mine
      BY <2>1, <2>3, <2>4, <3>1, Recalculates
    <3>2. CASE e.role \notin cache.mine
      <4>1. \A r \in cache.mine : v.roles[r] = cache.roles[r]
        BY <1>a, <2>5, <3>2, Views
      <4>2. /\ cache'.default = v.default /\ cache'.mine = v.mine
            /\ cache'.listed = v.listed /\ cache'.roles = v.roles
            /\ cache'.chan = cache.chan
            /\ \A d : MayView(cache', d) = MayView(cache, d)
        BY <2>1, <2>3, <2>4, <3>2, <4>1, Leaves
      <4> QED
        BY <2>4, <3>2, <4>2 DEF LeftAlone
    <3> QED
      BY <3>1, <3>2
  <2>7. TookServer(e) /\ \A c \in Channels : ~Tells(e, c)
    BY <2>2, <2>4, <2>5, <2>6 DEF TookServer, Tells
  <2> QED
    BY <1>b, <2>1, <2>6, <2>7 DEF e
<1>d. ASSUME NEW t \in {"create", "delete", "default", "overrides", "rename"}, Incoming(t),
             NEW x \in ChannelData \cup {None}, NEW s, Keep([cache EXCEPT !.chan[e.chan] = x], s),
             cache'.chan[e.chan] = x => TookChannel(e, e.chan)
      PROVE  TookIn
  <2>1. e \in Event /\ e.type = t /\ e.chan \in Channels
    BY <1>c, <1>d, Events
  <2> HIDE DEF e
  <2>2. /\ cache'.default = cache.default /\ cache'.mine = cache.mine
        /\ cache'.listed = cache.listed /\ cache'.roles = cache.roles
        /\ cache'.chan[e.chan] = x
        /\ \A d \in Channels : d # e.chan => cache'.chan[d] = cache.chan[d]
        /\ \A d : MayView(cache', d) = MayView(cache, d)
    BY <1>d, <2>1, KeepsOne
  <2>3. TookServer(e)
    BY <1>d, <2>1, <2>2 DEF TookServer
  <2>4. \A c \in Channels : c # e.chan => ~Tells(e, c) /\ LeftAlone(e, c)
    BY <1>d, <2>1, <2>2 DEF Tells, LeftAlone
  <2>5. Tells(e, e.chan) /\ TookChannel(e, e.chan)
    BY <1>d, <2>1, <2>2 DEF Tells
  <2> QED
    BY <1>b, <1>d, <2>3, <2>4, <2>5 DEF e
<1>5. CASE ChannelCreate
  <2>1. Incoming("create") /\ Keep([cache EXCEPT !.chan[e.chan] = e.data], subs \cup {e.chan})
    BY <1>5 DEF ChannelCreate
  <2>2. e \in Event /\ e.type = "create" /\ e.data \in ChannelData \cup {None}
    BY <1>c, <2>1, Events
  <2> HIDE DEF e
  <2>3. cache'.chan[e.chan] = e.data => TookChannel(e, e.chan)
    BY <2>2 DEF TookChannel
  <2> QED
    BY <1>d, <2>1, <2>2, <2>3
<1>6. CASE ChannelDelete
  <2>1. Incoming("delete") /\ Keep([cache EXCEPT !.chan[e.chan] = None], subs \ {e.chan})
    BY <1>6 DEF ChannelDelete
  <2>2. e \in Event /\ e.type = "delete"
    BY <1>c, <2>1
  <2> HIDE DEF e
  <2>3. cache'.chan[e.chan] = None => TookChannel(e, e.chan)
    BY <2>2 DEF TookChannel
  <2> QED
    BY <1>d, <2>1, <2>2, <2>3
<1>7. CASE ChannelUpdate
  <2>1. PICK t \in {"default", "overrides", "rename"} : Incoming(t)
    BY <1>7 DEF ChannelUpdate
  <2>2. e \in Event /\ e.type = t /\ e.chan \in Channels
    BY <1>c, <2>1, Events
  <2>3. PICK s : Keep(Updated(e), s)
    BY <1>7 DEF ChannelUpdate, Leave
  <2> HIDE DEF e
  <2> DEFINE x == IF cache.chan[e.chan] = None THEN db.chan[e.chan]
                 ELSE Applied(cache.chan[e.chan], e)
  <2>4. x \in ChannelData \cup {None}
    BY <1>a, <2>1, <2>2, Views, AppliedIsData
  <2>5. Keep([cache EXCEPT !.chan[e.chan] = x], s)
    BY <2>3 DEF Updated
  <2>6. cache'.chan[e.chan] = x => TookChannel(e, e.chan)
    BY <2>1, <2>2 DEF TookChannel
  <2> HIDE DEF x
  <2> QED
    BY <1>d, <2>1, <2>4, <2>5, <2>6
<1> QED
  BY <1>1, <1>2, <1>3, <1>4, <1>5, <1>6, <1>7 DEF Heard


\* What is said of some events stands when others are added to those to come, or drop out.
LEMMA PassedSame ==
    ASSUME TypeOK, Passed, NEW S, NEW T, \A e \in S : e.type # "delete"
    PROVE  /\ NoneIn(Coming', S) <=> NoneIn(Coming, S)
           /\ LastIn(Coming', S, T) <=> LastIn(Coming, S, T)
<1>1. CASE Coming' = Coming
  BY <1>1
<1>2. ASSUME NEW e \in Event, e.type = "delete", Coming' \in Seq(Event), Coming = Append(Coming', e)
      PROVE  /\ NoneIn(Coming', S) <=> NoneIn(Coming, S)
             /\ LastIn(Coming', S, T) <=> LastIn(Coming, S, T)
  <2>1. e \notin S
    BY <1>2
  <2> QED
    BY <1>2, <2>1, AppendLast
<1> QED
  BY <1>1, <1>2 DEF Passed

LEMMA ListedSame ==
    ASSUME TypeOK, NEW c, Listed(c), NEW S, NEW T,
           \A e \in S : e.type # "listed" /\ (e.type = "create" => e.chan # c)
    PROVE  /\ NoneIn(Coming', S) <=> NoneIn(Coming, S)
           /\ LastIn(Coming', S, T) <=> LastIn(Coming, S, T)
<1>1. PICK e \in Event, f \in Event :
         /\ e.type = "listed" /\ f.type = "create" /\ f.chan = c
         /\ Coming' = Append(Append(Coming, e), f)
  BY DEF Listed
<1>2. Coming \in Seq(Event) /\ Append(Coming, e) \in Seq(Event)
  BY ComingType, Queues
<1>3. e \notin S /\ f \notin S
  BY <1>1
<1>4. /\ NoneIn(Append(Coming, e), S) <=> NoneIn(Coming, S)
      /\ LastIn(Append(Coming, e), S, T) <=> LastIn(Coming, S, T)
  BY <1>2, <1>3, AppendLast
<1>5. /\ NoneIn(Coming', S) <=> NoneIn(Append(Coming, e), S)
      /\ LastIn(Coming', S, T) <=> LastIn(Append(Coming, e), S, T)
  BY <1>1, <1>2, <1>3, AppendLast
<1> QED
  BY <1>4, <1>5

\* The edits of which a part of the server takes no notice.
Elsewhere(S) ==
    \/ \E e \in Event : Wrote(e) /\ e \notin S
    \/ Passed /\ \A e \in S : e.type # "delete"
    \/ \E c \in Channels :
          Listed(c) /\ \A e \in S : e.type # "listed" /\ (e.type = "create" => e.chan # c)
    \/ \E c \in Channels : Inserted(c) \/ ChannelGone(c)
    \/ \E r \in Roles, c \in Channels : RoleGone(r, c)

LEMMA ElsewhereSame ==
    ASSUME TypeOK, NEW S, Elsewhere(S), NEW T
    PROVE  /\ NoneIn(Coming', S) <=> NoneIn(Coming, S)
           /\ LastIn(Coming', S, T) <=> LastIn(Coming, S, T)
<1>1. ASSUME NEW e \in Event, Wrote(e), e \notin S
      PROVE  /\ NoneIn(Coming', S) <=> NoneIn(Coming, S)
             /\ LastIn(Coming', S, T) <=> LastIn(Coming, S, T)
  BY <1>1, AppendLast, ComingType DEF Wrote
<1>2. CASE Coming' = Coming
  BY <1>2
<1> QED
  BY <1>1, <1>2, PassedSame, ListedSame DEF Elsewhere, Inserted, ChannelGone, RoleGone

LEMMA DefaultEdited ==
    ASSUME TypeOK, Edited, UNCHANGED cache, DefaultFollows
    PROVE  DefaultFollows'
<1> DEFINE S == About("server")
<1>1. ASSUME NEW e \in Event, Wrote(e), e \in S PROVE DefaultFollows'
  <2>1. e.type = "server" /\ db'.default = e.default
    BY <1>1 DEF Wrote, About
  <2>2. ~NoneIn(Coming', S) /\ LastIn(Coming', S, {x \in Event : x.default = db'.default})
    BY <1>1, <2>1, AppendLast, ComingType DEF Wrote
  <2> QED
    BY <2>2 DEF DefaultFollows
<1>2. CASE Elsewhere(S) /\ db'.default = db.default
  BY <1>2, ElsewhereSame DEF DefaultFollows
<1>3. Elsewhere(S) \/ \E e \in Event : Wrote(e) /\ e \in S
  BY DEF Edited, Elsewhere, About
<1>4. db'.default = db.default \/ \E e \in Event : Wrote(e) /\ e \in S
  BY DEF Edited, About, Wrote, Passed, Listed, Inserted, ChannelGone, RoleGone
<1> QED
  BY <1>1, <1>2, <1>3, <1>4

\* Of the events to come the first is taken; the last stays the last, or is the one taken.
LEMMA PerhapsNow ==
    ASSUME TypeOK, TookIn, NEW S, NEW T, LastIn(Coming, S, T)
    PROVE  /\ LastIn(Coming', S, T)
           /\ NoneIn(Coming', S) => \/ Head(Coming) \in S /\ Head(Coming) \in T
                                    \/ Head(Coming) \notin S /\ NoneIn(Coming, S)
<1>1. Coming \in Seq(Event) /\ Coming # <<>> /\ Coming' = Tail(Coming)
  BY ComingType DEF TookIn
<1> QED
  BY <1>1, TailLast

LEMMA DefaultTaken ==
    ASSUME TypeOK, TookIn, DefaultFollows
    PROVE  DefaultFollows'
<1> DEFINE e == Head(Coming)
<1> DEFINE S == About("server")
<1> DEFINE T == {x \in Event : x.default = db.default}
<1>1. /\ e \in Event /\ db' = db
      /\ cache'.default = IF e.type = "server" THEN e.default ELSE cache.default
  BY DEF TookIn, TookServer
<1>2. LastIn(Coming, S, T) /\ (NoneIn(Coming, S) => cache.default = db.default)
  BY DEF DefaultFollows
<1>3. LastIn(Coming', S, T)
  BY <1>2, PerhapsNow
<1>4. ASSUME NoneIn(Coming', S) PROVE cache'.default = db.default
  <2>1. CASE e \in S /\ e \in T
    BY <1>1, <2>1 DEF About
  <2>2. CASE e \notin S /\ NoneIn(Coming, S)
    BY <1>1, <1>2, <2>2 DEF About
  <2> QED
    BY <1>2, <1>4, <2>1, <2>2, PerhapsNow
<1> QED
  BY <1>1, <1>3, <1>4 DEF DefaultFollows

\* The member's roles.
LEMMA GoneEdited ==
    ASSUME TypeOK, Ids, Edited
    PROVE  \/ Gone' = Gone
           \/ \E r \in Roles, c \in Channels : RoleGone(r, c) /\ Gone' = Gone \cup {r}
<1>1. ASSUME NEW e \in Event, Wrote(e) PROVE Gone' = Gone
  <2>1. CASE e.type = "role"
    <3>1. e.role \in Roles /\ e.perms # "absent"
      BY <2>1, Events DEF Override
    <3>2. \A r \in Roles : db'.roles[r] = IF r = e.role THEN e.perms ELSE db.roles[r]
      BY <1>1, <2>1 DEF Wrote
    <3>3. \/ used' = used /\ db.roles[e.role] # "absent"
          \/ e.role \notin used /\ used' = used \cup {e.role}
      BY <1>1, <2>1 DEF Wrote
    <3> QED
      BY <3>1, <3>2, <3>3 DEF Gone
  <2>2. CASE e.type # "role"
    <3>1. used' = used /\ \A r \in Roles : db'.roles[r] = db.roles[r]
      BY <1>1, <2>2 DEF Wrote
    <3> QED
      BY <3>1 DEF Gone
  <2> QED
    BY <2>1, <2>2
<1>2. ASSUME NEW r \in Roles, NEW c \in Channels, RoleGone(r, c) PROVE Gone' = Gone \cup {r}
  BY <1>2 DEF RoleGone, Gone
<1>3. ASSUME NEW c \in Channels, Inserted(c) PROVE Gone' = Gone
  <2>1. c \notin Roles
    BY FeedAssumption
  <2> QED
    BY <1>3, <2>1 DEF Inserted, Gone
<1> QED
  BY <1>1, <1>2, <1>3 DEF Edited, Passed, Listed, ChannelGone, Gone

LEMMA MineEdited ==
    ASSUME TypeOK, Ids, Edited, UNCHANGED cache, MineFollows
    PROVE  MineFollows'
<1> DEFINE S == About("member")
<1> DEFINE T == {x \in Event : x.roles \ Gone = db.mine}
<1>1. ASSUME NEW e \in Event, Wrote(e), e \in S PROVE MineFollows'
  <2>1. e.type = "member" /\ db'.mine = e.roles /\ \A r \in e.roles : db.roles[r] # "absent"
    BY <1>1 DEF Wrote, About
  <2>2. ~(\E r \in Roles, c \in Channels : RoleGone(r, c))
    BY <1>1, <2>1, AppendLast, ComingType, EmptyLast DEF Wrote, RoleGone
  <2>3. e.roles \ Gone' = e.roles
    BY <2>1, <2>2, GoneEdited DEF Gone
  <2>4. ~NoneIn(Coming', S) /\ LastIn(Coming', S, {x \in Event : x.roles \ Gone' = db'.mine})
    BY <1>1, <2>1, <2>3, AppendLast, ComingType DEF Wrote
  <2> QED
    BY <2>4 DEF MineFollows
<1>2. CASE Elsewhere(S) /\ db'.mine = db.mine /\ Gone' = Gone
  BY <1>2, ElsewhereSame DEF MineFollows
<1>3. ASSUME NEW r \in Roles, NEW c \in Channels, RoleGone(r, c), Gone' = Gone \cup {r}
      PROVE  MineFollows'
  <2>1. db'.mine = db.mine \ {r} /\ Coming' = Coming
    BY <1>3 DEF RoleGone
  <2>2. T \subseteq {x \in Event : x.roles \ Gone' = db'.mine}
    BY <1>3, <2>1
  <2>3. LastIn(Coming, S, {x \in Event : x.roles \ Gone' = db'.mine})
    BY <2>2, MoreLast DEF MineFollows
  <2>4. cache.mine \ Gone = db.mine => cache.mine \ Gone' = db'.mine
    BY <1>3, <2>1
  <2> QED
    BY <2>1, <2>3, <2>4 DEF MineFollows
<1>4. \/ \E e \in Event : Wrote(e) /\ e \in S
      \/ Elsewhere(S) /\ db'.mine = db.mine
      \/ \E r \in Roles, c \in Channels : RoleGone(r, c)
  BY DEF Edited, Elsewhere, About, Wrote, Passed, Listed, Inserted, ChannelGone
<1>5. ASSUME NEW r \in Roles, NEW c \in Channels, RoleGone(r, c) PROVE Gone' = Gone \cup {r}
  BY <1>5 DEF RoleGone, Gone
<1> QED
  BY <1>1, <1>2, <1>3, <1>4, <1>5, GoneEdited

LEMMA MineTaken ==
    ASSUME TypeOK, TookIn, MineFollows
    PROVE  MineFollows'
<1> DEFINE e == Head(Coming)
<1> DEFINE S == About("member")
<1> DEFINE T == {x \in Event : x.roles \ Gone = db.mine}
<1>1. /\ e \in Event /\ db' = db /\ Gone' = Gone
      /\ cache'.mine = IF e.type = "member" THEN e.roles ELSE cache.mine
  BY DEF TookIn, TookServer, Gone
<1>2. LastIn(Coming, S, T) /\ (NoneIn(Coming, S) => cache.mine \ Gone = db.mine)
  BY DEF MineFollows
<1>3. LastIn(Coming', S, T)
  BY <1>2, PerhapsNow
<1>4. ASSUME NoneIn(Coming', S) PROVE cache'.mine \ Gone = db.mine
  <2>1. CASE e \in S /\ e \in T
    BY <1>1, <2>1 DEF About
  <2>2. CASE e \notin S /\ NoneIn(Coming, S)
    BY <1>1, <1>2, <2>2 DEF About
  <2> QED
    BY <1>2, <1>4, <2>1, <2>2, PerhapsNow
<1> QED
  BY <1>1, <1>3, <1>4 DEF MineFollows


\* A role that the session has read.
LEMMA RoleEdited ==
    ASSUME TypeOK, Edited, UNCHANGED cache, NEW r \in Roles, r \notin late', RoleFollows(r)
    PROVE  RoleFollows(r)'
<1> DEFINE D == AboutRole("roleDeleted", r)
<1> DEFINE S == AboutRole("role", r)
<1>a. r # None /\ \A c \in Channels : r # c
  BY FeedAssumption
<1>b. Coming \in Seq(Event)
  BY ComingType
<1>1. ASSUME NEW e \in Event, Wrote(e), e \in D PROVE RoleFollows(r)'
  <2>1. Leaving(r)'
    BY <1>a, <1>1 DEF Wrote, AboutRole
  <2>2. Coming' = Append(Coming, e)
    BY <1>1 DEF Wrote
  <2>3. ~NoneIn(Coming', D)
    BY <1>1, <1>b, <2>2, AppendLast
  <2> QED
    BY <2>1, <2>3 DEF RoleFollows
<1>2. ASSUME NEW e \in Event, Wrote(e), e \in S PROVE RoleFollows(r)'
  <2>1. e.type = "role" /\ e.role = r /\ e.perms # "absent"
    BY <1>2, Events DEF AboutRole, Override
  <2>2. db.roles[r] # "absent" /\ ~Leaving(r) /\ ~Leaving(r)' /\ db'.roles[r] = e.perms
    BY <1>a, <1>2, <2>1 DEF Wrote
  <2>3. cache.roles[r] # "absent" /\ NoneIn(Coming, D)
    BY <2>2 DEF RoleFollows
  <2>6. Coming' = Append(Coming, e) /\ e \notin D
    BY <1>2, <2>1 DEF Wrote, AboutRole
  <2>4. NoneIn(Coming', D)
    BY <1>b, <2>3, <2>6, AppendLast
  <2>5. ~NoneIn(Coming', S) /\ LastIn(Coming', S, {x \in Event : x.perms = db'.roles[r]})
    BY <1>2, <1>b, <2>2, <2>6, AppendLast
  <2> QED
    BY <2>1, <2>2, <2>3, <2>4, <2>5 DEF RoleFollows
<1>3. CASE Elsewhere(S) /\ Elsewhere(D) /\ db'.roles[r] = db.roles[r] /\ (Leaving(r)' <=> Leaving(r))
  BY <1>3, ElsewhereSame DEF RoleFollows
<1>4. ASSUME NEW c \in Channels, RoleGone(r, c) PROVE RoleFollows(r)'
  <2>1. Leaving(r) /\ db'.roles[r] = "absent" /\ Coming' = Coming
    BY <1>a, <1>4 DEF RoleGone
  <2> QED
    BY <2>1 DEF RoleFollows
<1>5. ASSUME NEW e \in Event, Wrote(e), e \notin S, e \notin D
      PROVE  Elsewhere(S) /\ Elsewhere(D) /\ db'.roles[r] = db.roles[r] /\ (Leaving(r)' <=> Leaving(r))
  <2>1. e.type = "roleDeleted" => e.role # r
    BY <1>5 DEF AboutRole
  <2>2. e.type = "delete" => e.chan # r
    BY <1>a, Events
  <2>3. ~Leaving(r) /\ ~Leaving(r)'
    BY <1>a, <1>5, <2>1, <2>2 DEF Wrote
  <2>4. db'.roles[r] = db.roles[r]
    BY <1>5 DEF Wrote, AboutRole
  <2> QED
    BY <1>5, <2>3, <2>4 DEF Elsewhere
<1>6. ASSUME NEW p \in Roles, NEW c \in Channels, RoleGone(p, c), p # r
      PROVE  Elsewhere(S) /\ Elsewhere(D) /\ db'.roles[r] = db.roles[r] /\ (Leaving(r)' <=> Leaving(r))
  <2>1. Elsewhere(S) /\ Elsewhere(D)
    BY <1>6 DEF Elsewhere
  <2> QED
    BY <1>a, <1>6, <2>1 DEF RoleGone
<1>7. ASSUME NEW c \in Channels, Inserted(c) \/ Listed(c) \/ ChannelGone(c)
      PROVE  Elsewhere(S) /\ Elsewhere(D) /\ db'.roles[r] = db.roles[r] /\ (Leaving(r)' <=> Leaving(r))
  <2>1. Elsewhere(S) /\ Elsewhere(D)
    BY <1>7 DEF Elsewhere, AboutRole
  <2> QED
    BY <1>a, <1>7, <2>1 DEF Inserted, Listed, ChannelGone
<1>8. CASE Passed
  <2>1. Elsewhere(S) /\ Elsewhere(D)
    BY <1>8 DEF Elsewhere, AboutRole
  <2> QED
    BY <1>3, <1>8, <1>a, <2>1 DEF Passed
<1> QED
  BY <1>1, <1>2, <1>3, <1>4, <1>5, <1>6, <1>7, <1>8 DEF Edited

LEMMA RoleTaken ==
    ASSUME TypeOK, TookIn, NEW r \in Roles, RoleFollows(r)
    PROVE  RoleFollows(r)'
<1> DEFINE e == Head(Coming)
<1> DEFINE D == AboutRole("roleDeleted", r)
<1> DEFINE S == AboutRole("role", r)
<1> DEFINE T == {x \in Event : x.perms = db.roles[r]}
<1>1. /\ Coming \in Seq(Event) /\ Coming # <<>> /\ Coming' = Tail(Coming)
      /\ e \in Event /\ db' = db /\ (Leaving(r)' <=> Leaving(r))
      /\ cache'.roles[r] =
             IF e.type = "role" /\ e.role = r /\ cache.roles[r] # "absent" THEN e.perms
             ELSE IF e.type = "roleDeleted" /\ e.role = r THEN "absent" ELSE cache.roles[r]
  BY ComingType DEF TookIn, TookServer
<1>2. NoneIn(Coming, D) <=> NoneIn(Coming', D) /\ e \notin D
  BY <1>1, TailLast
<1>3. ASSUME cache.roles[r] = "absent" \/ ~NoneIn(Coming, D)
      PROVE  cache'.roles[r] = "absent" \/ ~NoneIn(Coming', D)
  <2>1. CASE e \in D
    BY <1>1, <2>1 DEF AboutRole
  <2>2. CASE e \notin D /\ cache.roles[r] = "absent"
    BY <1>1, <2>2
  <2> QED
    BY <1>2, <1>3, <2>1, <2>2
<1>4. ASSUME /\ cache.roles[r] # "absent" /\ NoneIn(Coming, D)
             /\ LastIn(Coming, S, T) /\ (NoneIn(Coming, S) => cache.roles[r] = db.roles[r])
      PROVE  /\ cache'.roles[r] # "absent" /\ NoneIn(Coming', D)
             /\ LastIn(Coming', S, T) /\ (NoneIn(Coming', S) => cache'.roles[r] = db.roles[r])
  <2>1. e.type = "role" => e.perms # "absent"
    BY <1>1, Events DEF Override
  <2>2. cache'.roles[r] = IF e \in S THEN e.perms ELSE cache.roles[r]
    BY <1>1, <1>2, <1>4 DEF AboutRole
  <2>3. cache'.roles[r] # "absent" /\ NoneIn(Coming', D)
    BY <1>2, <1>4, <2>1, <2>2 DEF AboutRole
  <2>4. LastIn(Coming', S, T)
    BY <1>4, PerhapsNow
  <2>5. NoneIn(Coming', S) => cache'.roles[r] = db.roles[r]
    <3>1. CASE e \in S /\ e \in T
      BY <2>2, <3>1
    <3>2. CASE e \notin S /\ NoneIn(Coming, S)
      BY <1>4, <2>2, <3>2
    <3> QED
      BY <1>4, <3>1, <3>2, PerhapsNow
  <2> QED
    BY <2>3, <2>4, <2>5
<1> QED
  BY <1>1, <1>3, <1>4 DEF RoleFollows

\* The list of channels.
LEMMA ListAppended ==
    ASSUME NEW q \in Seq(Event), NEW e \in Event, NEW list, NEW c
    PROVE  /\ HasListed(q, list, c) /\ (e.type = "listed" => c \in e.listed)
              => HasListed(Append(q, e), list, c)
           /\ HasListed(Append(q, e), list, c) /\ e.type \notin {"listed", "create"}
              => HasListed(q, list, c)
<1> DEFINE p == Append(q, e)
<1> DEFINE n == Len(q) + 1
<1>1. /\ DOMAIN q \subseteq DOMAIN p /\ n \in DOMAIN p
      /\ \A i \in DOMAIN p : i = n \/ i \in DOMAIN q
      /\ \A i \in DOMAIN q : p[i] = q[i]
      /\ p[n] = e
  OBVIOUS
<1> HIDE DEF p, n
<1>2. ASSUME HasListed(q, list, c), e.type = "listed" => c \in e.listed
      PROVE  HasListed(p, list, c)
  <2>1. CASE c \in list /\ \A i \in DOMAIN q : q[i].type = "listed" => c \in q[i].listed
    BY <1>1, <1>2, <2>1 DEF HasListed
  <2>2. ASSUME NEW i \in DOMAIN q, NEW j \in DOMAIN q,
               i < j, q[i].type = "listed", q[j] \in AboutChannel({"create"}, c),
               \A k \in DOMAIN q : k >= i /\ q[k].type = "listed" => c \in q[k].listed
        PROVE  HasListed(p, list, c)
    <3>1. \A k \in DOMAIN p : k >= i /\ p[k].type = "listed" => c \in p[k].listed
      BY <1>1, <1>2, <2>2
    <3> QED
      BY <1>1, <2>2, <3>1 DEF HasListed
  <2> QED
    BY <1>2, <2>1, <2>2 DEF HasListed
<1>3. ASSUME HasListed(p, list, c), e.type \notin {"listed", "create"}
      PROVE  HasListed(q, list, c)
  <2>1. CASE c \in list /\ \A i \in DOMAIN p : p[i].type = "listed" => c \in p[i].listed
    BY <1>1, <2>1 DEF HasListed
  <2>2. ASSUME NEW i \in DOMAIN p, NEW j \in DOMAIN p,
               i < j, p[i].type = "listed", p[j] \in AboutChannel({"create"}, c),
               \A k \in DOMAIN p : k >= i /\ p[k].type = "listed" => c \in p[k].listed
        PROVE  HasListed(q, list, c)
    <3>1. i \in DOMAIN q /\ j \in DOMAIN q
      BY <1>1, <1>3, <2>2 DEF AboutChannel
    <3> QED
      BY <1>1, <2>2, <3>1 DEF HasListed
  <2> QED
    BY <1>3, <2>1, <2>2 DEF HasListed
<1> QED
  BY <1>2, <1>3 DEF p

LEMMA ListAnnounced ==
    ASSUME NEW q \in Seq(Event), NEW e \in Event, NEW f \in Event, NEW list, NEW c,
           e.type = "listed", c \in e.listed, f.type = "create", f.chan = c
    PROVE  HasListed(Append(Append(q, e), f), list, c)
<1> DEFINE p == Append(Append(q, e), f)
<1> DEFINE n == Len(q) + 1
<1>1. /\ n \in DOMAIN p /\ n + 1 \in DOMAIN p /\ n < n + 1
      /\ \A k \in DOMAIN p : k >= n => k = n \/ k = n + 1
      /\ p[n] = e /\ p[n + 1] = f
  OBVIOUS
<1> HIDE DEF p, n
<1>2. p[n + 1] \in AboutChannel({"create"}, c)
  BY <1>1 DEF AboutChannel
<1>3. \A k \in DOMAIN p : k >= n /\ p[k].type = "listed" => c \in p[k].listed
  BY <1>1
<1>4. HasListed(p, list, c)
  BY <1>1, <1>2, <1>3 DEF HasListed
<1> QED
  BY <1>4 DEF p

LEMMA ListHeard ==
    ASSUME NEW q \in Seq(Event), q # <<>>, NEW list, NEW c, HasListed(q, list, c)
    PROVE  HasListed(Tail(q), IF Head(q).type = "listed" THEN Head(q).listed ELSE list, c)
<1> DEFINE p == Tail(q)
<1> DEFINE now == IF Head(q).type = "listed" THEN Head(q).listed ELSE list
<1>1. /\ 1 \in DOMAIN q /\ Head(q) = q[1]
      /\ \A i \in DOMAIN p : i \in Nat /\ i + 1 \in DOMAIN q /\ p[i] = q[i + 1]
      /\ \A i \in DOMAIN q : i \in Nat /\ i >= 1
      /\ \A i \in DOMAIN q : i # 1 => i - 1 \in DOMAIN p /\ p[i - 1] = q[i]
  OBVIOUS
<1> HIDE DEF p, now
<1>2. ASSUME c \in list, \A i \in DOMAIN q : q[i].type = "listed" => c \in q[i].listed
      PROVE  HasListed(p, now, c)
  <2>1. c \in now
    BY <1>1, <1>2 DEF now
  <2>2. ASSUME NEW i \in DOMAIN p, p[i].type = "listed" PROVE c \in p[i].listed
    <3>1. i + 1 \in DOMAIN q /\ p[i] = q[i + 1]
      BY <1>1
    <3> QED
      BY <1>2, <2>2, <3>1
  <2> QED
    BY <2>1, <2>2 DEF HasListed
<1>3. ASSUME NEW i \in DOMAIN q, NEW j \in DOMAIN q,
             i < j, q[i].type = "listed", q[j] \in AboutChannel({"create"}, c),
             \A k \in DOMAIN q : k >= i /\ q[k].type = "listed" => c \in q[k].listed
      PROVE  HasListed(p, now, c)
  <2>1. CASE i = 1
    <3>1. c \in now
      BY <1>1, <1>3, <2>1 DEF now
    <3>2. ASSUME NEW k \in DOMAIN p, p[k].type = "listed" PROVE c \in p[k].listed
      <4>1. k + 1 \in DOMAIN q /\ k + 1 >= i /\ p[k] = q[k + 1]
        BY <1>1, <2>1
      <4> QED
        BY <1>3, <3>2, <4>1
    <3> QED
      BY <3>1, <3>2 DEF HasListed
  <2>2. CASE i # 1
    <3>1. i - 1 \in DOMAIN p /\ j - 1 \in DOMAIN p /\ p[i - 1] = q[i] /\ p[j - 1] = q[j]
          /\ i - 1 < j - 1
      <4>1. i \in Nat /\ j \in Nat /\ i >= 1 /\ i < j
        BY <1>1, <1>3
      <4>2. j # 1 /\ i - 1 < j - 1
        BY <4>1
      <4> QED
        BY <1>1, <1>3, <2>2, <4>2
    <3>2. ASSUME NEW k \in DOMAIN p, k >= i - 1, p[k].type = "listed" PROVE c \in p[k].listed
      <4>1. i \in Nat /\ k \in Nat /\ k + 1 \in DOMAIN q /\ q[k + 1] = p[k]
        BY <1>1, <1>3, <3>2
      <4>2. k + 1 >= i
        BY <3>2, <4>1
      <4> QED
        BY <1>3, <3>2, <4>1, <4>2
    <3> QED
      BY <1>3, <3>1, <3>2 DEF HasListed
  <2> QED
    BY <2>1, <2>2
<1>4. HasListed(p, now, c)
  BY <1>2, <1>3 DEF HasListed
<1> QED
  BY <1>4 DEF p, now

-----------------------------------------------------------------------------
(* Then each part of the server, when an edit writes it or announces it, and when the session
   takes in an event. *)
LEMMA StayingEdited ==
    ASSUME TypeOK, Edited, NEW c \in Staying'
    PROVE  c \in Channels /\ (c \in Staying \/ Listed(c))
<1>a. c # None /\ c \in Channels /\ \A r \in Roles : c # r
  <2>1. c \in db'.listed /\ ~Leaving(c)'
    BY DEF Staying
  <2>2. c \in Channels
    <3>1. db.listed \subseteq Channels
      BY Views DEF TypeOK
    <3>2. ASSUME NEW d \in Channels, Listed(d) PROVE c \in Channels
      BY <2>1, <3>1, <3>2 DEF Listed
    <3>3. (\A d \in Channels : ~Listed(d)) => db'.listed \subseteq db.listed
      BY DEF Edited, Wrote, Inserted, ChannelGone, RoleGone, Passed
    <3> QED
      BY <2>1, <3>1, <3>2, <3>3
  <2> QED
    BY <2>2, FeedAssumption
<1>b. c \in db'.listed /\ ~Leaving(c)'
  BY DEF Staying
<1>1. ASSUME NEW e \in Event, Wrote(e) PROVE c \in Staying
  BY <1>a, <1>b, <1>1 DEF Wrote, Staying
<1>2. ASSUME NEW d \in Channels, Inserted(d) PROVE c \in Staying
  BY <1>a, <1>b, <1>2 DEF Inserted, Staying
<1>3. ASSUME NEW d \in Channels, Listed(d) PROVE c \in Staying \/ c = d
  BY <1>a, <1>b, <1>3 DEF Listed, Staying
<1>4. ASSUME NEW d \in Channels, ChannelGone(d) PROVE c \in Staying
  BY <1>a, <1>b, <1>4 DEF ChannelGone, Staying
<1>5. ASSUME NEW r \in Roles, NEW d \in Channels, RoleGone(r, d) PROVE c \in Staying
  BY <1>a, <1>b, <1>5 DEF RoleGone, Staying
<1>6. CASE Passed
  BY <1>a, <1>b, <1>6 DEF Passed, Staying
<1> QED
  BY <1>a, <1>1, <1>2, <1>3, <1>4, <1>5, <1>6 DEF Edited

LEMMA ListEdited ==
    ASSUME TypeOK, Edited, UNCHANGED cache, NEW c \in Staying', c \in Staying => ListFollows(c)
    PROVE  ListFollows(c)'
<1>a. Coming \in Seq(Event)
  BY ComingType
<1>b. c \in Staying => HasListed(Coming, cache.listed, c) /\ c \in db.listed
  BY DEF ListFollows, Staying
<1>1. ASSUME NEW e \in Event, Wrote(e), c \in Staying
      PROVE  HasListed(Coming', cache.listed, c)
  <2>1. Coming' = Append(Coming, e) /\ e.type # "listed"
    BY <1>1 DEF Wrote
  <2> QED
    BY <1>a, <1>b, <1>1, <2>1, ListAppended
<1>2. ASSUME NEW d, Listed(d), c \in Staying
      PROVE  HasListed(Coming', cache.listed, c)
  <2>1. PICK e \in Event, f \in Event :
           /\ e.type = "listed" /\ e.listed = db.listed \cup {d} /\ f.type = "create"
           /\ Coming' = Append(Append(Coming, e), f)
    BY <1>2 DEF Listed
  <2>2. Append(Coming, e) \in Seq(Event) /\ HasListed(Append(Coming, e), cache.listed, c)
    BY <1>a, <1>b, <1>2, <2>1, ListAppended, Queues
  <2>3. f.type # "listed"
    BY <2>1
  <2> QED
    BY <2>1, <2>2, <2>3, ListAppended
<1>3. ASSUME Listed(c) PROVE HasListed(Coming', cache.listed, c)
  <2>1. PICK e \in Event, f \in Event :
           /\ e.type = "listed" /\ e.listed = db.listed \cup {c} /\ f.type = "create" /\ f.chan = c
           /\ Coming' = Append(Append(Coming, e), f)
    BY <1>3 DEF Listed
  <2>2. c \in e.listed
    BY <2>1
  <2> QED
    BY <1>a, <2>1, <2>2, ListAnnounced
<1>4. ASSUME Passed, c \in Staying PROVE HasListed(Coming', cache.listed, c)
  <2>1. ASSUME NEW e \in Event, e.type = "delete", Coming' \in Seq(Event), Coming = Append(Coming', e)
        PROVE  HasListed(Coming', cache.listed, c)
    <3>1. e.type \notin {"listed", "create"}
      BY <2>1
    <3>2. HasListed(Append(Coming', e), cache.listed, c)
      BY <1>b, <1>4, <2>1
    <3> QED
      BY <2>1, <3>1, <3>2, ListAppended
  <2> QED
    BY <1>b, <1>4, <2>1 DEF Passed
<1>5. ASSUME Coming' = Coming, c \in Staying PROVE HasListed(Coming', cache.listed, c)
  BY <1>b, <1>5
<1>6. c \in Staying => HasListed(Coming', cache.listed, c)
  BY <1>1, <1>2, <1>4, <1>5 DEF Edited, Inserted, ChannelGone, RoleGone
<1>7. HasListed(Coming', cache.listed, c)
  BY <1>3, <1>6, StayingEdited
<1> QED
  BY <1>7 DEF ListFollows

LEMMA ListTaken ==
    ASSUME TypeOK, TookIn, NEW c, ListFollows(c)
    PROVE  ListFollows(c)'
<1> DEFINE e == Head(Coming)
<1>1. /\ Coming \in Seq(Event) /\ Coming # <<>> /\ Coming' = Tail(Coming)
      /\ cache'.listed = IF e.type = "listed" THEN e.listed ELSE cache.listed
  BY ComingType DEF TookIn, TookServer
<1>2. HasListed(Coming, cache.listed, c)
  BY DEF ListFollows
<1>3. HasListed(Coming', cache'.listed, c)
  BY <1>1, <1>2, ListHeard
<1> QED
  BY <1>3 DEF ListFollows

\* The deletion of a channel.
LEMMA DeletedEdited ==
    ASSUME TypeOK, Ids, Edited, NEW c \in Channels, StaysDeleted(c)
    PROVE  StaysDeleted(c)'
<1> DEFINE D == AboutChannel({"delete"}, c)
<1>a. c # None /\ \A r \in Roles : c # r
  BY FeedAssumption
<1>b. Coming \in Seq(Event)
  BY ComingType
<1>c. NoneIn(Coming, D) \/ (c \in used /\ (db.chan[c] = None \/ Leaving(c)))
  BY DEF StaysDeleted
<1>1. ASSUME NEW e \in Event, Wrote(e) PROVE StaysDeleted(c)'
  <2>1. Coming' = Append(Coming, e) /\ used \subseteq used' /\ ~Leaving(c)
    BY <1>a, <1>1 DEF Wrote
  <2>2. CASE e \in D
    <3>1. Leaving(c)' /\ db.chan[c] # None
      BY <1>a, <1>1, <2>2 DEF Wrote, AboutChannel
    <3>2. c \in used'
      BY <2>1, <3>1 DEF Ids
    <3> QED
      BY <3>1, <3>2 DEF StaysDeleted
  <2>3. CASE e \notin D
    <3>1. NoneIn(Coming, D) => NoneIn(Coming', D)
      BY <1>b, <2>1, <2>3, AppendLast
    <3>2. db.chan[c] = None => db'.chan[c] = None
      BY <1>1 DEF Wrote
    <3> QED
      BY <1>c, <2>1, <3>1, <3>2 DEF StaysDeleted
  <2> QED
    BY <2>2, <2>3
<1>2. ASSUME NEW d \in Channels, Inserted(d) PROVE StaysDeleted(c)'
  BY <1>a, <1>c, <1>2 DEF Inserted, StaysDeleted
<1>3. ASSUME NEW d \in Channels, Listed(d) PROVE StaysDeleted(c)'
  <2>1. \A e \in D : e.type # "listed" /\ (e.type = "create" => e.chan # d)
    BY DEF AboutChannel
  <2> HIDE DEF D
  <2>2. NoneIn(Coming, D) => NoneIn(Coming', D)
    BY <1>3, <2>1, ListedSame
  <2> QED
    BY <1>a, <1>c, <1>3, <2>2 DEF D, Listed, StaysDeleted
<1>4. ASSUME NEW d \in Channels, ChannelGone(d) PROVE StaysDeleted(c)'
  BY <1>a, <1>c, <1>4 DEF ChannelGone, StaysDeleted
<1>5. ASSUME NEW r \in Roles, NEW d \in Channels, RoleGone(r, d) PROVE StaysDeleted(c)'
  BY <1>a, <1>c, <1>5 DEF RoleGone, StaysDeleted
<1>6. CASE Passed
  <2>a. ASSUME NEW e \in Event, Coming' \in Seq(Event), Coming = Append(Coming', e), NoneIn(Coming, D)
        PROVE  NoneIn(Coming', D)
    <3>1. NoneIn(Append(Coming', e), D)
      BY <2>a
    <3> QED
      BY <2>a, <3>1, AppendLast
  <2>1. NoneIn(Coming, D) => NoneIn(Coming', D)
    BY <1>6, <2>a DEF Passed
  <2> QED
    BY <1>a, <1>c, <1>6, <2>1 DEF Passed, StaysDeleted
<1> QED
  BY <1>1, <1>2, <1>3, <1>4, <1>5, <1>6 DEF Edited

LEMMA DeletedTaken ==
    ASSUME TypeOK, TookIn, NEW c, StaysDeleted(c)
    PROVE  StaysDeleted(c)'
<1>1. /\ Coming \in Seq(Event) /\ Coming # <<>> /\ Coming' = Tail(Coming)
      /\ UNCHANGED <<db, used>> /\ (Leaving(c)' <=> Leaving(c))
  BY ComingType DEF TookIn
<1>2. NoneIn(Coming, AboutChannel({"delete"}, c)) => NoneIn(Coming', AboutChannel({"delete"}, c))
  BY <1>1, TailLast
<1> QED
  BY <1>1, <1>2 DEF StaysDeleted

\* The edits that leave a channel as it is,
ElsewhereThan(c) ==
    \/ \E e \in Event : Wrote(e) /\ ~(e.type \in {"create", "default", "overrides"} /\ e.chan = c)
    \/ \E d \in Channels : Listed(d) /\ d # c
    \/ \E d \in Channels : Inserted(d) \/ ChannelGone(d)
    \/ Passed

\* and what becomes of one that stays.
LEMMA ChannelEdited ==
    ASSUME TypeOK, Ids, Alone, Edited, NEW c \in Staying'
    PROVE  \/ Listed(c) /\ db'.chan[c] = Plain /\ Gone' = Gone
           \/ /\ c \in Staying /\ Gone' = Gone
              /\ \E e \in Event :
                    /\ Wrote(e) /\ e.type = "default" /\ e.chan = c
                    /\ db'.chan[c].default = e.perms /\ db'.chan[c].roles = db.chan[c].roles
           \/ /\ c \in Staying /\ Gone' = Gone
              /\ \E e \in Event :
                    /\ Wrote(e) /\ e.type = "overrides" /\ e.chan = c
                    /\ db'.chan[c].roles = e.perms /\ db'.chan[c].default = db.chan[c].default
           \/ /\ c \in Staying
              /\ \E r \in Roles, d \in Channels :
                    /\ RoleGone(r, d) /\ Gone' = Gone \cup {r}
                    /\ db'.chan[c].default = db.chan[c].default
                    /\ \A p \in Roles : p # r => db'.chan[c].roles[p] = db.chan[c].roles[p]
           \/ c \in Staying /\ Gone' = Gone /\ db'.chan[c] = db.chan[c] /\ ElsewhereThan(c)
<1>a. c \in Channels /\ (c \in Staying \/ Listed(c)) /\ \A r \in Roles : c # r
  BY StayingEdited, FeedAssumption
<1>b. c \in Staying => db.chan[c] # None /\ db.chan[c] \in ChannelData /\ c \in used
  <2>1. c \in Staying => c \in db.listed
    BY DEF Staying
  <2>2. c \in Staying => db.chan[c] # None
    BY <1>a, <2>1 DEF Alone, HasChannels
  <2> QED
    BY <1>a, <2>2, Views DEF TypeOK, Ids
<1>c. c # None /\ c \in db'.listed /\ ~Leaving(c)'
  BY <1>a, FeedAssumption DEF Staying
<1>1. ASSUME NEW r \in Roles, NEW d \in Channels, RoleGone(r, d)
      PROVE  /\ c \in Staying /\ Gone' = Gone \cup {r}
             /\ db'.chan[c].default = db.chan[c].default
             /\ \A p \in Roles : p # r => db'.chan[c].roles[p] = db.chan[c].roles[p]
  <2>1. Gone' = Gone \cup {r}
    BY <1>1 DEF RoleGone, Gone
  <2>2. c \in Staying
    BY <1>a, <1>c, <1>1 DEF RoleGone, Staying
  <2>3. \/ db'.chan[c] = db.chan[c]
        \/ db'.chan[c] = [db.chan[c] EXCEPT !.roles[r] = "neutral"]
    BY <1>a, <1>1 DEF RoleGone
  <2>4. ASSUME NEW x \in ChannelData, NEW y, y = [x EXCEPT !.roles[r] = "neutral"]
        PROVE  y.default = x.default /\ \A p \in Roles : p # r => y.roles[p] = x.roles[p]
    BY <2>4 DEF ChannelData
  <2>5. CASE db'.chan[c] = [db.chan[c] EXCEPT !.roles[r] = "neutral"]
    BY <1>b, <2>1, <2>2, <2>4, <2>5
  <2>6. CASE db'.chan[c] = db.chan[c]
    BY <2>1, <2>2, <2>6
  <2> QED
    BY <2>3, <2>5, <2>6
<1>2. CASE ~(\E r \in Roles, d \in Channels : RoleGone(r, d))
  <2>1. Gone' = Gone
    BY <1>2, GoneEdited
  <2>2. ASSUME Listed(c) PROVE db'.chan[c] = Plain
    BY <1>a, <2>2 DEF Listed
  <2>3. ASSUME NEW e \in Event, Wrote(e)
        PROVE  /\ c \in Staying
               /\ \/ db'.chan[c] = db.chan[c]
                     /\ ~(e.type \in {"create", "default", "overrides"} /\ e.chan = c)
                  \/ e.type = "default" /\ e.chan = c
                     /\ db'.chan[c].default = e.perms /\ db'.chan[c].roles = db.chan[c].roles
                  \/ e.type = "overrides" /\ e.chan = c
                     /\ db'.chan[c].roles = e.perms /\ db'.chan[c].default = db.chan[c].default
    <3>1. c \in Staying
      BY <1>a, <1>c, <2>3 DEF Wrote, Staying
    <3>2. e.type # "create"
      BY <2>3 DEF Wrote
    <3>3. \/ db'.chan[c] = db.chan[c]
             /\ ~(e.type \in {"default", "overrides"} /\ e.chan = c)
          \/ e.type = "default" /\ e.chan = c
             /\ db'.chan[c] = [db.chan[c] EXCEPT !.default = e.perms]
          \/ e.type = "overrides" /\ e.chan = c
             /\ db'.chan[c] = [db.chan[c] EXCEPT !.roles = e.perms]
      BY <1>a, <2>3 DEF Wrote
    <3>4. ASSUME NEW x \in ChannelData, NEW y, NEW f
          PROVE  /\ y = [x EXCEPT !.default = f] => y.default = f /\ y.roles = x.roles
                 /\ y = [x EXCEPT !.roles = f] => y.roles = f /\ y.default = x.default
      BY DEF ChannelData
    <3> DEFINE x == db.chan[c]
    <3> DEFINE y == db'.chan[c]
    <3>6. x \in ChannelData
      BY <1>b, <3>1
    <3> HIDE DEF x, y
    <3>7. /\ y = [x EXCEPT !.default = e.perms] => y.default = e.perms /\ y.roles = x.roles
          /\ y = [x EXCEPT !.roles = e.perms] => y.roles = e.perms /\ y.default = x.default
      BY <3>4, <3>6
    <3> USE DEF x, y
    <3>5. /\ db'.chan[c] = [db.chan[c] EXCEPT !.default = e.perms]
             => db'.chan[c].default = e.perms /\ db'.chan[c].roles = db.chan[c].roles
          /\ db'.chan[c] = [db.chan[c] EXCEPT !.roles = e.perms]
             => db'.chan[c].roles = e.perms /\ db'.chan[c].default = db.chan[c].default
      BY <3>7
    <3> QED
      BY <3>1, <3>2, <3>3, <3>5
  <2>4. ASSUME NEW d \in Channels, Listed(d), d # c PROVE c \in Staying /\ db'.chan[c] = db.chan[c]
    BY <1>a, <1>c, <2>4 DEF Listed, Staying
  <2>5. ASSUME NEW d \in Channels, Inserted(d) PROVE c \in Staying /\ db'.chan[c] = db.chan[c]
    <3>1. c \in Staying
      BY <1>a, <1>c, <2>5 DEF Inserted, Staying
    <3> QED
      BY <1>a, <1>b, <2>5, <3>1 DEF Inserted
  <2>6. ASSUME NEW d \in Channels, ChannelGone(d) PROVE c \in Staying /\ db'.chan[c] = db.chan[c]
    BY <1>a, <1>c, <2>6 DEF ChannelGone, Staying
  <2>7. ASSUME Passed PROVE c \in Staying /\ db'.chan[c] = db.chan[c]
    BY <1>a, <1>c, <2>7 DEF Passed, Staying
  <2>8. CASE \E e \in Event : Wrote(e)
    BY <2>1, <2>3, <2>8 DEF ElsewhereThan
  <2>9. CASE \E d \in Channels : Listed(d)
    BY <2>1, <2>2, <2>4, <2>9 DEF ElsewhereThan
  <2>10. CASE \E d \in Channels : Inserted(d) \/ ChannelGone(d)
    BY <2>1, <2>5, <2>6, <2>10 DEF ElsewhereThan
  <2>11. CASE Passed
    BY <2>1, <2>7, <2>11 DEF ElsewhereThan
  <2> QED
    BY <1>2, <2>8, <2>9, <2>10, <2>11 DEF Edited
<1> QED
  BY <1>1, <1>2

LEMMA ElsewhereChannel ==
    ASSUME NEW c, NEW S, S \subseteq AboutChannel({"create", "default", "overrides"}, c),
           ElsewhereThan(c)
    PROVE  Elsewhere(S)
<1>1. \A e \in S : e.type \in {"create", "default", "overrides"} /\ e.chan = c
  BY DEF AboutChannel
<1> QED
  BY <1>1 DEF Elsewhere, ElsewhereThan

LEMMA ChannelDefaultEdited ==
    ASSUME TypeOK, Ids, Alone, Edited, UNCHANGED cache, NEW c \in Staying',
           c \in Staying => ChannelDefaultFollows(c)
    PROVE  ChannelDefaultFollows(c)'
<1> DEFINE says(e) == IF e.type = "create" THEN e.data.default ELSE e.perms
<1> DEFINE S == AboutChannel({"create", "default"}, c)
<1> DEFINE now == db.chan[c].default
<1>a. Coming \in Seq(Event) /\ (c \in Cached' <=> c \in Cached)
  BY ComingType DEF Cached, HasChannels
<1>b. c \in Staying => /\ LastIn(Coming, S, {e \in Event : says(e) = now})
                       /\ c \in Cached /\ NoneIn(Coming, S) => cache.chan[c].default = now
  BY DEF ChannelDefaultFollows
<1>1. ASSUME NEW e \in Event, NEW q \in Seq(Event), Coming' = Append(q, e), e \in S, says(e) = now'
      PROVE  ChannelDefaultFollows(c)'
  <2>1. ~NoneIn(Coming', S) /\ LastIn(Coming', S, {x \in Event : says(x) = now'})
    BY <1>1, AppendLast
  <2> QED
    BY <2>1 DEF ChannelDefaultFollows
<1>2. ASSUME Elsewhere(S), c \in Staying, now' = now PROVE ChannelDefaultFollows(c)'
  BY <1>a, <1>b, <1>2, ElsewhereSame DEF ChannelDefaultFollows
<1>3. ASSUME Listed(c), db'.chan[c] = Plain PROVE ChannelDefaultFollows(c)'
  <2>1. PICK e \in Event, f \in Event :
           /\ f.type = "create" /\ f.chan = c /\ f.data = Plain
           /\ Coming' = Append(Append(Coming, e), f)
    BY <1>3 DEF Listed
  <2>2. f \in S /\ says(f) = now' /\ Append(Coming, e) \in Seq(Event)
    BY <1>3, <1>a, <2>1, Queues DEF AboutChannel
  <2> HIDE DEF S, says, now
  <2> QED
    BY <1>1, <2>1, <2>2
<1>4. ASSUME NEW e \in Event, Wrote(e), e.type = "default", e.chan = c, db'.chan[c].default = e.perms
      PROVE  ChannelDefaultFollows(c)'
  <2>1. e \in S /\ says(e) = now'
    BY <1>4 DEF AboutChannel
  <2>2. Coming' = Append(Coming, e)
    BY <1>4 DEF Wrote
  <2> HIDE DEF S, says, now
  <2> QED
    BY <1>1, <1>a, <2>1, <2>2
<1>5. ASSUME NEW e \in Event, Wrote(e), e.type = "overrides" PROVE Elsewhere(S)
  BY <1>5 DEF Elsewhere, AboutChannel
<1>6. ASSUME NEW r \in Roles, NEW d \in Channels, RoleGone(r, d) PROVE Elsewhere(S)
  BY <1>6 DEF Elsewhere
<1>7. S \subseteq AboutChannel({"create", "default", "overrides"}, c)
  BY DEF AboutChannel
<1> HIDE DEF S
<1> QED
  BY <1>2, <1>3, <1>4, <1>5, <1>6, <1>7, ChannelEdited, ElsewhereChannel

LEMMA OverridesEdited ==
    ASSUME TypeOK, Ids, Alone, Edited, UNCHANGED cache, NEW c \in Staying',
           c \in Staying => OverridesFollow(c)
    PROVE  OverridesFollow(c)'
<1> DEFINE says(e) == IF e.type = "create" THEN e.data.roles ELSE e.perms
<1> DEFINE S == AboutChannel({"create", "overrides"}, c)
<1> DEFINE Agrees(f) == \A r \in Roles \ Gone : f[r] = db.chan[c].roles[r]
<1> DEFINE AgreesNow(f) == \A r \in Roles \ Gone' : f[r] = db'.chan[c].roles[r]
<1>a. Coming \in Seq(Event) /\ (c \in Cached' <=> c \in Cached)
  BY ComingType DEF Cached, HasChannels
<1>b. c \in Staying => /\ LastIn(Coming, S, {e \in Event : Agrees(says(e))})
                       /\ c \in Cached /\ NoneIn(Coming, S) => Agrees(cache.chan[c].roles)
  BY DEF OverridesFollow
<1>c. ASSUME LastIn(Coming', S, {e \in Event : AgreesNow(says(e))}),
             c \in Cached' /\ NoneIn(Coming', S) => AgreesNow(cache'.chan[c].roles)
      PROVE  OverridesFollow(c)'
  BY <1>c DEF OverridesFollow
<1>1. ASSUME NEW e \in Event, NEW q \in Seq(Event), Coming' = Append(q, e), e \in S,
             AgreesNow(says(e))
      PROVE  OverridesFollow(c)'
  <2>1. ~NoneIn(Coming', S) /\ LastIn(Coming', S, {x \in Event : AgreesNow(says(x))})
    BY <1>1, AppendLast
  <2> HIDE DEF S, AgreesNow, says
  <2> QED
    BY <1>c, <2>1
<1>2. ASSUME Elsewhere(S), c \in Staying, \A f : Agrees(f) => AgreesNow(f)
      PROVE  OverridesFollow(c)'
  <2>1. {e \in Event : Agrees(says(e))} \subseteq {e \in Event : AgreesNow(says(e))}
    BY <1>2
  <2> HIDE DEF S, Agrees, AgreesNow, says
  <2>2. LastIn(Coming, S, {e \in Event : AgreesNow(says(e))})
    BY <1>b, <1>2, <2>1, MoreLast
  <2>3. LastIn(Coming', S, {e \in Event : AgreesNow(says(e))}) /\ (NoneIn(Coming', S) <=> NoneIn(Coming, S))
    BY <1>2, <2>2, ElsewhereSame
  <2> QED
    BY <1>a, <1>b, <1>c, <1>2, <2>3
<1>3. ASSUME Listed(c), db'.chan[c] = Plain PROVE OverridesFollow(c)'
  <2>1. PICK e \in Event, f \in Event :
           /\ f.type = "create" /\ f.chan = c /\ f.data = Plain
           /\ Coming' = Append(Append(Coming, e), f)
    BY <1>3 DEF Listed
  <2>2. f \in S /\ AgreesNow(says(f)) /\ Append(Coming, e) \in Seq(Event)
    BY <1>3, <1>a, <2>1, Queues DEF AboutChannel
  <2> HIDE DEF S, says, AgreesNow
  <2> QED
    BY <1>1, <2>1, <2>2
<1>4. ASSUME NEW e \in Event, Wrote(e), e.type = "overrides", e.chan = c, db'.chan[c].roles = e.perms
      PROVE  OverridesFollow(c)'
  <2>1. e \in S /\ AgreesNow(says(e))
    BY <1>4 DEF AboutChannel
  <2>2. Coming' = Append(Coming, e)
    BY <1>4 DEF Wrote
  <2> HIDE DEF S, says, AgreesNow
  <2> QED
    BY <1>1, <1>a, <2>1, <2>2
<1>5. ASSUME NEW e \in Event, Wrote(e), e.type = "default" PROVE Elsewhere(S)
  BY <1>5 DEF Elsewhere, AboutChannel
<1>6. ASSUME NEW r \in Roles, NEW d \in Channels, RoleGone(r, d) PROVE Elsewhere(S)
  BY <1>6 DEF Elsewhere
<1>7. S \subseteq AboutChannel({"create", "default", "overrides"}, c)
  BY DEF AboutChannel
<1>8. ASSUME Gone' = Gone, db'.chan[c].roles = db.chan[c].roles
      PROVE  \A f : Agrees(f) => AgreesNow(f)
  BY <1>8
<1>9. ASSUME NEW r \in Roles, Gone' = Gone \cup {r},
             \A p \in Roles : p # r => db'.chan[c].roles[p] = db.chan[c].roles[p]
      PROVE  \A f : Agrees(f) => AgreesNow(f)
  BY <1>9
<1> HIDE DEF S, Agrees, AgreesNow
<1> QED
  BY <1>2, <1>3, <1>4, <1>5, <1>6, <1>7, <1>8, <1>9, ChannelEdited, ElsewhereChannel

\* What the session's copy of a channel becomes, if it still has one.
LEMMA ChannelTaken ==
    ASSUME TypeOK, TookIn, NEW c \in Channels, db.chan[c] # None,
           NoneIn(Coming, AboutChannel({"delete"}, c)), c \in Cached'
    PROVE  LET e == Head(Coming)
               x == cache.chan[c]
               y == cache'.chan[c]
           IN  \/ y = db.chan[c]
               \/ e.type = "create" /\ e.chan = c /\ y = e.data
               \/ e.type = "default" /\ e.chan = c /\ c \in Cached
                  /\ y.default = e.perms /\ y.roles = x.roles
               \/ e.type = "overrides" /\ e.chan = c /\ c \in Cached
                  /\ y.roles = e.perms /\ y.default = x.default
               \/ ~(e.type \in {"create", "default", "overrides"} /\ e.chan = c)
                  /\ c \in Cached /\ y = x
<1> DEFINE e == Head(Coming)
<1> DEFINE x == cache.chan[c]
<1> DEFINE y == cache'.chan[c]
<1>1. /\ Coming \in Seq(Event) /\ Coming # <<>> /\ e \in Event
      /\ \/ Tells(e, c) /\ TookChannel(e, c)
         \/ ~Tells(e, c) /\ (LookedAt(c) \/ LeftAlone(e, c))
  BY ComingType DEF TookIn
<1>2. ~(e.type = "delete" /\ e.chan = c)
  <2>1. e = Coming[1] /\ 1 \in DOMAIN Coming
    BY <1>1
  <2> QED
    BY <1>1, <2>1 DEF NoneIn, AboutChannel
<1>3. y # None /\ (x # None <=> c \in Cached) /\ (x # None => x \in ChannelData)
  BY Views DEF Cached, HasChannels, TypeOK
<1> HIDE DEF e
<1>4. CASE Tells(e, c) /\ TookChannel(e, c)
  <2>1. CASE e.type = "create"
    BY <1>4, <2>1 DEF TookChannel, Tells, e
  <2>2. CASE e.type \in {"default", "overrides", "rename"} /\ x = None
    BY <1>4, <2>2 DEF TookChannel, e
  <2>3. CASE e.type = "default" /\ x # None
    <3>1. y = [x EXCEPT !.default = e.perms]
      BY <1>4, <2>3 DEF TookChannel, Applied
    <3>2. y.default = e.perms /\ y.roles = x.roles
      BY <1>3, <2>3, <3>1 DEF ChannelData
    <3> QED
      BY <1>3, <1>4, <2>3, <3>2 DEF Tells, e
  <2>4. CASE e.type = "overrides" /\ x # None
    <3>1. y = [x EXCEPT !.roles = e.perms]
      BY <1>4, <2>4 DEF TookChannel, Applied
    <3>2. y.roles = e.perms /\ y.default = x.default
      BY <1>3, <2>4, <3>1 DEF ChannelData
    <3> QED
      BY <1>3, <1>4, <2>4, <3>2 DEF Tells, e
  <2>5. CASE e.type = "rename" /\ x # None
    <3>1. y = x
      BY <1>4, <2>5 DEF TookChannel, Applied
    <3> QED
      BY <1>3, <2>5, <3>1 DEF e
  <2> QED
    BY <1>2, <1>4, <2>1, <2>2, <2>3, <2>4, <2>5 DEF Tells
<1>5. CASE ~Tells(e, c) /\ (LookedAt(c) \/ LeftAlone(e, c))
  <2>1. ~(e.type \in {"create", "default", "overrides"} /\ e.chan = c)
    BY <1>5 DEF Tells
  <2>2. y = db.chan[c] \/ (x # None /\ y = x)
    BY <1>3, <1>5 DEF LookedAt, LeftAlone
  <2> QED
    BY <1>3, <2>1, <2>2 DEF e
<1> QED
  BY <1>1, <1>4, <1>5

LEMMA StayingTaken ==
    ASSUME TypeOK, Alone, TookIn, NEW c \in Staying', StaysDeleted(c)
    PROVE  /\ c \in Staying /\ c \in Channels
           /\ db.chan[c] # None /\ db.chan[c] \in ChannelData
           /\ NoneIn(Coming, AboutChannel({"delete"}, c))
<1>1. c \in db.listed /\ ~Leaving(c) /\ c \in Staying
  BY DEF Staying, TookIn
<1>2. c \in Channels /\ db.chan[c] # None
  BY <1>1 DEF Alone, HasChannels
<1> QED
  BY <1>1, <1>2, Views DEF StaysDeleted, TypeOK

LEMMA ChannelDefaultTaken ==
    ASSUME TypeOK, Alone, TookIn, NEW c \in Staying', StaysDeleted(c), ChannelDefaultFollows(c)
    PROVE  ChannelDefaultFollows(c)'
<1> DEFINE says(e) == IF e.type = "create" THEN e.data.default ELSE e.perms
<1> DEFINE S == AboutChannel({"create", "default"}, c)
<1> DEFINE now == db.chan[c].default
<1> DEFINE T == {x \in Event : says(x) = now}
<1> DEFINE e == Head(Coming)
<1>1. now' = now /\ e \in Event
  BY DEF TookIn
<1>2. LastIn(Coming, S, T) /\ (c \in Cached /\ NoneIn(Coming, S) => cache.chan[c].default = now)
  BY DEF ChannelDefaultFollows
<1>3. /\ LastIn(Coming', S, T)
      /\ NoneIn(Coming', S) => (e \in S /\ e \in T) \/ (e \notin S /\ NoneIn(Coming, S))
  BY <1>2, PerhapsNow
<1>4. ASSUME c \in Cached', NoneIn(Coming', S) PROVE cache'.chan[c].default = now
  <2>1. CASE e \in S /\ e \in T
    <3>1. e.type \in {"create", "default"} /\ e.chan = c /\ says(e) = now
      BY <2>1 DEF AboutChannel
    <3> QED
      BY <1>4, <3>1, StayingTaken, ChannelTaken
  <2>2. CASE e \notin S /\ NoneIn(Coming, S)
    <3>1. ~(e.type \in {"create", "default"} /\ e.chan = c)
      BY <1>1, <2>2 DEF AboutChannel
    <3> QED
      BY <1>2, <1>4, <2>2, <3>1, StayingTaken, ChannelTaken
  <2> QED
    BY <1>3, <1>4, <2>1, <2>2
<1>5. /\ LastIn(Coming', S, {x \in Event : says(x) = db'.chan[c].default})
      /\ c \in Cached' /\ NoneIn(Coming', S) => cache'.chan[c].default = db'.chan[c].default
  <2> HIDE DEF S, says
  <2> QED
    BY <1>1, <1>3, <1>4
<1> QED
  BY <1>5 DEF ChannelDefaultFollows

LEMMA OverridesTaken ==
    ASSUME TypeOK, Alone, TookIn, NEW c \in Staying', StaysDeleted(c), OverridesFollow(c)
    PROVE  OverridesFollow(c)'
<1> DEFINE says(e) == IF e.type = "create" THEN e.data.roles ELSE e.perms
<1> DEFINE S == AboutChannel({"create", "overrides"}, c)
<1> DEFINE Agrees(f) == \A r \in Roles \ Gone : f[r] = db.chan[c].roles[r]
<1> DEFINE T == {x \in Event : Agrees(says(x))}
<1> DEFINE e == Head(Coming)
<1>1. db' = db /\ Gone' = Gone /\ e \in Event
  BY DEF TookIn, Gone
<1>2. LastIn(Coming, S, T) /\ (c \in Cached /\ NoneIn(Coming, S) => Agrees(cache.chan[c].roles))
  BY DEF OverridesFollow
<1>3. /\ LastIn(Coming', S, T)
      /\ NoneIn(Coming', S) => (e \in S /\ e \in T) \/ (e \notin S /\ NoneIn(Coming, S))
  BY <1>2, PerhapsNow
<1>4. ASSUME c \in Cached', NoneIn(Coming', S) PROVE Agrees(cache'.chan[c].roles)
  <2>1. CASE e \in S /\ e \in T
    <3>1. e.type \in {"create", "overrides"} /\ e.chan = c /\ Agrees(says(e))
      BY <2>1 DEF AboutChannel
    <3> QED
      BY <1>4, <3>1, StayingTaken, ChannelTaken
  <2>2. CASE e \notin S /\ NoneIn(Coming, S)
    <3>1. ~(e.type \in {"create", "overrides"} /\ e.chan = c)
      BY <1>1, <2>2 DEF AboutChannel
    <3> QED
      BY <1>2, <1>4, <2>2, <3>1, StayingTaken, ChannelTaken
  <2> QED
    BY <1>3, <1>4, <2>1, <2>2
<1>5. /\ LastIn(Coming', S, {x \in Event : \A r \in Roles \ Gone' : says(x)[r] = db'.chan[c].roles[r]})
      /\ c \in Cached' /\ NoneIn(Coming', S) =>
            \A r \in Roles \ Gone' : cache'.chan[c].roles[r] = db'.chan[c].roles[r]
  <2> HIDE DEF S, says
  <2> QED
    BY <1>1, <1>3, <1>4
<1> QED
  BY <1>5 DEF OverridesFollow

\* What a channel is to the member depends on the roles he has that exist.
Holding(v) == {r \in v.mine : v.roles[r] # "absent"}

LEMMA MayViewAgrees ==
    ASSUME NEW v, NEW d, NEW x, d.default = x.default,
           \A r \in Holding(v) : d.roles[r] = x.roles[r]
    PROVE  MayView(v, d) = MayView(v, x)
BY DecideDepends DEF MayView, Holding

\* A channel the session has not.
LEMMA NotMissedEdited ==
    ASSUME TypeOK, Ids, Alone, Edited, UNCHANGED cache, NEW c \in Staying',
           \A r \in Roles \ late : RoleFollows(r), c \in Staying => NotMissed(c)
    PROVE  NotMissed(c)'
<1> DEFINE S == AboutChannel({"create", "default", "overrides", "rename"}, c)
<1> DEFINE D(r) == AboutRole("roleDeleted", r)
<1>a. Coming \in Seq(Event) /\ (c \in Cached' <=> c \in Cached) /\ cache' = cache
  BY ComingType DEF Cached, HasChannels
<1>b. c \in Staying => \/ c \in Cached \/ ~NoneIn(Coming, S)
                       \/ \E r \in cache.mine : ~NoneIn(Coming, D(r))
                       \/ ~MayView(cache, db.chan[c])
  BY DEF NotMissed
<1>c. ASSUME \/ c \in Cached \/ ~NoneIn(Coming', S)
             \/ \E r \in cache.mine : ~NoneIn(Coming', D(r))
             \/ ~MayView(cache, db'.chan[c])
      PROVE  NotMissed(c)'
  <2>1. \/ c \in Cached' \/ ~NoneIn(Coming', S)
        \/ \E r \in cache'.mine : ~NoneIn(Coming', D(r))
        \/ ~MayView(cache', db'.chan[c])
    BY <1>a, <1>c
  <2> QED
    BY <2>1 DEF NotMissed
<1>1. ASSUME NEW e \in Event, NEW q \in Seq(Event), Coming' = Append(q, e), e \in S
      PROVE  NotMissed(c)'
  <2>1. ~NoneIn(Coming', S)
    BY <1>1, AppendLast
  <2> HIDE DEF S, D
  <2> QED
    BY <1>c, <2>1
<1>2. ASSUME NEW e \in Event, Wrote(e), e \in S PROVE NotMissed(c)'
  <2>1. Coming' = Append(Coming, e)
    BY <1>2 DEF Wrote
  <2> HIDE DEF S, D
  <2> QED
    BY <1>1, <1>2, <1>a, <2>1
<1>3. ASSUME Listed(c) PROVE NotMissed(c)'
  <2>1. PICK e \in Event, f \in Event :
           f.type = "create" /\ f.chan = c /\ Coming' = Append(Append(Coming, e), f)
    BY <1>3 DEF Listed
  <2>2. f \in S /\ Append(Coming, e) \in Seq(Event)
    BY <1>a, <2>1, Queues DEF AboutChannel
  <2> HIDE DEF S, D
  <2> QED
    BY <1>1, <2>1, <2>2
<1>4. ASSUME c \in Staying, MayView(cache, db'.chan[c]) => MayView(cache, db.chan[c]),
             NoneIn(Coming', S) => NoneIn(Coming, S),
             \A r \in cache.mine : NoneIn(Coming', D(r)) => NoneIn(Coming, D(r))
      PROVE  NotMissed(c)'
  <2> HIDE DEF S, D
  <2> QED
    BY <1>b, <1>c, <1>4
<1>5. ASSUME c \in Staying, db'.chan[c] = db.chan[c], ElsewhereThan(c) PROVE NotMissed(c)'
  <2>1. CASE \E e \in Event : Wrote(e) /\ e \in S
    BY <1>2, <2>1
  <2>2. CASE \E e \in Event : Wrote(e) /\ e \notin S
    <3>1. PICK e \in Event : Coming' = Append(Coming, e)
      BY <2>2 DEF Wrote
    <3>2. \A X : NoneIn(Append(Coming, e), X) => NoneIn(Coming, X)
      BY <1>a, AppendLast
    <3> HIDE DEF S, D
    <3> QED
      BY <1>4, <1>5, <3>1, <3>2
  <2>3. CASE \E d \in Channels : Listed(d) /\ d # c
    <3>1. PICK e \in Event, f \in Event : Coming' = Append(Append(Coming, e), f)
      BY <2>3 DEF Listed
    <3>2. Append(Coming, e) \in Seq(Event)
      BY <1>a, Queues
    <3>3. ASSUME NEW X, NoneIn(Coming', X) PROVE NoneIn(Coming, X)
      <4>1. NoneIn(Append(Coming, e), X)
        BY <3>1, <3>2, <3>3, AppendLast
      <4> QED
        BY <1>a, <4>1, AppendLast
    <3> HIDE DEF S, D
    <3> QED
      BY <1>4, <1>5, <3>3
  <2>4. CASE \E d \in Channels : Inserted(d) \/ ChannelGone(d)
    <3>1. Coming' = Coming
      BY <2>4 DEF Inserted, ChannelGone
    <3> QED
      BY <1>4, <1>5, <3>1
  <2>5. CASE Passed
    <3>1. ASSUME NEW X, \A e \in X : e.type # "delete", NoneIn(Coming', X) PROVE NoneIn(Coming, X)
      BY <2>5, <3>1, PassedSame
    <3>2. (\A e \in S : e.type # "delete") /\ \A r : \A e \in D(r) : e.type # "delete"
      BY DEF AboutChannel, AboutRole
    <3> HIDE DEF S, D
    <3> QED
      BY <1>4, <1>5, <3>1, <3>2
  <2> QED
    BY <1>5, <2>1, <2>2, <2>3, <2>4, <2>5 DEF ElsewhereThan
<1>6. ASSUME NEW e \in Event, Wrote(e), e.type \in {"default", "overrides"}, e.chan = c
      PROVE  NotMissed(c)'
  <2>1. e \in S
    BY <1>6 DEF AboutChannel
  <2> QED
    BY <1>2, <1>6, <2>1
<1>7. ASSUME c \in Staying, NEW r \in Roles, NEW d \in Channels, RoleGone(r, d),
             db'.chan[c].default = db.chan[c].default,
             \A p \in Roles : p # r => db'.chan[c].roles[p] = db.chan[c].roles[p]
      PROVE  NotMissed(c)'
  <2>1. Coming' = Coming /\ Leaving(r)
    BY <1>7, FeedAssumption DEF RoleGone
  <2>2. CASE r \in Holding(cache)
    <3>1. cache.roles[r] # "absent" /\ r \in cache.mine /\ r \notin late
      BY <2>2 DEF Holding, Ids
    <3>2. ~NoneIn(Coming, D(r))
      BY <2>1, <3>1 DEF RoleFollows
    <3> HIDE DEF S, D
    <3> QED
      BY <1>c, <2>1, <3>1, <3>2
  <2>3. CASE r \notin Holding(cache)
    <3>1. Holding(cache) \subseteq Roles
      BY Views DEF Holding, TypeOK
    <3>2. \A p \in Holding(cache) : db'.chan[c].roles[p] = db.chan[c].roles[p]
      BY <1>7, <2>3, <3>1
    <3>3. MayView(cache, db'.chan[c]) = MayView(cache, db.chan[c])
      BY <1>7, <3>2, MayViewAgrees
    <3> QED
      BY <1>4, <1>7, <2>1, <3>3
  <2> QED
    BY <2>2, <2>3
<1> HIDE DEF S, D
<1> QED
  BY <1>3, <1>5, <1>6, <1>7, ChannelEdited

\* The session's copy of a channel that stays, once nothing more is to come of it.
LEMMA CopyAgrees ==
    ASSUME NEW c \in Staying, c \in Cached, ChannelDefaultFollows(c), OverridesFollow(c),
           NoneIn(Coming, AboutChannel({"create", "default", "overrides"}, c)),
           NEW v, Holding(v) \subseteq Roles \ Gone
    PROVE  MayView(v, cache.chan[c]) = MayView(v, db.chan[c])
<1>1. /\ NoneIn(Coming, AboutChannel({"create", "default"}, c))
      /\ NoneIn(Coming, AboutChannel({"create", "overrides"}, c))
  BY DEF NoneIn, AboutChannel
<1>2. cache.chan[c].default = db.chan[c].default
  BY <1>1 DEF ChannelDefaultFollows
<1>3. \A r \in Roles \ Gone : cache.chan[c].roles[r] = db.chan[c].roles[r]
  BY <1>1 DEF OverridesFollow
<1> QED
  BY <1>2, <1>3, MayViewAgrees

LEMMA NotMissedTaken ==
    ASSUME TypeOK, Alone, Ids, TookIn, NEW c \in Staying', StaysDeleted(c),
           ChannelDefaultFollows(c), OverridesFollow(c), NotMissed(c),
           ListFollows(c)', \A r \in Roles \ late : RoleFollows(r)'
    PROVE  NotMissed(c)'
<1> DEFINE S == AboutChannel({"create", "default", "overrides", "rename"}, c)
<1> DEFINE D(r) == AboutRole("roleDeleted", r)
<1> DEFINE e == Head(Coming)
<1> SUFFICES ASSUME c \notin Cached', NoneIn(Coming', S),
                    \A r \in cache'.mine : NoneIn(Coming', D(r))
             PROVE  ~MayView(cache', db'.chan[c])
  BY DEF NotMissed
<1>1. /\ Coming \in Seq(Event) /\ Coming # <<>> /\ Coming' = Tail(Coming) /\ e \in Event
      /\ UNCHANGED <<db, late, used>> /\ TookServer(e)
  BY ComingType DEF TookIn
<1>2. /\ c \in Staying /\ c \in Channels /\ db.chan[c] # None
      /\ NoneIn(Coming, AboutChannel({"delete"}, c))
  BY StayingTaken
<1>3. /\ \/ Tells(e, c) /\ TookChannel(e, c)
         \/ ~Tells(e, c) /\ (LookedAt(c) \/ LeftAlone(e, c))
      /\ cache'.chan[c] = None
  BY <1>2 DEF TookIn, Cached, HasChannels
<1>4. ~(e.type = "delete" /\ e.chan = c)
  <2>1. e = Coming[1] /\ 1 \in DOMAIN Coming
    BY <1>1
  <2> QED
    BY <1>1, <1>2, <2>1 DEF NoneIn, AboutChannel
<1>5. cache.chan[c] # None <=> c \in Cached
  BY <1>2 DEF Cached, HasChannels
<1> HIDE DEF e
<1>6. ~Tells(e, c)
  <2>1. CASE e.type = "create" /\ e.chan = c /\ TookChannel(e, c)
    <3>1. cache'.chan[c] = e.data /\ e.data \in ChannelData
      BY <1>1, <2>1, Events DEF TookChannel
    <3> QED
      BY <1>3, <3>1, Data
  <2>2. CASE e.type \in {"default", "overrides", "rename"} /\ e.chan = c /\ TookChannel(e, c)
    <3>1. cache'.chan[c] = IF cache.chan[c] = None THEN db.chan[c] ELSE Applied(cache.chan[c], e)
      BY <2>2 DEF TookChannel
    <3>2. cache.chan[c] # None => Applied(cache.chan[c], e) \in ChannelData
      BY <1>1, <1>2, <2>2, Views, AppliedIsData DEF TypeOK
    <3> QED
      BY <1>2, <1>3, <3>1, <3>2, Data
  <2> QED
    BY <1>3, <1>4, <2>1, <2>2 DEF Tells
<1>7. NoneIn(Coming, S)
  <2>1. e \notin S
    BY <1>6 DEF Tells, AboutChannel
  <2> HIDE DEF S
  <2> QED
    BY <1>1, <2>1, TailLast DEF e
<1>8. CASE LookedAt(c) /\ cache.chan[c] # None
  <2>1. ~MayView(cache', cache.chan[c])
    BY <1>3, <1>8 DEF LookedAt
  <2>2. Holding(cache') \subseteq Roles \ Gone
    <3>1. ASSUME NEW r \in Holding(cache'), r \notin Roles \ Gone PROVE FALSE
      <4>1. r \in Roles
        <5>1. cache'.mine = IF e.type = "member" THEN e.roles ELSE cache.mine
          BY <1>1 DEF TookServer
        <5>2. cache'.mine \subseteq Roles
          BY <1>1, <5>1, Events, Views DEF TypeOK
        <5> QED
          BY <3>1, <5>2 DEF Holding
      <4>2. db'.roles[r] = "absent" /\ cache'.roles[r] # "absent" /\ NoneIn(Coming', D(r))
        BY <1>1, <3>1, <4>1 DEF Holding, Gone
      <4>3. r \notin late
        BY <1>1, <4>1, <4>2 DEF TookServer, Ids
      <4>4. RoleFollows(r)'
        BY <4>1, <4>3
      <4> QED
        BY <4>2, <4>4 DEF RoleFollows
    <3> QED
      BY <3>1
  <2>3. NoneIn(Coming, AboutChannel({"create", "default", "overrides"}, c))
    BY <1>7 DEF NoneIn, AboutChannel
  <2>4. MayView(cache', cache.chan[c]) = MayView(cache', db.chan[c])
    BY <1>2, <1>5, <1>8, <2>2, <2>3, CopyAgrees
  <2> QED
    BY <1>1, <2>1, <2>4
<1>9. CASE LookedAt(c) /\ cache.chan[c] = None
  <2>1. c \in cache'.listed => ~MayView(cache', db.chan[c])
    BY <1>2, <1>3, <1>9 DEF LookedAt
  <2>2. HasListed(Coming', cache'.listed, c)
    BY DEF ListFollows
  <2>3. ~(\E i \in DOMAIN Coming' : Coming'[i] \in AboutChannel({"create"}, c))
    BY DEF NoneIn, AboutChannel
  <2>4. c \in cache'.listed
    BY <2>2, <2>3 DEF HasListed
  <2> QED
    BY <1>1, <2>1, <2>4
<1>10. CASE LeftAlone(e, c)
  <2>1. cache.chan[c] = None /\ cache'.mine = cache.mine
    BY <1>3, <1>10 DEF LeftAlone
  <2>2. ASSUME NEW r \in cache.mine PROVE NoneIn(Coming, D(r))
    <3>1. e \notin D(r)
      BY <1>10 DEF LeftAlone, AboutRole
    <3>2. NoneIn(Coming', D(r))
      BY <2>1
    <3> HIDE DEF D
    <3> QED
      BY <1>1, <3>1, <3>2, TailLast DEF e
  <2>3. ~MayView(cache, db.chan[c])
    BY <1>5, <1>7, <2>1, <2>2 DEF NotMissed
  <2> QED
    BY <1>1, <1>10, <2>3 DEF LeftAlone
<1> QED
  BY <1>3, <1>6, <1>8, <1>9, <1>10

-----------------------------------------------------------------------------
(* All of it together, step by step. *)
\* All of it together: an edit,
LEMMA FollowsEdited ==
    ASSUME TypeOK, Ids, Alone, Follows, ~mixed', phase = "live", Edit
    PROVE  Follows'
<1>1. UNCHANGED <<phase, cache>> /\ Edited
  BY EditShape
<1>2. /\ MineFollows /\ DefaultFollows
      /\ \A r \in Roles \ late : RoleFollows(r)
      /\ \A c \in Staying : ListFollows(c)
      /\ \A c \in Channels : StaysDeleted(c)
      /\ \A c \in Staying : ChannelDefaultFollows(c) /\ OverridesFollow(c) /\ NotMissed(c)
  BY DEF Follows
<1>3. MineFollows' /\ DefaultFollows'
  BY <1>1, <1>2, MineEdited, DefaultEdited
<1>4. late \subseteq late'
  BY <1>1 DEF Edited, Wrote, Inserted, Listed, ChannelGone, RoleGone, Passed
<1>5. ASSUME NEW r \in Roles \ late' PROVE RoleFollows(r)'
  BY <1>1, <1>2, <1>4, RoleEdited
<1>6. ASSUME NEW c \in Staying' PROVE ListFollows(c)'
  BY <1>1, <1>2, ListEdited
<1>7. ASSUME NEW c \in Channels PROVE StaysDeleted(c)'
  BY <1>1, <1>2, DeletedEdited
<1>8. ASSUME NEW c \in Staying'
      PROVE  ChannelDefaultFollows(c)' /\ OverridesFollow(c)' /\ NotMissed(c)'
  BY <1>1, <1>2, ChannelDefaultEdited, OverridesEdited, NotMissedEdited
<1> QED
  BY <1>3, <1>5, <1>6, <1>7, <1>8 DEF Follows

\* an event that the session takes in,
LEMMA FollowsTaken ==
    ASSUME TypeOK, Ids, Alone, Follows, Heard
    PROVE  Follows'
<1>1. TookIn /\ phase = "live" /\ phase' = phase
  <2>1. \E t : Incoming(t)
    BY DEF Heard, ServerUpdate, ServerMemberUpdate, ServerRoleUpdate, ServerRoleDelete,
           ChannelCreate, ChannelDelete, ChannelUpdate
  <2> QED
    BY <2>1, TakesIn DEF Incoming
<1>2. /\ MineFollows /\ DefaultFollows
      /\ \A r \in Roles \ late : RoleFollows(r)
      /\ \A c \in Staying : ListFollows(c)
      /\ \A c \in Channels : StaysDeleted(c)
      /\ \A c \in Staying : ChannelDefaultFollows(c) /\ OverridesFollow(c) /\ NotMissed(c)
  BY <1>1 DEF Follows
<1>3. MineFollows' /\ DefaultFollows'
  BY <1>1, <1>2, MineTaken, DefaultTaken
<1>4. late' = late
  BY <1>1 DEF TookIn
<1>5. ASSUME NEW r \in Roles \ late PROVE RoleFollows(r)'
  BY <1>1, <1>2, RoleTaken
<1>6. ASSUME NEW c \in Staying' PROVE c \in Staying /\ c \in Channels
  <2>1. c \in db.listed /\ ~Leaving(c)
    BY <1>1 DEF Staying, TookIn
  <2> QED
    BY <2>1, Views DEF Staying, TypeOK
<1>7. ASSUME NEW c \in Staying' PROVE ListFollows(c)'
  BY <1>1, <1>2, <1>6, ListTaken
<1>8. ASSUME NEW c \in Channels PROVE StaysDeleted(c)'
  BY <1>1, <1>2, DeletedTaken
<1>9. ASSUME NEW c \in Staying'
      PROVE  ChannelDefaultFollows(c)' /\ OverridesFollow(c)' /\ NotMissed(c)'
  BY <1>1, <1>2, <1>5, <1>6, <1>7, ChannelDefaultTaken, OverridesTaken, NotMissedTaken
<1> QED
  BY <1>3, <1>4, <1>5, <1>7, <1>8, <1>9 DEF Follows

\* and the reads of the Ready payload, while nothing is edited.
LEMMA NothingComing ==
    ASSUME TypeOK, Unsubscribed, phase # "live", \A i \in Edits : sending[i] = Sent
    PROVE  /\ Coming = <<>>
           /\ \A S, T : NoneIn(Coming, S) /\ LastIn(Coming, S, T)
           /\ \A list, c : HasListed(Coming, list, c) <=> c \in list
           /\ \A x : x # None => ~Leaving(x)
<1>1. Pending = <<>> /\ inbox = <<>>
  BY DEF Pending, Sent, Unsubscribed
<1>2. Coming = <<>>
  BY <1>1, ComingMoves DEF Coming
<1>3. \A x : x # None => ~Leaving(x)
  BY DEF Leaving, Sent
<1>4. \A list, c : HasListed(<<>>, list, c) <=> c \in list
  BY DEF HasListed
<1> QED
  BY <1>2, <1>3, <1>4, EmptyLast

LEMMA FollowsMember ==
    ASSUME TypeOK, Ids, Unsubscribed, ~mixed', ReadMember
    PROVE  Follows'
<1>1. /\ phase = "off" /\ phase' = "member" /\ cache' = [cache EXCEPT !.mine = db.mine]
      /\ UNCHANGED <<db, edits, sending, inbox, used>> /\ \A i \in Edits : sending[i] = Sent
  BY DEF ReadMember, Idle
<1>2. cache'.mine = db.mine
  BY <1>1 DEF TypeOK, View
<1>3. db.mine \ Gone = db.mine
  BY DEF Ids, Gone
<1>4. \A S, T : NoneIn(Coming', S) /\ LastIn(Coming', S, T)
  <2>1. Coming' = Coming
    BY <1>1 DEF Coming, Pending
  <2> QED
    BY <1>1, <2>1, NothingComing
<1>5. MineFollows'
  BY <1>1, <1>2, <1>3, <1>4 DEF MineFollows, Gone
<1> QED
  BY <1>1, <1>5 DEF Follows

LEMMA FollowsServer ==
    ASSUME TypeOK, Alone, Unsubscribed, Follows, ReadServer
    PROVE  Follows'
<1>1. /\ phase = "member" /\ phase' = "server"
      /\ cache' = [cache EXCEPT !.default = db.default, !.roles = db.roles, !.listed = db.listed]
      /\ UNCHANGED <<db, edits, sending, inbox, late, used>>
  BY DEF ReadServer
<1>2. /\ cache'.default = db.default /\ cache'.roles = db.roles /\ cache'.listed = db.listed
      /\ cache'.mine = cache.mine
  BY <1>1 DEF TypeOK, View
<1>3. /\ \A S, T : NoneIn(Coming, S) /\ LastIn(Coming, S, T)
      /\ \A list, c : HasListed(Coming, list, c) <=> c \in list
      /\ \A x : x # None => ~Leaving(x)
  <2>1. \A i \in Edits : sending[i] = Sent
    BY <1>1 DEF Alone, Idle
  <2> QED
    BY <1>1, <2>1, NothingComing
<1>4. Coming' = Coming /\ \A x : Leaving(x)' <=> Leaving(x)
  BY <1>1 DEF Coming, Pending, Leaving
<1>5. MineFollows'
  BY <1>1, <1>2, <1>4 DEF Follows, MineFollows, Gone
<1>6. DefaultFollows'
  BY <1>1, <1>2, <1>3, <1>4 DEF DefaultFollows
<1>7. ASSUME NEW r \in Roles PROVE RoleFollows(r)'
  <2>1. ~Leaving(r)'
    BY <1>3, <1>4, FeedAssumption
  <2> QED
    BY <1>1, <1>2, <1>3, <1>4, <2>1 DEF RoleFollows
<1>8. ASSUME NEW c \in Staying' PROVE ListFollows(c)'
  <2>1. c \in db.listed
    BY <1>1 DEF Staying
  <2> QED
    BY <1>2, <1>3, <1>4, <2>1 DEF ListFollows
<1> QED
  BY <1>1, <1>5, <1>6, <1>7, <1>8 DEF Follows

LEMMA FollowsChannels ==
    ASSUME TypeOK, Alone, Unsubscribed, Follows, ReadChannels
    PROVE  Follows'
<1> DEFINE seen == Fetched(cache, cache.listed)
<1>1. /\ phase = "server" /\ phase' = "ready"
      /\ cache' = [cache EXCEPT !.chan = [c \in Channels |-> IF c \in seen THEN db.chan[c] ELSE None]]
      /\ UNCHANGED <<db, edits, sending, inbox, late, used>>
  BY DEF ReadChannels
<1>2. /\ cache'.default = cache.default /\ cache'.roles = cache.roles
      /\ cache'.listed = cache.listed /\ cache'.mine = cache.mine
      /\ \A c \in Channels : cache'.chan[c] = IF c \in seen THEN db.chan[c] ELSE None
  BY <1>1 DEF TypeOK, View
<1>3. /\ \A S, T : NoneIn(Coming, S) /\ LastIn(Coming, S, T)
      /\ \A list, c : HasListed(Coming, list, c) <=> c \in list
  <2>1. \A i \in Edits : sending[i] = Sent
    BY <1>1 DEF Alone, Idle
  <2> QED
    BY <1>1, <2>1, NothingComing
<1>4. Coming' = Coming /\ (\A x : Leaving(x)' <=> Leaving(x)) /\ Staying' = Staying
  BY <1>1 DEF Coming, Pending, Leaving, Staying
<1>5. MineFollows' /\ DefaultFollows'
  BY <1>1, <1>2, <1>4 DEF Follows, MineFollows, DefaultFollows, Gone
<1>6. ASSUME NEW r \in Roles \ late' PROVE RoleFollows(r)'
  <2>1. RoleFollows(r)
    BY <1>1, <1>6 DEF Follows
  <2> QED
    BY <1>1, <1>2, <1>4, <2>1 DEF RoleFollows
<1>7. ASSUME NEW c \in Staying PROVE c \in Channels /\ c \in cache.listed /\ db.chan[c] # None
  <2>1. ListFollows(c) /\ c \in HasChannels(db)
    BY <1>1 DEF Follows, Alone, Staying
  <2> QED
    BY <1>3, <2>1 DEF ListFollows, HasChannels
<1>8. ASSUME NEW c \in Staying' PROVE ListFollows(c)'
  BY <1>2, <1>3, <1>4, <1>7 DEF ListFollows
<1>9. ASSUME NEW c \in Channels PROVE StaysDeleted(c)'
  BY <1>3, <1>4 DEF StaysDeleted
<1>10. ASSUME NEW c \in Staying'
       PROVE  ChannelDefaultFollows(c)' /\ OverridesFollow(c)' /\ NotMissed(c)'
  <2>1. c \in Channels /\ c \in cache.listed /\ db.chan[c] # None
    BY <1>4, <1>7
  <2>2. c \in Cached' => cache'.chan[c] = db.chan[c]
    BY <1>2, <2>1 DEF Cached, HasChannels
  <2>3. ChannelDefaultFollows(c)' /\ OverridesFollow(c)'
    BY <1>1, <1>3, <1>4, <2>2 DEF ChannelDefaultFollows, OverridesFollow
  <2>4. c \notin Cached' => ~MayView(cache, db.chan[c])
    BY <1>2, <2>1 DEF Cached, HasChannels, Fetched
  <2>5. MayView(cache', db.chan[c]) = MayView(cache, db.chan[c])
    BY <1>2 DEF MayView, MayViewServer
  <2> QED
    BY <1>1, <2>3, <2>4, <2>5 DEF NotMissed
<1> QED
  BY <1>1, <1>5, <1>6, <1>8, <1>9, <1>10 DEF Follows

\* What holds of any edits.
LEMMA UnsubscribedStep ==
    ASSUME TypeOK, Unsubscribed, [Next]_vars
    PROVE  Unsubscribed'
<1>1. CASE UNCHANGED <<phase, inbox, redis, late>>
  BY <1>1 DEF Unsubscribed
<1>2. CASE Edit /\ UNCHANGED <<phase, redis>> /\ (UNCHANGED inbox \/ UNCHANGED late)
  <2>1. ASSUME NEW i \in Edits, Publish(i) PROVE phase # "live" => UNCHANGED <<inbox, late>>
    BY <2>1 DEF Publish, Unsubscribed
  <2>2. phase # "live" => inbox' = inbox
    BY <1>2, <2>1 DEF Edit, Request, SetServerDefault, SetMemberRoles, CreateRole, SetRole,
           DeleteRole, SetChannelDefault, RenameChannel, InsertChannel, DeleteChannel,
           ReadOverrides, WriteOverride, ListChannel, FinishRole, FinishChannel
  <2>3. phase \in {"off", "member"} => late' = late
    BY <1>2 DEF Edit, Request, SetServerDefault, SetMemberRoles, CreateRole, SetRole,
           DeleteRole, SetChannelDefault, RenameChannel, InsertChannel, DeleteChannel,
           ReadOverrides, WriteOverride, ListChannel, FinishRole, FinishChannel, Publish
  <2> QED
    BY <1>2, <2>2, <2>3 DEF Unsubscribed
<1>3. CASE Edit
  <2>1. UNCHANGED <<phase, redis>>
    BY <1>3 DEF Edit, Request, SetServerDefault, SetMemberRoles, CreateRole, SetRole,
           DeleteRole, SetChannelDefault, RenameChannel, InsertChannel, DeleteChannel,
           ReadOverrides, WriteOverride, ListChannel, FinishRole, FinishChannel, Publish, Session
  <2>2. UNCHANGED inbox \/ UNCHANGED late
    BY <1>3 DEF Edit, Request, SetServerDefault, SetMemberRoles, CreateRole, SetRole,
           DeleteRole, SetChannelDefault, RenameChannel, InsertChannel, DeleteChannel,
           ReadOverrides, WriteOverride, ListChannel, FinishRole, FinishChannel, Publish
  <2> QED
    BY <1>2, <1>3, <2>1, <2>2
<1>4. CASE ReadMember \/ ReadServer \/ ReadChannels \/ Subscribe \/ HandleEvent
  BY <1>4 DEF ReadMember, ReadServer, ReadChannels, Subscribe, HandleEvent, Unsubscribed
<1>5. CASE Heard
  <2>1. \E t : Incoming(t)
    BY <1>5 DEF Heard, ServerUpdate, ServerMemberUpdate, ServerRoleUpdate, ServerRoleDelete,
           ChannelCreate, ChannelDelete, ChannelUpdate
  <2> QED
    BY <2>1 DEF Incoming, Unsubscribed
<1>6. CASE UNCHANGED vars
  BY <1>1, <1>6 DEF vars
<1> QED
  BY <1>3, <1>4, <1>5, <1>6 DEF Next, Edit, Heard

\* How an edit leaves the ids: what it changes of those that are given out.
LEMMA IdsSame ==
    ASSUME Ids, UNCHANGED cache,
           used \subseteq used',
           \A r \in Roles \ used' : db'.roles[r] = "absent",
           \A c \in Channels \ used' : db'.chan[c] = None,
           \A i \in Edits : sending'[i].after # None => sending'[i].after \in used',
           \A r \in db'.mine : db'.roles[r] # "absent",
           \A r \in late' : r \in late \/ (r \in used' /\ r \notin used /\ r \in Roles)
    PROVE  Ids'
BY DEF Ids

LEMMA IdsEdited ==
    ASSUME TypeOK, Ids, Edit
    PROVE  Ids'
<1>a. db \in View /\ db.mine \subseteq Roles /\ None \notin Roles \cup Channels
      /\ Roles \cap Channels = {} /\ sending \in [Edits -> Sending]
  BY Views, FeedAssumption DEF TypeOK
<1>b. ASSUME Begin, NEW e \in Event, NEW a, Send(edits + 1, <<e>>, a), a # None => a \in used'
      PROVE  used \subseteq used' =>
             \A i \in Edits : sending'[i].after # None => sending'[i].after \in used'
  <2>1. \A i \in Edits : sending'[i] = IF i = edits + 1 THEN [events |-> <<e>>, after |-> a]
                                      ELSE sending[i]
    BY <1>a, <1>b DEF Send
  <2> QED
    BY <1>b, <2>1 DEF Ids
<1>c. ASSUME NEW e \in Event, Write(e)
      PROVE  used \subseteq used' =>
             \A i \in Edits : sending'[i].after # None => sending'[i].after \in used'
  BY <1>b, <1>c DEF Write
<1>d. ASSUME NEW i \in Edits, sending' = [sending EXCEPT ![i] = Sent]
      PROVE  used' = used =>
             \A j \in Edits : sending'[j].after # None => sending'[j].after \in used'
  BY <1>a, <1>d DEF Ids, Sent
<1>1. CASE SetServerDefault
  <2>1. PICK b \in BOOLEAN :
           db' = [db EXCEPT !.default = b] /\ Write([type |-> "server", default |-> b])
    BY <1>1 DEF SetServerDefault
  <2>2. [type |-> "server", default |-> b] \in Event
    BY DEF Event
  <2>3. db'.roles = db.roles /\ db'.mine = db.mine /\ db'.chan = db.chan
    BY <1>a, <2>1 DEF View
  <2>4. UNCHANGED <<cache, used, late>>
    BY <1>1 DEF SetServerDefault, Session
  <2> QED
    BY <1>c, <2>1, <2>2, <2>3, <2>4, IdsSame DEF Ids
<1>2. CASE SetMemberRoles
  <2>1. PICK m \in SUBSET {r \in Roles : db.roles[r] # "absent"} :
           db' = [db EXCEPT !.mine = m] /\ Write([type |-> "member", roles |-> m])
    BY <1>2 DEF SetMemberRoles
  <2>2. [type |-> "member", roles |-> m] \in Event
    BY DEF Event
  <2>3. db'.roles = db.roles /\ db'.mine = m /\ db'.chan = db.chan
    BY <1>a, <2>1 DEF View
  <2>4. UNCHANGED <<cache, used, late>>
    BY <1>2 DEF SetMemberRoles, Session
  <2> QED
    BY <1>c, <2>1, <2>2, <2>3, <2>4, IdsSame DEF Ids
<1>3. ASSUME NEW r \in Roles, CreateRole(r) PROVE Ids'
  <2>1. /\ db' = [db EXCEPT !.roles[r] = "neutral"]
        /\ Write([type |-> "role", role |-> r, perms |-> "neutral"])
        /\ r \notin used /\ used' = used \cup {r}
        /\ \A q \in late' : q \in late \/ q = r
        /\ cache' = cache
    BY <1>3 DEF CreateRole, Session
  <2>2. [type |-> "role", role |-> r, perms |-> "neutral"] \in Event
    BY DEF Event, Override
  <2>3. /\ \A q \in Roles : db'.roles[q] = IF q = r THEN "neutral" ELSE db.roles[q]
        /\ db'.mine = db.mine /\ db'.chan = db.chan
    BY <1>a, <2>1, Views DEF View
  <2>4. \A q \in db'.mine : db'.roles[q] # "absent"
    BY <1>a, <2>3 DEF Ids
  <2>5. \A q \in Roles \ used' : db'.roles[q] = "absent"
    BY <2>1, <2>3 DEF Ids
  <2>6. \A i \in Edits : sending'[i].after # None => sending'[i].after \in used'
    BY <1>c, <2>1, <2>2
  <2>7. \A c \in Channels \ used' : db'.chan[c] = None
    BY <2>1, <2>3 DEF Ids
  <2>8. \A q \in late' : q \in late \/ (q \in used' /\ q \notin used /\ q \in Roles)
    BY <2>1
  <2> QED
    BY <2>1, <2>4, <2>5, <2>6, <2>7, <2>8, IdsSame
<1>4. ASSUME NEW r \in Roles, SetRole(r) PROVE Ids'
  <2>1. PICK p \in Override :
           db' = [db EXCEPT !.roles[r] = p] /\ Write([type |-> "role", role |-> r, perms |-> p])
    BY <1>4 DEF SetRole
  <2>2. [type |-> "role", role |-> r, perms |-> p] \in Event
    BY DEF Event
  <2>3. /\ \A q \in Roles : db'.roles[q] = IF q = r THEN p ELSE db.roles[q]
        /\ db'.mine = db.mine /\ db'.chan = db.chan
    BY <1>a, <2>1, Views DEF View
  <2>4. UNCHANGED <<cache, used, late>> /\ r \in used /\ p # "absent"
    BY <1>4 DEF SetRole, Session, Ids, Override
  <2>5. \A q \in db'.mine : db'.roles[q] # "absent"
    BY <1>a, <2>3, <2>4 DEF Ids
  <2>6. \A q \in Roles \ used' : db'.roles[q] = "absent"
    BY <2>3, <2>4 DEF Ids
  <2>7. \A i \in Edits : sending'[i].after # None => sending'[i].after \in used'
    BY <1>c, <2>1, <2>2, <2>4
  <2> QED
    BY <2>3, <2>4, <2>5, <2>6, <2>7, IdsSame DEF Ids
<1>5. ASSUME NEW r \in Roles, DeleteRole(r) PROVE Ids'
  <2>1. /\ Begin /\ Send(edits + 1, <<[type |-> "roleDeleted", role |-> r]>>, r)
        /\ UNCHANGED <<db, cache, used, late>> /\ r \in used
    BY <1>5 DEF DeleteRole, Session, Ids
  <2>2. [type |-> "roleDeleted", role |-> r] \in Event
    BY DEF Event
  <2>3. \A i \in Edits : sending'[i].after # None => sending'[i].after \in used'
    BY <1>b, <2>1, <2>2
  <2> QED
    BY <2>1, <2>3, IdsSame DEF Ids
<1>6. ASSUME NEW c \in Channels, SetChannelDefault(c) PROVE Ids'
  <2>1. PICK p \in Override :
           /\ db' = [db EXCEPT !.chan[c].default = p]
           /\ Write([type |-> "default", chan |-> c, perms |-> p])
    BY <1>6 DEF SetChannelDefault
  <2>2. [type |-> "default", chan |-> c, perms |-> p] \in Event
    BY DEF Event
  <2>3. /\ db'.roles = db.roles /\ db'.mine = db.mine
        /\ \A d \in Channels : d # c => db'.chan[d] = db.chan[d]
    BY <1>a, <2>1, Views DEF View
  <2>4. UNCHANGED <<cache, used, late>> /\ c \in used
    BY <1>6 DEF SetChannelDefault, Session, Ids
  <2>5. \A d \in Channels \ used' : db'.chan[d] = None
    BY <2>3, <2>4 DEF Ids
  <2>6. \A i \in Edits : sending'[i].after # None => sending'[i].after \in used'
    BY <1>c, <2>1, <2>2, <2>4
  <2> QED
    BY <2>3, <2>4, <2>5, <2>6, IdsSame DEF Ids
<1>7. ASSUME NEW c \in Channels, RenameChannel(c) PROVE Ids'
  <2>1. Write([type |-> "rename", chan |-> c]) /\ UNCHANGED <<db, cache, used, late>>
    BY <1>7 DEF RenameChannel, Session
  <2>2. [type |-> "rename", chan |-> c] \in Event
    BY DEF Event
  <2> QED
    BY <1>c, <2>1, <2>2, IdsSame DEF Ids
<1>8. ASSUME NEW c \in Channels, InsertChannel(c) PROVE Ids'
  <2>1. /\ used' = used \cup {c} /\ db' = [db EXCEPT !.chan[c] = Plain]
        /\ UNCHANGED <<sending, cache, late>>
    BY <1>8 DEF InsertChannel, Session
  <2>2. /\ db'.roles = db.roles /\ db'.mine = db.mine
        /\ \A d \in Channels : d # c => db'.chan[d] = db.chan[d]
    BY <1>a, <2>1, Views DEF View
  <2>3. \A d \in Channels \ used' : db'.chan[d] = None
    BY <2>1, <2>2 DEF Ids
  <2> QED
    BY <2>1, <2>2, <2>3, IdsSame DEF Ids
<1>9. ASSUME NEW c \in Channels, DeleteChannel(c) PROVE Ids'
  <2>1. /\ Begin /\ Send(edits + 1, <<[type |-> "delete", chan |-> c]>>, c)
        /\ UNCHANGED <<db, cache, used, late>> /\ c \in used
    BY <1>9 DEF DeleteChannel, Session, Ids
  <2>2. [type |-> "delete", chan |-> c] \in Event
    BY DEF Event
  <2>3. \A i \in Edits : sending'[i].after # None => sending'[i].after \in used'
    BY <1>b, <2>1, <2>2
  <2> QED
    BY <2>1, <2>3, IdsSame DEF Ids
<1>10. ASSUME NEW c \in Channels, NEW r \in Roles, ReadOverrides(c, r) PROVE Ids'
  <2>1. UNCHANGED <<db, sending, cache, used, late>>
    BY <1>10 DEF ReadOverrides, Session
  <2> QED
    BY <2>1 DEF Ids
<1>11. ASSUME NEW i \in Edits, WriteOverride(i) PROVE Ids'
  <2> DEFINE q == reading[i]
  <2>a. q \in Overriding /\ q # None
    BY <1>11 DEF WriteOverride, TypeOK, Listing
  <2>1. /\ db' = [db EXCEPT !.chan[q.chan] =
                     IF @ = None THEN None ELSE [@ EXCEPT !.roles[q.role] = q.perms]]
        /\ UNCHANGED <<cache, used, late>>
    BY <1>11 DEF WriteOverride, Session
  <2>2. PICK x : sending' = [sending EXCEPT ![i] = [events |-> x, after |-> None]]
    BY <1>11 DEF WriteOverride, Send
  <2>3. \A j \in Edits : sending'[j].after # None => sending'[j].after \in used'
    BY <1>a, <2>1, <2>2 DEF Ids
  <2>4. q.chan \in Channels
    BY <2>a DEF Overriding
  <2> HIDE DEF q
  <2>5. /\ db'.roles = db.roles /\ db'.mine = db.mine
        /\ \A d \in Channels : db.chan[d] = None => db'.chan[d] = None
    BY <1>a, <2>1, <2>4, Views DEF View
  <2> QED
    BY <2>1, <2>3, <2>5, IdsSame DEF Ids
<1>12. ASSUME NEW i \in Edits, ListChannel(i) PROVE Ids'
  <2>1. PICK x, y : /\ db' = [db EXCEPT !.listed = x]
                    /\ sending' = [sending EXCEPT ![i] = [events |-> y, after |-> None]]
    BY <1>12 DEF ListChannel, Send
  <2>2. \A j \in Edits : sending'[j].after # None => sending'[j].after \in used
    BY <1>a, <2>1 DEF Ids
  <2>3. db'.roles = db.roles /\ db'.mine = db.mine /\ db'.chan = db.chan
    BY <1>a, <2>1 DEF View
  <2>4. UNCHANGED <<cache, used, late>>
    BY <1>12 DEF ListChannel, Session
  <2> QED
    BY <2>2, <2>3, <2>4, IdsSame DEF Ids
<1>13. ASSUME NEW i \in Edits, Publish(i) PROVE Ids'
  <2>1. PICK x : sending' = [sending EXCEPT ![i].events = x]
    BY <1>13 DEF Publish
  <2>2. \A j \in Edits : sending'[j].after = sending[j].after
    BY <1>a, <2>1 DEF Sending
  <2>3. UNCHANGED <<db, cache, used, late>>
    BY <1>13 DEF Publish, Session
  <2> QED
    BY <2>2, <2>3, IdsSame DEF Ids
<1>14. ASSUME NEW i \in Edits, FinishRole(i) PROVE Ids'
  <2> DEFINE r == sending[i].after
  <2>1. PICK c \in Channels :
           db' = [db EXCEPT !.roles[r] = "absent", !.mine = @ \ {r},
                            !.chan[c] = IF @ = None THEN None
                                        ELSE [@ EXCEPT !.roles[r] = "neutral"]]
    BY <1>14 DEF FinishRole
  <2>2. /\ r \in Roles /\ sending' = [sending EXCEPT ![i] = Sent]
        /\ UNCHANGED <<cache, used, late>>
    BY <1>14 DEF FinishRole, Session
  <2> HIDE DEF r
  <2>3. /\ db'.mine = db.mine \ {r}
        /\ \A p \in Roles : db'.roles[p] = IF p = r THEN "absent" ELSE db.roles[p]
        /\ \A d \in Channels : db.chan[d] = None => db'.chan[d] = None
    BY <1>a, <2>1, <2>2, Views DEF View
  <2>4. \A p \in db'.mine : db'.roles[p] # "absent"
    BY <1>a, <2>3 DEF Ids
  <2>5. \A j \in Edits : sending'[j].after # None => sending'[j].after \in used'
    BY <1>d, <2>2
  <2> QED
    BY <2>2, <2>3, <2>4, <2>5, IdsSame DEF Ids
<1>15. ASSUME NEW i \in Edits, FinishChannel(i) PROVE Ids'
  <2> DEFINE c == sending[i].after
  <2>1. /\ c \in Channels /\ db' = [db EXCEPT !.listed = @ \ {c}, !.chan[c] = None]
        /\ sending' = [sending EXCEPT ![i] = Sent] /\ UNCHANGED <<cache, used, late>>
    BY <1>15 DEF FinishChannel, Session
  <2> HIDE DEF c
  <2>2. /\ db'.roles = db.roles /\ db'.mine = db.mine
        /\ \A d \in Channels : db.chan[d] = None => db'.chan[d] = None
    BY <1>a, <2>1, Views DEF View
  <2>3. \A j \in Edits : sending'[j].after # None => sending'[j].after \in used'
    BY <1>d, <2>1
  <2> QED
    BY <2>1, <2>2, <2>3, IdsSame DEF Ids
<1> QED
  BY <1>1, <1>2, <1>3, <1>4, <1>5, <1>6, <1>7, <1>8, <1>9, <1>10, <1>11, <1>12, <1>13,
     <1>14, <1>15 DEF Edit, Request

LEMMA IdsStep ==
    ASSUME TypeOK, Ids, Unsubscribed, [Next]_vars
    PROVE  Ids'
<1>1. CASE ReadMember
  <2>1. cache' = [cache EXCEPT !.mine = db.mine] /\ UNCHANGED <<db, sending, used, late>>
    BY <1>1 DEF ReadMember
  <2>2. cache'.roles = cache.roles
    BY <2>1 DEF TypeOK, View
  <2> QED
    BY <2>1, <2>2 DEF Ids
<1>2. CASE ReadServer
  <2>1. /\ cache' = [cache EXCEPT !.default = db.default, !.roles = db.roles, !.listed = db.listed]
        /\ UNCHANGED <<db, sending, used, late>> /\ late = {}
    BY <1>2 DEF ReadServer, Unsubscribed
  <2>2. cache'.roles = db.roles
    BY <2>1 DEF TypeOK, View
  <2> QED
    BY <2>1, <2>2 DEF Ids
<1>3. CASE ReadChannels
  <2>1. PICK f : cache' = [cache EXCEPT !.chan = f]
    BY <1>3 DEF ReadChannels
  <2>2. UNCHANGED <<db, sending, used, late>>
    BY <1>3 DEF ReadChannels
  <2>3. cache'.roles = cache.roles
    BY <2>1 DEF TypeOK, View
  <2> QED
    BY <2>2, <2>3 DEF Ids
<1>4. CASE Heard
  <2>1. /\ UNCHANGED <<db, used, late>> /\ TookServer(Head(Coming))
    BY <1>4, TakesIn DEF TookIn
  <2>2. \A r \in Roles : cache.roles[r] = "absent" => cache'.roles[r] = "absent"
    BY <2>1 DEF TookServer
  <2>3. sending' = sending
    BY <1>4 DEF Heard, ServerUpdate, ServerMemberUpdate, ServerRoleUpdate, ServerRoleDelete,
           ChannelCreate, ChannelDelete, ChannelUpdate, Incoming
  <2>4. late \subseteq Roles
    BY DEF TypeOK
  <2> QED
    BY <2>1, <2>2, <2>3, <2>4 DEF Ids
<1>5. CASE Subscribe \/ HandleEvent \/ UNCHANGED vars
  BY <1>5 DEF Subscribe, HandleEvent, vars, Ids
<1> QED
  BY <1>1, <1>2, <1>3, <1>4, <1>5, IdsEdited DEF Next, Edit, Heard

\* While edits follow one another, the one under way is the only one.
LEMMA AloneKept ==
    ASSUME NEW i \in Edits, i = edits', phase' \in {"off", "live"},
           \A j \in Edits : j # i => reading'[j] = None /\ sending'[j] = Sent,
           reading'[i] # None => sending'[i] = Sent /\ StillSo(reading[i])',
           \A n \in DOMAIN sending'[i].events :
              sending'[i].events[n].type = "delete" => Len(sending'[i].events) = 1,
           db'.listed \subseteq HasChannels(db')
    PROVE  Alone'
<1>1. \A j \in Edits : (reading'[j] = None /\ sending'[j] = Sent) \/ j = edits'
  OBVIOUS
<1>2. ASSUME NEW j \in Edits PROVE reading'[j] # None => sending'[j] = Sent /\ StillSo(reading[j])'
  BY <1>1
<1>3. ASSUME NEW j \in Edits, NEW n \in DOMAIN sending'[j].events,
             sending'[j].events[n].type = "delete"
      PROVE  Len(sending'[j].events) = 1
  BY <1>3 DEF Sent
<1> QED
  BY <1>1, <1>2, <1>3 DEF Alone, Idle

LEMMA ListedKept ==
    ASSUME Alone, db'.listed \subseteq db.listed,
           \A c \in db'.listed : db.chan[c] # None => db'.chan[c] # None
    PROVE  db'.listed \subseteq HasChannels(db')
BY DEF Alone, HasChannels

LEMMA AloneSends ==
    ASSUME TypeOK, Alone, Begin, ~mixed', UNCHANGED <<phase, reading>>,
           NEW e, NEW a, Send(edits + 1, <<e>>, a), db'.listed \subseteq db.listed,
           \A c \in db'.listed : db.chan[c] # None => db'.chan[c] # None
    PROVE  Alone'
<1> DEFINE i == edits + 1
<1>1. /\ i \in Edits /\ i = edits' /\ phase' \in {"off", "live"}
      /\ \A j \in Edits : reading[j] = None /\ sending[j] = Sent
  BY Begins
<1>2. \A j \in Edits : sending'[j] = IF j = i THEN [events |-> <<e>>, after |-> a] ELSE Sent
  BY <1>1 DEF Send, TypeOK
<1>3. \A n \in DOMAIN sending'[i].events :
         sending'[i].events[n].type = "delete" => Len(sending'[i].events) = 1
  <2>1. sending'[i].events = <<e>> /\ Len(<<e>>) = 1
    BY <1>1, <1>2
  <2> QED
    BY <2>1
<1>4. db'.listed \subseteq HasChannels(db')
  BY ListedKept
<1> HIDE DEF i
<1> QED
  BY <1>1, <1>2, <1>3, <1>4, AloneKept

LEMMA AloneEdited ==
    ASSUME TypeOK, TypeOK', Ids, Alone, ~mixed', Edit
    PROVE  Alone'
<1>a. db \in View /\ db.listed \subseteq Channels /\ db' \in View
  BY Views DEF TypeOK
<1>r. /\ reading \in [Edits -> {None} \cup Overriding \cup Listing]
      /\ sending \in [Edits -> Sending]
  BY DEF TypeOK
<1>b. ASSUME NEW e, Write(e), UNCHANGED <<phase, reading>>, db'.listed = db.listed,
             \A c \in Channels : db.chan[c] # None => db'.chan[c] # None
      PROVE  Alone'
  BY <1>a, <1>b, AloneSends DEF Write
<1>1. CASE SetServerDefault
  <2>1. PICK b, e : db' = [db EXCEPT !.default = b] /\ Write(e)
    BY <1>1 DEF SetServerDefault
  <2>2. db'.listed = db.listed /\ db'.chan = db.chan
    BY <1>a, <2>1 DEF View
  <2>3. UNCHANGED <<phase, reading>>
    BY <1>1 DEF SetServerDefault, Session
  <2> QED
    BY <1>b, <2>1, <2>2, <2>3
<1>2. CASE SetMemberRoles
  <2>1. PICK m, e : db' = [db EXCEPT !.mine = m] /\ Write(e)
    BY <1>2 DEF SetMemberRoles
  <2>2. db'.listed = db.listed /\ db'.chan = db.chan
    BY <1>a, <2>1 DEF View
  <2>3. UNCHANGED <<phase, reading>>
    BY <1>2 DEF SetMemberRoles, Session
  <2> QED
    BY <1>b, <2>1, <2>2, <2>3
<1>3. ASSUME NEW r \in Roles, CreateRole(r) \/ SetRole(r) PROVE Alone'
  <2>1. PICK p, e : db' = [db EXCEPT !.roles[r] = p] /\ Write(e)
    BY <1>3 DEF CreateRole, SetRole
  <2>2. db'.listed = db.listed /\ db'.chan = db.chan
    BY <1>a, <2>1 DEF View
  <2>3. UNCHANGED <<phase, reading>>
    BY <1>3 DEF CreateRole, SetRole, Session
  <2> QED
    BY <1>b, <2>1, <2>2, <2>3
<1>4. ASSUME NEW r \in Roles, DeleteRole(r) PROVE Alone'
  <2>1. /\ Begin /\ Send(edits + 1, <<[type |-> "roleDeleted", role |-> r]>>, r)
        /\ UNCHANGED <<db, phase, reading>>
    BY <1>4 DEF DeleteRole, Session
  <2> QED
    BY <2>1, AloneSends
<1>5. ASSUME NEW c \in Channels, SetChannelDefault(c) PROVE Alone'
  <2>1. PICK p \in Override : /\ db' = [db EXCEPT !.chan[c].default = p]
                              /\ Write([type |-> "default", chan |-> c, perms |-> p])
    BY <1>5 DEF SetChannelDefault
  <2>2. UNCHANGED <<phase, reading>> /\ db.chan[c] # None
    BY <1>5 DEF SetChannelDefault, Session
  <2>3. /\ db'.listed = db.listed /\ \A d \in Channels : d # c => db'.chan[d] = db.chan[d]
        /\ db'.chan[c] = [db.chan[c] EXCEPT !.default = p]
    BY <1>a, <2>1, Views DEF View
  <2>4. db.chan[c] \in ChannelData
    BY <1>a, <2>2, Views
  <2>5. db'.chan[c] # None
    BY <2>3, <2>4, Data
  <2> QED
    BY <1>b, <2>1, <2>2, <2>3, <2>5
<1>6. ASSUME NEW c \in Channels, RenameChannel(c) PROVE Alone'
  <2>1. Write([type |-> "rename", chan |-> c]) /\ UNCHANGED <<db, phase, reading>>
    BY <1>6 DEF RenameChannel, Session
  <2> QED
    BY <1>b, <2>1
<1>7. ASSUME NEW c \in Channels, InsertChannel(c) PROVE Alone'
  <2>0. PICK i \in Edits : i = edits + 1
    BY <1>7, Begins DEF InsertChannel
  <2>1. /\ Begin /\ c \notin used /\ db' = [db EXCEPT !.chan[c] = Plain]
        /\ reading' = [reading EXCEPT ![i] = [chan |-> c, copy |-> db.listed]]
        /\ UNCHANGED <<sending, phase>>
    BY <1>7, <2>0 DEF InsertChannel, Session
  <2>2. /\ i \in Edits /\ i = edits' /\ phase' \in {"off", "live"}
        /\ \A j \in Edits : reading[j] = None /\ sending[j] = Sent
    BY <2>0, <2>1, Begins
  <2>3. /\ db'.listed = db.listed
        /\ \A d \in Channels : db'.chan[d] = IF d = c THEN Plain ELSE db.chan[d]
    BY <1>a, <2>1, Views DEF View
  <2>4. db'.listed \subseteq HasChannels(db')
    BY <1>a, <2>3, ListedKept, Data
  <2>5. /\ reading'[i] = [chan |-> c, copy |-> db.listed]
        /\ \A j \in Edits : j # i => reading'[j] = None
    BY <1>r, <2>1, <2>2
  <2>6. reading'[i] \notin Overriding
    BY <2>5 DEF Overriding
  <2>7. StillSo(reading[i])'
    BY <2>3, <2>5, <2>6 DEF StillSo
  <2>8. sending'[i].events = <<>> /\ sending'[i] = Sent
    BY <2>1, <2>2 DEF Sent
  <2> QED
    BY <2>1, <2>2, <2>4, <2>5, <2>7, <2>8, AloneKept
<1>8. ASSUME NEW c \in Channels, DeleteChannel(c) PROVE Alone'
  <2>1. /\ Begin /\ Send(edits + 1, <<[type |-> "delete", chan |-> c]>>, c)
        /\ UNCHANGED <<db, phase, reading>>
    BY <1>8 DEF DeleteChannel, Session
  <2> QED
    BY <2>1, AloneSends
<1>9. ASSUME NEW c \in Channels, NEW r \in Roles, ReadOverrides(c, r) PROVE Alone'
  <2>0. PICK i \in Edits : i = edits + 1
    BY <1>9, Begins DEF ReadOverrides
  <2>1. PICK p \in Override :
           reading' = [reading EXCEPT ![i] = [chan |-> c, role |-> r, perms |-> p,
                                              copy |-> db.chan[c].roles]]
    BY <1>9, <2>0 DEF ReadOverrides
  <2>2. Begin /\ db.chan[c] # None /\ UNCHANGED <<db, sending, phase>>
    BY <1>9 DEF ReadOverrides, Session
  <2>3. /\ i \in Edits /\ i = edits' /\ phase' \in {"off", "live"}
        /\ \A j \in Edits : reading[j] = None /\ sending[j] = Sent
    BY <2>0, <2>2, Begins
  <2>4. db'.listed \subseteq HasChannels(db')
    BY <2>2 DEF Alone
  <2>5. /\ reading'[i] = [chan |-> c, role |-> r, perms |-> p, copy |-> db.chan[c].roles]
        /\ \A j \in Edits : j # i => reading'[j] = None
    BY <1>r, <2>1, <2>3
  <2>6. reading'[i] \notin Listing
    BY <2>5 DEF Listing
  <2>7. StillSo(reading[i])'
    BY <2>2, <2>5, <2>6 DEF StillSo
  <2>8. sending'[i].events = <<>> /\ sending'[i] = Sent
    BY <2>2, <2>3 DEF Sent
  <2> QED
    BY <2>2, <2>3, <2>4, <2>5, <2>7, <2>8, AloneKept
<1>c. ASSUME NEW i \in Edits, reading[i] # None \/ sending[i] # Sent, UNCHANGED <<edits, phase>>,
             \A j \in Edits : j # i => reading'[j] = reading[j] /\ sending'[j] = sending[j],
             reading'[i] = None,
             \A n \in DOMAIN sending'[i].events :
                sending'[i].events[n].type = "delete" => Len(sending'[i].events) = 1,
             db'.listed \subseteq HasChannels(db')
      PROVE  Alone'
  <2>1. i = edits /\ phase \in {"off", "live"}
    BY <1>c DEF Alone, Idle
  <2>2. \A j \in Edits : j # i => reading'[j] = None /\ sending'[j] = Sent
    BY <1>c, <2>1 DEF Alone, Idle
  <2> QED
    BY <1>c, <2>1, <2>2, AloneKept
<1>10. ASSUME NEW i \in Edits, WriteOverride(i) PROVE Alone'
  <2> DEFINE q == reading[i]
  <2>a. q \in Overriding /\ q # None
    BY <1>r, <1>10 DEF WriteOverride, Listing
  <2>1. /\ db' = [db EXCEPT !.chan[q.chan] =
                     IF @ = None THEN None ELSE [@ EXCEPT !.roles[q.role] = q.perms]]
        /\ reading' = [reading EXCEPT ![i] = None]
        /\ UNCHANGED <<edits, phase>>
    BY <1>10 DEF WriteOverride, Session
  <2>2. PICK e : /\ e.type = "overrides"
                 /\ sending' = [sending EXCEPT ![i] = [events |-> <<e>>, after |-> None]]
    BY <1>10 DEF WriteOverride, Send
  <2>3. q.chan \in Channels /\ q.role \in Roles /\ q.perms \in Override
    BY <2>a DEF Overriding
  <2>4. /\ reading'[i] = None /\ sending'[i].events = <<e>>
        /\ \A j \in Edits : j # i => reading'[j] = reading[j] /\ sending'[j] = sending[j]
    BY <1>r, <2>1, <2>2
  <2>5. \A n \in DOMAIN sending'[i].events : sending'[i].events[n].type # "delete"
    BY <2>2, <2>4
  <2>6. /\ db'.listed = db.listed
        /\ \A d \in Channels : d # q.chan => db'.chan[d] = db.chan[d]
        /\ db'.chan[q.chan] = IF db.chan[q.chan] = None THEN None
                              ELSE [db.chan[q.chan] EXCEPT !.roles[q.role] = q.perms]
    <3> HIDE DEF q
    <3> QED
      BY <1>a, <2>1, <2>3, Views DEF View
  <2>7. \A d \in Channels : db.chan[d] # None => db'.chan[d] # None
    <3> HIDE DEF q
    <3>1. db.chan[q.chan] # None => db.chan[q.chan] \in ChannelData
      BY <1>a, <2>3, Views
    <3>2. db.chan[q.chan] # None => db'.chan[q.chan] # None
      BY <2>3, <2>6, <3>1, Data
    <3> QED
      BY <2>6, <3>2
  <2>8. db'.listed \subseteq HasChannels(db')
    BY <1>a, <2>6, <2>7, ListedKept
  <2> QED
    BY <1>c, <2>a, <2>1, <2>4, <2>5, <2>8
<1>11. ASSUME NEW i \in Edits, ListChannel(i) PROVE Alone'
  <2> DEFINE q == reading[i]
  <2>a. q \in Listing /\ q # None
    BY <1>r, <1>11 DEF ListChannel, Overriding
  <2>1. /\ db' = [db EXCEPT !.listed = q.copy \cup {q.chan}]
        /\ reading' = [reading EXCEPT ![i] = None]
        /\ UNCHANGED <<edits, phase>>
    BY <1>11 DEF ListChannel, Session
  <2>2. PICK e, f : /\ e.type = "listed" /\ f.type = "create"
                    /\ sending' = [sending EXCEPT ![i] = [events |-> <<e, f>>, after |-> None]]
    BY <1>11 DEF ListChannel, Send
  <2>4. /\ reading'[i] = None /\ sending'[i].events = <<e, f>>
        /\ \A j \in Edits : j # i => reading'[j] = reading[j] /\ sending'[j] = sending[j]
    BY <1>r, <2>1, <2>2
  <2>5. \A n \in DOMAIN sending'[i].events : sending'[i].events[n].type # "delete"
    BY <2>2, <2>4
  <2>6. db'.listed = q.copy \cup {q.chan} /\ db'.chan = db.chan
    BY <1>a, <2>1 DEF View
  <2>7. db.chan[q.chan] = Plain /\ q.copy = db.listed /\ q.chan \in Channels
    BY <2>a DEF Alone, StillSo, Listing
  <2>8. db'.listed \subseteq HasChannels(db')
    BY <2>6, <2>7, Data DEF Alone, HasChannels
  <2> QED
    BY <1>c, <2>a, <2>1, <2>4, <2>5, <2>8
<1>12. ASSUME NEW i \in Edits, Publish(i) PROVE Alone'
  <2> DEFINE q == sending[i].events
  <2>1. /\ q # <<>> /\ sending' = [sending EXCEPT ![i].events = Tail(@)]
        /\ UNCHANGED <<db, edits, reading, phase>>
    BY <1>12 DEF Publish, Session
  <2>2. sending[i] # Sent /\ reading[i] = None
    BY <2>1 DEF Alone, Sent
  <2>3. /\ sending'[i].events = Tail(q) /\ q \in Seq(Event)
        /\ \A j \in Edits : j # i => sending'[j] = sending[j]
    BY <1>r, <2>1 DEF Sending
  <2>4. \A n \in DOMAIN q : q[n].type = "delete" => Len(q) = 1
    BY DEF Alone
  <2> HIDE DEF q
  <2>5. ASSUME NEW n \in DOMAIN Tail(q), Tail(q)[n].type = "delete" PROVE FALSE
    <3>1. n + 1 \in DOMAIN q /\ q[n + 1] = Tail(q)[n] /\ Len(q) > 1
      BY <2>1, <2>3
    <3> QED
      BY <2>3, <2>4, <2>5, <3>1
  <2>6. db'.listed \subseteq HasChannels(db')
    BY <2>1 DEF Alone
  <2> QED
    BY <1>c, <2>1, <2>2, <2>3, <2>5, <2>6
<1>d. ASSUME NEW i \in Edits, sending[i].after # None, sending' = [sending EXCEPT ![i] = Sent],
             UNCHANGED <<edits, reading, phase>>, db'.listed \subseteq HasChannels(db')
      PROVE  Alone'
  <2>1. sending[i] # Sent /\ reading[i] = None
    BY <1>d DEF Alone, Sent
  <2>2. sending'[i] = Sent /\ \A j \in Edits : j # i => sending'[j] = sending[j]
    BY <1>r, <1>d
  <2>3. \A n \in DOMAIN sending'[i].events : FALSE
    BY <2>2 DEF Sent
  <2> QED
    BY <1>c, <1>d, <2>1, <2>2, <2>3
<1>13. ASSUME NEW i \in Edits, FinishRole(i) PROVE Alone'
  <2> DEFINE r == sending[i].after
  <2>1. PICK c \in Channels :
           db' = [db EXCEPT !.roles[r] = "absent", !.mine = @ \ {r},
                            !.chan[c] = IF @ = None THEN None
                                        ELSE [@ EXCEPT !.roles[r] = "neutral"]]
    BY <1>13 DEF FinishRole
  <2>2. /\ r \in Roles /\ r # None /\ sending' = [sending EXCEPT ![i] = Sent]
        /\ UNCHANGED <<edits, reading, phase>>
    BY <1>13, FeedAssumption DEF FinishRole, Session
  <2> HIDE DEF r
  <2>3. /\ db'.listed = db.listed
        /\ \A d \in Channels : d # c => db'.chan[d] = db.chan[d]
        /\ db'.chan[c] = IF db.chan[c] = None THEN None
                         ELSE [db.chan[c] EXCEPT !.roles[r] = "neutral"]
    BY <1>a, <2>1, Views DEF View
  <2>4. db.chan[c] # None => db.chan[c] \in ChannelData
    BY <1>a, Views
  <2>5. "neutral" \in Override
    BY DEF Override
  <2>6. db.chan[c] # None => db'.chan[c] # None
    BY <2>2, <2>3, <2>4, <2>5, Data
  <2>7. db'.listed \subseteq HasChannels(db')
    BY <1>a, <2>3, <2>6, ListedKept
  <2> QED
    BY <1>d, <2>2, <2>7 DEF r
<1>14. ASSUME NEW i \in Edits, FinishChannel(i) PROVE Alone'
  <2> DEFINE c == sending[i].after
  <2>1. /\ c \in Channels /\ c # None /\ db' = [db EXCEPT !.listed = @ \ {c}, !.chan[c] = None]
        /\ sending' = [sending EXCEPT ![i] = Sent] /\ UNCHANGED <<edits, reading, phase>>
    BY <1>14, FeedAssumption DEF FinishChannel, Session
  <2> HIDE DEF c
  <2>2. /\ db'.listed = db.listed \ {c}
        /\ \A d \in Channels : d # c => db'.chan[d] = db.chan[d]
    BY <1>a, <2>1, Views DEF View
  <2>3. db'.listed \subseteq HasChannels(db')
    BY <1>a, <2>2, ListedKept
  <2> QED
    BY <1>d, <2>1, <2>3 DEF c
<1> QED
  BY <1>1, <1>2, <1>3, <1>4, <1>5, <1>6, <1>7, <1>8, <1>9, <1>10, <1>11, <1>12, <1>13, <1>14
     DEF Edit, Request

\* Edits do not begin while the session reads its Ready payload.
LEMMA EditPhase ==
    ASSUME TypeOK, Alone, ~mixed', Edit
    PROVE  phase \in {"off", "live"} /\ phase' = phase
<1>1. phase' = phase
  BY DEF Edit, Request, SetServerDefault, SetMemberRoles, CreateRole, SetRole,
         DeleteRole, SetChannelDefault, RenameChannel, InsertChannel, DeleteChannel,
         ReadOverrides, WriteOverride, ListChannel, FinishRole, FinishChannel, Publish, Session
<1>2. Begin \/ \E i \in Edits : Request(i)
  BY DEF Edit, SetServerDefault, SetMemberRoles, CreateRole, SetRole, DeleteRole,
         SetChannelDefault, RenameChannel, InsertChannel, DeleteChannel, ReadOverrides, Write
<1>3. ASSUME NEW i \in Edits, Request(i) PROVE ~Idle(i)
  <2>1. None \notin Roles \cup Channels
    BY FeedAssumption
  <2>2. Idle(i) => reading[i] = None /\ sending[i].events = <<>> /\ sending[i].after = None
    BY DEF Idle, Sent
  <2>3. \/ reading[i] # None
        \/ sending[i].events # <<>>
        \/ sending[i].after \in Roles \cup Channels
    BY <1>3 DEF Request, WriteOverride, ListChannel, FinishRole, FinishChannel, Publish
  <2> QED
    BY <2>1, <2>2, <2>3
<1> QED
  BY <1>1, <1>2, <1>3, Begins DEF Alone

LEMMA MixedStays ==
    ASSUME TypeOK, [Next]_vars, mixed
    PROVE  mixed'
<1>1. CASE Edit
  BY <1>1 DEF Edit, Request, SetServerDefault, SetMemberRoles, CreateRole, SetRole,
         DeleteRole, SetChannelDefault, RenameChannel, InsertChannel, DeleteChannel,
         ReadOverrides, WriteOverride, ListChannel, FinishRole, FinishChannel, Publish, Write,
         Begin
<1>2. CASE ReadMember \/ ReadServer \/ ReadChannels \/ Subscribe \/ HandleEvent
  BY <1>2 DEF ReadMember, ReadServer, ReadChannels, Subscribe, HandleEvent
<1>3. CASE Heard
  BY <1>3, TakesIn DEF TookIn
<1>4. CASE UNCHANGED vars
  BY <1>4 DEF vars
<1> QED
  BY <1>1, <1>2, <1>3, <1>4 DEF Next, Edit, Heard

LEMMA InitFollow == Init => FollowInv
<1> SUFFICES ASSUME Init PROVE FollowInv
  OBVIOUS
<1>1. IInv
  BY InitInv
<1>2. PICK perms \in Override, mine \in SUBSET FirstRoles :
         /\ db.mine = mine /\ db.listed = FirstChannels
         /\ db.roles = [r \in Roles |-> IF r \in FirstRoles THEN perms ELSE "absent"]
         /\ db.chan = [c \in Channels |-> IF c \in FirstChannels THEN Plain ELSE None]
  BY DEF Init
<1>3. /\ edits = 0 /\ phase = "off" /\ inbox = <<>> /\ redis = {} /\ late = {}
      /\ \A i \in Edits : reading[i] = None /\ sending[i] = Sent
      /\ cache = Nothing /\ used = FirstRoles \cup FirstChannels
  BY DEF Init
<1>4. Unsubscribed
  BY <1>3 DEF Unsubscribed
<1>5. Ids
  <2>1. \A r \in Roles : cache.roles[r] = "absent"
    BY <1>3 DEF Nothing
  <2>2. \A i \in Edits : sending[i].after = None
    BY <1>3 DEF Sent
  <2>3. \A r \in db.mine : db.roles[r] # "absent"
    BY <1>2, FeedAssumption DEF Override
  <2> QED
    BY <1>2, <1>3, <2>1, <2>2, <2>3 DEF Ids
<1>6. Alone
  <2>1. \A i \in Edits : Idle(i)
    BY <1>3 DEF Idle
  <2>2. db.listed \subseteq HasChannels(db)
    BY <1>2, FeedAssumption, Data DEF HasChannels
  <2>3. \A i \in Edits : sending[i].events = <<>>
    BY <1>3 DEF Sent
  <2> QED
    BY <1>3, <2>1, <2>2, <2>3 DEF Alone
<1>7. Follows
  BY <1>3 DEF Follows
<1> QED
  BY <1>1, <1>4, <1>5, <1>6, <1>7 DEF FollowInv

LEMMA FollowStep == FollowInv /\ [Next]_vars => FollowInv'
<1> SUFFICES ASSUME FollowInv, [Next]_vars PROVE FollowInv'
  OBVIOUS
<1>1. TypeOK /\ Unsubscribed /\ Ids
  BY DEF FollowInv, IInv
<1>2. IInv' /\ TypeOK'
  BY InvStep DEF FollowInv, IInv
<1>3. Unsubscribed' /\ Ids'
  BY <1>1, UnsubscribedStep, IdsStep
<1>4. ASSUME ~mixed' PROVE Alone' /\ Follows'
  <2>1. Alone /\ Follows
    BY <1>1, <1>4, MixedStays DEF FollowInv
  <2>2. CASE Edit
    <3>1. Alone'
      BY <1>1, <1>2, <1>4, <2>1, <2>2, AloneEdited
    <3>2. CASE phase = "live"
      BY <1>1, <1>4, <2>1, <2>2, <3>1, <3>2, FollowsEdited
    <3>3. CASE phase = "off"
      <4>1. phase' = "off"
        BY <1>1, <1>4, <2>1, <2>2, <3>3, EditPhase
      <4> QED
        BY <3>1, <4>1 DEF Follows
    <3> QED
      BY <1>1, <1>4, <2>1, <2>2, <3>2, <3>3, EditPhase
  <2>a. ASSUME UNCHANGED <<db, edits, reading, sending>>, phase' = phase \/ phase' = "live"
        PROVE  Alone'
    <3>1. \A i \in Edits : Idle(i)' <=> Idle(i)
      BY <2>a DEF Idle
    <3>2. \A i \in Edits : StillSo(reading[i])' <=> StillSo(reading[i])
      BY <2>a DEF StillSo
    <3> QED
      BY <2>1, <2>a, <3>1, <3>2 DEF Alone, HasChannels
  <2>3. CASE Heard
    <3>1. Follows'
      BY <1>1, <2>1, <2>3, FollowsTaken
    <3>2. \E t : Incoming(t)
      BY <2>3 DEF Heard, ServerUpdate, ServerMemberUpdate, ServerRoleUpdate, ServerRoleDelete,
             ChannelCreate, ChannelDelete, ChannelUpdate
    <3>3. Alone'
      BY <2>a, <3>2 DEF Incoming
    <3> QED
      BY <3>1, <3>3
  <2>b. ASSUME UNCHANGED <<db, edits, reading, sending>>, \A i \in Edits : Idle(i)
        PROVE  Alone'
    <3>1. \A i \in Edits : Idle(i)'
      BY <2>b DEF Idle
    <3>2. \A i \in Edits : reading'[i] = None
      BY <3>1 DEF Idle
    <3> QED
      BY <2>1, <2>b, <3>1, <3>2 DEF Alone, HasChannels
  <2>4. CASE ReadMember
    <3>1. Follows'
      BY <1>1, <1>4, <2>4, FollowsMember
    <3>2. \A i \in Edits : Idle(i)
      BY <1>4, <2>4 DEF ReadMember
    <3> QED
      BY <2>b, <2>4, <3>1, <3>2 DEF ReadMember
  <2>5. CASE ReadServer
    <3>1. Follows'
      BY <1>1, <2>1, <2>5, FollowsServer
    <3>2. \A i \in Edits : Idle(i)
      BY <2>1, <2>5 DEF ReadServer, Alone
    <3> QED
      BY <2>b, <2>5, <3>1, <3>2 DEF ReadServer
  <2>6. CASE ReadChannels
    <3>1. Follows'
      BY <1>1, <2>1, <2>6, FollowsChannels
    <3>2. \A i \in Edits : Idle(i)
      BY <2>1, <2>6 DEF ReadChannels, Alone
    <3> QED
      BY <2>b, <2>6, <3>1, <3>2 DEF ReadChannels
  <2>c. ASSUME UNCHANGED <<db, edits, sending, cache, inbox, used, late>>,
               phase' = phase \/ (phase = "ready" /\ phase' = "live")
        PROVE  Follows'
    <3>1. /\ Coming' = Coming /\ Gone' = Gone /\ Staying' = Staying /\ Cached' = Cached
          /\ \A x : Leaving(x)' <=> Leaving(x)
      BY <2>c DEF Coming, Pending, Gone, Staying, Leaving, Cached, HasChannels
    <3>2. (MineFollows => MineFollows') /\ (DefaultFollows => DefaultFollows')
      BY <2>c, <3>1 DEF MineFollows, DefaultFollows
    <3>3. \A r : RoleFollows(r) => RoleFollows(r)'
      BY <2>c, <3>1 DEF RoleFollows
    <3>4. \A c : ListFollows(c) => ListFollows(c)'
      BY <2>c, <3>1 DEF ListFollows
    <3>5. \A c : StaysDeleted(c) => StaysDeleted(c)'
      BY <2>c, <3>1 DEF StaysDeleted
    <3>6. \A c : ChannelDefaultFollows(c) => ChannelDefaultFollows(c)'
      BY <2>c, <3>1 DEF ChannelDefaultFollows
    <3>7. \A c : OverridesFollow(c) => OverridesFollow(c)'
      BY <2>c, <3>1 DEF OverridesFollow
    <3>8. \A c : NotMissed(c) => NotMissed(c)'
      BY <2>c, <3>1 DEF NotMissed
    <3> QED
      BY <2>1, <2>c, <3>1, <3>2, <3>3, <3>4, <3>5, <3>6, <3>7, <3>8 DEF Follows
  <2>7. CASE Subscribe \/ HandleEvent \/ UNCHANGED vars
    <3>1. /\ UNCHANGED <<db, edits, reading, sending, cache, inbox, used, late>>
          /\ phase' = phase \/ (phase = "ready" /\ phase' = "live")
      BY <2>7 DEF Subscribe, HandleEvent, vars
    <3> QED
      BY <2>a, <2>c, <3>1
  <2> QED
    BY <2>2, <2>3, <2>4, <2>5, <2>6, <2>7 DEF Next, Edit, Heard
<1> QED
  BY <1>2, <1>3, <1>4 DEF FollowInv

\* What the member may view is the same for two copies of the server that give him the same
\* roles.
LEMMA SameHolding ==
    ASSUME NEW v, NEW w, v.default = w.default, Holding(v) = Holding(w),
           \A r \in Holding(v) : v.roles[r] = w.roles[r], NEW d
    PROVE  MayView(v, d) = MayView(w, d)
<1>1. ASSUME NEW u PROVE MayViewServer(u) = Decide(Holding(u), u.roles, u.default)
  <2>1. {r \in u.mine : u.roles[r] \in {"allow", "deny"}}
        = {r \in Holding(u) : u.roles[r] \in {"allow", "deny"}}
    BY DEF Holding
  <2> QED
    BY <2>1 DEF MayViewServer, Decide
<1>2. Decide(Holding(v), v.roles, v.default) = Decide(Holding(v), w.roles, v.default)
  BY DecideDepends
<1>3. MayViewServer(v) = MayViewServer(w)
  BY <1>1, <1>2
<1> QED
  BY <1>3 DEF MayView, Holding

LEMMA FollowsAtRest == FollowInv => FollowsSerialEdits
<1> SUFFICES ASSUME FollowInv, Quiet, ~mixed, db.mine \cap late = {}, NEW c \in db.listed
             PROVE  /\ MayView(db, db.chan[c]) => c \in subs
                    /\ c \in Cached => MayView(cache, cache.chan[c]) = MayView(db, db.chan[c])
  BY DEF FollowsSerialEdits
<1>1. TypeOK /\ HearsWhatItMayView /\ Unsubscribed /\ Ids /\ Alone /\ Follows
  BY DEF FollowInv, IInv
<1>2. phase = "live" /\ inbox = <<>> /\ \A i \in Edits : sending[i] = Sent
  BY DEF Quiet, Idle
<1>3. /\ Coming = <<>> /\ \A S : NoneIn(Coming, S)
      /\ \A x : x # None => ~Leaving(x)
  <2>1. Pending = <<>>
    BY <1>2 DEF Pending, Sent
  <2>2. Coming = <<>>
    BY <1>2, <2>1, ComingMoves DEF Coming
  <2> QED
    BY <1>2, <2>2, EmptyLast DEF Leaving, Sent
<1>4. c \in Channels /\ c \in Staying
  <2>1. c \in Channels
    BY <1>1, Views DEF TypeOK
  <2> QED
    BY <1>3, <2>1, FeedAssumption DEF Staying
<1>5. /\ cache.default = db.default /\ cache.mine \ Gone = db.mine
      /\ \A r \in Roles \ late : RoleFollows(r)
      /\ ChannelDefaultFollows(c) /\ OverridesFollow(c) /\ NotMissed(c)
  BY <1>1, <1>2, <1>3, <1>4 DEF Follows, DefaultFollows, MineFollows
<1>6. \A r \in Roles \ late : cache.roles[r] = db.roles[r]
  <2>1. \A r \in Roles : ~Leaving(r)
    BY <1>3, FeedAssumption
  <2> QED
    BY <1>3, <1>5, <2>1 DEF RoleFollows
<1>7. cache.mine \subseteq Roles /\ db.mine \subseteq Roles
  BY <1>1, Views DEF TypeOK
<1>8. Holding(cache) = Holding(db) /\ Holding(cache) \subseteq Roles \ Gone
  <2>1. ASSUME NEW r \in Holding(cache) PROVE r \in Holding(db) /\ r \in Roles \ Gone
    <3>1. r \in cache.mine /\ r \in Roles /\ cache.roles[r] # "absent" /\ r \notin late
      BY <1>1, <1>7 DEF Holding, Ids
    <3>2. db.roles[r] # "absent"
      BY <1>6, <3>1
    <3> QED
      BY <1>5, <3>1, <3>2 DEF Holding, Gone
  <2>2. ASSUME NEW r \in Holding(db) PROVE r \in Holding(cache)
    <3>1. r \in db.mine /\ r \in Roles /\ db.roles[r] # "absent" /\ r \notin late
      BY <1>7 DEF Holding
    <3> QED
      BY <1>5, <1>6, <3>1 DEF Holding
  <2> QED
    BY <2>1, <2>2
<1>9. \A r \in Holding(cache) : cache.roles[r] = db.roles[r]
  BY <1>1, <1>6, <1>8 DEF Ids, Holding
<1>10. MayView(cache, db.chan[c]) = MayView(db, db.chan[c])
  BY <1>5, <1>8, <1>9, SameHolding
<1>11. ASSUME c \in Cached PROVE MayView(cache, cache.chan[c]) = MayView(cache, db.chan[c])
  BY <1>3, <1>4, <1>5, <1>8, <1>11, CopyAgrees
<1>12. ASSUME c \in Cached, MayView(cache, cache.chan[c]) PROVE c \in subs
  BY <1>1, <1>2, <1>12 DEF HearsWhatItMayView, Viewable, Cached
<1>13. c \notin Cached => ~MayView(cache, db.chan[c])
  BY <1>3, <1>5 DEF NotMissed
<1> QED
  BY <1>10, <1>11, <1>12, <1>13

\* Edits that follow one another reach the session: at rest it hears the channels the
\* member may view, and has of those it keeps what decides it (the database updates and
\* the events published after them in the API's routes, bonfire's handlers of events).
THEOREM EditsFollow == Spec => []FollowsSerialEdits
<1>1. Spec => []FollowInv
  BY InitFollow, FollowStep, PTL DEF Spec
<1> QED
  BY <1>1, FollowsAtRest, PTL

=============================================================================
