---------------------------- MODULE SettingsSync ----------------------------
(***************************************************************************)
(* Settings shared by the devices of one user: the Sync store of the web   *)
(* client (client/components/state/stores/Sync.ts), the worker that feeds  *)
(* it (SyncWorker.tsx), the state that writes it to disk (state/index.tsx) *)
(* and the two routes of the server (delta/src/routes/sync).               *)
(*                                                                         *)
(* A setting has a revision on every device: the time of its last change   *)
(* there, or the time of the remote change it was replaced with.  A device *)
(* pushes its own changes with their time; the server stores them blindly  *)
(* and publishes them to every device, the sender included.                *)
(*                                                                         *)
(* A value is the number of the edit that made it, 0 the default.  A page  *)
(* starts with a session; a request carries one key, as every one does     *)
(* that `touch` causes.  A debounced disk write happens any time later.    *)
(***************************************************************************)
EXTENDS Integers, Sequences

CONSTANTS
    Devices,
    Keys,        \* STORE_KEYS
    Expiring,    \* keys whose values age on disk: timed mutes of notifications
    Ahead,       \* devices whose clock is ahead of the server's
    MaxTime,     \* bound on the time
    MaxEdits,    \* bound on the edits the user makes
    MaxInbox,    \* bound on the events under way to one device
    MaxFaults,   \* bound on failed requests and lost connections
    Running,     \* devices whose page is open before anything was ever set
    Reloaded,    \* devices whose page the user closes: the disk of another is
                 \* not read after its first start, and its writes are left out
    MaxCloses    \* bound on how often a page is closed

ASSUME SettingsAssumption ==
    /\ Expiring \subseteq Keys
    /\ Ahead \subseteq Devices
    /\ MaxTime \in Nat \ {0}
    /\ MaxEdits \in Nat
    /\ MaxInbox \in Nat \ {0}
    /\ MaxFaults \in Nat
    /\ Running \subseteq Devices
    /\ Reloaded \subseteq Devices
    /\ MaxCloses \in Nat

VARIABLES
    now,         \* the server's clock
    edits,       \* how many edits the user made
    page,        \* page[d]: "closed", "open", or "live" with a ready socket
    store,       \* store[d][k]: the value in the memory of the page
    revision,    \* revision[d][k]: its revision
    disk,        \* disk[d]: the store and revision maps in localforage
    server,      \* server[k]: the document's revision and value; ts 0: absent
    calls,       \* the pushes under way
    inbox,       \* inbox[d]: the events under way to the page
    fetch,       \* fetch[d]: the initialSync of the page
    answer,      \* answer[d]: what it will read
    faults,      \* how many failures there have been
    closes,      \* how many pages were closed
    stamps,      \* history: stamps[k], every revision given to a value
    behind,      \* history: behind[d], keys of which d missed an event or whose
                 \* push failed, since d last read them from the server
    torn,        \* history: keys read from a disk that held the value of one
                 \* moment and the revision of another
    overtaken,   \* history: keys of which the server replaced a revision by an
                 \* older one
    unseen       \* history: keys of which a page that was open when it mattered
                 \* never saw an event

memory == <<page, store, revision, disk>>
requests == <<calls, inbox, fetch, answer, server>>
counters == <<now, edits, faults, closes>>
lapses == <<behind, torn, overtaken, unseen>>
vars == <<memory, requests, counters, stamps, lapses>>

\* The revision of a key that `clean` dropped: undefined
Undefined == -1

Times == 0 .. MaxTime + 1
Values == 0 .. MaxEdits
Copies == [ts : Times, val : Values]
Events == [key : Keys, ts : Times, val : Values, from : Devices]
Calls == [key : Keys, ts : Times, val : Values, from : Devices,
          stage : {"sent", "stored"}]

Absent == [ts |-> 0, val |-> 0]

TypeOK ==
    /\ now \in 1 .. MaxTime
    /\ edits \in Values
    /\ page \in [Devices -> {"closed", "open", "live"}]
    /\ store \in [Devices -> [Keys -> Values]]
    /\ revision \in [Devices -> [Keys -> Times \cup {Undefined}]]
    /\ disk \in [Devices -> [store : [Keys -> Values],
                             revision : [Keys -> Times \cup {Undefined}]]]
    /\ server \in [Keys -> Copies]
    /\ calls \subseteq Calls
    /\ inbox \in [Devices -> Seq(Events)]
    /\ fetch \in [Devices -> {"none", "asked", "answered"}]
    /\ answer \in [Devices -> [Keys -> Copies]]
    /\ faults \in 0 .. MaxFaults
    /\ closes \in 0 .. MaxCloses
    /\ stamps \in [Keys -> SUBSET Copies]
    /\ behind \in [Devices -> SUBSET Keys]
    /\ torn \subseteq Keys
    /\ overtaken \subseteq Keys
    /\ unseen \subseteq Keys

Init ==
    /\ now = 1
    /\ edits = 0
    /\ page = [d \in Devices |-> IF d \in Running THEN "live" ELSE "closed"]
    /\ store = [d \in Devices |-> [k \in Keys |-> 0]]
    /\ revision = [d \in Devices |-> [k \in Keys |-> 0]]
    /\ disk = [d \in Devices |-> [store |-> [k \in Keys |-> 0],
                                  revision |-> [k \in Keys |-> 0]]]
    /\ server = [k \in Keys |-> Absent]
    /\ calls = {}
    /\ inbox = [d \in Devices |-> << >>]
    /\ fetch = [d \in Devices |-> "none"]
    /\ answer = [d \in Devices |-> [k \in Keys |-> Absent]]
    /\ faults = 0
    /\ closes = 0
    /\ stamps = [k \in Keys |-> {}]
    /\ behind = [d \in Devices |-> {}]
    /\ torn = {}
    /\ overtaken = {}
    /\ unseen = {}

IsOpen(d) == page[d] # "closed"

\* Mutant: a revision counts up, whatever the time.
CountingClock(d) ==
    1 + CHOOSE t \in {revision[d][k] : k \in Keys} : \A k \in Keys : t >= revision[d][k]

\* Mutant: microseconds.
ClockInMicroseconds(d) == 1000 * now

\* +new Date() on device d
Clock(d) == IF d \in Ahead THEN now + 1 ELSE now

\* History: k got the value v and the revision t.
Stamp(k, t, v) == stamps' = [stamps EXCEPT ![k] = @ \cup {[ts |-> t, val |-> v]}]

Tick ==
    /\ now < MaxTime
    /\ now' = now + 1
    /\ UNCHANGED <<edits, faults, closes, memory, requests, stamps, lapses>>

-----------------------------------------------------------------------------
(* touch, save and merge on an open page.  `touch` fills the sync queue,     *)
(* which runs `save` before it returns: the key leaves the queue with a      *)
(* fresh revision, and its value as a request.                               *)

\* Mutant: the key is touched before the store is written.
PushOld(d, k, v) ==
    [key |-> k, ts |-> Clock(d), val |-> store[d][k], from |-> d, stage |-> "sent"]

Push(d, k, v) == [key |-> k, ts |-> Clock(d), val |-> v, from |-> d, stage |-> "sent"]

\* Mutant: any other revision is taken.
HydratesOther(d, copy, k) ==
    revision[d][k] # Undefined /\ copy.ts # revision[d][k]

\* `copy` is newer than what d has.  Nothing is newer than `undefined`.
Hydrates(d, copy, k) == revision[d][k] # Undefined /\ copy.ts > revision[d][k]

\* Mutant: an old copy is left where it is.
NeverRepushes(d, copy, k) == FALSE

\* Mutant: older is asked as such, and nothing is older than `undefined`.
RepushesOlder(d, copy, k) == copy.ts < revision[d][k]

\* Neither newer nor the same: the remote is to be written to.
Repushes(d, copy, k) == ~Hydrates(d, copy, k) /\ copy.ts # revision[d][k]

\* merge for each key of `update` (a function from keys to copies).
Merge(d, update) ==
    LET fresh == {k \in DOMAIN update : Hydrates(d, update[k], k)}
        stale == {k \in DOMAIN update : Repushes(d, update[k], k)}
    IN  /\ store' = [store EXCEPT ![d] = [k \in Keys |->
                        IF k \in fresh THEN update[k].val ELSE @[k]]]
        /\ revision' = [revision EXCEPT ![d] = [k \in Keys |->
                        IF k \in fresh THEN update[k].ts
                        ELSE IF k \in stale THEN Clock(d) ELSE @[k]]]
        /\ calls' = calls \cup {Push(d, k, store[d][k]) : k \in stale}
        /\ stamps' = [k \in Keys |-> IF k \in stale
                        THEN stamps[k] \cup {[ts |-> Clock(d), val |-> store[d][k]]}
                        ELSE stamps[k]]

\* The user changes a setting: write, touchIfSyncable, touch, save.
Edit(d, k) ==
    /\ IsOpen(d)
    /\ edits < MaxEdits
    /\ edits' = edits + 1
    /\ store' = [store EXCEPT ![d][k] = edits']
    /\ revision' = [revision EXCEPT ![d][k] = Clock(d)]
    /\ calls' = calls \cup {Push(d, k, edits')}
    /\ Stamp(k, Clock(d), edits')
    /\ UNCHANGED <<now, faults, closes, page, disk, inbox, fetch, answer, server,
                   lapses>>

\* handleEvent, consumeEvent
Deliver(d) ==
    /\ page[d] = "live"
    /\ inbox[d] # << >>
    /\ inbox' = [inbox EXCEPT ![d] = Tail(@)]
    /\ LET e == Head(inbox[d])
       IN  Merge(d, [k \in {e.key} |-> [ts |-> e.ts, val |-> e.val]])
    /\ UNCHANGED <<counters, page, disk, fetch, answer, server, lapses>>

\* initialSync after its await; only keys the server has are in the response.
ConsumeFetch(d) ==
    /\ IsOpen(d)
    /\ fetch[d] = "answered"
    /\ fetch' = [fetch EXCEPT ![d] = "none"]
    /\ answer' = [answer EXCEPT ![d] = [k \in Keys |-> Absent]]
    /\ Merge(d, [k \in {k \in Keys : answer[d][k].ts # 0} |-> answer[d][k]])
    /\ UNCHANGED <<counters, page, disk, inbox, server, lapses>>

-----------------------------------------------------------------------------
(* The page: opened, connected, closed; the debounced writes to disk *)

\* Sync's clean drops the revisions that are 0.  The store is on disk only once
\* a revision is not.
Clean(rev) ==
    IF \A k \in Keys : rev[k] = 0 THEN rev
    ELSE [k \in Keys |-> IF rev[k] = 0 THEN Undefined ELSE rev[k]]

\* The disk holds a value together with a revision it never had.
Torn(d, k) ==
    LET t == disk[d].revision[k]
        v == disk[d].store[k]
    IN  IF t \in {0, Undefined} THEN v # 0 ELSE [ts |-> t, val |-> v] \notin stamps[k]

\* hydrate and the mount of SyncWorker.  Values with an expired part are written
\* back, which queues their keys: the first `save` pushes them.
Open(d, expired) ==
    /\ page[d] = "closed"
    /\ \A k \in expired : disk[d].store[k] # 0
    /\ page' = [page EXCEPT ![d] = "open"]
    /\ store' = [store EXCEPT ![d] = disk[d].store]
    /\ revision' = [revision EXCEPT ![d] = [k \in Keys |->
                        IF k \in expired THEN Clock(d)
                        ELSE Clean(disk[d].revision)[k]]]
    /\ calls' = calls \cup {Push(d, k, disk[d].store[k]) : k \in expired}
    /\ stamps' = [k \in Keys |-> IF k \in expired
                    THEN stamps[k] \cup {[ts |-> Clock(d), val |-> disk[d].store[k]]}
                    ELSE stamps[k]]
    /\ fetch' = [fetch EXCEPT ![d] = "asked"]
    /\ behind' = [behind EXCEPT ![d] = {k \in @ : server[k].ts = 0}]
    /\ torn' = torn \cup {k \in Keys : Torn(d, k)}
    /\ UNCHANGED <<counters, disk, inbox, answer, server, overtaken, unseen>>

\* The socket is ready: the server has subscribed it to the user's events.
Connect(d) ==
    /\ page[d] = "open"
    /\ page' = [page EXCEPT ![d] = "live"]
    /\ UNCHANGED <<counters, store, revision, disk, requests, stamps, lapses>>

\* The keys of the events under way to d
Expected(d) == {inbox[d][i].key : i \in DOMAIN inbox[d]}

\* The connection is lost, with the events under way on it.  Nothing fetches
\* the settings again when it is back.
Disconnect(d) ==
    /\ page[d] = "live"
    /\ faults < MaxFaults
    /\ faults' = faults + 1
    /\ page' = [page EXCEPT ![d] = "open"]
    /\ inbox' = [inbox EXCEPT ![d] = << >>]
    /\ behind' = [behind EXCEPT ![d] = @ \cup Expected(d)]
    /\ unseen' = unseen \cup Expected(d)
    /\ UNCHANGED <<now, edits, closes, store, revision, disk, calls, fetch,
                   answer, server, stamps, torn, overtaken>>

\* Timers and memory are gone; requests already sent still reach the server.
Close(d) ==
    /\ IsOpen(d)
    /\ d \in Reloaded /\ closes < MaxCloses
    /\ closes' = closes + 1
    /\ page' = [page EXCEPT ![d] = "closed"]
    /\ store' = [store EXCEPT ![d] = [k \in Keys |-> 0]]
    /\ revision' = [revision EXCEPT ![d] = [k \in Keys |-> 0]]
    /\ inbox' = [inbox EXCEPT ![d] = << >>]
    /\ fetch' = [fetch EXCEPT ![d] = "none"]
    /\ answer' = [answer EXCEPT ![d] = [k \in Keys |-> Absent]]
    /\ unseen' = unseen \cup Expected(d) \cup {c.key : c \in {c \in calls : c.from = d}}
    /\ UNCHANGED <<now, edits, faults, disk, calls, server, stamps, behind, torn,
                   overtaken>>

\* The writeQueue timers, one of each store: `write` starts them whenever it
\* changes the store, so that one runs while memory and disk differ.
CanFlush(d) == IsOpen(d) /\ d \in Reloaded /\ closes < MaxCloses

FlushStore(d, k) ==
    /\ CanFlush(d)
    /\ disk[d].store[k] # store[d][k]
    /\ disk' = [disk EXCEPT ![d].store[k] = store[d][k]]
    /\ UNCHANGED <<counters, page, store, revision, requests, stamps, lapses>>

FlushSync(d) ==
    /\ CanFlush(d)
    /\ disk[d].revision # revision[d]
    /\ disk' = [disk EXCEPT ![d].revision = revision[d]]
    /\ UNCHANGED <<counters, page, store, revision, requests, stamps, lapses>>

-----------------------------------------------------------------------------
(* The server *)

AnswerFetch(d) ==
    /\ fetch[d] = "asked"
    /\ fetch' = [fetch EXCEPT ![d] = "answered"]
    /\ answer' = [answer EXCEPT ![d] = server]
    /\ UNCHANGED <<counters, memory, calls, inbox, server, stamps, lapses>>

\* The timestamp of a set is at most the server's time.
Clamp(t) == IF t > now THEN now ELSE t

\* set_user_settings: the key is replaced, whatever its revision.
Apply(c) ==
    /\ c.stage = "sent"
    /\ server' = [server EXCEPT ![c.key] = [ts |-> Clamp(c.ts), val |-> c.val]]
    /\ calls' = (calls \ {c}) \cup {[c EXCEPT !.ts = Clamp(c.ts), !.stage = "stored"]}
    /\ IF Clamp(c.ts) = c.ts THEN UNCHANGED stamps
       ELSE Stamp(c.key, Clamp(c.ts), c.val)
    /\ overtaken' = IF Clamp(c.ts) < server[c.key].ts
                    THEN overtaken \cup {c.key} ELSE overtaken
    /\ UNCHANGED <<counters, memory, inbox, fetch, answer, behind, torn, unseen>>

\* A page that has no subscription misses the event, unless its fetch has still
\* to read what was stored before.
Misses(d) == page[d] = "open" /\ fetch[d] # "asked"

Publish(c) ==
    /\ c.stage = "stored"
    /\ \A d \in Devices : page[d] = "live" => Len(inbox[d]) < MaxInbox
    /\ calls' = calls \ {c}
    /\ inbox' = [d \in Devices |->
                    IF page[d] = "live"
                    THEN Append(inbox[d], [key |-> c.key, ts |-> c.ts,
                                           val |-> c.val, from |-> c.from])
                    ELSE inbox[d]]
    /\ behind' = [d \in Devices |->
                    IF Misses(d) THEN behind[d] \cup {c.key} ELSE behind[d]]
    /\ unseen' = IF \E d \in Devices : page[d] = "open"
                 THEN unseen \cup {c.key} ELSE unseen
    /\ UNCHANGED <<counters, memory, fetch, answer, server, stamps, torn, overtaken>>

\* A push is refused or lost on its way, or the server fails before it publishes.
CallFails(c) ==
    /\ faults < MaxFaults
    /\ faults' = faults + 1
    /\ calls' = calls \ {c}
    /\ behind' = [d \in Devices |->
                    IF c.stage = "stored" \/ d = c.from
                    THEN behind[d] \cup {c.key} ELSE behind[d]]
    /\ unseen' = unseen \cup {c.key}
    /\ UNCHANGED <<now, edits, closes, memory, inbox, fetch, answer, server, stamps,
                   torn, overtaken>>

\* initialSync rejects; nothing catches it.  (A response lost on its way back is
\* the same: the server only read.)
FetchFails(d) ==
    /\ fetch[d] = "asked"
    /\ faults < MaxFaults
    /\ faults' = faults + 1
    /\ fetch' = [fetch EXCEPT ![d] = "none"]
    /\ behind' = [behind EXCEPT ![d] = Keys]
    /\ UNCHANGED <<now, edits, closes, memory, calls, inbox, answer, server, stamps,
                   torn, overtaken, unseen>>

Next ==
    \/ Tick
    \/ \E d \in Devices :
        \/ \E k \in Keys : Edit(d, k) \/ FlushStore(d, k)
        \/ \E expired \in SUBSET Expiring : Open(d, expired)
        \/ Deliver(d) \/ ConsumeFetch(d) \/ FlushSync(d)
        \/ Connect(d) \/ Disconnect(d) \/ Close(d)
        \/ AnswerFetch(d) \/ FetchFails(d)
    \/ \E c \in calls : Apply(c) \/ Publish(c) \/ CallFails(c)

Spec == Init /\ [][Next]_vars

-----------------------------------------------------------------------------
(* Properties *)

\* Two different values of k were given the same revision: edits within one
\* millisecond, or a change made as late as another device's.
Tied(k) == \E s, t \in stamps[k] : s.ts = t.ts /\ s.val # t.val

\* Nothing about k is under way.
AtRest(k) ==
    /\ \A c \in calls : c.key # k
    /\ \A d \in Devices : IsOpen(d) =>
        /\ fetch[d] = "none"
        /\ \A i \in DOMAIN inbox[d] : inbox[d][i].key # k

\* What the user sees: once nothing is under way, every open page shows the value
\* the server stores, whatever order the pushes, events and reads were handled
\* in and whichever pages were closed and opened between.  Not so for a key of
\* which the page missed an event or a push failed since it was opened, and
\* for one whose revision cannot tell two values apart.
AgreeAtRest ==
    \A k \in Keys : AtRest(k) /\ ~Tied(k) /\ k \notin torn \cup (overtaken \cap unseen) =>
        \A d \in Devices : IsOpen(d) /\ k \notin behind[d] =>
            store[d][k] = server[k].val

\* merge skips an equal revision, so a revision must name one value: two pages,
\* or a page and the server, that hold a key with the same revision hold the
\* same value.
RevisionNamesValue ==
    \A k \in Keys : ~Tied(k) /\ k \notin torn =>
        \A d \in Devices : IsOpen(d) =>
            /\ revision[d][k] = server[k].ts => store[d][k] = server[k].val
            /\ \A e \in Devices : IsOpen(e) /\ revision[d][k] = revision[e][k] =>
                    store[d][k] = store[e][k]

\* No copy is of the future: a device's own revisions are at most its clock,
\* everything the server has handled is at most the server's.
NoFuture ==
    /\ \A d \in Devices, k \in Keys :
        /\ revision[d][k] <= Clock(d)
        /\ disk[d].revision[k] <= Clock(d)
        /\ answer[d][k].ts <= now
    /\ \A k \in Keys : server[k].ts <= now
    /\ \A c \in calls : c.stage = "stored" => c.ts <= now
    /\ \A d \in Devices : \A i \in DOMAIN inbox[d] : inbox[d][i].ts <= now

\* While a page is open, the revision of a key never goes back: neither a late
\* event, nor a late answer to the fetch, nor a change stamped with the device's
\* own clock replaces a newer value by an older one.
NeverBack ==
    [][\A d \in Devices, k \in Keys :
        IsOpen(d) /\ page'[d] # "closed" => revision'[d][k] >= revision[d][k]]_vars

-----------------------------------------------------------------------------
(* Inductive invariant *)

\* A page has the default of k and no revision, or a value and a revision it was given.
Named(d, k) ==
    \/ revision[d][k] \in {0, Undefined} /\ store[d][k] = 0
    \/ [ts |-> revision[d][k], val |-> store[d][k]] \in stamps[k]

\* Every copy outside the pages is one that was made with its revision; those in the
\* pages are, but for keys read from a torn disk.
Stamped ==
    /\ \A k \in Keys : \A s \in stamps[k] : s.ts # 0
    /\ \A c \in calls : [ts |-> c.ts, val |-> c.val] \in stamps[c.key]
    /\ \A d \in Devices : \A i \in DOMAIN inbox[d] :
          [ts |-> inbox[d][i].ts, val |-> inbox[d][i].val] \in stamps[inbox[d][i].key]
    /\ \A k \in Keys : server[k] \in stamps[k] \cup {Absent}
    /\ \A d \in Devices, k \in Keys : answer[d][k] \in stamps[k] \cup {Absent}
    /\ \A d \in Devices, k \in Keys \ torn : Named(d, k)

\* The rest says, of a page that differs from the server on k, what will make them agree.
\* The pushes that the server has still to handle, those it is about to publish,
Unhandled(k) == {c \in calls : c.key = k /\ c.stage = "sent"}
Stored(k) == {c \in calls : c.key = k /\ c.stage = "stored"}
Announced(k) == {c.ts : c \in Stored(k)}

\* and the revisions on their way to d, one before the other.
About(d, k) == {i \in DOMAIN inbox[d] : inbox[d][i].key = k}
Coming(d, k) == {inbox[d][i].ts : i \in About(d, k)}
Before(d, k, t, u) ==
    \E i, j \in About(d, k) : i < j /\ inbox[d][i].ts = t /\ inbox[d][j].ts = u

Pushed(d, k, t) == \E c \in Unhandled(k) : c.from = d /\ c.ts = t

\* Only a live page has events on their way to it.
Deaf == \A d \in Devices : page[d] # "live" => inbox[d] = << >>

\* The server speaks only of what it has.
Spoken(k) ==
    server[k].ts = 0 =>
        /\ Announced(k) = {}
        /\ \A d \in Devices : Coming(d, k) = {} /\ answer[d][k].ts = 0

\* What the server has not got yet, a page has from its own pushes.
FirstPush(k) ==
    \A d \in Devices : server[k].ts = 0 /\ k \notin behind[d] =>
        /\ disk[d].revision[k] > 0 => Pushed(d, k, disk[d].revision[k])
        /\ IsOpen(d) /\ revision[d][k] > 0 => Pushed(d, k, revision[d][k])

\* A page has what the server has, or something newer, or will hear of it.
NotOlder(k) ==
    \A d \in Devices : IsOpen(d) /\ k \notin behind[d] /\ server[k].ts # 0 =>
        \/ revision[d][k] >= server[k].ts
        \/ fetch[d] = "asked"
        \/ fetch[d] = "answered" /\ answer[d][k].ts >= server[k].ts
        \/ \E t \in Announced(k) \cup Coming(d, k) : t >= server[k].ts

\* The answer to the fetch of d is older than what d has.
Corrected(d, k) ==
    \/ fetch[d] = "asked" /\ server[k].ts # 0
    \/ fetch[d] = "answered" /\ answer[d][k].ts # 0 /\ answer[d][k].ts < revision[d][k]

\* The server has the latest of the revisions it has handled.  A page that has a later
\* one has pushed it, or will hear of an older one and push its own.
NotNewer(k) ==
    /\ \A t \in Announced(k) : t <= server[k].ts
    /\ \A d \in Devices :
          /\ answer[d][k].ts <= server[k].ts
          /\ \A t \in Coming(d, k) : t <= server[k].ts
          /\ IsOpen(d) /\ k \notin behind[d] /\ revision[d][k] > server[k].ts =>
                \/ Pushed(d, k, revision[d][k])
                \/ Corrected(d, k)
                \/ \E t \in Announced(k) \cup Coming(d, k) : t < revision[d][k]

\* d has the revision t or a later one, or comes to have it.
Learns(d, k, t) ==
    \/ revision[d][k] >= t
    \/ \E u \in Announced(k) \cup Coming(d, k) : u >= t

\* Whoever has pushed k is there to see what becomes of it, and learns of every later
\* revision that the server handles first.
Watched(k) ==
    /\ \A c \in Unhandled(k) \cup Stored(k) :
          IsOpen(c.from) /\ revision[c.from][k] >= c.ts
    /\ \A c \in Unhandled(k) :
          /\ server[k].ts > c.ts => Learns(c.from, k, server[k].ts)
          /\ \A d \in Devices :
                answer[d][k].ts > c.ts => Learns(c.from, k, answer[d][k].ts)

\* A push is under way, or somebody will hear of what the server has when he has something
\* newer, and push that.
Mended(k) ==
    \/ Unhandled(k) # {}
    \/ \E d \in Devices :
          /\ IsOpen(d)
          /\ \/ server[k].ts \in Coming(d, k) /\ revision[d][k] > server[k].ts
             \/ \E t \in Coming(d, k) : t > server[k].ts /\ Before(d, k, t, server[k].ts)

\* That, or the server's revision is about to be published.
Returns(k) == Mended(k) \/ server[k].ts \in Announced(k)

\* Where a later revision is than the one the server has, one that it had replaced, it
\* comes back.  Whoever has pushed what the server has learns of a later one that was read.
ComesBack(k) ==
    /\ \A t \in Announced(k) : t > server[k].ts => Returns(k)
    /\ \A d \in Devices :
          /\ \A t \in Coming(d, k) : t > server[k].ts => Returns(k)
          /\ IsOpen(d) /\ k \notin behind[d] /\ revision[d][k] > server[k].ts =>
                Corrected(d, k) \/ Returns(k)
          /\ answer[d][k].ts > server[k].ts =>
                \/ Mended(k)
                \/ \E c \in Stored(k) :
                      c.ts = server[k].ts /\ Learns(c.from, k, answer[d][k].ts)

\* While the server has replaced no revision by an older one, nobody has a newer one than
\* the server but for what corrects it; while no page missed anything, one that has will
\* bring it back.
Settles(k) ==
    /\ Spoken(k) /\ FirstPush(k) /\ NotOlder(k)
    /\ k \notin overtaken => NotNewer(k)
    /\ k \notin unseen => Watched(k) /\ ComesBack(k)

SyncInv == TypeOK /\ NoFuture /\ Stamped /\ Deaf /\ \A k \in Keys : Settles(k)

=============================================================================
