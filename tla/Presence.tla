------------------------------ MODULE Presence ------------------------------
(***************************************************************************)
(* Presence: which users are online.  Redis keeps, per user, the set of    *)
(* open sessions; one set of users that are online; and per region (one    *)
(* bonfire process) the sessions it opened, so that a restarted process    *)
(* can delete what its predecessor left (backend/crates/core/presence).    *)
(* A connection is one run of `client` in bonfire's websocket.rs, from     *)
(* create_session to delete_session and the broadcasts after them.         *)
(*                                                                         *)
(* Every Redis command is a step: connections and restarts of the other    *)
(* regions interleave between any two of them.                             *)
(***************************************************************************)
EXTENDS FiniteSets, Naturals

CONSTANTS
    Users,
    Regions,
    Conns,       \* connections; each stands for one random session id
    UserOf,      \* UserOf[c]: the user that opens c
    RegionOf,    \* RegionOf[c]: the region that serves c
    Invisible,   \* users whose status hides them: nothing is broadcast
    MaxCrashes   \* bound on the crashes of processes in one behaviour

ASSUME PresenceAssumption ==
    /\ UserOf \in [Conns -> Users]
    /\ RegionOf \in [Conns -> Regions]
    /\ Invisible \subseteq Users
    /\ MaxCrashes \in Nat

VARIABLES
    sessions,    \* sessions[u]: the set under the user's key
    online,      \* the set under the key `online`
    region,      \* region[r]: the set under the key of region r
    pc,          \* pc[c]: the next step of connection c, or how it ended
    first,       \* first[c]: what create_session found, was_empty
    process,     \* process[r]: whether the region's process runs
    sweep,       \* sweep[r]: sessions clear_region has still to delete
    sweeping,    \* sweeping[r]: at most one session it is deleting, and its step
    shown,       \* shown[u]: the presence last broadcast for u
    crashes,     \* how many crashes there have been
    mixed,       \* history: users of whom one session opened while another closed
    faulted      \* history: users hit by a crash or by a Redis failure

vars == <<sessions, online, region, pc, first, process, sweep, sweeping, shown,
          crashes, mixed, faulted>>

ConnsOf(u) == {c \in Conns : UserOf[c] = u}

Opening == {"add", "addOnline", "addRegion", "announce"}

Closing == {"dropRegion", "recount", "dropOnline", "announceOff"}

\* How a connection ends.  "failed": its delete_session got no Redis connection;
\* "panicked": its last count failed; the rest name where its process died:
\* "orphaned" after the session was added and before the region knew of it,
\* "abandoned" after the region forgot it and before `online` did.
Ended == {"gone", "failed", "panicked", "lost", "orphaned", "abandoned"}

Alive == Opening \cup Closing \cup {"connected"}

SweepStep == {"recount", "dropOnline"}

TypeOK ==
    /\ sessions \in [Users -> SUBSET Conns]
    /\ online \in SUBSET Users
    /\ region \in [Regions -> SUBSET Conns]
    /\ pc \in [Conns -> {"idle"} \cup Alive \cup Ended]
    /\ first \in [Conns -> BOOLEAN]
    /\ process \in [Regions -> {"up", "down", "clearing"}]
    /\ sweep \in [Regions -> SUBSET Conns]
    /\ sweeping \in [Regions -> SUBSET (Conns \X SweepStep)]
    /\ shown \in [Users -> BOOLEAN]
    /\ crashes \in 0 .. MaxCrashes
    /\ mixed \in SUBSET Users
    /\ faulted \in SUBSET Users

Init ==
    /\ sessions = [u \in Users |-> {}]
    /\ online = {}
    /\ region = [r \in Regions |-> {}]
    /\ pc = [c \in Conns |-> "idle"]
    /\ first = [c \in Conns |-> FALSE]
    /\ process = [r \in Regions |-> "up"]
    /\ sweep = [r \in Regions |-> {}]
    /\ sweeping = [r \in Regions |-> {}]
    /\ shown = [u \in Users |-> FALSE]
    /\ crashes = 0
    /\ mixed = {}
    /\ faulted = {}

Goto(c, step) == pc' = [pc EXCEPT ![c] = step]

Redis == <<sessions, online, region>>
Sweeper == <<process, sweep, sweeping, crashes>>
History == <<mixed, faulted>>

\* Remembers whether c starts to open or close while a connection of the same
\* user does the opposite.
NoteMix(c, opposite) ==
    mixed' = IF \E d \in ConnsOf(UserOf[c]) : pc[d] \in opposite
             THEN mixed \cup {UserOf[c]} ELSE mixed

-----------------------------------------------------------------------------
(* create_session and the broadcast after it *)

\* was_empty: the user has no session yet.  The client has authenticated and
\* been sent Ready, so its process is up.
CountSessions(c) ==
    /\ pc[c] = "idle"
    /\ process[RegionOf[c]] = "up"
    /\ first' = [first EXCEPT ![c] = sessions[UserOf[c]] = {}]
    /\ Goto(c, "add")
    /\ NoteMix(c, Closing)
    /\ UNCHANGED <<Redis, Sweeper, shown, faulted>>

\* No Redis connection: (false, 0).  The client goes on without a session.
CreateFails(c) ==
    /\ pc[c] = "idle"
    /\ process[RegionOf[c]] = "up"
    /\ Goto(c, "connected")
    /\ faulted' = faulted \cup {UserOf[c]}
    /\ UNCHANGED <<Redis, Sweeper, first, shown, mixed>>

AddSession(c) ==
    /\ pc[c] = "add"
    /\ sessions' = [sessions EXCEPT ![UserOf[c]] = @ \cup {c}]
    /\ Goto(c, "addOnline")
    /\ UNCHANGED <<online, region, first, Sweeper, shown, History>>

AddOnline(c) ==
    /\ pc[c] = "addOnline"
    /\ online' = online \cup {UserOf[c]}
    /\ Goto(c, "addRegion")
    /\ UNCHANGED <<sessions, region, first, Sweeper, shown, History>>

\* Mutant: the session is not added to its region.
AddRegionSkipped(c) ==
    /\ pc[c] = "addRegion"
    /\ Goto(c, IF first[c] THEN "announce" ELSE "connected")
    /\ UNCHANGED <<Redis, first, Sweeper, shown, History>>

AddRegion(c) ==
    /\ pc[c] = "addRegion"
    /\ region' = [region EXCEPT ![RegionOf[c]] = @ \cup {c}]
    /\ Goto(c, IF first[c] THEN "announce" ELSE "connected")
    /\ UNCHANGED <<sessions, online, first, Sweeper, shown, History>>

\* broadcast_presence_change(target)
Broadcast(u, target) ==
    shown' = IF u \in Invisible THEN shown ELSE [shown EXCEPT ![u] = target]

AnnounceOnline(c) ==
    /\ pc[c] = "announce"
    /\ Broadcast(UserOf[c], TRUE)
    /\ Goto(c, "connected")
    /\ UNCHANGED <<Redis, first, Sweeper, History>>

-----------------------------------------------------------------------------
(* delete_session and the broadcast after it *)

\* The socket closed: delete_session removes the session, if it was recorded.
DropSession(c) ==
    /\ pc[c] = "connected"
    /\ sessions' = [sessions EXCEPT ![UserOf[c]] = @ \ {c}]
    /\ Goto(c, "dropRegion")
    /\ NoteMix(c, Opening)
    /\ UNCHANGED <<online, region, first, Sweeper, shown, faulted>>

\* No Redis connection: false.  The session stays recorded.
DeleteFails(c) ==
    /\ pc[c] = "connected"
    /\ Goto(c, "failed")
    /\ faulted' = faulted \cup {UserOf[c]}
    /\ UNCHANGED <<Redis, first, Sweeper, shown, mixed>>

DropRegion(c) ==
    /\ pc[c] = "dropRegion"
    /\ region' = [region EXCEPT ![RegionOf[c]] = @ \ {c}]
    /\ Goto(c, "recount")
    /\ UNCHANGED <<sessions, online, first, Sweeper, shown, History>>

\* Mutant: is_empty compares with one, as if the session were still counted.
RecountOffByOne(c) ==
    /\ pc[c] = "recount"
    /\ Goto(c, IF Cardinality(sessions[UserOf[c]]) = 1 THEN "dropOnline" ELSE "gone")
    /\ UNCHANGED <<Redis, first, Sweeper, shown, History>>

\* is_empty: whether that was the last session.
Recount(c) ==
    /\ pc[c] = "recount"
    /\ Goto(c, IF sessions[UserOf[c]] = {} THEN "dropOnline" ELSE "gone")
    /\ UNCHANGED <<Redis, first, Sweeper, shown, History>>

\* Counting `.expect`s an answer: a Redis error ends the task there, before
\* anything is recorded or after the session was removed.
CountPanics(c) ==
    /\ \/ pc[c] = "idle" /\ process[RegionOf[c]] = "up" /\ Goto(c, "lost")
       \/ pc[c] = "recount" /\ Goto(c, "panicked")
    /\ faulted' = faulted \cup {UserOf[c]}
    /\ UNCHANGED <<Redis, first, Sweeper, shown, mixed>>

DropOnline(c) ==
    /\ pc[c] = "dropOnline"
    /\ online' = online \ {UserOf[c]}
    /\ Goto(c, "announceOff")
    /\ UNCHANGED <<sessions, region, first, Sweeper, shown, History>>

AnnounceOffline(c) ==
    /\ pc[c] = "announceOff"
    /\ Broadcast(UserOf[c], FALSE)
    /\ Goto(c, "gone")
    /\ UNCHANGED <<Redis, first, Sweeper, History>>

-----------------------------------------------------------------------------
(* A region's process dies and is restarted *)

WhereItDied(step) ==
    CASE step \in {"addOnline", "addRegion"} -> "orphaned"
      [] step \in {"recount", "dropOnline"} -> "abandoned"
      [] OTHER -> "lost"

Crash(r) ==
    /\ process[r] # "down"
    /\ crashes < MaxCrashes
    /\ crashes' = crashes + 1
    /\ process' = [process EXCEPT ![r] = "down"]
    /\ pc' = [c \in Conns |-> IF RegionOf[c] = r /\ pc[c] \in Alive
                              THEN WhereItDied(pc[c]) ELSE pc[c]]
    /\ faulted' = faulted \cup {UserOf[c] : c \in {d \in Conns :
                                                RegionOf[d] = r /\ pc[d] \in Alive}}
    /\ sweep' = [sweep EXCEPT ![r] = {}]
    /\ sweeping' = [sweeping EXCEPT ![r] = {}]
    /\ UNCHANGED <<Redis, first, shown, mixed>>

\* Mutant: the region's sessions are forgotten, not deleted.
RestartKeepsSessions(r) ==
    /\ process[r] = "down"
    /\ process' = [process EXCEPT ![r] = "clearing"]
    /\ UNCHANGED <<Redis, pc, first, sweep, sweeping, shown, crashes, History>>

\* clear_region, before the process accepts connections: read the region's
\* set, then delete those sessions one by one, skipping the region.
Restart(r) ==
    /\ process[r] = "down"
    /\ process' = [process EXCEPT ![r] = "clearing"]
    /\ sweep' = [sweep EXCEPT ![r] = region[r]]
    /\ UNCHANGED <<Redis, pc, first, sweeping, shown, crashes, History>>

\* Mutant: clear_region removes the session and does not look at the user.
SweepSessionOnly(r) ==
    /\ sweeping[r] = {}
    /\ \E c \in sweep[r] :
          /\ sessions' = [sessions EXCEPT ![UserOf[c]] = @ \ {c}]
          /\ sweep' = [sweep EXCEPT ![r] = @ \ {c}]
    /\ UNCHANGED <<online, region, pc, first, process, sweeping, shown, crashes, History>>

SweepSession(r) ==
    /\ sweeping[r] = {}
    /\ \E c \in sweep[r] :
          /\ sessions' = [sessions EXCEPT ![UserOf[c]] = @ \ {c}]
          /\ sweep' = [sweep EXCEPT ![r] = @ \ {c}]
          /\ sweeping' = [sweeping EXCEPT ![r] = {<<c, "recount">>}]
    /\ UNCHANGED <<online, region, pc, first, process, shown, crashes, History>>

SweepRecount(r) ==
    \E c \in Conns :
        /\ sweeping[r] = {<<c, "recount">>}
        /\ sweeping' = [sweeping EXCEPT ![r] =
                            IF sessions[UserOf[c]] = {} THEN {<<c, "dropOnline">>} ELSE {}]
        /\ UNCHANGED <<Redis, pc, first, process, sweep, shown, crashes, History>>

\* Mutant: the sweep goes on to a broadcast it has no step for.
SweepOnlineAnnounces(r) ==
    \E c \in Conns :
        /\ sweeping[r] = {<<c, "dropOnline">>}
        /\ online' = online \ {UserOf[c]}
        /\ sweeping' = [sweeping EXCEPT ![r] = {<<c, "announceOff">>}]
        /\ UNCHANGED <<sessions, region, pc, first, process, sweep, shown, crashes, History>>

SweepOnline(r) ==
    \E c \in Conns :
        /\ sweeping[r] = {<<c, "dropOnline">>}
        /\ online' = online \ {UserOf[c]}
        /\ sweeping' = [sweeping EXCEPT ![r] = {}]
        /\ UNCHANGED <<sessions, region, pc, first, process, sweep, shown, crashes, History>>

\* The set is deleted (or was empty) and the process starts to listen.
SweepDone(r) ==
    /\ process[r] = "clearing"
    /\ sweep[r] = {} /\ sweeping[r] = {}
    /\ region' = [region EXCEPT ![r] = {}]
    /\ process' = [process EXCEPT ![r] = "up"]
    /\ UNCHANGED <<sessions, online, pc, first, sweep, sweeping, shown, crashes, History>>

-----------------------------------------------------------------------------

Progress(c) ==
    \/ AddSession(c) \/ AddOnline(c) \/ AddRegion(c) \/ AnnounceOnline(c)
    \/ DropRegion(c) \/ Recount(c) \/ DropOnline(c) \/ AnnounceOffline(c)

Recover(r) ==
    \/ Restart(r)
    \/ SweepSession(r) \/ SweepRecount(r) \/ SweepOnline(r) \/ SweepDone(r)

Next ==
    \/ \E c \in Conns :
          \/ CountSessions(c) \/ CreateFails(c)
          \/ Progress(c)
          \/ DropSession(c) \/ DeleteFails(c) \/ CountPanics(c)
    \/ \E r \in Regions : Crash(r) \/ Recover(r)

Spec == Init /\ [][Next]_vars

\* A task that is ready is polled and a dead process is restarted; nobody has
\* to connect, disconnect or crash.
FairSpec ==
    /\ Spec
    /\ \A c \in Conns : WF_vars(Progress(c))
    /\ \A r \in Regions : WF_vars(Recover(r))

-----------------------------------------------------------------------------
(* What presence must do *)

\* No session of the user is being opened or closed.
Quiet(u) == \A c \in ConnsOf(u) : pc[c] \in {"idle", "connected"} \cup Ended

\* However many sessions of a user open at once, or close at once, in however
\* many regions: when the dust settles the session set is exactly the open
\* connections, `online` (filter_online) and the user's key (is_online) agree
\* with it, and so does the last broadcast.  Needs that no session of the user
\* opened while another was closing, and that no process died under it.
ExactUnlessMixed ==
    \A u \in Users \ (mixed \cup faulted) :
        Quiet(u) =>
            /\ sessions[u] = {c \in ConnsOf(u) : pc[c] = "connected"}
            /\ u \in online <=> sessions[u] # {}
            /\ u \notin Invisible => (shown[u] <=> sessions[u] # {})

\* A recorded session has a live client that will delete it, or its region
\* knows it and will delete it at the next start.  Only a process that dies
\* between the writes of create_session leaves one that nobody will delete.
SessionsTracked ==
    \A u \in Users : \A c \in sessions[u] :
        \/ pc[c] \in {"addOnline", "addRegion", "announce", "connected", "orphaned"}
        \/ c \in region[RegionOf[c]]

\* A user listed in `online` without a session is about to be taken off it: by
\* a closing connection, or by the region that is or will be clearing one of
\* its sessions.  Only a delete_session cut short after it left the region's
\* set makes the entry stay.
StaleOnlineHasOwner ==
    \A u \in online :
        sessions[u] = {} =>
            \E c \in ConnsOf(u) :
                \/ pc[c] \in {"recount", "dropOnline", "abandoned", "panicked"}
                \/ c \in region[RegionOf[c]]

-----------------------------------------------------------------------------
(* The inductive invariant *)

\* Which connections the sets may hold, and when a region is being cleared.
Wired ==
    /\ \A u \in Users : \A c \in sessions[u] : UserOf[c] = u
    /\ \A r \in Regions :
          /\ \A c \in region[r] : RegionOf[c] = r
          /\ sweep[r] \subseteq region[r]
          /\ \A t \in sweeping[r] : t[1] \in region[r]
          /\ process[r] # "clearing" => sweep[r] = {} /\ sweeping[r] = {}
    /\ \A c \in Conns : pc[c] \in Alive => process[RegionOf[c]] = "up"

\* How far the records of a connection have come.
Recorded ==
    \A c \in Conns :
        LET known == c \in sessions[UserOf[c]]
            listed == c \in region[RegionOf[c]]
        IN  /\ pc[c] \in {"idle", "add"} => ~known /\ ~listed
            /\ pc[c] \in {"addOnline", "addRegion"} => known /\ ~listed
            /\ pc[c] = "announce" => known
            /\ pc[c] \in {"announce", "connected"} => (known <=> listed)
            /\ pc[c] \in Closing => ~known
            /\ pc[c] \in Closing \ {"dropRegion"} => ~listed
            /\ known => pc[c] = "orphaned" \/ listed \/ pc[c] \in Opening
            /\ known /\ listed /\ process[RegionOf[c]] = "clearing" =>
                  c \in sweep[RegionOf[c]]

\* c will take its user off `online` unless it finds another session.
Answers(c) ==
    \/ pc[c] \in {"recount", "dropOnline", "abandoned", "panicked"}
    \/ c \in region[RegionOf[c]] /\ process[RegionOf[c]] # "clearing"
    \/ c \in sweep[RegionOf[c]]
    \/ \E t \in sweeping[RegionOf[c]] : t[1] = c

Answered ==
    \A u \in online : sessions[u] = {} => \E c \in ConnsOf(u) : Answers(c)

\* What holds for a user that no fault has hit and no mix of opening and
\* closing: the parts ExactUnlessMixed is made of.
Clean(u) ==
    /\ \A c \in ConnsOf(u) :
          /\ pc[c] \in {"idle", "gone"} \cup Alive
          /\ pc[c] = "connected" => c \in sessions[u]
          /\ c \in region[RegionOf[c]] => pc[c] \in {"announce", "connected", "dropRegion"}
          /\ pc[c] \in {"addRegion", "announce", "connected"} => u \in online
          /\ pc[c] \in {"dropOnline", "announceOff"} => sessions[u] = {}
          /\ pc[c] \in Opening /\ ~first[c] => sessions[u] # {}
          /\ pc[c] = "announce" => first[c]
    /\ \A c, d \in ConnsOf(u) : ~(pc[c] \in Opening /\ pc[d] \in Closing)
    /\ u \in Invisible => ~shown[u]
    /\ u \notin Invisible /\ sessions[u] # {} =>
          shown[u] \/ \E c \in ConnsOf(u) : pc[c] \in Opening /\ first[c]
    /\ shown[u] /\ sessions[u] = {} => \E c \in ConnsOf(u) : pc[c] \in Closing

IInv ==
    /\ TypeOK
    /\ Wired
    /\ Recorded
    /\ Answered
    /\ \A u \in Users \ (mixed \cup faulted) : Clean(u)

-----------------------------------------------------------------------------

\* A user all of whose connections have ended, cleanly or with their process,
\* ends up offline both by key and by `online` once dead regions are restarted,
\* unless it connects again.  Excused are the endings nothing repairs.
EventuallyOffline ==
    \A u \in Users :
        (\A c \in ConnsOf(u) : pc[c] \in {"idle", "gone", "lost"}) ~>
            \/ sessions[u] = {} /\ u \notin online
            \/ \E c \in ConnsOf(u) : pc[c] \notin {"idle", "gone", "lost"}

\* lib.rs has filter_online "Check whether a set of users is online" from the
\* set `online`, is_online "Check whether a given user ID is online" from the
\* user's key, and its test expects both of a user with a session.  They agree
\* whenever no session of the user is being opened or closed.
OnlineSetAgrees ==
    \A u \in Users \ faulted :
        Quiet(u) => (u \in online <=> sessions[u] # {})
=============================================================================
