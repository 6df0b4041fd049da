------------------------------ MODULE Coalesced ------------------------------
(***************************************************************************)
(* CoalescionService (backend/crates/core/coalesced): groups concurrent    *)
(* calls that carry the same id so that the expensive action behind them   *)
(* runs once, limits how many actions run, and queues the rest.            *)
(*                                                                         *)
(* One element of Calls is one invocation of `execute`.  Every .await of   *)
(* the source that touches shared state is a step of its own, because      *)
(* another task may run between two of them; a lock is held only inside    *)
(* one step.  The value a run produces is named by the call that ran it.   *)
(***************************************************************************)
EXTENDS Naturals, Sequences, SequencesExt, FiniteSets

CONSTANTS
    Calls,          \* invocations of execute
    Ids,            \* ids the invocations may carry
    None,           \* absence of a call, an id, a receiver, a limit
    MaxConcurrent,  \* config.max_concurrent, None when unlimited
    QueueRequests,  \* config.queue_requests
    MaxQueue,       \* config.max_queue, None when unlimited
    Droppable       \* calls whose future may be dropped before it completes

\* Error of error.rs; DowncastError needs two value types under one id, which
\* the prefixes the callers put in front of their ids rule out.
Error == {"RecvError", "MaxConcurrent", "MaxQueue"}

ASSUME CoalescedAssumption ==
    /\ None \notin Calls /\ None \notin Ids /\ None \notin Error
    /\ Calls \cap Error = {}
    /\ MaxConcurrent \in Nat \cup {None}
    /\ QueueRequests \in BOOLEAN
    /\ MaxQueue \in Nat \cup {None}
    /\ Droppable \subseteq Calls

VARIABLES
    pc,          \* pc[c]: the next step of call c
    id,          \* id[c]: the id c was called with
    watchers,    \* watchers[i]: the call whose run is registered under id i
    order,       \* the keys of the IndexMap `queue`, oldest first
    owner,       \* owner[i]: the call whose receiver `queue` holds under id i
    waitsOn,     \* waitsOn[c]: the receiver c cloned out of one of the maps
    runChannel,  \* runChannel[c]: the watch channel of insert_and_execute
    turnChannel, \* turnChannel[c]: the watch channel of a queued call
    result,      \* result[c]: the call whose value c returned, or an error
    over         \* over[c]: history, the runs cleaned up before c was called

vars == <<pc, id, watchers, order, owner, waitsOn, runChannel, turnChannel,
          result, over>>

ChannelState == {"open", "sent", "closed"}

\* A receiver names its sender: the run channel or the turn channel of a call.
Receiver == {"run", "turn"} \X Calls

Waiting == {"lookup", "enqueue", "poll", "head", "dequeue", "insert", "run",
            "remove", "wait"}

Steps == {"idle", "publish", "done", "dropped"} \cup Waiting

TypeOK ==
    /\ pc \in [Calls -> Steps]
    /\ id \in [Calls -> Ids \cup {None}]
    /\ watchers \in [Ids -> Calls \cup {None}]
    /\ order \in Seq(Ids)
    /\ owner \in [Ids -> Calls \cup {None}]
    /\ waitsOn \in [Calls -> Receiver \cup {None}]
    /\ runChannel \in [Calls -> ChannelState]
    /\ turnChannel \in [Calls -> ChannelState]
    /\ result \in [Calls -> Calls \cup Error \cup {None}]
    /\ over \in [Calls -> SUBSET Calls]

Init ==
    /\ pc = [c \in Calls |-> "idle"]
    /\ id = [c \in Calls |-> None]
    /\ watchers = [i \in Ids |-> None]
    /\ order = <<>>
    /\ owner = [i \in Ids |-> None]
    /\ waitsOn = [c \in Calls |-> None]
    /\ runChannel = [c \in Calls |-> "open"]
    /\ turnChannel = [c \in Calls |-> "open"]
    /\ result = [c \in Calls |-> None]
    /\ over = [c \in Calls |-> {}]

-----------------------------------------------------------------------------
(* The two maps *)

\* watchers.len()
Running == {i \in Ids : watchers[i] # None}

AtCapacity ==
    /\ MaxConcurrent # None
    /\ Cardinality(Running) >= MaxConcurrent

Queued(i) == owner[i] # None

\* max_queue.is_some_and(|max_queue| max_queue >= length): the comparison as
\* the source writes it, which rejects while the queue is within its limit.
QueueRejects ==
    /\ MaxQueue # None
    /\ MaxQueue >= Len(order)

\* A run that has taken its entry out of `watchers`.
Retired(c) == pc[c] \in {"publish", "done"} /\ result[c] = c

-----------------------------------------------------------------------------
(* Steps of one call *)

Goto(c, step) == pc' = [pc EXCEPT ![c] = step]

Return(c, r) ==
    /\ Goto(c, "done")
    /\ result' = [result EXCEPT ![c] = r]

WaitFor(c, channel, sender) ==
    /\ Goto(c, "wait")
    /\ waitsOn' = [waitsOn EXCEPT ![c] = <<channel, sender>>]

\* execute up to its first decision: one read lock on `watchers` yields both
\* the receiver and the length, then the match on max_concurrent.
Execute(c, i) ==
    /\ pc[c] = "idle"
    /\ id' = [id EXCEPT ![c] = i]
    /\ over' = [over EXCEPT ![c] = {d \in Calls : Retired(d)}]
    /\ \/ /\ watchers[i] # None
          /\ WaitFor(c, "run", watchers[i])
          /\ UNCHANGED result
       \/ /\ watchers[i] = None
          /\ ~AtCapacity
          /\ Goto(c, "insert")
          /\ UNCHANGED <<waitsOn, result>>
       \/ /\ watchers[i] = None
          /\ AtCapacity
          /\ IF QueueRequests
             THEN Goto(c, "lookup") /\ UNCHANGED result
             ELSE Return(c, "MaxConcurrent")
          /\ UNCHANGED waitsOn
    /\ UNCHANGED <<watchers, order, owner, runChannel, turnChannel>>

\* Mutant: a queued call is looked up without its id.
LookupQueueAnyId(c) ==
    /\ pc[c] = "lookup"
    /\ \/ \E i \in Ids : /\ Queued(i)
                         /\ WaitFor(c, "turn", owner[i])
       \/ /\ \A i \in Ids : ~Queued(i)
          /\ Goto(c, "enqueue")
          /\ UNCHANGED waitsOn
    /\ UNCHANGED <<id, watchers, order, owner, runChannel, turnChannel, result, over>>

\* One read lock on `queue`: wait with a call already queued under this id,
\* be turned away, or go on to join the queue.
LookupQueue(c) ==
    /\ pc[c] = "lookup"
    /\ \/ /\ Queued(id[c])
          /\ WaitFor(c, "turn", owner[id[c]])
          /\ UNCHANGED result
       \/ /\ ~Queued(id[c])
          /\ IF QueueRejects THEN Return(c, "MaxQueue")
                             ELSE Goto(c, "enqueue") /\ UNCHANGED result
          /\ UNCHANGED waitsOn
    /\ UNCHANGED <<id, watchers, order, owner, runChannel, turnChannel, over>>

\* IndexMap::insert keeps the position of a key that is already there and
\* replaces its value.
Enqueue(c) ==
    /\ pc[c] = "enqueue"
    /\ order' = IF Queued(id[c]) THEN order ELSE Append(order, id[c])
    /\ owner' = [owner EXCEPT ![id[c]] = c]
    /\ Goto(c, "poll")
    /\ UNCHANGED <<id, watchers, waitsOn, runChannel, turnChannel, result, over>>

\* The loop: `length < max_concurrent`, read on its own ...
PollLength(c) ==
    /\ pc[c] = "poll"
    /\ ~AtCapacity
    /\ Goto(c, "head")
    /\ UNCHANGED <<id, watchers, order, owner, waitsOn, runChannel, turnChannel,
                   result, over>>

\* ... then `first_key == Some(id)` under another lock, else around again.
PollHead(c) ==
    /\ pc[c] = "head"
    /\ Goto(c, IF order # <<>> /\ Head(order) = id[c] THEN "dequeue" ELSE "poll")
    /\ UNCHANGED <<id, watchers, order, owner, waitsOn, runChannel, turnChannel,
                   result, over>>

\* Mutant: the turn is taken without shift_remove.
DequeueKeepsEntry(c) ==
    /\ pc[c] = "dequeue"
    /\ Goto(c, "insert")
    /\ UNCHANGED <<id, watchers, order, owner, waitsOn, runChannel, turnChannel,
                   result, over>>

\* shift_remove(&id): whoever's entry stands under this id, if any.
Dequeue(c) ==
    /\ pc[c] = "dequeue"
    /\ \/ /\ Queued(id[c])
          /\ \E k \in DOMAIN order : order[k] = id[c] /\ order' = RemoveAt(order, k)
       \/ /\ ~Queued(id[c])
          /\ UNCHANGED order
    /\ owner' = [owner EXCEPT ![id[c]] = None]
    /\ Goto(c, "insert")
    /\ UNCHANGED <<id, watchers, waitsOn, runChannel, turnChannel, result, over>>

\* insert_and_execute: register the receiver, replacing any other.
InsertWatcher(c) ==
    /\ pc[c] = "insert"
    /\ watchers' = [watchers EXCEPT ![id[c]] = c]
    /\ Goto(c, "run")
    /\ UNCHANGED <<id, order, owner, waitsOn, runChannel, turnChannel, result, over>>

\* Mutant: the value of the run is not sent to the receivers.
FinishRunSilently(c) ==
    /\ pc[c] = "run"
    /\ Goto(c, "remove")
    /\ UNCHANGED <<id, watchers, order, owner, waitsOn, runChannel, turnChannel,
                   result, over>>

\* func().await completes and its value is sent, with no await in between.
FinishRun(c) ==
    /\ pc[c] = "run"
    /\ runChannel' = [runChannel EXCEPT ![c] = "sent"]
    /\ Goto(c, "remove")
    /\ UNCHANGED <<id, watchers, order, owner, waitsOn, turnChannel, result, over>>

\* Mutant: the entry of a finished run is left in `watchers`.
RemoveWatcherForgotten(c) ==
    /\ pc[c] = "remove"
    /\ result' = [result EXCEPT ![c] = c]
    /\ Goto(c, "publish")
    /\ UNCHANGED <<id, watchers, order, owner, waitsOn, runChannel, turnChannel, over>>

\* watchers.remove(&id): whoever's entry stands there.  A call that was queued
\* still has to tell those that wait for its turn.
RemoveWatcher(c) ==
    /\ pc[c] = "remove"
    /\ watchers' = [watchers EXCEPT ![id[c]] = None]
    /\ result' = [result EXCEPT ![c] = c]
    /\ Goto(c, "publish")
    /\ UNCHANGED <<id, order, owner, waitsOn, runChannel, turnChannel, over>>

\* The queued branch sends its response on the turn channel; a call that was
\* never queued has no receiver there.  Either way execute returns.
Publish(c) ==
    /\ pc[c] = "publish"
    /\ turnChannel' = [turnChannel EXCEPT ![c] = "sent"]
    /\ Goto(c, "done")
    /\ UNCHANGED <<id, watchers, order, owner, waitsOn, runChannel, result, over>>

SenderState(r) == IF r[1] = "run" THEN runChannel[r[2]] ELSE turnChannel[r[2]]

\* Mutant: the state of the channel is returned, not what it carries.
ReceiveRaw(c) ==
    /\ pc[c] = "wait"
    /\ SenderState(waitsOn[c]) # "open"
    /\ Goto(c, "done")
    /\ result' = [result EXCEPT ![c] = SenderState(waitsOn[c])]
    /\ UNCHANGED <<id, watchers, order, owner, waitsOn, runChannel, turnChannel, over>>

\* wait_for: the value once there is one, RecvError once the sender is gone.
Receive(c) ==
    /\ pc[c] = "wait"
    /\ SenderState(waitsOn[c]) # "open"
    /\ Return(c, IF SenderState(waitsOn[c]) = "sent" THEN waitsOn[c][2]
                                                     ELSE "RecvError")
    /\ UNCHANGED <<id, watchers, order, owner, waitsOn, runChannel, turnChannel, over>>

\* The future of a call is dropped at an await, or its action panics: the
\* senders it owns close, the entries it made in the two maps stay.
Drop(c) ==
    /\ c \in Droppable
    /\ pc[c] \in Waiting
    /\ runChannel' = [runChannel EXCEPT ![c] = IF @ = "open" THEN "closed" ELSE @]
    /\ turnChannel' = [turnChannel EXCEPT ![c] = IF @ = "open" THEN "closed" ELSE @]
    /\ Goto(c, "dropped")
    /\ UNCHANGED <<id, watchers, order, owner, waitsOn, result, over>>

Progress(c) ==
    \/ LookupQueue(c) \/ Enqueue(c)
    \/ PollLength(c) \/ PollHead(c) \/ Dequeue(c)
    \/ InsertWatcher(c) \/ FinishRun(c) \/ RemoveWatcher(c) \/ Publish(c)
    \/ Receive(c)

Next ==
    \E c \in Calls :
        \/ \E i \in Ids : Execute(c, i)
        \/ Progress(c)
        \/ Drop(c)

Spec == Init /\ [][Next]_vars

\* The runtime polls every task that is ready; nobody has to make a call and
\* nobody has to drop one.
FairSpec == Spec /\ \A c \in Calls : WF_vars(Progress(c))

-----------------------------------------------------------------------------
(* What the service must do *)

\* Runs as CoalescedPromise sees them.
RunOf(c) ==
    CASE pc[c] = "run" -> "running"
      [] pc[c] = "remove" -> "produced"
      [] Retired(c) -> "retired"
      [] pc[c] = "dropped" -> "dropped"
      [] OTHER -> "none"

Promise == INSTANCE CoalescedPromise WITH
    run <- [c \in Calls |-> RunOf(c)],
    stale <- over,
    answer <- result

\* Whatever the interleaving of lookups, insertions, removals of each other's
\* entries and dropped futures, a caller gets the value of a run of its own id
\* that was still registered when it called: nobody is handed a stale value or
\* the value of another id (service.rs, execute and wait_for).
KeepsPromise == Promise!Spec

\* Every entry of `watchers` and of `queue` belongs to a call that will still
\* come to remove it, or to a call whose future was dropped.  Racing calls of
\* one id overwrite and remove each other's entries; they must never leave one
\* behind, since it would hold a slot of max_concurrent for ever.
EntriesAccounted ==
    \A i \in Ids :
        /\ watchers[i] # None =>
              /\ id[watchers[i]] = i
              /\ pc[watchers[i]] \in {"run", "remove", "dropped"}
        /\ owner[i] # None =>
              /\ id[owner[i]] = i
              /\ pc[owner[i]] \in {"poll", "head", "dequeue", "dropped"}

\* What a call holds follows from how far it has come ...
Phases ==
    \A c \in Calls :
        /\ pc[c] = "idle" => id[c] = None /\ result[c] = None
        /\ pc[c] # "idle" => id[c] \in Ids
        /\ pc[c] \in Waiting \cup {"dropped"} => result[c] = None
        /\ pc[c] = "publish" => result[c] = c

\* ... and so does the state of the channels it sends on.
Channels ==
    \A c \in Calls :
        /\ runChannel[c] = "closed" \/ turnChannel[c] = "closed" => pc[c] = "dropped"
        /\ runChannel[c] = "sent" => pc[c] \in {"remove", "dropped"} \/ Retired(c)
        /\ turnChannel[c] = "sent" => pc[c] = "done" /\ result[c] = c

\* A receiver held by a waiting call listens to another call with its id, one
\* whose run had not been cleaned up when the waiting call was made.
Receivers ==
    \A c \in Calls :
        pc[c] = "wait" =>
            /\ waitsOn[c] \in Receiver
            /\ waitsOn[c][2] # c
            /\ id[waitsOn[c][2]] = id[c]
            /\ waitsOn[c][2] \notin over[c]

\* The inductive invariant.
IInv ==
    /\ TypeOK
    /\ EntriesAccounted
    /\ Phases
    /\ Channels
    /\ Receivers
    /\ \A c \in Calls : \A d \in over[c] : Retired(d)

\* A call whose place in the queue another call of the same id has taken or
\* used up: both found no entry, both inserted, one entry was left.
Displaced(c) == pc[c] \in {"poll", "head"} /\ owner[id[c]] # c

Finished(c) == pc[c] \in {"done", "dropped"}

\* A call that coalesced onto a running action returns, even when the call
\* that runs it is dropped in the middle.
WaiterAnswered ==
    \A c \in Calls :
        (pc[c] = "wait" /\ waitsOn[c] # None /\ waitsOn[c][1] = "run") ~> Finished(c)

\* While no future is dropped, every call returns: the queue hands out every
\* turn although turns are taken by polling three locks one after another.
\* The exception is a call displaced in the queue by a call of its own id,
\* and those that wait for it.
EveryCallServed ==
    \A c \in Calls :
        (pc[c] # "idle") ~>
            \/ Finished(c)
            \/ Displaced(c)
            \/ pc[c] = "wait" /\ Displaced(waitsOn[c][2])
            \/ \E d \in Calls : pc[d] = "dropped"

\* error.rs documents MaxQueue as "Reached the `max_queue` amount of actions in
\* the queue": a call is refused with it only when that many are queued.
MaxQueueMeansFull ==
    [][\A c \in Calls :
          result[c] # "MaxQueue" /\ result'[c] = "MaxQueue" => Len(order) >= MaxQueue]_vars
=============================================================================
