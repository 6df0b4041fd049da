------------------------------ MODULE Unreads ------------------------------
(***************************************************************************)
(* What the server remembers a user has read in a channel.  Requests put   *)
(* acknowledgements and messages with mentions into a bounded queue that   *)
(* several workers share.  Each worker collects what it takes, one task    *)
(* per user and one per channel, and writes a task to the database once it *)
(* is due; another queue with workers of its own does the same for the     *)
(* last message of the channel.  "Mark server as read" writes at once.     *)
(*                                                                         *)
(* One channel; a message is the number of its ULID.  When a task is due   *)
(* is left open: its delays (DelayedTask) are not covered, nor are pushes  *)
(* and mass mentions, which go to pushd.                                   *)
(***************************************************************************)
EXTENDS Naturals, Sequences, FiniteSets

CONSTANTS
    Users,
    Workers,
    None,
    QueueSize,     \* capacity of a queue
    MaxMessages,   \* bound on the messages sent
    MaxAcks,       \* bound on the acknowledgements asked for
    MaxFaults      \* bound on crashes and failed writes

Messages == 1 .. MaxMessages
Ids == 0 .. MaxMessages

Document == [last : Ids, mentions : SUBSET Messages]

Clearance == [time : Ids, deleted : BOOLEAN]

ASSUME UnreadsAssumption ==
    /\ IsFiniteSet(Users)
    /\ IsFiniteSet(Workers) /\ Workers # {}
    /\ QueueSize \in Nat \ {0}
    /\ MaxMessages \in Nat /\ MaxAcks \in Nat /\ MaxFaults \in Nat
    /\ None \notin Document \cup Clearance

VARIABLES
    stage,        \* how far the request has come that sends a message
    mentioned,    \* whom a message mentions
    queue,        \* acknowledgements and messages to be taken by a worker
    acks,         \* acks[w][u]: worker w will acknowledge this message for u; 0: no task
    batch,        \* batch[w]: messages whose mentions worker w will record
    doing,        \* doing[w]: the messages w is recording the mentions of
    left,         \* left[w]: the users it has not done yet
    unread,       \* unread[u]: what u has read and is mentioned in, in the database
    clearing,     \* clearing[u]: how far "mark server as read" has come for u
    lastQueue,    \* messages to be taken as the last of the channel
    lastTask,     \* lastTask[w]: worker w will write this message; 0: no task
    lastMessage,  \* the last message of the channel, in the database
    asked,        \* how many acknowledgements were asked for
    faults,
    read,         \* history: what u has acknowledged last
    top,          \* history: the latest message u has ever acknowledged
    overtaken,    \* history: mentions acknowledged before they were recorded
    lost,         \* history: mentions that a fault, a full queue or a clearing has lost
    unsure,       \* history: users of whom an acknowledgement was lost, or two met
    lastUnsure    \* history: the same of the last message

requests == <<stage, mentioned, queue, clearing, asked>>
working == <<acks, batch, doing, left>>
lastVars == <<lastQueue, lastTask, lastMessage, lastUnsure>>
marks == <<read, top, overtaken, lost, unsure>>
vars == <<requests, working, unread, lastVars, faults, marks>>

Data == [user : Users, id : Ids] \cup [message : Messages]

TypeOK ==
    /\ stage \in [Messages -> {"new", "begun", "inserted", "sent", "failed"}]
    /\ mentioned \in [Messages -> SUBSET Users]
    /\ queue \in Seq(Data) /\ Len(queue) <= QueueSize
    /\ acks \in [Workers -> [Users -> Ids]]
    /\ batch \in [Workers -> SUBSET Messages]
    /\ doing \in [Workers -> SUBSET Messages]
    /\ left \in [Workers -> SUBSET Users]
    /\ unread \in [Users -> {None} \cup Document]
    /\ clearing \in [Users -> {None} \cup Clearance]
    /\ lastQueue \in Seq(Messages) /\ Len(lastQueue) <= QueueSize
    /\ lastTask \in [Workers -> Ids]
    /\ lastMessage \in Ids
    /\ asked \in 0 .. MaxAcks
    /\ faults \in 0 .. MaxFaults
    /\ read \in [Users -> Ids]
    /\ top \in [Users -> Ids]
    /\ overtaken \in SUBSET (Messages \X Users)
    /\ lost \in SUBSET (Messages \X Users)
    /\ unsure \in SUBSET Users
    /\ lastUnsure \in BOOLEAN

Init ==
    /\ stage = [m \in Messages |-> "new"]
    /\ mentioned = [m \in Messages |-> {}]
    /\ queue = <<>>
    /\ acks = [w \in Workers |-> [u \in Users |-> 0]]
    /\ batch = [w \in Workers |-> {}]
    /\ doing = [w \in Workers |-> {}]
    /\ left = [w \in Workers |-> {}]
    /\ unread = [u \in Users |-> None]
    /\ clearing = [u \in Users |-> None]
    /\ lastQueue = <<>>
    /\ lastTask = [w \in Workers |-> 0]
    /\ lastMessage = 0
    /\ asked = 0
    /\ faults = 0
    /\ read = [u \in Users |-> 0]
    /\ top = [u \in Users |-> 0]
    /\ overtaken = {}
    /\ lost = {}
    /\ unsure = {}
    /\ lastUnsure = FALSE

-----------------------------------------------------------------------------
(* What is under way *)

Begun == {m \in Messages : stage[m] # "new"}

IsAck(data) == "user" \in DOMAIN data

\* Message m mentions u, and it is not yet on record.
Unrecorded(m, u) ==
    /\ u \in mentioned[m]
    /\ \/ stage[m] \in {"begun", "inserted"}
       \/ \E i \in DOMAIN queue : ~IsAck(queue[i]) /\ queue[i].message = m
       \/ \E w \in Workers : m \in batch[w] \/ (m \in doing[w] /\ u \in left[w])

\* An acknowledgement of u waits to be written.
AckPending(u) ==
    \/ \E i \in DOMAIN queue : IsAck(queue[i]) /\ queue[i].user = u
    \/ \E w \in Workers : acks[w][u] # 0

-----------------------------------------------------------------------------
(* Requests: sending a message *)

\* Mutant: the time of a clearing is later than the next message.
NowNext == Cardinality(Begun) + 1

\* The time, as an id: after all messages so far.
Now == Cardinality(Begun)

SendMessage ==
    LET m == Cardinality(Begun) + 1
    IN
    /\ m \in Messages
    /\ \E users \in SUBSET Users : mentioned' = [mentioned EXCEPT ![m] = users]
    /\ stage' = [stage EXCEPT ![m] = "begun"]
    /\ UNCHANGED <<queue, clearing, asked, working, unread, lastVars, faults, marks>>

\* The message is inserted and published, and queued as the last of the channel.
InsertMessage(m) ==
    LET full == Len(lastQueue) = QueueSize
        later == \E k \in Messages : k > m /\ stage[k] \notin {"new", "begun"}
    IN
    /\ stage[m] = "begun"
    /\ stage' = [stage EXCEPT ![m] = "inserted"]
    /\ lastQueue' = IF full THEN lastQueue ELSE Append(lastQueue, m)
    /\ lastUnsure' = (lastUnsure \/ full \/ later)
    /\ UNCHANGED <<mentioned, queue, clearing, asked, working, unread, lastTask, lastMessage,
                   faults, marks>>

\* queue_message: without mentions there is nothing to queue.
QueueMessage(m) ==
    LET full == Len(queue) = QueueSize
    IN
    /\ stage[m] = "inserted"
    /\ stage' = [stage EXCEPT ![m] = "sent"]
    /\ queue' = IF full \/ mentioned[m] = {} THEN queue ELSE Append(queue, [message |-> m])
    /\ lost' = IF full THEN lost \cup {m} \X mentioned[m] ELSE lost
    /\ UNCHANGED <<mentioned, clearing, asked, working, unread, lastVars, faults, read, top,
                   overtaken, unsure>>

-----------------------------------------------------------------------------
(* Requests: reading *)

\* User u has read up to id, while other acknowledgements of his were under way or not.
Asked(u, id, meets) ==
    /\ asked < MaxAcks
    /\ asked' = asked + 1
    /\ read' = [read EXCEPT ![u] = id]
    /\ top' = [top EXCEPT ![u] = IF id > @ THEN id ELSE @]
    /\ overtaken' = overtaken \cup {<<m, u>> : m \in {k \in Messages : k <= id /\ Unrecorded(k, u)}}
    /\ unsure' = IF meets THEN unsure \cup {u} ELSE unsure
    /\ UNCHANGED lost

\* Any message can be acknowledged, also an earlier one, to mark what follows as unread.
Ack(u, m) ==
    LET full == Len(queue) = QueueSize
    IN
    /\ stage[m] \in {"inserted", "sent"}
    /\ Asked(u, m, full \/ clearing[u] # None)
    /\ queue' = IF full THEN queue ELSE Append(queue, [user |-> u, id |-> m])
    /\ UNCHANGED <<stage, mentioned, clearing, working, unread, lastVars, faults>>

\* "Mark server as read": acknowledge_channels takes the time, deletes and inserts.
AckServer(u) ==
    /\ clearing[u] = None
    /\ Asked(u, Now, AckPending(u))
    /\ clearing' = [clearing EXCEPT ![u] = [time |-> Now, deleted |-> FALSE]]
    /\ UNCHANGED <<stage, mentioned, queue, working, unread, lastVars, faults>>

DeleteUnread(u) ==
    /\ clearing[u] # None
    /\ ~clearing[u].deleted
    /\ clearing' = [clearing EXCEPT ![u].deleted = TRUE]
    /\ unread' = [unread EXCEPT ![u] = None]
    /\ lost' = lost \cup
         {<<m, u>> : m \in {k \in Messages : unread[u] # None /\ k \in unread[u].mentions
                                             /\ k > clearing[u].time}}
    /\ UNCHANGED <<stage, mentioned, queue, asked, working, lastVars, faults, read, top,
                   overtaken, unsure>>

\* The insertion fails if a worker has made a document meanwhile.
InsertUnread(u) ==
    /\ clearing[u] # None
    /\ clearing[u].deleted
    /\ clearing' = [clearing EXCEPT ![u] = None]
    /\ unread' = [unread EXCEPT ![u] =
                    IF @ = None THEN [last |-> clearing[u].time, mentions |-> {}] ELSE @]
    /\ unsure' = IF unread[u] = None THEN unsure ELSE unsure \cup {u}
    /\ UNCHANGED <<stage, mentioned, queue, asked, working, lastVars, faults, read, top,
                   overtaken, lost>>

-----------------------------------------------------------------------------
(* Workers of tasks/ack.rs *)

Free(w) == doing[w] = {}

\* Mutant: an acknowledgement that the worker has for the same user is kept.
TakenAckFirst(old, id) == IF old = 0 THEN id ELSE old

\* An acknowledgement replaces the one the worker has for the same user.
TakenAck(old, id) == id

\* Two workers with acknowledgements of one user may write them in any order.
TakeAck(w) ==
    LET data == Head(queue)
    IN
    /\ Free(w)
    /\ queue # <<>>
    /\ IsAck(data)
    /\ queue' = Tail(queue)
    /\ acks' = [acks EXCEPT ![w][data.user] = TakenAck(@, data.id)]
    /\ unsure' = IF \E v \in Workers \ {w} : acks[v][data.user] # 0
                 THEN unsure \cup {data.user} ELSE unsure
    /\ UNCHANGED <<stage, mentioned, clearing, asked, batch, doing, left, unread, lastVars,
                   faults, read, top, overtaken, lost>>

TakeMessage(w) ==
    LET data == Head(queue)
    IN
    /\ Free(w)
    /\ queue # <<>>
    /\ ~IsAck(data)
    /\ queue' = Tail(queue)
    /\ batch' = [batch EXCEPT ![w] = @ \cup {data.message}]
    /\ UNCHANGED <<stage, mentioned, clearing, asked, acks, doing, left, unread, lastVars,
                   faults, marks>>

\* Mutant: all mentions go, the later ones too.
AcknowledgedAll(doc, id) == [last |-> id, mentions |-> {}]

\* acknowledge_message: what u has read is set, be it earlier, and the mentions up to it go.
Acknowledged(doc, id) ==
    [last |-> id,
     mentions |-> IF doc = None THEN {} ELSE {m \in doc.mentions : m > id}]

AckMessage(w, u) ==
    LET id == acks[w][u]
    IN
    /\ Free(w)
    /\ id # 0
    /\ acks' = [acks EXCEPT ![w][u] = 0]
    /\ unread' = [unread EXCEPT ![u] = Acknowledged(@, id)]
    /\ UNCHANGED <<requests, batch, doing, left, lastVars, faults, marks>>

ProcessMessage(w) ==
    /\ Free(w)
    /\ batch[w] # {}
    /\ doing' = [doing EXCEPT ![w] = batch[w]]
    /\ left' = [left EXCEPT ![w] = UNION {mentioned[m] : m \in batch[w]}]
    /\ batch' = [batch EXCEPT ![w] = {}]
    /\ UNCHANGED <<requests, acks, unread, lastVars, faults, marks>>

\* add_mention_to_unread: the document is made if there is none.
WithMentions(doc, ids) ==
    IF doc = None THEN [last |-> 0, mentions |-> ids]
    ELSE [doc EXCEPT !.mentions = @ \cup ids]

\* Users come in any order.
AddMention(w, u) ==
    LET ids == {m \in doing[w] : u \in mentioned[m]}
    IN
    /\ u \in left[w]
    /\ left' = [left EXCEPT ![w] = @ \ {u}]
    /\ doing' = IF left[w] = {u} THEN [doing EXCEPT ![w] = {}] ELSE doing
    /\ unread' = [unread EXCEPT ![u] = WithMentions(@, ids)]
    /\ UNCHANGED <<requests, acks, batch, lastVars, faults, marks>>

Fault == faults < MaxFaults /\ faults' = faults + 1

AckFails(w, u) ==
    /\ Fault
    /\ Free(w)
    /\ acks[w][u] # 0
    /\ acks' = [acks EXCEPT ![w][u] = 0]
    /\ unsure' = unsure \cup {u}
    /\ UNCHANGED <<requests, batch, doing, left, unread, lastVars, read, top, overtaken, lost>>

\* An error ends the loop over the users.
AddMentionFails(w) ==
    /\ Fault
    /\ doing[w] # {}
    /\ doing' = [doing EXCEPT ![w] = {}]
    /\ left' = [left EXCEPT ![w] = {}]
    /\ lost' = lost \cup {p \in doing[w] \X left[w] : p[2] \in mentioned[p[1]]}
    /\ UNCHANGED <<requests, acks, batch, unread, lastVars, read, top, overtaken, unsure>>

-----------------------------------------------------------------------------
(* Workers of tasks/last_message_id.rs *)

TakeLast(w) ==
    /\ lastQueue # <<>>
    /\ lastQueue' = Tail(lastQueue)
    /\ lastTask' = [lastTask EXCEPT ![w] = Head(lastQueue)]
    /\ lastUnsure' = (lastUnsure \/ \E v \in Workers \ {w} : lastTask[v] # 0)
    /\ UNCHANGED <<requests, working, unread, lastMessage, faults, marks>>

WriteLast(w) ==
    /\ lastTask[w] # 0
    /\ lastMessage' = lastTask[w]
    /\ lastTask' = [lastTask EXCEPT ![w] = 0]
    /\ UNCHANGED <<requests, working, unread, lastQueue, lastUnsure, faults, marks>>

WriteLastFails(w) ==
    /\ Fault
    /\ lastTask[w] # 0
    /\ lastTask' = [lastTask EXCEPT ![w] = 0]
    /\ lastUnsure' = TRUE
    /\ UNCHANGED <<requests, working, unread, lastQueue, lastMessage, marks>>

-----------------------------------------------------------------------------
(* The process of the API, whose requests and workers these are, dies. *)

Crash ==
    /\ Fault
    /\ stage' = [m \in Messages |-> CASE stage[m] = "begun" -> "failed"
                                      [] stage[m] = "inserted" -> "sent"
                                      [] OTHER -> stage[m]]
    /\ queue' = <<>>
    /\ acks' = [w \in Workers |-> [u \in Users |-> 0]]
    /\ batch' = [w \in Workers |-> {}]
    /\ doing' = [w \in Workers |-> {}]
    /\ left' = [w \in Workers |-> {}]
    /\ clearing' = [u \in Users |-> None]
    /\ lastQueue' = <<>>
    /\ lastTask' = [w \in Workers |-> 0]
    /\ lost' = lost \cup {p \in Messages \X Users : Unrecorded(p[1], p[2])}
    /\ unsure' = unsure \cup {u \in Users : AckPending(u) \/ clearing[u] # None}
    /\ lastUnsure' = (lastUnsure \/ lastQueue # <<>> \/ \E w \in Workers : lastTask[w] # 0)
    /\ UNCHANGED <<mentioned, unread, lastMessage, asked, read, top, overtaken>>

-----------------------------------------------------------------------------
Sending(m) == InsertMessage(m) \/ QueueMessage(m)

Clearing(u) == DeleteUnread(u) \/ InsertUnread(u)

AckWorker(w) ==
    \/ TakeAck(w) \/ TakeMessage(w) \/ ProcessMessage(w)
    \/ \E u \in Users : AckMessage(w, u) \/ AddMention(w, u)

LastWorker(w) == TakeLast(w) \/ WriteLast(w)

Next ==
    \/ SendMessage
    \/ \E m \in Messages : Sending(m)
    \/ \E u \in Users :
          \/ \E m \in Messages : Ack(u, m)
          \/ AckServer(u) \/ Clearing(u)
    \/ \E w \in Workers :
          \/ AckWorker(w) \/ LastWorker(w)
          \/ \E u \in Users : AckFails(w, u)
          \/ AddMentionFails(w) \/ WriteLastFails(w)
    \/ Crash

Spec == Init /\ [][Next]_vars

-----------------------------------------------------------------------------
(* Properties *)

Quiet ==
    /\ \A m \in Messages : stage[m] \notin {"begun", "inserted"}
    /\ queue = <<>> /\ lastQueue = <<>>
    /\ \A w \in Workers : batch[w] = {} /\ doing[w] = {} /\ lastTask[w] = 0
    /\ \A u \in Users : clearing[u] = None /\ \A w \in Workers : acks[w][u] = 0

\* Once nothing is under way, what a user has acknowledged last is on record as read, and
\* no mention up to it is left, however the acknowledgements were queued and merged.  The
\* exceptions are acknowledgements that two workers, or a worker and "mark server as read",
\* had in hand at once, or that were lost, and mentions acknowledged before they were
\* recorded.
ReadStaysRead ==
    Quiet =>
        \A u \in Users \ unsure :
            /\ read[u] = (IF unread[u] = None THEN 0 ELSE unread[u].last)
            /\ unread[u] # None =>
                  \A m \in unread[u].mentions : m > read[u] \/ <<m, u>> \in overtaken

\* Once nothing is under way, every mention later than all that the user has acknowledged
\* is on record, whatever workers, acknowledgements and clearings have met on the way, and
\* the last message of the channel is the last one sent.  The exceptions are what a fault
\* or a full queue has dropped, a mention recorded during "mark server as read", and, of
\* the last message, messages that two workers had in hand at once or that were inserted
\* out of order.
UnreadIsKept ==
    Quiet =>
        /\ \A u \in Users, m \in Messages :
              stage[m] = "sent" /\ u \in mentioned[m] /\ m > top[u] /\ <<m, u>> \notin lost =>
                  unread[u] # None /\ m \in unread[u].mentions
        /\ ~lastUnsure => \A m \in Messages : stage[m] = "sent" => m <= lastMessage

-----------------------------------------------------------------------------
(* Inductive invariant *)

\* Messages are begun in their order, and read once they are begun.
Numbered ==
    \E n \in Ids :
        /\ Begun = 1 .. n
        /\ \A u \in Users : read[u] <= n

\* Whatever is still to be acknowledged was asked for.
UpToTop ==
    /\ \A i \in DOMAIN queue :
          IsAck(queue[i]) => queue[i].id # 0 /\ queue[i].id <= top[queue[i].user]
    /\ \A u \in Users, w \in Workers : acks[w][u] <= top[u]
    /\ \A u \in Users : clearing[u] # None => clearing[u].time <= top[u]

Recorded(m, u) == unread[u] # None /\ m \in unread[u].mentions

\* A mention is on its way to the database, or there, or given up.
MentionsKept ==
    \A u \in Users, m \in Messages :
        stage[m] \in {"begun", "inserted", "sent"} /\ u \in mentioned[m] /\ m > top[u]
        /\ <<m, u>> \notin lost => Unrecorded(m, u) \/ Recorded(m, u)

\* A mention that is acknowledged before it is on record is known as such.
Overtaken ==
    \A u \in Users, m \in Messages : Unrecorded(m, u) /\ m <= read[u] => <<m, u>> \in overtaken

Stored == {m \in Messages : stage[m] \notin {"new", "begun"}}

\* The last messages that are still to be written follow one another.
LastInOrder ==
    ~lastUnsure =>
        /\ \A i \in DOMAIN lastQueue :
              /\ lastQueue[i] \in Stored
              /\ lastMessage <= lastQueue[i]
              /\ \A w \in Workers : lastTask[w] <= lastQueue[i]
              /\ \A j \in DOMAIN lastQueue : i < j => lastQueue[i] <= lastQueue[j]
        /\ \A w \in Workers : lastTask[w] # 0 =>
              /\ lastTask[w] \in Stored
              /\ lastMessage <= lastTask[w]
              /\ \A v \in Workers \ {w} : lastTask[v] = 0
        /\ lastMessage # 0 => lastMessage \in Stored

LastKept ==
    ~lastUnsure =>
        \A m \in Messages : stage[m] \in {"inserted", "sent"} =>
            \/ m <= lastMessage
            \/ \E w \in Workers : m <= lastTask[w]
            \/ \E i \in DOMAIN lastQueue : m <= lastQueue[i]

AckOf(i, u) == IsAck(queue[i]) /\ queue[i].user = u

\* The record agrees with what u has read.
Done(u) ==
    /\ read[u] = (IF unread[u] = None THEN 0 ELSE unread[u].last)
    /\ unread[u] # None =>
          \A m \in unread[u].mentions : m > read[u] \/ <<m, u>> \in overtaken

\* The latest acknowledgement of u is the last to be written, and what u has read.
AcksInOrder ==
    \A u \in Users \ unsure :
        /\ clearing[u] # None => clearing[u].time = read[u] /\ ~AckPending(u)
        /\ \A w \in Workers : acks[w][u] # 0 => \A v \in Workers \ {w} : acks[v][u] = 0
        /\ \A i \in DOMAIN queue :
              AckOf(i, u) /\ (\A j \in DOMAIN queue : j > i => ~AckOf(j, u)) =>
                  queue[i].id = read[u]
        /\ (\A i \in DOMAIN queue : ~AckOf(i, u)) =>
              \A w \in Workers : acks[w][u] # 0 => acks[w][u] = read[u]
        /\ ~AckPending(u) /\ clearing[u] = None => Done(u)

IInv ==
    /\ TypeOK /\ Numbered /\ UpToTop /\ MentionsKept /\ Overtaken
    /\ LastInOrder /\ LastKept /\ AcksInOrder

=============================================================================
