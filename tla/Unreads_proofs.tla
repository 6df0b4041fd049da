------------------------- MODULE Unreads_proofs -------------------------
(***************************************************************************)
(* Proofs about Unreads, for any users, workers, size of the queues, and   *)
(* number of messages, acknowledgements and faults.                        *)
(***************************************************************************)
EXTENDS Unreads, FiniteSetTheorems, TLAPS

\* What the queue of acknowledgements and messages holds.
LEMMA DataFacts ==
    /\ \A d \in Data : IsAck(d) => d.user \in Users /\ d.id \in Ids
    /\ \A d \in Data : ~IsAck(d) => d.message \in Messages
    /\ \A x \in Users, k \in Ids :
          /\ [user |-> x, id |-> k] \in Data
          /\ IsAck([user |-> x, id |-> k])
    /\ \A k \in Messages : [message |-> k] \in Data /\ ~IsAck([message |-> k])
BY DEF Data, IsAck

\* What is in a queue after something is added, or the first is taken away.
LEMMA Added ==
    ASSUME NEW D, NEW q \in Seq(D), NEW x \in D
    PROVE  /\ Append(q, x) \in Seq(D)
           /\ Len(q) \in Nat /\ Len(Append(q, x)) = Len(q) + 1
           /\ DOMAIN q = 1 .. Len(q) /\ DOMAIN Append(q, x) = 1 .. (Len(q) + 1)
           /\ \A i \in DOMAIN q : Append(q, x)[i] = q[i]
           /\ Append(q, x)[Len(q) + 1] = x
OBVIOUS

LEMMA Removed ==
    ASSUME NEW D, NEW q \in Seq(D), q # <<>>
    PROVE  /\ Tail(q) \in Seq(D) /\ Head(q) \in D /\ Head(q) = q[1] /\ 1 \in DOMAIN q
           /\ Len(q) \in Nat /\ Len(Tail(q)) = Len(q) - 1
           /\ DOMAIN q = 1 .. Len(q) /\ DOMAIN Tail(q) = 1 .. (Len(q) - 1)
           /\ \A i \in DOMAIN Tail(q) : i + 1 \in DOMAIN q /\ Tail(q)[i] = q[i + 1]
           /\ \A i \in DOMAIN q : i # 1 => i - 1 \in DOMAIN Tail(q)
                 /\ Tail(q)[i - 1] = q[i]
OBVIOUS

\* The time is the number of the latest message.
LEMMA NowIs ==
    ASSUME Numbered
    PROVE  Now \in Ids /\ Begun = 1 .. Now /\ \A u \in Users : read[u] <= Now
<1>1. PICK n \in Ids : Begun = 1 .. n /\ \A u \in Users : read[u] <= n
  BY DEF Numbered
<1>2. n \in Nat /\ n \in Int /\ 1 \in Int
  BY <1>1, UnreadsAssumption DEF Ids
<1>3. Cardinality(1 .. n) = IF 1 > n THEN 0 ELSE n - 1 + 1
  BY <1>2, FS_Interval
<1>4. Cardinality(1 .. n) = n
  BY <1>2, <1>3
<1> QED
  BY <1>1, <1>4 DEF Now

LEMMA InitInv == Init => IInv
<1> SUFFICES ASSUME Init PROVE IInv
  OBVIOUS
<1> USE UnreadsAssumption
<1>1. TypeOK
  <2>1. 0 \in Ids /\ 0 \in 0 .. MaxAcks /\ 0 \in 0 .. MaxFaults
    BY DEF Ids
  <2>2. /\ queue \in Seq(Data) /\ Len(queue) <= QueueSize
        /\ lastQueue \in Seq(Messages) /\ Len(lastQueue) <= QueueSize
    BY DEF Init
  <2>3. /\ stage \in [Messages -> {"new", "begun", "inserted", "sent", "failed"}]
        /\ mentioned \in [Messages -> SUBSET Users]
        /\ unread \in [Users -> {None} \cup Document]
        /\ clearing \in [Users -> {None} \cup Clearance]
        /\ read \in [Users -> Ids] /\ top \in [Users -> Ids]
    BY <2>1 DEF Init
  <2>4. /\ acks \in [Workers -> [Users -> Ids]] /\ lastTask \in [Workers -> Ids]
        /\ batch \in [Workers -> SUBSET Messages]
              /\ doing \in [Workers -> SUBSET Messages]
        /\ left \in [Workers -> SUBSET Users]
    BY <2>1 DEF Init
  <2>5. /\ lastMessage \in Ids /\ asked \in 0 .. MaxAcks /\ faults \in 0 .. MaxFaults
        /\ overtaken \in SUBSET (Messages \X Users) /\ lost \in SUBSET (Messages \X Users)
        /\ unsure \in SUBSET Users /\ lastUnsure \in BOOLEAN
    BY <2>1 DEF Init
  <2> QED
    BY <2>2, <2>3, <2>4, <2>5 DEF TypeOK
<1>2. Numbered
  <2>1. 0 \in Ids /\ Begun = 1 .. 0 /\ \A u \in Users : read[u] <= 0
    BY DEF Init, Begun, Ids
  <2> QED
    BY <2>1 DEF Numbered
<1>3. UpToTop
  BY DEF Init, UpToTop
<1>4. MentionsKept
  BY DEF Init, MentionsKept
<1>5. Overtaken
  BY DEF Init, Overtaken, Unrecorded
<1>6. LastInOrder
  BY DEF Init, LastInOrder
<1>7. LastKept
  BY DEF Init, LastKept
<1>8. AcksInOrder
  BY DEF Init, AcksInOrder, Done, AckPending
<1> QED
  BY <1>1, <1>2, <1>3, <1>4, <1>5, <1>6, <1>7, <1>8 DEF IInv

\* Every step keeps the types.
LEMMA TypeStep == TypeOK /\ Numbered /\ [Next]_vars => TypeOK'
<1> SUFFICES ASSUME TypeOK, Numbered, [Next]_vars PROVE TypeOK'
  OBVIOUS
<1> USE UnreadsAssumption
<1>a. queue \in Seq(Data) /\ lastQueue \in Seq(Messages)
  BY DEF TypeOK
<1>b. Now \in Ids
  BY NowIs
<1>c. ASSUME NEW u \in Users, NEW id \in Ids, NEW meets, Asked(u, id, meets)
      PROVE  /\ asked' \in 0 .. MaxAcks
             /\ read' \in [Users -> Ids] /\ top' \in [Users -> Ids]
             /\ overtaken' \in SUBSET (Messages \X Users)
             /\ unsure' \in SUBSET Users /\ lost' \in SUBSET (Messages \X Users)
  <2>1. asked' \in 0 .. MaxAcks
    BY <1>c DEF Asked, TypeOK
  <2>2. read' \in [Users -> Ids] /\ top' \in [Users -> Ids]
    BY <1>c DEF Asked, TypeOK
  <2>3. overtaken' \in SUBSET (Messages \X Users)
    BY <1>c DEF Asked, TypeOK
  <2>4. unsure' \in SUBSET Users /\ lost' \in SUBSET (Messages \X Users)
    BY <1>c DEF Asked, TypeOK
  <2> QED
    BY <2>1, <2>2, <2>3, <2>4
<1>d. Fault => faults' \in 0 .. MaxFaults
  BY DEF Fault, TypeOK
<1>1. CASE SendMessage
  BY <1>1 DEF SendMessage, requests, working, lastVars, marks, TypeOK
<1>2. ASSUME NEW m \in Messages, InsertMessage(m) PROVE TypeOK'
  <2>1. lastQueue' \in Seq(Messages) /\ Len(lastQueue') <= QueueSize
    <3>1. CASE Len(lastQueue) = QueueSize
      BY <1>2, <3>1 DEF InsertMessage, TypeOK
    <3>2. CASE Len(lastQueue) # QueueSize
      <4>1. lastQueue' = Append(lastQueue, m)
        BY <1>2, <3>2 DEF InsertMessage
      <4>2. Len(lastQueue) <= QueueSize
        BY DEF TypeOK
      <4>3. Append(lastQueue, m) \in Seq(Messages)
               /\ Len(Append(lastQueue, m)) = Len(lastQueue) + 1
            /\ Len(lastQueue) \in Nat
        BY <1>a, Added
      <4> QED
        BY <3>2, <4>1, <4>2, <4>3
    <3> QED
      BY <3>1, <3>2
  <2>2. lastUnsure' \in BOOLEAN
    BY <1>2 DEF InsertMessage, TypeOK
  <2> QED
    BY <1>2, <2>1, <2>2 DEF InsertMessage, requests, working, lastVars, marks,
           TypeOK
<1>3. ASSUME NEW m \in Messages, QueueMessage(m) PROVE TypeOK'
  <2>1. [message |-> m] \in Data
    BY DataFacts
  <2>2. queue' \in Seq(Data) /\ Len(queue') <= QueueSize
    <3>1. Len(queue) \in Nat /\ Len(queue) <= QueueSize
      BY <1>a DEF TypeOK
    <3>2. queue' = queue \/ (Len(queue) # QueueSize
             /\ queue' = Append(queue, [message |-> m]))
      BY <1>3 DEF QueueMessage
    <3>3. Append(queue, [message |-> m]) \in Seq(Data)
          /\ Len(Append(queue, [message |-> m])) = Len(queue) + 1
      BY <1>a, <2>1, Added
    <3> QED
      BY <1>a, <3>1, <3>2, <3>3
  <2>3. lost' \in SUBSET (Messages \X Users)
    BY <1>3 DEF QueueMessage, TypeOK
  <2> QED
    BY <1>3, <2>2, <2>3 DEF QueueMessage, requests, working, lastVars, marks, TypeOK
<1>4. ASSUME NEW u \in Users, NEW m \in Messages, Ack(u, m) PROVE TypeOK'
  <2>1. [user |-> u, id |-> m] \in Data
    BY DataFacts DEF Ids, Messages
  <2>2. queue' \in Seq(Data) /\ Len(queue') <= QueueSize
    <3>1. Len(queue) \in Nat /\ Len(queue) <= QueueSize
      BY <1>a DEF TypeOK
    <3>2. queue' = queue \/ (Len(queue) # QueueSize
             /\ queue' = Append(queue, [user |-> u, id |-> m]))
      BY <1>4 DEF Ack
    <3>3. Append(queue, [user |-> u, id |-> m]) \in Seq(Data)
          /\ Len(Append(queue, [user |-> u, id |-> m])) = Len(queue) + 1
      BY <1>a, <2>1, Added
    <3> QED
      BY <1>a, <3>1, <3>2, <3>3
  <2>3. m \in Ids /\ Asked(u, m, Len(queue) = QueueSize \/ clearing[u] # None)
    BY <1>4 DEF Ack, Ids, Messages
  <2>4. /\ asked' \in 0 .. MaxAcks
        /\ read' \in [Users -> Ids] /\ top' \in [Users -> Ids]
        /\ overtaken' \in SUBSET (Messages \X Users)
        /\ unsure' \in SUBSET Users /\ lost' \in SUBSET (Messages \X Users)
    BY <1>c, <2>3
  <2> QED
    BY <1>4, <2>2, <2>4 DEF Ack, requests, working, lastVars, marks, TypeOK
<1>5. ASSUME NEW u \in Users, AckServer(u) PROVE TypeOK'
  <2>1. /\ asked' \in 0 .. MaxAcks
        /\ read' \in [Users -> Ids] /\ top' \in [Users -> Ids]
        /\ overtaken' \in SUBSET (Messages \X Users)
        /\ unsure' \in SUBSET Users /\ lost' \in SUBSET (Messages \X Users)
    BY <1>5, <1>b, <1>c DEF AckServer
  <2>2. [time |-> Now, deleted |-> FALSE] \in Clearance
    BY <1>b DEF Clearance
  <2>3. clearing' \in [Users -> {None} \cup Clearance]
    BY <1>5, <2>2 DEF AckServer, TypeOK
  <2> QED
    BY <1>5, <2>1, <2>3 DEF AckServer, requests, working, lastVars, marks, TypeOK
<1>6. ASSUME NEW u \in Users, DeleteUnread(u) PROVE TypeOK'
  <2>1. clearing[u] \in Clearance
    BY <1>6 DEF DeleteUnread, TypeOK
  <2>2. [clearing[u] EXCEPT !.deleted = TRUE] \in Clearance
    BY <2>1 DEF Clearance
  <2>3. clearing' = [clearing EXCEPT ![u] = [clearing[u] EXCEPT !.deleted = TRUE]]
    BY <1>6 DEF DeleteUnread
  <2>4. clearing' \in [Users -> {None} \cup Clearance]
    BY <2>2, <2>3 DEF TypeOK
  <2>5. unread' \in [Users -> {None} \cup Document]
           /\ lost' \in SUBSET (Messages \X Users)
    BY <1>6 DEF DeleteUnread, TypeOK
  <2> QED
    BY <1>6, <2>4, <2>5 DEF DeleteUnread, requests, working, lastVars, marks, TypeOK
<1>7. ASSUME NEW u \in Users, InsertUnread(u) PROVE TypeOK'
  <2>1. clearing[u] \in Clearance
    BY <1>7 DEF InsertUnread, TypeOK
  <2>2. [last |-> clearing[u].time, mentions |-> {}] \in Document
    BY <2>1 DEF Clearance, Document
  <2>3. unread' \in [Users -> {None} \cup Document]
    BY <1>7, <2>2 DEF InsertUnread, TypeOK
  <2>4. unsure' \in SUBSET Users
    BY <1>7 DEF InsertUnread, TypeOK
  <2> QED
    BY <1>7, <2>3, <2>4 DEF InsertUnread, requests, working, lastVars, marks, TypeOK
<1>8. ASSUME NEW w \in Workers, TakeAck(w) PROVE TypeOK'
  <2>1. queue # <<>> /\ IsAck(Head(queue)) /\ queue' = Tail(queue)
    BY <1>8 DEF TakeAck
  <2>2. Head(queue) \in Data /\ queue' \in Seq(Data) /\ Len(queue') <= QueueSize
    <3>1. /\ Tail(queue) \in Seq(Data) /\ Head(queue) \in Data
          /\ Len(Tail(queue)) = Len(queue) - 1 /\ Len(queue) \in Nat
      BY <1>a, <2>1, Removed
    <3> QED
      BY <2>1, <3>1 DEF TypeOK
  <2> DEFINE d == Head(queue)
  <2>3. d.user \in Users /\ d.id \in Ids
    BY <2>1, <2>2, DataFacts
  <2>4. acks' = [acks EXCEPT ![w][d.user] = d.id]
    BY <1>8 DEF TakeAck, TakenAck
  <2> HIDE DEF d
  <2>5. acks' \in [Workers -> [Users -> Ids]]
    BY <2>3, <2>4 DEF TypeOK
  <2>6. unsure' \in SUBSET Users
    BY <1>8, <2>3 DEF TakeAck, TypeOK, d
  <2> QED
    BY <1>8, <2>2, <2>5, <2>6 DEF TakeAck, requests, working, lastVars, marks,
           TypeOK
<1>9. ASSUME NEW w \in Workers, TakeMessage(w) PROVE TypeOK'
  <2>1. queue # <<>> /\ ~IsAck(Head(queue)) /\ queue' = Tail(queue)
    BY <1>9 DEF TakeMessage
  <2>2. Head(queue) \in Data /\ queue' \in Seq(Data) /\ Len(queue') <= QueueSize
    <3>1. /\ Tail(queue) \in Seq(Data) /\ Head(queue) \in Data
          /\ Len(Tail(queue)) = Len(queue) - 1 /\ Len(queue) \in Nat
      BY <1>a, <2>1, Removed
    <3> QED
      BY <2>1, <3>1 DEF TypeOK
  <2>3. Head(queue).message \in Messages
    BY <2>1, <2>2, DataFacts
  <2>4. batch' \in [Workers -> SUBSET Messages]
    BY <1>9, <2>3 DEF TakeMessage, TypeOK
  <2> QED
    BY <1>9, <2>2, <2>4 DEF TakeMessage, requests, working, lastVars, marks, TypeOK
<1>10. ASSUME NEW w \in Workers, NEW u \in Users, AckMessage(w, u) PROVE TypeOK'
  <2> DEFINE id == acks[w][u]
  <2>1. id \in Ids /\ acks' = [acks EXCEPT ![w][u] = 0] /\ 0 \in Ids
    BY <1>10 DEF AckMessage, TypeOK, Ids
  <2>2. acks' \in [Workers -> [Users -> Ids]]
    BY <2>1 DEF TypeOK
  <2>3. unread[u] # None => unread[u].mentions \in SUBSET Messages
    BY DEF TypeOK, Document
  <2>4. Acknowledged(unread[u], id) \in Document
    BY <2>1, <2>3 DEF Acknowledged, Document
  <2>5. unread' = [unread EXCEPT ![u] = Acknowledged(unread[u], id)]
    BY <1>10 DEF AckMessage
  <2>6. unread' \in [Users -> {None} \cup Document]
    BY <2>4, <2>5 DEF TypeOK
  <2> QED
    BY <1>10, <2>2, <2>6 DEF AckMessage, requests, working, lastVars, marks, TypeOK
<1>11. ASSUME NEW w \in Workers, ProcessMessage(w) PROVE TypeOK'
  <2>1. UNION {mentioned[m] : m \in batch[w]} \in SUBSET Users
    BY DEF TypeOK
  <2> QED
    BY <1>11, <2>1 DEF ProcessMessage, requests, working, lastVars, marks, TypeOK
<1>12. ASSUME NEW w \in Workers, NEW u \in Users, AddMention(w, u) PROVE TypeOK'
  <2> DEFINE ids == {m \in doing[w] : u \in mentioned[m]}
  <2>1. ids \in SUBSET Messages
    BY DEF TypeOK
  <2>2. doing' \in [Workers -> SUBSET Messages] /\ left' \in [Workers -> SUBSET Users]
    BY <1>12 DEF AddMention, TypeOK
  <2>3. unread' = [unread EXCEPT ![u] = WithMentions(unread[u], ids)]
    BY <1>12 DEF AddMention
  <2> HIDE DEF ids
  <2>4. [last |-> 0, mentions |-> ids] \in Document
    BY <2>1 DEF Document, Ids
  <2>5. unread[u] # None => [unread[u] EXCEPT !.mentions = @ \cup ids] \in Document
    BY <2>1 DEF Document, TypeOK
  <2>6. WithMentions(unread[u], ids) \in Document
    BY <2>4, <2>5 DEF WithMentions
  <2>7. unread' \in [Users -> {None} \cup Document]
    BY <2>3, <2>6 DEF TypeOK
  <2> QED
    BY <1>12, <2>2, <2>7 DEF AddMention, requests, working, lastVars, marks, TypeOK
<1>13. ASSUME NEW w \in Workers, NEW u \in Users, AckFails(w, u) PROVE TypeOK'
  <2>1. acks' = [acks EXCEPT ![w][u] = 0] /\ 0 \in Ids
    BY <1>13 DEF AckFails, Ids
  <2>2. acks' \in [Workers -> [Users -> Ids]]
    BY <2>1 DEF TypeOK
  <2> QED
    BY <1>13, <1>d, <2>2 DEF AckFails, requests, working, lastVars, marks, TypeOK
<1>14. ASSUME NEW w \in Workers, AddMentionFails(w) PROVE TypeOK'
  <2>1. lost' \in SUBSET (Messages \X Users)
    BY <1>14 DEF AddMentionFails, TypeOK
  <2> QED
    BY <1>14, <1>d, <2>1 DEF AddMentionFails, requests, working, lastVars, marks,
           TypeOK
<1>15. ASSUME NEW w \in Workers, TakeLast(w) PROVE TypeOK'
  <2>1. lastQueue # <<>> /\ lastQueue' = Tail(lastQueue)
    BY <1>15 DEF TakeLast
  <2>2. Head(lastQueue) \in Messages /\ lastQueue' \in Seq(Messages)
           /\ Len(lastQueue') <= QueueSize
    <3>1. /\ Tail(lastQueue) \in Seq(Messages) /\ Head(lastQueue) \in Messages
          /\ Len(Tail(lastQueue)) = Len(lastQueue) - 1 /\ Len(lastQueue) \in Nat
      BY <1>a, <2>1, Removed
    <3> QED
      BY <2>1, <3>1 DEF TypeOK
  <2>3. lastTask' \in [Workers -> Ids]
    BY <1>15, <2>2 DEF TakeLast, TypeOK, Ids, Messages
  <2>4. lastUnsure' \in BOOLEAN
    BY <1>15 DEF TakeLast, TypeOK
  <2> QED
    BY <1>15, <2>2, <2>3, <2>4 DEF TakeLast, requests, working, lastVars, marks,
           TypeOK
<1>16. ASSUME NEW w \in Workers, WriteLast(w) PROVE TypeOK'
  <2>1. lastMessage' \in Ids
    BY <1>16 DEF WriteLast, TypeOK
  <2>2. lastTask' \in [Workers -> Ids]
    BY <1>16 DEF WriteLast, TypeOK, Ids
  <2> QED
    BY <1>16, <2>1, <2>2 DEF WriteLast, requests, working, lastVars, marks, TypeOK
<1>17. ASSUME NEW w \in Workers, WriteLastFails(w) PROVE TypeOK'
  <2>1. 0 \in Ids
    BY DEF Ids
  <2>2. lastTask' \in [Workers -> Ids]
    BY <1>17, <2>1 DEF WriteLastFails, TypeOK
  <2>3. lastUnsure' \in BOOLEAN /\ faults' \in 0 .. MaxFaults
    BY <1>17, <1>d DEF WriteLastFails
  <2> QED
    BY <1>17, <2>2, <2>3 DEF WriteLastFails, requests, working, lastVars, marks,
           TypeOK
<1>18. CASE Crash
  <2>1. stage' \in [Messages -> {"new", "begun", "inserted", "sent", "failed"}]
    BY <1>18 DEF Crash, TypeOK
  <2>2. /\ queue' \in Seq(Data) /\ Len(queue') <= QueueSize
        /\ lastQueue' \in Seq(Messages) /\ Len(lastQueue') <= QueueSize
    BY <1>18 DEF Crash
  <2>3. /\ acks' \in [Workers -> [Users -> Ids]] /\ lastTask' \in [Workers -> Ids]
        /\ batch' \in [Workers -> SUBSET Messages]
              /\ doing' \in [Workers -> SUBSET Messages]
        /\ left' \in [Workers -> SUBSET Users]
              /\ clearing' \in [Users -> {None} \cup Clearance]
    BY <1>18 DEF Crash, Ids
  <2>4. lost' \in SUBSET (Messages \X Users) /\ unsure' \in SUBSET Users
    BY <1>18 DEF Crash, TypeOK
  <2>5. lastUnsure' \in BOOLEAN /\ faults' \in 0 .. MaxFaults
    BY <1>18, <1>d DEF Crash, TypeOK
  <2> QED
    BY <1>18, <2>1, <2>2, <2>3, <2>4, <2>5 DEF Crash, TypeOK
<1>19. CASE UNCHANGED vars
  BY <1>19 DEF vars, requests, working, lastVars, marks, TypeOK
<1> QED
  BY <1>1, <1>2, <1>3, <1>4, <1>5, <1>6, <1>7, <1>8, <1>9, <1>10, <1>11, <1>12,
     <1>13, <1>14, <1>15, <1>16, <1>17, <1>18, <1>19
     DEF Next, Sending, Clearing, AckWorker, LastWorker


(***************************************************************************)
(* Mentions on their way to the database.                                  *)
(***************************************************************************)
Holds(q, m) == \E i \in DOMAIN q : ~IsAck(q[i]) /\ q[i].message = m

InHand(m, u) == \E w \in Workers : m \in batch[w] \/ (m \in doing[w] /\ u \in left[w])

LEMMA UnrecordedIs ==
    ASSUME NEW m, NEW u
    PROVE  /\ Unrecorded(m, u) <=>
                 /\ u \in mentioned[m]
                 /\ stage[m] \in {"begun", "inserted"} \/ Holds(queue, m) \/ InHand(m, u)
           /\ Unrecorded(m, u)' <=>
                 /\ u \in mentioned'[m]
                 /\ stage'[m] \in {"begun", "inserted"} \/ Holds(queue', m) \/ InHand(m, u)'
BY DEF Unrecorded, Holds, InHand

LEMMA HoldsMore ==
    ASSUME NEW q \in Seq(Data), NEW x \in Data, NEW m
    PROVE  Holds(Append(q, x), m) <=> Holds(q, m) \/ (~IsAck(x) /\ x.message = m)
<1>1. /\ DOMAIN q = 1 .. Len(q) /\ DOMAIN Append(q, x) = 1 .. (Len(q) + 1)
         /\ Len(q) \in Nat
      /\ \A i \in DOMAIN q : Append(q, x)[i] = q[i]
      /\ Append(q, x)[Len(q) + 1] = x
  BY Added
<1>2. DOMAIN Append(q, x) = DOMAIN q \cup {Len(q) + 1}
  BY <1>1
<1> QED
  BY <1>1, <1>2 DEF Holds

LEMMA HoldsLess ==
    ASSUME NEW q \in Seq(Data), q # <<>>, NEW m
    PROVE  Holds(q, m) <=> Holds(Tail(q), m) \/ (~IsAck(Head(q)) /\ Head(q).message = m)
<1>1. /\ Head(q) = q[1] /\ 1 \in DOMAIN q
      /\ \A i \in DOMAIN Tail(q) : i + 1 \in DOMAIN q /\ Tail(q)[i] = q[i + 1]
      /\ \A i \in DOMAIN q : i # 1 => i - 1 \in DOMAIN Tail(q) /\ Tail(q)[i - 1] = q[i]
  BY Removed
<1>2. ASSUME Holds(q, m), ~(~IsAck(Head(q)) /\ Head(q).message = m)
      PROVE  Holds(Tail(q), m)
  <2>1. PICK i \in DOMAIN q : ~IsAck(q[i]) /\ q[i].message = m
    BY <1>2 DEF Holds
  <2>2. i # 1
    BY <1>1, <1>2, <2>1
  <2> QED
    BY <1>1, <2>1, <2>2 DEF Holds
<1>3. ASSUME Holds(Tail(q), m) PROVE Holds(q, m)
  <2>1. PICK i \in DOMAIN Tail(q) : ~IsAck(Tail(q)[i]) /\ Tail(q)[i].message = m
    BY <1>3 DEF Holds
  <2> QED
    BY <1>1, <2>1 DEF Holds
<1>4. ~IsAck(Head(q)) /\ Head(q).message = m => Holds(q, m)
  BY <1>1 DEF Holds
<1> QED
  BY <1>2, <1>3, <1>4

\* Only sending it gives a message its mentions; what has failed stays so.
LEMMA Stages ==
    ASSUME TypeOK, Numbered, [Next]_vars, NEW m \in Messages
    PROVE  /\ stage[m] = "new" /\ stage'[m] # "new" => stage'[m] = "begun" /\ m = Now + 1
           /\ stage[m] # "new" => mentioned'[m] = mentioned[m] /\ stage'[m] # "new"
           /\ stage[m] = "failed" => stage'[m] = "failed"
           /\ stage'[m] = "begun" => stage[m] \in {"new", "begun"}
           /\ stage[m] = "new" /\ stage'[m] = "new" => mentioned'[m] = mentioned[m]
<1> USE UnreadsAssumption
<1> DEFINE G == /\ stage[m] = "new" /\ stage'[m] # "new" => stage'[m] = "begun"
                      /\ m = Now + 1
                /\ stage[m] # "new" => mentioned'[m] = mentioned[m] /\ stage'[m] # "new"
                /\ stage[m] = "failed" => stage'[m] = "failed"
                /\ stage'[m] = "begun" => stage[m] \in {"new", "begun"}
                /\ stage[m] = "new" /\ stage'[m] = "new" => mentioned'[m] = mentioned[m]
<1> SUFFICES G
  OBVIOUS
<1>1. CASE SendMessage
  <2>1. Now + 1 \in Messages /\ stage[Now + 1] = "new" /\ Now \in Nat
    <3>1. Now \in Ids /\ Begun = 1 .. Now
      BY NowIs
    <3>2. Now + 1 \notin Begun /\ Now + 1 \in Messages
      BY <1>1, <3>1 DEF SendMessage, Ids, Now
    <3> QED
      BY <3>1, <3>2 DEF Begun, Ids
  <2>2. /\ stage' = [stage EXCEPT ![Now + 1] = "begun"]
        /\ \E users \in SUBSET Users : mentioned' = [mentioned EXCEPT ![Now + 1] = users]
    BY <1>1 DEF SendMessage, Now
  <2> QED
    BY <2>1, <2>2 DEF TypeOK
<1>2. ASSUME NEW k \in Messages, InsertMessage(k) PROVE G
  BY <1>2 DEF InsertMessage, TypeOK
<1>3. ASSUME NEW k \in Messages, QueueMessage(k) PROVE G
  BY <1>3 DEF QueueMessage, TypeOK
<1>4. ASSUME NEW x \in Users, NEW k \in Messages, Ack(x, k) PROVE G
  BY <1>4 DEF Ack, requests
<1>5. ASSUME NEW x \in Users, AckServer(x) PROVE G
  BY <1>5 DEF AckServer, requests
<1>6. ASSUME NEW x \in Users, DeleteUnread(x) PROVE G
  BY <1>6 DEF DeleteUnread, requests
<1>7. ASSUME NEW x \in Users, InsertUnread(x) PROVE G
  BY <1>7 DEF InsertUnread, requests
<1>8. ASSUME NEW w \in Workers, TakeAck(w) PROVE G
  BY <1>8 DEF TakeAck, requests
<1>9. ASSUME NEW w \in Workers, TakeMessage(w) PROVE G
  BY <1>9 DEF TakeMessage, requests
<1>10. ASSUME NEW w \in Workers, NEW x \in Users, AckMessage(w, x) PROVE G
  BY <1>10 DEF AckMessage, requests
<1>11. ASSUME NEW w \in Workers, ProcessMessage(w) PROVE G
  BY <1>11 DEF ProcessMessage, requests
<1>12. ASSUME NEW w \in Workers, NEW x \in Users, AddMention(w, x) PROVE G
  BY <1>12 DEF AddMention, requests
<1>13. ASSUME NEW w \in Workers, NEW x \in Users, AckFails(w, x) PROVE G
  BY <1>13 DEF AckFails, requests
<1>14. ASSUME NEW w \in Workers, AddMentionFails(w) PROVE G
  BY <1>14 DEF AddMentionFails, requests
<1>15. ASSUME NEW w \in Workers, TakeLast(w) PROVE G
  BY <1>15 DEF TakeLast, requests
<1>16. ASSUME NEW w \in Workers, WriteLast(w) PROVE G
  BY <1>16 DEF WriteLast, requests
<1>17. ASSUME NEW w \in Workers, WriteLastFails(w) PROVE G
  BY <1>17 DEF WriteLastFails, requests
<1>18. CASE Crash
  <2>1. stage'[m] = CASE stage[m] = "begun" -> "failed" [] stage[m] = "inserted" -> "sent"
                      [] OTHER -> stage[m]
    BY <1>18 DEF Crash
  <2> QED
    BY <1>18, <2>1 DEF Crash, TypeOK
<1>19. CASE UNCHANGED vars
  BY <1>19 DEF vars, requests
<1> QED
  BY <1>1, <1>2, <1>3, <1>4, <1>5, <1>6, <1>7, <1>8, <1>9, <1>10, <1>11, <1>12,
     <1>13, <1>14, <1>15, <1>16, <1>17, <1>18, <1>19
     DEF Next, Sending, Clearing, AckWorker, LastWorker

\* What users have read only grows old.
LEMMA Marks ==
    ASSUME TypeOK, Numbered, [Next]_vars, NEW u \in Users
    PROVE  /\ top[u] <= top'[u]
           /\ lost \subseteq lost' /\ overtaken \subseteq overtaken'
                 /\ unsure \subseteq unsure'
           /\ \A m \in Messages : m <= read'[u] /\ Unrecorded(m, u) /\ ~(m <= read[u]) =>
                 <<m, u>> \in overtaken'
           /\ UNCHANGED <<read, top>>
              \/ \E x \in Users, k \in Ids :
                    /\ k <= Now
                    /\ read' = [read EXCEPT ![x] = k]
                    /\ top' = [top EXCEPT ![x] = IF k > @ THEN k ELSE @]
<1> USE UnreadsAssumption
<1> DEFINE G == /\ top[u] <= top'[u]
                /\ lost \subseteq lost' /\ overtaken \subseteq overtaken'
                      /\ unsure \subseteq unsure'
                /\ \A m \in Messages : m <= read'[u] /\ Unrecorded(m, u)
                      /\ ~(m <= read[u]) =>
                      <<m, u>> \in overtaken'
                /\ UNCHANGED <<read, top>>
                   \/ \E x \in Users, k \in Ids :
                         /\ k <= Now
                         /\ read' = [read EXCEPT ![x] = k]
                         /\ top' = [top EXCEPT ![x] = IF k > @ THEN k ELSE @]
<1> SUFFICES G
  OBVIOUS
<1>a. Now \in Ids /\ Begun = 1 .. Now
  BY NowIs
<1>b. top[u] \in Nat /\ read[u] \in Nat
  BY DEF TypeOK, Ids
<1>c. ASSUME NEW x \in Users, NEW k \in Ids, NEW meets, k <= Now, Asked(x, k, meets)
      PROVE  G
  <2>1. /\ read' = [read EXCEPT ![x] = k]
        /\ top' = [top EXCEPT ![x] = IF k > @ THEN k ELSE @]
        /\ lost' = lost
        /\ unsure \subseteq unsure'
        /\ overtaken \subseteq overtaken'
    BY <1>c DEF Asked
  <2>2. top[u] <= top'[u]
    BY <1>b, <1>c, <2>1 DEF TypeOK, Ids
  <2>3. ASSUME NEW m \in Messages, m <= read'[u], Unrecorded(m, u), ~(m <= read[u])
        PROVE  <<m, u>> \in overtaken'
    <3>1. u = x /\ m <= k
      BY <2>1, <2>3 DEF TypeOK
    <3> QED
      BY <1>c, <2>3, <3>1 DEF Asked
  <2> QED
    BY <1>c, <2>1, <2>2, <2>3
<1>1. CASE SendMessage
  BY <1>1, <1>b DEF SendMessage, marks
<1>2. ASSUME NEW k \in Messages, InsertMessage(k) PROVE G
  BY <1>2, <1>b DEF InsertMessage, marks
<1>3. ASSUME NEW k \in Messages, QueueMessage(k) PROVE G
  BY <1>3, <1>b DEF QueueMessage, marks
<1>4. ASSUME NEW x \in Users, NEW k \in Messages, Ack(x, k) PROVE G
  <2>1. k \in Ids /\ k <= Now
    BY <1>4, <1>a DEF Ack, Begun, Ids, Messages
  <2> QED
    BY <1>4, <1>c, <2>1 DEF Ack
<1>5. ASSUME NEW x \in Users, AckServer(x) PROVE G
  <2>1. Now <= Now
    BY <1>a DEF Ids
  <2> QED
    BY <1>5, <1>a, <1>c, <2>1 DEF AckServer
<1>6. ASSUME NEW x \in Users, DeleteUnread(x) PROVE G
  BY <1>6, <1>b DEF DeleteUnread, marks
<1>7. ASSUME NEW x \in Users, InsertUnread(x) PROVE G
  BY <1>7, <1>b DEF InsertUnread, marks
<1>8. ASSUME NEW w \in Workers, TakeAck(w) PROVE G
  BY <1>8, <1>b DEF TakeAck, marks
<1>9. ASSUME NEW w \in Workers, TakeMessage(w) PROVE G
  BY <1>9, <1>b DEF TakeMessage, marks
<1>10. ASSUME NEW w \in Workers, NEW x \in Users, AckMessage(w, x) PROVE G
  BY <1>10, <1>b DEF AckMessage, marks
<1>11. ASSUME NEW w \in Workers, ProcessMessage(w) PROVE G
  BY <1>11, <1>b DEF ProcessMessage, marks
<1>12. ASSUME NEW w \in Workers, NEW x \in Users, AddMention(w, x) PROVE G
  BY <1>12, <1>b DEF AddMention, marks
<1>13. ASSUME NEW w \in Workers, NEW x \in Users, AckFails(w, x) PROVE G
  BY <1>13, <1>b DEF AckFails, marks
<1>14. ASSUME NEW w \in Workers, AddMentionFails(w) PROVE G
  BY <1>14, <1>b DEF AddMentionFails, marks
<1>15. ASSUME NEW w \in Workers, TakeLast(w) PROVE G
  BY <1>15, <1>b DEF TakeLast, marks
<1>16. ASSUME NEW w \in Workers, WriteLast(w) PROVE G
  BY <1>16, <1>b DEF WriteLast, marks
<1>17. ASSUME NEW w \in Workers, WriteLastFails(w) PROVE G
  BY <1>17, <1>b DEF WriteLastFails, marks
<1>18. CASE Crash
  BY <1>18, <1>b DEF Crash, marks
<1>19. CASE UNCHANGED vars
  BY <1>19, <1>b DEF vars, marks
<1> QED
  BY <1>1, <1>2, <1>3, <1>4, <1>5, <1>6, <1>7, <1>8, <1>9, <1>10, <1>11, <1>12,
     <1>13, <1>14, <1>15, <1>16, <1>17, <1>18, <1>19
     DEF Next, Sending, Clearing, AckWorker, LastWorker

LEMMA NumberedStep == TypeOK /\ Numbered /\ [Next]_vars => Numbered'
<1> SUFFICES ASSUME TypeOK, Numbered, [Next]_vars PROVE Numbered'
  OBVIOUS
<1> USE UnreadsAssumption
<1>a. Now \in Ids /\ Begun = 1 .. Now /\ \A u \in Users : read[u] <= Now
  BY NowIs
<1>b. Now \in Nat
  BY <1>a DEF Ids
<1>c. ASSUME NEW u \in Users PROVE read'[u] \in Nat /\ read'[u] <= Now
  <2>1. CASE UNCHANGED <<read, top>>
    BY <1>a, <2>1 DEF TypeOK, Ids
  <2>2. ASSUME NEW x \in Users, NEW k \in Ids, k <= Now, read' = [read EXCEPT ![x] = k]
        PROVE  read'[u] \in Nat /\ read'[u] <= Now
    BY <1>a, <2>2 DEF TypeOK, Ids
  <2> QED
    BY <2>1, <2>2, Marks
<1>d. ASSUME NEW m \in Messages
      PROVE  /\ stage[m] # "new" => stage'[m] # "new"
             /\ stage[m] = "new" /\ stage'[m] # "new" => m = Now + 1
  BY Stages
<1>1. CASE Begun' = Begun
  BY <1>1, <1>a, <1>c DEF Numbered
<1>2. CASE Begun' # Begun
  <2>1. PICK k \in Messages : stage[k] = "new" /\ stage'[k] # "new" /\ k = Now + 1
    BY <1>2, <1>d DEF Begun
  <2>2. Begun' = Begun \cup {k}
    BY <1>d, <2>1 DEF Begun
  <2>3. Begun' = 1 .. k /\ k \in Ids
    BY <1>a, <1>b, <2>1, <2>2 DEF Messages, Ids
  <2>4. \A u \in Users : read'[u] <= k
    BY <1>b, <1>c, <2>1
  <2> QED
    BY <2>3, <2>4 DEF Numbered
<1> QED
  BY <1>1, <1>2


\* A mention that is to be recorded stays so, is recorded, or is lost.
LEMMA Onward ==
    ASSUME TypeOK, Numbered, [Next]_vars, NEW m \in Messages, NEW u \in Users,
           stage[m] # "new", Unrecorded(m, u)
    PROVE  Unrecorded(m, u)' \/ Recorded(m, u)' \/ <<m, u>> \in lost'
<1> USE UnreadsAssumption
<1> DEFINE G == Unrecorded(m, u)' \/ Recorded(m, u)' \/ <<m, u>> \in lost'
<1> SUFFICES G
  OBVIOUS
<1>a. /\ u \in mentioned[m] /\ mentioned'[m] = mentioned[m]
      /\ stage[m] \in {"begun", "inserted"} \/ Holds(queue, m) \/ InHand(m, u)
  BY Stages, UnrecordedIs
<1>b. ASSUME stage'[m] \in {"begun", "inserted"} \/ Holds(queue', m) \/ InHand(m, u)'
      PROVE  G
  BY <1>a, <1>b, UnrecordedIs
<1>c. ASSUME stage'[m] = stage[m], Holds(queue, m) => Holds(queue', m) \/ InHand(m, u)',
             InHand(m, u) => InHand(m, u)'
      PROVE  G
  BY <1>a, <1>b, <1>c
<1>d. queue \in Seq(Data)
  BY DEF TypeOK
<1>1. CASE SendMessage
  <2>1. stage'[m] = stage[m]
    BY <1>1, Stages DEF SendMessage, TypeOK
  <2>2. queue' = queue /\ InHand(m, u)' = InHand(m, u)
    BY <1>1 DEF SendMessage, InHand, working
  <2> QED
    BY <1>c, <2>1, <2>2
<1>2. ASSUME NEW k \in Messages, InsertMessage(k) PROVE G
  <2>1. stage[m] \in {"begun", "inserted"} => stage'[m] \in {"begun", "inserted"}
    BY <1>2 DEF InsertMessage, TypeOK
  <2>2. queue' = queue /\ InHand(m, u)' = InHand(m, u)
    BY <1>2 DEF InsertMessage, InHand, working
  <2> QED
    BY <1>a, <1>b, <2>1, <2>2
<1>3. ASSUME NEW k \in Messages, QueueMessage(k) PROVE G
  <2>1. [message |-> k] \in Data /\ ~IsAck([message |-> k])
    BY DataFacts
  <2>2. Holds(Append(queue, [message |-> k]), m) <=> Holds(queue, m) \/ k = m
    BY <1>d, <2>1, HoldsMore
  <2>3. InHand(m, u)' = InHand(m, u) /\ stage' = [stage EXCEPT ![k] = "sent"]
        /\ stage[k] = "inserted"
    BY <1>3 DEF QueueMessage, InHand, working
  <2>4. CASE k # m
    <3>1. queue' = queue \/ queue' = Append(queue, [message |-> k])
      BY <1>3 DEF QueueMessage
    <3> QED
      BY <1>c, <2>2, <2>3, <2>4, <3>1 DEF TypeOK
  <2>5. CASE k = m /\ Len(queue) = QueueSize
    <3>1. lost' = lost \cup {k} \X mentioned[k]
      BY <1>3, <2>5 DEF QueueMessage
    <3> QED
      BY <1>a, <2>5, <3>1
  <2>6. CASE k = m /\ Len(queue) # QueueSize
    <3>1. queue' = Append(queue, [message |-> k])
      BY <1>3, <1>a, <2>6 DEF QueueMessage
    <3> QED
      BY <1>b, <2>2, <2>6, <3>1
  <2> QED
    BY <2>4, <2>5, <2>6
<1>4. ASSUME NEW x \in Users, NEW k \in Messages, Ack(x, k) PROVE G
  <2>1. [user |-> x, id |-> k] \in Data
    BY DataFacts DEF Ids, Messages
  <2>2. Holds(queue, m) => Holds(Append(queue, [user |-> x, id |-> k]), m)
    BY <1>d, <2>1, HoldsMore
  <2>3. stage' = stage /\ InHand(m, u)' = InHand(m, u)
    BY <1>4 DEF Ack, InHand, working
  <2>4. queue' = queue \/ queue' = Append(queue, [user |-> x, id |-> k])
    BY <1>4 DEF Ack
  <2> QED
    BY <1>c, <2>2, <2>3, <2>4
<1>5. ASSUME NEW x \in Users, AckServer(x) PROVE G
  <2>1. stage' = stage /\ queue' = queue /\ InHand(m, u)' = InHand(m, u)
    BY <1>5 DEF AckServer, InHand, requests, working, lastVars, marks
  <2> QED
    BY <1>c, <2>1
<1>6. ASSUME NEW x \in Users, DeleteUnread(x) PROVE G
  <2>1. stage' = stage /\ queue' = queue /\ InHand(m, u)' = InHand(m, u)
    BY <1>6 DEF DeleteUnread, InHand, requests, working, lastVars, marks
  <2> QED
    BY <1>c, <2>1
<1>7. ASSUME NEW x \in Users, InsertUnread(x) PROVE G
  <2>1. stage' = stage /\ queue' = queue /\ InHand(m, u)' = InHand(m, u)
    BY <1>7 DEF InsertUnread, InHand, requests, working, lastVars, marks
  <2> QED
    BY <1>c, <2>1
<1>8. ASSUME NEW w \in Workers, TakeAck(w) PROVE G
  <2>1. queue # <<>> /\ IsAck(Head(queue)) /\ queue' = Tail(queue)
        /\ stage' = stage /\ InHand(m, u)' = InHand(m, u)
    BY <1>8 DEF TakeAck, InHand
  <2>2. Holds(queue, m) => Holds(queue', m)
    BY <1>d, <2>1, HoldsLess
  <2> QED
    BY <1>c, <2>1, <2>2
<1>9. ASSUME NEW w \in Workers, TakeMessage(w) PROVE G
  <2>1. /\ queue # <<>> /\ queue' = Tail(queue) /\ stage' = stage
        /\ batch' = [batch EXCEPT ![w] = @ \cup {Head(queue).message}]
        /\ doing' = doing /\ left' = left
    BY <1>9 DEF TakeMessage
  <2>2. Holds(queue, m) => Holds(queue', m) \/ Head(queue).message = m
    BY <1>d, <2>1, HoldsLess
  <2>3. Head(queue).message = m => InHand(m, u)'
    BY <2>1 DEF InHand, TypeOK
  <2>4. InHand(m, u) => InHand(m, u)'
    BY <2>1 DEF InHand, TypeOK
  <2> QED
    BY <1>c, <2>1, <2>2, <2>3, <2>4
<1>10. ASSUME NEW w \in Workers, NEW x \in Users, AckMessage(w, x) PROVE G
  <2>1. stage' = stage /\ queue' = queue /\ InHand(m, u)' = InHand(m, u)
    BY <1>10 DEF AckMessage, InHand, requests, working, lastVars, marks
  <2> QED
    BY <1>c, <2>1
<1>11. ASSUME NEW w \in Workers, ProcessMessage(w) PROVE G
  <2>1. stage' = stage /\ queue' = queue
    BY <1>11 DEF ProcessMessage, requests
  <2>2. InHand(m, u) => InHand(m, u)'
    <3> SUFFICES ASSUME NEW v \in Workers, m \in batch[v] \/ (m \in doing[v]
       /\ u \in left[v])
                 PROVE  InHand(m, u)'
      BY DEF InHand
    <3>1. /\ doing[w] = {} /\ doing' = [doing EXCEPT ![w] = batch[w]]
          /\ left' = [left EXCEPT ![w] = UNION {mentioned[j] : j \in batch[w]}]
          /\ batch' = [batch EXCEPT ![w] = {}]
      BY <1>11 DEF ProcessMessage, Free
    <3>2. CASE v # w
      BY <3>1, <3>2 DEF InHand, TypeOK
    <3>3. CASE v = w
      <4>1. m \in batch[w]
        BY <3>1, <3>3
      <4>2. m \in doing'[w] /\ u \in left'[w]
        BY <1>a, <3>1, <4>1 DEF TypeOK
      <4> QED
        BY <4>2 DEF InHand
    <3> QED
      BY <3>2, <3>3
  <2> QED
    BY <1>c, <2>1, <2>2
<1>12. ASSUME NEW w \in Workers, NEW x \in Users, AddMention(w, x) PROVE G
  <2> DEFINE ids == {j \in doing[w] : x \in mentioned[j]}
  <2>1. /\ stage' = stage /\ queue' = queue /\ batch' = batch
        /\ left' = [left EXCEPT ![w] = @ \ {x}] /\ x \in left[w]
        /\ doing' = (IF left[w] = {x} THEN [doing EXCEPT ![w] = {}] ELSE doing)
        /\ unread' = [unread EXCEPT ![x] = WithMentions(unread[x], ids)]
    BY <1>12 DEF AddMention, requests
  <2>2. CASE x = u /\ m \in doing[w]
    <3>1. m \in ids
      BY <1>a, <2>2
    <3>2. unread'[u] = WithMentions(unread[u], ids)
      BY <2>1, <2>2 DEF TypeOK
    <3> HIDE DEF ids
    <3>3. WithMentions(unread[u], ids) # None
             /\ m \in WithMentions(unread[u], ids).mentions
      <4>1. CASE unread[u] = None
        <5>1. ids \in SUBSET Messages /\ [last |-> 0, mentions |-> ids] \in Document
          BY DEF ids, TypeOK, Document, Ids
        <5> QED
          BY <3>1, <4>1, <5>1 DEF WithMentions
      <4>2. CASE unread[u] # None
        <5>1. unread[u] \in Document
          BY <4>2 DEF TypeOK
        <5>2. ids \in SUBSET Messages
          BY DEF ids, TypeOK
        <5>3. [unread[u] EXCEPT !.mentions = @ \cup ids] \in Document
          BY <5>1, <5>2 DEF Document
        <5>4. m \in [unread[u] EXCEPT !.mentions = @ \cup ids].mentions
          BY <3>1, <5>1 DEF Document
        <5> QED
          BY <4>2, <5>3, <5>4 DEF WithMentions
      <4> QED
        BY <4>1, <4>2
    <3> QED
      BY <3>2, <3>3 DEF Recorded
  <2>3. CASE ~(x = u /\ m \in doing[w])
    <3>1. InHand(m, u) => InHand(m, u)'
      BY <2>1, <2>3 DEF InHand, TypeOK
    <3> QED
      BY <1>c, <2>1, <3>1
  <2> QED
    BY <2>2, <2>3
<1>13. ASSUME NEW w \in Workers, NEW x \in Users, AckFails(w, x) PROVE G
  <2>1. stage' = stage /\ queue' = queue /\ InHand(m, u)' = InHand(m, u)
    BY <1>13 DEF AckFails, InHand, requests, working, lastVars, marks
  <2> QED
    BY <1>c, <2>1
<1>14. ASSUME NEW w \in Workers, AddMentionFails(w) PROVE G
  <2>1. /\ stage' = stage /\ queue' = queue /\ batch' = batch
        /\ left' = [left EXCEPT ![w] = {}] /\ doing' = [doing EXCEPT ![w] = {}]
        /\ lost' = lost \cup {p \in doing[w] \X left[w] : p[2] \in mentioned[p[1]]}
    BY <1>14 DEF AddMentionFails, requests
  <2>2. CASE m \in doing[w] /\ u \in left[w]
    <3>1. <<m, u>> \in {p \in doing[w] \X left[w] : p[2] \in mentioned[p[1]]}
      BY <1>a, <2>2
    <3> QED
      BY <2>1, <3>1
  <2>3. CASE ~(m \in doing[w] /\ u \in left[w])
    <3>1. InHand(m, u) => InHand(m, u)'
      BY <2>1, <2>3 DEF InHand, TypeOK
    <3> QED
      BY <1>c, <2>1, <3>1
  <2> QED
    BY <2>2, <2>3
<1>15. ASSUME NEW w \in Workers, TakeLast(w) PROVE G
  <2>1. stage' = stage /\ queue' = queue /\ InHand(m, u)' = InHand(m, u)
    BY <1>15 DEF TakeLast, InHand, requests, working, lastVars, marks
  <2> QED
    BY <1>c, <2>1
<1>16. ASSUME NEW w \in Workers, WriteLast(w) PROVE G
  <2>1. stage' = stage /\ queue' = queue /\ InHand(m, u)' = InHand(m, u)
    BY <1>16 DEF WriteLast, InHand, requests, working, lastVars, marks
  <2> QED
    BY <1>c, <2>1
<1>17. ASSUME NEW w \in Workers, WriteLastFails(w) PROVE G
  <2>1. stage' = stage /\ queue' = queue /\ InHand(m, u)' = InHand(m, u)
    BY <1>17 DEF WriteLastFails, InHand, requests, working, lastVars, marks
  <2> QED
    BY <1>c, <2>1
<1>18. CASE Crash
  <2>1. <<m, u>> \in {p \in Messages \X Users : Unrecorded(p[1], p[2])}
    OBVIOUS
  <2> QED
    BY <1>18, <2>1 DEF Crash
<1>19. CASE UNCHANGED vars
  <2>1. stage' = stage /\ queue' = queue /\ InHand(m, u)' = InHand(m, u)
    BY <1>19 DEF vars, InHand, requests, working, lastVars, marks
  <2> QED
    BY <1>c, <2>1
<1> QED
  BY <1>1, <1>2, <1>3, <1>4, <1>5, <1>6, <1>7, <1>8, <1>9, <1>10, <1>11, <1>12,
     <1>13, <1>14, <1>15, <1>16, <1>17, <1>18, <1>19
     DEF Next, Sending, Clearing, AckWorker, LastWorker

\* What is recorded stays so, is acknowledged, or is lost.
LEMMA StaysRecorded ==
    ASSUME TypeOK, Numbered, UpToTop, [Next]_vars, NEW m \in Messages, NEW u \in Users,
           Recorded(m, u)
    PROVE  Recorded(m, u)' \/ <<m, u>> \in lost' \/ m <= top[u]
<1> USE UnreadsAssumption
<1> DEFINE G == Recorded(m, u)' \/ <<m, u>> \in lost' \/ m <= top[u]
<1> SUFFICES G
  OBVIOUS
<1>a. unread[u] # None /\ unread[u] \in Document /\ m \in unread[u].mentions
  BY DEF Recorded, TypeOK
<1>b. ASSUME unread'[u] = unread[u] PROVE G
  BY <1>a, <1>b DEF Recorded
<1>c. m \in Nat /\ top[u] \in Nat
  BY DEF TypeOK, Ids, Messages
<1>1. CASE SendMessage
  BY <1>1, <1>b DEF SendMessage
<1>2. ASSUME NEW k \in Messages, InsertMessage(k) PROVE G
  BY <1>2, <1>b DEF InsertMessage
<1>3. ASSUME NEW k \in Messages, QueueMessage(k) PROVE G
  BY <1>3, <1>b DEF QueueMessage
<1>4. ASSUME NEW x \in Users, NEW k \in Messages, Ack(x, k) PROVE G
  BY <1>4, <1>b DEF Ack
<1>5. ASSUME NEW x \in Users, AckServer(x) PROVE G
  BY <1>5, <1>b DEF AckServer
<1>6. ASSUME NEW x \in Users, DeleteUnread(x) PROVE G
  <2>1. /\ clearing[x] # None
        /\ unread' = [unread EXCEPT ![x] = None]
        /\ lost' = lost \cup
             {<<k, x>> : k \in {j \in Messages : unread[x] # None
                /\ j \in unread[x].mentions
                                                 /\ j > clearing[x].time}}
    BY <1>6 DEF DeleteUnread
  <2>2. CASE x # u
    BY <1>b, <2>1, <2>2 DEF TypeOK
  <2>3. CASE x = u /\ m > clearing[u].time
    <3>1. m \in {j \in Messages : unread[x] # None /\ j \in unread[x].mentions
                                                 /\ j > clearing[x].time}
      BY <1>a, <2>3
    <3> QED
      BY <2>1, <2>3, <3>1
  <2>4. CASE x = u /\ ~(m > clearing[u].time)
    <3>1. clearing[u].time <= top[u] /\ clearing[u].time \in Nat
      BY <2>1, <2>4 DEF UpToTop, TypeOK, Clearance, Ids
    <3> QED
      BY <1>c, <2>4, <3>1
  <2> QED
    BY <2>2, <2>3, <2>4
<1>7. ASSUME NEW x \in Users, InsertUnread(x) PROVE G
  <2>1. unread' = [unread EXCEPT ![x] =
                    IF unread[x] = None THEN [last |-> clearing[x].time, mentions |-> {}] ELSE unread[x]]
    BY <1>7 DEF InsertUnread
  <2>2. unread'[u] = unread[u]
    BY <1>a, <2>1 DEF TypeOK
  <2> QED
    BY <1>b, <2>2
<1>8. ASSUME NEW w \in Workers, TakeAck(w) PROVE G
  BY <1>8, <1>b DEF TakeAck
<1>9. ASSUME NEW w \in Workers, TakeMessage(w) PROVE G
  BY <1>9, <1>b DEF TakeMessage
<1>10. ASSUME NEW w \in Workers, NEW x \in Users, AckMessage(w, x) PROVE G
  <2> DEFINE id == acks[w][x]
  <2>1. unread' = [unread EXCEPT ![x] = Acknowledged(unread[x], id)]
    BY <1>10 DEF AckMessage
  <2>2. id \in Nat /\ id \in Ids /\ id <= top[x]
    BY DEF TypeOK, Ids, UpToTop
  <2> HIDE DEF id
  <2>3. CASE x # u
    BY <1>b, <2>1, <2>3 DEF TypeOK
  <2>4. CASE x = u /\ m > id
    <3>1. unread'[u] = [last |-> id, mentions |-> {j \in unread[u].mentions : j > id}]
      BY <1>a, <2>1, <2>4 DEF Acknowledged, TypeOK
    <3>2. {j \in unread[u].mentions : j > id} \in SUBSET Messages
      BY <1>a DEF Document
    <3>3. unread'[u] \in Document
      BY <2>2, <3>1, <3>2 DEF Document
    <3>4. m \in unread'[u].mentions
      BY <1>a, <2>4, <3>1
    <3> QED
      BY <3>3, <3>4 DEF Recorded
  <2>5. CASE x = u /\ ~(m > id)
    BY <1>c, <2>2, <2>5
  <2> QED
    BY <2>3, <2>4, <2>5
<1>11. ASSUME NEW w \in Workers, ProcessMessage(w) PROVE G
  BY <1>11, <1>b DEF ProcessMessage
<1>12. ASSUME NEW w \in Workers, NEW x \in Users, AddMention(w, x) PROVE G
  <2> DEFINE ids == {j \in doing[w] : x \in mentioned[j]}
  <2>1. unread' = [unread EXCEPT ![x] = WithMentions(unread[x], ids)]
    BY <1>12 DEF AddMention
  <2>2. ids \in SUBSET Messages
    BY DEF TypeOK
  <2> HIDE DEF ids
  <2>3. CASE x # u
    BY <1>b, <2>1, <2>3 DEF TypeOK
  <2>4. CASE x = u
    <3>1. unread'[u] = [unread[u] EXCEPT !.mentions = @ \cup ids]
      BY <1>a, <2>1, <2>4 DEF WithMentions, TypeOK
    <3>2. unread'[u] \in Document /\ m \in unread'[u].mentions
      BY <1>a, <2>2, <3>1 DEF Document
    <3> QED
      BY <3>2 DEF Recorded
  <2> QED
    BY <2>3, <2>4
<1>13. ASSUME NEW w \in Workers, NEW x \in Users, AckFails(w, x) PROVE G
  BY <1>13, <1>b DEF AckFails
<1>14. ASSUME NEW w \in Workers, AddMentionFails(w) PROVE G
  BY <1>14, <1>b DEF AddMentionFails
<1>15. ASSUME NEW w \in Workers, TakeLast(w) PROVE G
  BY <1>15, <1>b DEF TakeLast
<1>16. ASSUME NEW w \in Workers, WriteLast(w) PROVE G
  BY <1>16, <1>b DEF WriteLast
<1>17. ASSUME NEW w \in Workers, WriteLastFails(w) PROVE G
  BY <1>17, <1>b DEF WriteLastFails
<1>18. CASE Crash
  BY <1>18, <1>b DEF Crash
<1>19. CASE UNCHANGED vars
  BY <1>19, <1>b DEF vars
<1> QED
  BY <1>1, <1>2, <1>3, <1>4, <1>5, <1>6, <1>7, <1>8, <1>9, <1>10, <1>11, <1>12,
     <1>13, <1>14, <1>15, <1>16, <1>17, <1>18, <1>19
     DEF Next, Sending, Clearing, AckWorker, LastWorker

LEMMA MentionsKeptStep ==
    TypeOK /\ Numbered /\ UpToTop /\ MentionsKept /\ [Next]_vars => MentionsKept'
<1> SUFFICES ASSUME TypeOK, Numbered, UpToTop, MentionsKept, [Next]_vars,
                    NEW u \in Users, NEW m \in Messages,
                    stage'[m] \in {"begun", "inserted", "sent"}, u \in mentioned'[m], m > top'[u],
                    <<m, u>> \notin lost'
             PROVE  Unrecorded(m, u)' \/ Recorded(m, u)'
  BY DEF MentionsKept
<1>1. CASE stage[m] = "new"
  BY <1>1, Stages, UnrecordedIs
<1>2. CASE stage[m] # "new"
  <2>1. /\ mentioned'[m] = mentioned[m] /\ stage[m] # "failed"
        /\ stage[m] \in {"begun", "inserted", "sent"}
    BY <1>2, Stages DEF TypeOK
  <2>2. m > top[u] /\ ~(m <= top[u]) /\ <<m, u>> \notin lost
    <3>1. top[u] <= top'[u] /\ lost \subseteq lost'
      BY Marks
    <3>2. top[u] \in Nat /\ top'[u] \in Nat /\ m \in Nat
      BY TypeStep DEF TypeOK, Ids, Messages
    <3> QED
      BY <3>1, <3>2
  <2>3. Unrecorded(m, u) \/ Recorded(m, u)
    BY <2>1, <2>2 DEF MentionsKept
  <2> QED
    BY <1>2, <2>2, <2>3, Onward, StaysRecorded
<1> QED
  BY <1>1, <1>2


\* A mention that is still to be recorded was so before, unless it is new.
LEMMA Older ==
    ASSUME TypeOK, Numbered, [Next]_vars, NEW m \in Messages, NEW u \in Users,
           stage[m] # "new", Unrecorded(m, u)'
    PROVE  Unrecorded(m, u)
<1> USE UnreadsAssumption
<1> DEFINE G == Unrecorded(m, u)
<1> SUFFICES G
  OBVIOUS
<1>a. /\ u \in mentioned[m] /\ mentioned'[m] = mentioned[m]
      /\ stage'[m] \in {"begun", "inserted"} \/ Holds(queue', m) \/ InHand(m, u)'
  BY Stages, UnrecordedIs
<1>b. ASSUME stage[m] \in {"begun", "inserted"} \/ Holds(queue, m) \/ InHand(m, u)
      PROVE  G
  BY <1>a, <1>b, UnrecordedIs
<1>c. ASSUME stage'[m] = stage[m], Holds(queue', m) => Holds(queue, m),
             InHand(m, u)' => InHand(m, u) \/ Holds(queue, m)
      PROVE  G
  BY <1>a, <1>b, <1>c
<1>d. queue \in Seq(Data)
  BY DEF TypeOK
<1>1. CASE SendMessage
  <2>1. stage'[m] = stage[m]
    BY <1>1, Stages DEF SendMessage, TypeOK
  <2>2. queue' = queue /\ InHand(m, u)' = InHand(m, u)
    BY <1>1 DEF SendMessage, InHand, working
  <2> QED
    BY <1>c, <2>1, <2>2
<1>2. ASSUME NEW k \in Messages, InsertMessage(k) PROVE G
  <2>1. stage'[m] \in {"begun", "inserted"} => stage[m] \in {"begun", "inserted"}
    BY <1>2 DEF InsertMessage, TypeOK
  <2>2. queue' = queue /\ InHand(m, u)' = InHand(m, u)
    BY <1>2 DEF InsertMessage, InHand, working
  <2> QED
    BY <1>a, <1>b, <2>1, <2>2
<1>3. ASSUME NEW k \in Messages, QueueMessage(k) PROVE G
  <2>1. [message |-> k] \in Data /\ ~IsAck([message |-> k])
    BY DataFacts
  <2>2. Holds(Append(queue, [message |-> k]), m) <=> Holds(queue, m) \/ k = m
    BY <1>d, <2>1, HoldsMore
  <2>3. InHand(m, u)' = InHand(m, u) /\ stage' = [stage EXCEPT ![k] = "sent"]
        /\ stage[k] = "inserted"
    BY <1>3 DEF QueueMessage, InHand, working
  <2>4. queue' = queue \/ queue' = Append(queue, [message |-> k])
    BY <1>3 DEF QueueMessage
  <2>5. CASE k # m
    BY <1>c, <2>2, <2>3, <2>4, <2>5 DEF TypeOK
  <2>6. CASE k = m
    BY <1>b, <2>3, <2>6
  <2> QED
    BY <2>5, <2>6
<1>4. ASSUME NEW x \in Users, NEW k \in Messages, Ack(x, k) PROVE G
  <2>1. [user |-> x, id |-> k] \in Data /\ IsAck([user |-> x, id |-> k])
    BY DataFacts DEF Ids, Messages
  <2>2. Holds(Append(queue, [user |-> x, id |-> k]), m) => Holds(queue, m)
    BY <1>d, <2>1, HoldsMore
  <2>3. stage' = stage /\ InHand(m, u)' = InHand(m, u)
    BY <1>4 DEF Ack, InHand, working
  <2>4. queue' = queue \/ queue' = Append(queue, [user |-> x, id |-> k])
    BY <1>4 DEF Ack
  <2> QED
    BY <1>c, <2>2, <2>3, <2>4
<1>5. ASSUME NEW x \in Users, AckServer(x) PROVE G
  <2>1. stage' = stage /\ queue' = queue /\ InHand(m, u)' = InHand(m, u)
    BY <1>5 DEF AckServer, InHand, requests, working, lastVars, marks
  <2> QED
    BY <1>c, <2>1
<1>6. ASSUME NEW x \in Users, DeleteUnread(x) PROVE G
  <2>1. stage' = stage /\ queue' = queue /\ InHand(m, u)' = InHand(m, u)
    BY <1>6 DEF DeleteUnread, InHand, requests, working, lastVars, marks
  <2> QED
    BY <1>c, <2>1
<1>7. ASSUME NEW x \in Users, InsertUnread(x) PROVE G
  <2>1. stage' = stage /\ queue' = queue /\ InHand(m, u)' = InHand(m, u)
    BY <1>7 DEF InsertUnread, InHand, requests, working, lastVars, marks
  <2> QED
    BY <1>c, <2>1
<1>8. ASSUME NEW w \in Workers, TakeAck(w) PROVE G
  <2>1. queue # <<>> /\ queue' = Tail(queue)
        /\ stage' = stage /\ InHand(m, u)' = InHand(m, u)
    BY <1>8 DEF TakeAck, InHand
  <2>2. Holds(queue', m) => Holds(queue, m)
    BY <1>d, <2>1, HoldsLess
  <2> QED
    BY <1>c, <2>1, <2>2
<1>9. ASSUME NEW w \in Workers, TakeMessage(w) PROVE G
  <2>1. /\ queue # <<>> /\ queue' = Tail(queue) /\ stage' = stage /\ ~IsAck(Head(queue))
        /\ batch' = [batch EXCEPT ![w] = @ \cup {Head(queue).message}]
        /\ doing' = doing /\ left' = left
    BY <1>9 DEF TakeMessage
  <2>2. /\ Holds(queue', m) => Holds(queue, m)
        /\ Head(queue).message = m => Holds(queue, m)
    BY <1>d, <2>1, HoldsLess
  <2>3. InHand(m, u)' => InHand(m, u) \/ Head(queue).message = m
    BY <2>1 DEF InHand, TypeOK
  <2> QED
    BY <1>c, <2>1, <2>2, <2>3
<1>10. ASSUME NEW w \in Workers, NEW x \in Users, AckMessage(w, x) PROVE G
  <2>1. stage' = stage /\ queue' = queue /\ InHand(m, u)' = InHand(m, u)
    BY <1>10 DEF AckMessage, InHand, requests, working, lastVars, marks
  <2> QED
    BY <1>c, <2>1
<1>11. ASSUME NEW w \in Workers, ProcessMessage(w) PROVE G
  <2>1. stage' = stage /\ queue' = queue
    BY <1>11 DEF ProcessMessage, requests
  <2>2. InHand(m, u)' => InHand(m, u)
    BY <1>11 DEF ProcessMessage, InHand, TypeOK
  <2> QED
    BY <1>c, <2>1, <2>2
<1>12. ASSUME NEW w \in Workers, NEW x \in Users, AddMention(w, x) PROVE G
  <2>1. stage' = stage /\ queue' = queue
    BY <1>12 DEF AddMention, requests
  <2>2. InHand(m, u)' => InHand(m, u)
    BY <1>12 DEF AddMention, InHand, TypeOK
  <2> QED
    BY <1>c, <2>1, <2>2
<1>13. ASSUME NEW w \in Workers, NEW x \in Users, AckFails(w, x) PROVE G
  <2>1. stage' = stage /\ queue' = queue /\ InHand(m, u)' = InHand(m, u)
    BY <1>13 DEF AckFails, InHand, requests, working, lastVars, marks
  <2> QED
    BY <1>c, <2>1
<1>14. ASSUME NEW w \in Workers, AddMentionFails(w) PROVE G
  <2>1. stage' = stage /\ queue' = queue
    BY <1>14 DEF AddMentionFails, requests
  <2>2. InHand(m, u)' => InHand(m, u)
    BY <1>14 DEF AddMentionFails, InHand, TypeOK
  <2> QED
    BY <1>c, <2>1, <2>2
<1>15. ASSUME NEW w \in Workers, TakeLast(w) PROVE G
  <2>1. stage' = stage /\ queue' = queue /\ InHand(m, u)' = InHand(m, u)
    BY <1>15 DEF TakeLast, InHand, requests, working, lastVars, marks
  <2> QED
    BY <1>c, <2>1
<1>16. ASSUME NEW w \in Workers, WriteLast(w) PROVE G
  <2>1. stage' = stage /\ queue' = queue /\ InHand(m, u)' = InHand(m, u)
    BY <1>16 DEF WriteLast, InHand, requests, working, lastVars, marks
  <2> QED
    BY <1>c, <2>1
<1>17. ASSUME NEW w \in Workers, WriteLastFails(w) PROVE G
  <2>1. stage' = stage /\ queue' = queue /\ InHand(m, u)' = InHand(m, u)
    BY <1>17 DEF WriteLastFails, InHand, requests, working, lastVars, marks
  <2> QED
    BY <1>c, <2>1
<1>18. CASE Crash
  <2>1. /\ ~Holds(queue', m)
        /\ ~InHand(m, u)'
    BY <1>18 DEF Crash, Holds, InHand
  <2>2. stage'[m] \notin {"begun", "inserted"}
    BY <1>18 DEF Crash
  <2> QED
    BY <1>a, <2>1, <2>2
<1>19. CASE UNCHANGED vars
  <2>1. stage' = stage /\ queue' = queue /\ InHand(m, u)' = InHand(m, u)
    BY <1>19 DEF vars, InHand, requests, working, lastVars, marks
  <2> QED
    BY <1>c, <2>1
<1> QED
  BY <1>1, <1>2, <1>3, <1>4, <1>5, <1>6, <1>7, <1>8, <1>9, <1>10, <1>11, <1>12,
     <1>13, <1>14, <1>15, <1>16, <1>17, <1>18, <1>19
     DEF Next, Sending, Clearing, AckWorker, LastWorker

LEMMA OvertakenStep == TypeOK /\ Numbered /\ Overtaken /\ [Next]_vars => Overtaken'
<1> SUFFICES ASSUME TypeOK, Numbered, Overtaken, [Next]_vars,
                    NEW u \in Users, NEW m \in Messages, Unrecorded(m, u)', m <= read'[u]
             PROVE  <<m, u>> \in overtaken'
  BY DEF Overtaken
<1>1. CASE stage[m] # "new"
  <2>1. Unrecorded(m, u) /\ overtaken \subseteq overtaken'
    BY <1>1, Older, Marks
  <2>2. CASE m <= read[u]
    BY <2>1, <2>2 DEF Overtaken
  <2>3. CASE ~(m <= read[u])
    BY <2>1, <2>3, Marks
  <2> QED
    BY <2>2, <2>3
<1>2. CASE stage[m] = "new"
  <2>1. Begun = 1 .. Now /\ \A x \in Users : read[x] <= Now
    BY NowIs
  <2>2. Now \in Nat /\ m > Now /\ m \in Nat
    BY <1>2, <2>1, NowIs, UnreadsAssumption DEF Begun, Messages, Ids
  <2>3. read'[u] <= Now
    <3>1. CASE UNCHANGED <<read, top>>
      BY <2>1, <3>1
    <3>2. ASSUME NEW x \in Users, NEW k \in Ids, k <= Now, read' = [read EXCEPT ![x] = k]
          PROVE  read'[u] <= Now
      BY <2>1, <3>2 DEF TypeOK
    <3>3. UNCHANGED <<read, top>>
          \/ \E x \in Users, k \in Ids : k <= Now /\ read' = [read EXCEPT ![x] = k]
      BY Marks
    <3>4. CASE UNCHANGED <<read, top>>
      BY <3>1, <3>4
    <3>5. ASSUME NEW x \in Users, NEW k \in Ids,
                 k <= Now /\ read' = [read EXCEPT ![x] = k]
          PROVE  read'[u] <= Now
      BY <3>2, <3>5
    <3> QED
      BY <3>3, <3>4, <3>5
  <2>4. read'[u] \in Nat
    <3>1. TypeOK'
      BY TypeStep
    <3>2. read' \in [Users -> Ids]
      BY <3>1 DEF TypeOK
    <3> QED
      BY <3>2 DEF Ids
  <2> QED
    BY <2>2, <2>3, <2>4
<1> QED
  BY <1>1, <1>2

(***************************************************************************)
(* The last message of the channel.                                        *)
(***************************************************************************)
LEMMA LastStep ==
    TypeOK /\ Numbered /\ LastInOrder /\ LastKept /\ [Next]_vars => LastInOrder'
       /\ LastKept'
<1> SUFFICES ASSUME TypeOK, Numbered, LastInOrder, LastKept, [Next]_vars
             PROVE  LastInOrder' /\ LastKept'
  OBVIOUS
<1> USE UnreadsAssumption
<1> DEFINE G == LastInOrder' /\ LastKept'
<1>a. /\ lastQueue \in Seq(Messages) /\ lastMessage \in Nat
      /\ \A w \in Workers : lastTask[w] \in Nat
      /\ \A i \in DOMAIN lastQueue : lastQueue[i] \in Nat /\ lastQueue[i] \in Messages
      /\ Len(lastQueue) \in Nat /\ DOMAIN lastQueue = 1 .. Len(lastQueue)
      /\ \A m \in Messages : m \in Nat /\ m # 0
  BY DEF TypeOK, Ids, Messages
<1>b. ASSUME UNCHANGED <<lastQueue, lastTask, lastMessage, lastUnsure>>, Stored \subseteq Stored',
             \A m \in Messages : stage'[m] \in {"inserted", "sent"} =>
                stage[m] \in {"inserted", "sent"}
      PROVE  G
  <2>1. LastInOrder'
    BY <1>b DEF LastInOrder
  <2>2. LastKept'
    BY <1>b DEF LastKept
  <2> QED
    BY <2>1, <2>2
<1>c. ASSUME lastUnsure' PROVE G
  BY <1>c DEF LastInOrder, LastKept
<1>1. CASE SendMessage
  <2>1. UNCHANGED <<lastQueue, lastTask, lastMessage, lastUnsure>>
    BY <1>1 DEF SendMessage, lastVars
  <2>2. /\ Stored \subseteq Stored'
        /\ \A m \in Messages : stage'[m] \in {"inserted", "sent"} =>
              stage[m] \in {"inserted", "sent"}
    <3> SUFFICES ASSUME NEW m \in Messages
                 PROVE  /\ stage[m] \notin {"new", "begun"} =>
                              stage'[m] \notin {"new", "begun"}
                        /\ stage'[m] \in {"inserted", "sent"} =>
                              stage[m] \in {"inserted", "sent"}
      BY DEF Stored
    <3>1. CASE stage'[m] = stage[m]
      BY <3>1
    <3>2. CASE stage'[m] # stage[m]
      <4>1. stage'[m] = "begun"
        BY <1>1, <3>2 DEF SendMessage, TypeOK
      <4>2. stage[m] \in {"new", "begun"}
        BY <4>1, Stages
      <4> QED
        BY <4>1, <4>2
    <3> QED
      BY <3>1, <3>2
  <2> QED
    BY <1>b, <2>1, <2>2
<1>2. ASSUME NEW k \in Messages, InsertMessage(k) PROVE G
  <2> DEFINE later == \E j \in Messages : j > k /\ stage[j] \notin {"new", "begun"}
  <2>1. CASE Len(lastQueue) = QueueSize \/ later
    BY <1>2, <1>c, <2>1 DEF InsertMessage
  <2>2. CASE Len(lastQueue) # QueueSize /\ ~later
    <3>1. /\ lastQueue' = Append(lastQueue, k) /\ lastTask' = lastTask
          /\ lastMessage' = lastMessage /\ stage' = [stage EXCEPT ![k] = "inserted"]
          /\ stage[k] = "begun" /\ (lastUnsure => lastUnsure')
      BY <1>2, <2>2 DEF InsertMessage
    <3>2. Stored' = Stored \cup {k} /\ \A j \in Stored : j <= k /\ j \in Nat
      <4>1. Stored' = Stored \cup {k}
        BY <3>1 DEF Stored, TypeOK
      <4>2. ASSUME NEW j \in Stored PROVE j <= k /\ j \in Nat
        <5>1. j \in Messages /\ j \in Nat /\ k \in Nat
          BY <1>a DEF Stored
        <5>2. ~(j > k)
          BY <2>2 DEF Stored
        <5> QED
          BY <5>1, <5>2
      <4> QED
        BY <4>1, <4>2
    <3>3. /\ DOMAIN lastQueue' = 1 .. (Len(lastQueue) + 1)
          /\ \A i \in DOMAIN lastQueue : lastQueue'[i] = lastQueue[i]
          /\ lastQueue'[Len(lastQueue) + 1] = k
      BY <1>a, <3>1, Added
    <3>4. CASE lastUnsure
      BY <1>c, <3>1, <3>4
    <3>5. CASE ~lastUnsure
      <4>1. /\ \A i \in DOMAIN lastQueue : lastQueue[i] \in Stored
            /\ \A w \in Workers : lastTask[w] # 0 => lastTask[w] \in Stored
            /\ lastMessage # 0 => lastMessage \in Stored
        BY <3>5 DEF LastInOrder
      <4>2. LastInOrder'
        <5>1. ASSUME NEW i \in DOMAIN lastQueue'
              PROVE  /\ lastQueue'[i] \in Stored'
                     /\ lastMessage' <= lastQueue'[i]
                     /\ \A w \in Workers : lastTask'[w] <= lastQueue'[i]
                     /\ \A j \in DOMAIN lastQueue' : i < j =>
                           lastQueue'[i] <= lastQueue'[j]
          <6>1. CASE i \in DOMAIN lastQueue
            BY <1>a, <3>1, <3>2, <3>3, <3>5, <4>1, <6>1 DEF LastInOrder
          <6>2. CASE i = Len(lastQueue) + 1
            <7>1. lastQueue'[i] = k /\ k \in Nat
              BY <1>a, <3>3, <6>2
            <7>2. lastMessage <= k /\ \A w \in Workers : lastTask[w] <= k
              BY <1>a, <3>2, <4>1
            <7> QED
              BY <1>a, <3>1, <3>2, <3>3, <6>2, <7>1, <7>2
          <6> QED
            BY <1>a, <3>3, <6>1, <6>2
        <5>2. /\ \A w \in Workers : lastTask'[w] # 0 =>
                    /\ lastTask'[w] \in Stored'
                    /\ lastMessage' <= lastTask'[w]
                    /\ \A v \in Workers \ {w} : lastTask'[v] = 0
              /\ lastMessage' # 0 => lastMessage' \in Stored'
          BY <3>1, <3>2, <3>5 DEF LastInOrder
        <5> QED
          BY <5>1, <5>2 DEF LastInOrder
      <4>3. LastKept'
        <5> SUFFICES ASSUME NEW m \in Messages, stage'[m] \in {"inserted", "sent"}
                     PROVE  \/ m <= lastMessage'
                            \/ \E w \in Workers : m <= lastTask'[w]
                            \/ \E i \in DOMAIN lastQueue' : m <= lastQueue'[i]
          BY DEF LastKept
        <5>1. CASE m = k
          <6>1. Len(lastQueue) + 1 \in DOMAIN lastQueue'
                   /\ m <= lastQueue'[Len(lastQueue) + 1]
            BY <1>a, <3>3, <5>1
          <6> QED
            BY <6>1
        <5>2. CASE m # k
          <6>1. stage[m] \in {"inserted", "sent"}
            BY <3>1, <5>2 DEF TypeOK
          <6> QED
            BY <1>a, <3>1, <3>3, <3>5, <6>1 DEF LastKept
        <5> QED
          BY <5>1, <5>2
      <4> QED
        BY <4>2, <4>3
    <3> QED
      BY <3>4, <3>5
  <2> QED
    BY <2>1, <2>2
<1>3. ASSUME NEW k \in Messages, QueueMessage(k) PROVE G
  <2>1. UNCHANGED <<lastQueue, lastTask, lastMessage, lastUnsure>>
    BY <1>3 DEF QueueMessage, lastVars
  <2>2. /\ Stored \subseteq Stored'
        /\ \A m \in Messages : stage'[m] \in {"inserted", "sent"} =>
              stage[m] \in {"inserted", "sent"}
    BY <1>3 DEF QueueMessage, Stored, TypeOK
  <2> QED
    BY <1>b, <2>1, <2>2
<1>4. ASSUME NEW x \in Users, NEW k \in Messages, Ack(x, k) PROVE G
  <2>1. UNCHANGED <<lastQueue, lastTask, lastMessage, lastUnsure, stage>>
    BY <1>4 DEF Ack, requests, lastVars
  <2> QED
    BY <1>b, <2>1 DEF Stored
<1>5. ASSUME NEW x \in Users, AckServer(x) PROVE G
  <2>1. UNCHANGED <<lastQueue, lastTask, lastMessage, lastUnsure, stage>>
    BY <1>5 DEF AckServer, requests, lastVars
  <2> QED
    BY <1>b, <2>1 DEF Stored
<1>6. ASSUME NEW x \in Users, DeleteUnread(x) PROVE G
  <2>1. UNCHANGED <<lastQueue, lastTask, lastMessage, lastUnsure, stage>>
    BY <1>6 DEF DeleteUnread, requests, lastVars
  <2> QED
    BY <1>b, <2>1 DEF Stored
<1>7. ASSUME NEW x \in Users, InsertUnread(x) PROVE G
  <2>1. UNCHANGED <<lastQueue, lastTask, lastMessage, lastUnsure, stage>>
    BY <1>7 DEF InsertUnread, requests, lastVars
  <2> QED
    BY <1>b, <2>1 DEF Stored
<1>8. ASSUME NEW w \in Workers, TakeAck(w) PROVE G
  <2>1. UNCHANGED <<lastQueue, lastTask, lastMessage, lastUnsure, stage>>
    BY <1>8 DEF TakeAck, requests, lastVars
  <2> QED
    BY <1>b, <2>1 DEF Stored
<1>9. ASSUME NEW w \in Workers, TakeMessage(w) PROVE G
  <2>1. UNCHANGED <<lastQueue, lastTask, lastMessage, lastUnsure, stage>>
    BY <1>9 DEF TakeMessage, requests, lastVars
  <2> QED
    BY <1>b, <2>1 DEF Stored
<1>10. ASSUME NEW w \in Workers, NEW x \in Users, AckMessage(w, x) PROVE G
  <2>1. UNCHANGED <<lastQueue, lastTask, lastMessage, lastUnsure, stage>>
    BY <1>10 DEF AckMessage, requests, lastVars
  <2> QED
    BY <1>b, <2>1 DEF Stored
<1>11. ASSUME NEW w \in Workers, ProcessMessage(w) PROVE G
  <2>1. UNCHANGED <<lastQueue, lastTask, lastMessage, lastUnsure, stage>>
    BY <1>11 DEF ProcessMessage, requests, lastVars
  <2> QED
    BY <1>b, <2>1 DEF Stored
<1>12. ASSUME NEW w \in Workers, NEW x \in Users, AddMention(w, x) PROVE G
  <2>1. UNCHANGED <<lastQueue, lastTask, lastMessage, lastUnsure, stage>>
    BY <1>12 DEF AddMention, requests, lastVars
  <2> QED
    BY <1>b, <2>1 DEF Stored
<1>13. ASSUME NEW w \in Workers, NEW x \in Users, AckFails(w, x) PROVE G
  <2>1. UNCHANGED <<lastQueue, lastTask, lastMessage, lastUnsure, stage>>
    BY <1>13 DEF AckFails, requests, lastVars
  <2> QED
    BY <1>b, <2>1 DEF Stored
<1>14. ASSUME NEW w \in Workers, AddMentionFails(w) PROVE G
  <2>1. UNCHANGED <<lastQueue, lastTask, lastMessage, lastUnsure, stage>>
    BY <1>14 DEF AddMentionFails, requests, lastVars
  <2> QED
    BY <1>b, <2>1 DEF Stored
<1>15. ASSUME NEW w \in Workers, TakeLast(w) PROVE G
  <2>1. /\ lastQueue # <<>> /\ lastQueue' = Tail(lastQueue)
        /\ lastTask' = [lastTask EXCEPT ![w] = Head(lastQueue)]
        /\ lastMessage' = lastMessage /\ stage' = stage
        /\ lastUnsure \/ (\E v \in Workers \ {w} : lastTask[v] # 0) => lastUnsure'
    BY <1>15 DEF TakeLast, requests
  <2>2. CASE lastUnsure \/ \E v \in Workers \ {w} : lastTask[v] # 0
    BY <1>c, <2>1, <2>2
  <2>3. CASE ~lastUnsure /\ \A v \in Workers \ {w} : lastTask[v] = 0
    <3>1. /\ Head(lastQueue) = lastQueue[1] /\ 1 \in DOMAIN lastQueue
          /\ DOMAIN lastQueue' = 1 .. (Len(lastQueue) - 1)
          /\ \A i \in DOMAIN lastQueue' : i + 1 \in DOMAIN lastQueue
                /\ lastQueue'[i] = lastQueue[i + 1]
          /\ \A i \in DOMAIN lastQueue : i # 1 => i - 1 \in DOMAIN lastQueue'
                /\ lastQueue'[i - 1] = lastQueue[i]
      BY <1>a, <2>1, Removed
    <3>2. /\ lastTask'[w] = lastQueue[1] /\ lastTask[w] <= lastQueue[1]
          /\ lastMessage <= lastQueue[1] /\ lastQueue[1] \in Stored
          /\ \A v \in Workers \ {w} : lastTask'[v] = 0
          /\ \A i \in DOMAIN lastQueue : i # 1 => lastQueue[1] <= lastQueue[i]
      <4>1. /\ lastQueue[1] \in Stored
            /\ lastMessage <= lastQueue[1]
            /\ \A v \in Workers : lastTask[v] <= lastQueue[1]
            /\ \A j \in DOMAIN lastQueue : 1 < j => lastQueue[1] <= lastQueue[j]
        BY <2>3, <3>1 DEF LastInOrder
      <4>2. \A i \in DOMAIN lastQueue : i # 1 => 1 < i
        BY <1>a
      <4>3. lastTask'[w] = lastQueue[1] /\ \A v \in Workers \ {w} : lastTask'[v] = 0
        BY <2>1, <2>3, <3>1 DEF TypeOK
      <4> QED
        BY <4>1, <4>2, <4>3
    <3>3. Stored' = Stored
      BY <2>1 DEF Stored
    <3>4. LastInOrder'
      <4>1. ASSUME NEW i \in DOMAIN lastQueue'
            PROVE  /\ lastQueue'[i] \in Stored'
                   /\ lastMessage' <= lastQueue'[i]
                   /\ \A v \in Workers : lastTask'[v] <= lastQueue'[i]
                   /\ \A j \in DOMAIN lastQueue' : i < j => lastQueue'[i] <= lastQueue'[j]
        <5>1. i \in Nat /\ i + 1 \in DOMAIN lastQueue
                 /\ lastQueue'[i] = lastQueue[i + 1] /\ i + 1 # 1
          BY <1>a, <3>1
        <5>2. /\ lastQueue[i + 1] \in Stored
              /\ lastMessage <= lastQueue[i + 1]
              /\ \A j \in DOMAIN lastQueue : i + 1 < j => lastQueue[i + 1] <= lastQueue[j]
          BY <2>3, <5>1 DEF LastInOrder
        <5>3. \A v \in Workers : lastTask'[v] <= lastQueue[i + 1]
          BY <1>a, <3>2, <5>1
        <5>4. \A j \in DOMAIN lastQueue' : i < j => lastQueue'[i] <= lastQueue'[j]
          BY <1>a, <3>1, <5>1, <5>2
        <5> QED
          BY <2>1, <3>3, <5>1, <5>2, <5>3, <5>4
      <4>2. \A v \in Workers : lastTask'[v] # 0 =>
                  /\ lastTask'[v] \in Stored'
                  /\ lastMessage' <= lastTask'[v]
                  /\ \A x \in Workers \ {v} : lastTask'[x] = 0
        BY <2>1, <3>2, <3>3
      <4>3. lastMessage' # 0 => lastMessage' \in Stored'
        BY <2>1, <2>3, <3>3 DEF LastInOrder
      <4> QED
        BY <4>1, <4>2, <4>3 DEF LastInOrder
    <3>5. LastKept'
      <4> SUFFICES ASSUME NEW m \in Messages, stage'[m] \in {"inserted", "sent"}
                   PROVE  \/ m <= lastMessage'
                          \/ \E v \in Workers : m <= lastTask'[v]
                          \/ \E i \in DOMAIN lastQueue' : m <= lastQueue'[i]
        BY DEF LastKept
      <4>1. \/ m <= lastMessage
            \/ \E v \in Workers : m <= lastTask[v]
            \/ \E i \in DOMAIN lastQueue : m <= lastQueue[i]
        BY <2>1, <2>3 DEF LastKept
      <4>2. CASE m <= lastMessage
        BY <2>1, <4>2
      <4>3. ASSUME NEW v \in Workers, m <= lastTask[v] PROVE m <= lastTask'[w]
        <5>1. v = w
          BY <1>a, <2>3, <4>3
        <5> QED
          BY <1>a, <3>1, <3>2, <4>3, <5>1
      <4>4. ASSUME NEW i \in DOMAIN lastQueue, m <= lastQueue[i]
            PROVE  m <= lastTask'[w] \/ \E j \in DOMAIN lastQueue' : m <= lastQueue'[j]
        <5>1. CASE i = 1
          BY <3>2, <4>4, <5>1
        <5>2. CASE i # 1
          BY <3>1, <4>4, <5>2
        <5> QED
          BY <5>1, <5>2
      <4> QED
        BY <4>1, <4>2, <4>3, <4>4
    <3> QED
      BY <3>4, <3>5
  <2> QED
    BY <2>2, <2>3
<1>16. ASSUME NEW w \in Workers, WriteLast(w) PROVE G
  <2>1. /\ lastTask[w] # 0 /\ lastMessage' = lastTask[w]
        /\ lastTask' = [lastTask EXCEPT ![w] = 0]
        /\ lastQueue' = lastQueue /\ lastUnsure' = lastUnsure /\ stage' = stage
    BY <1>16 DEF WriteLast, requests
  <2>2. CASE lastUnsure
    BY <1>c, <2>1, <2>2
  <2>3. CASE ~lastUnsure
    <3>1. /\ lastTask[w] \in Stored /\ lastMessage <= lastTask[w]
          /\ \A v \in Workers \ {w} : lastTask[v] = 0
      BY <2>1, <2>3 DEF LastInOrder
    <3>2. \A v \in Workers : lastTask'[v] = 0
      BY <2>1, <3>1 DEF TypeOK
    <3>3. Stored' = Stored
      BY <2>1 DEF Stored
    <3>4. LastInOrder'
      <4>1. ASSUME NEW i \in DOMAIN lastQueue
            PROVE  /\ lastQueue[i] \in Stored /\ lastTask[w] <= lastQueue[i]
                         /\ 0 <= lastQueue[i]
                   /\ \A j \in DOMAIN lastQueue : i < j => lastQueue[i] <= lastQueue[j]
        BY <1>a, <2>3 DEF LastInOrder
      <4> QED
        BY <2>1, <3>1, <3>2, <3>3, <4>1 DEF LastInOrder
    <3>5. LastKept'
      <4> SUFFICES ASSUME NEW m \in Messages, stage'[m] \in {"inserted", "sent"}
                   PROVE  m <= lastMessage' \/ \E i \in DOMAIN lastQueue' : m <= lastQueue'[i]
        BY DEF LastKept
      <4>1. \/ m <= lastMessage
            \/ \E v \in Workers : m <= lastTask[v]
            \/ \E i \in DOMAIN lastQueue : m <= lastQueue[i]
        BY <2>1, <2>3 DEF LastKept
      <4>2. CASE m <= lastMessage
        BY <1>a, <2>1, <3>1, <4>2
      <4>3. ASSUME NEW v \in Workers, m <= lastTask[v] PROVE m <= lastMessage'
        BY <1>a, <2>1, <3>1, <4>3
      <4>4. ASSUME NEW i \in DOMAIN lastQueue, m <= lastQueue[i]
            PROVE  \E j \in DOMAIN lastQueue' : m <= lastQueue'[j]
        BY <2>1, <4>4
      <4> QED
        BY <4>1, <4>2, <4>3, <4>4
    <3> QED
      BY <3>4, <3>5
  <2> QED
    BY <2>2, <2>3
<1>17. ASSUME NEW w \in Workers, WriteLastFails(w) PROVE G
  BY <1>17, <1>c DEF WriteLastFails
<1>18. CASE Crash
  <2>1. CASE lastUnsure \/ lastQueue # <<>> \/ \E w \in Workers : lastTask[w] # 0
    BY <1>18, <1>c, <2>1 DEF Crash
  <2>2. CASE lastQueue = <<>> /\ \A w \in Workers : lastTask[w] = 0
    <3>1. /\ lastQueue' = lastQueue /\ lastMessage' = lastMessage
          /\ \A w \in Workers : lastTask'[w] = lastTask[w]
          /\ lastUnsure' = lastUnsure
      BY <1>18, <2>2 DEF Crash, TypeOK
    <3>2. Stored \subseteq Stored'
      BY <1>18 DEF Crash, Stored, TypeOK
    <3>3. \A m \in Messages : stage'[m] \in {"inserted", "sent"} =>
             stage[m] \in {"inserted", "sent"}
      BY <1>18 DEF Crash, TypeOK
    <3>4. LastInOrder'
      BY <3>1, <3>2 DEF LastInOrder
    <3>5. LastKept'
      BY <3>1, <3>3 DEF LastKept
    <3> QED
      BY <3>4, <3>5
  <2> QED
    BY <2>1, <2>2
<1>19. CASE UNCHANGED vars
  <2>1. UNCHANGED <<lastQueue, lastTask, lastMessage, lastUnsure, stage>>
    BY <1>19 DEF vars, requests, lastVars
  <2> QED
    BY <1>b, <2>1 DEF Stored
<1> QED
  BY <1>1, <1>2, <1>3, <1>4, <1>5, <1>6, <1>7, <1>8, <1>9, <1>10, <1>11, <1>12,
     <1>13, <1>14, <1>15, <1>16, <1>17, <1>18, <1>19
     DEF Next, Sending, Clearing, AckWorker, LastWorker


(***************************************************************************)
(* Acknowledgements.                                                       *)
(***************************************************************************)
LEMMA UpToTopStep == TypeOK /\ Numbered /\ UpToTop /\ [Next]_vars => UpToTop'
<1> SUFFICES ASSUME TypeOK, Numbered, UpToTop, [Next]_vars PROVE UpToTop'
  OBVIOUS
<1> USE UnreadsAssumption
<1>t. TypeOK'
  BY TypeStep
<1>a. ASSUME NEW x \in Users PROVE top[x] <= top'[x] /\ top[x] \in Nat /\ top'[x] \in Nat
  <2>1. top[x] <= top'[x]
    BY Marks
  <2> QED
    BY <1>t, <2>1 DEF TypeOK, Ids
<1>b. queue \in Seq(Data) /\ queue' \in Seq(Data)
  BY <1>t DEF TypeOK
<1>c. ASSUME \A i \in DOMAIN queue' : IsAck(queue'[i]) =>
                \/ \E j \in DOMAIN queue : queue'[i] = queue[j]
                \/ queue'[i].id # 0 /\ queue'[i].id <= top'[queue'[i].user]
      PROVE  \A i \in DOMAIN queue' : IsAck(queue'[i]) =>
                queue'[i].id # 0 /\ queue'[i].id <= top'[queue'[i].user]
  <2> SUFFICES ASSUME NEW i \in DOMAIN queue', IsAck(queue'[i]),
                      NEW j \in DOMAIN queue, queue'[i] = queue[j]
               PROVE  queue'[i].id # 0 /\ queue'[i].id <= top'[queue'[i].user]
    BY <1>c
  <2>1. queue[j] \in Data /\ IsAck(queue[j])
    BY <1>b
  <2>2. queue[j].user \in Users /\ queue[j].id \in Nat
    BY <2>1, DataFacts DEF Ids
  <2>3. queue[j].id # 0 /\ queue[j].id <= top[queue[j].user]
    BY <2>1 DEF UpToTop
  <2> QED
    BY <1>a, <2>2, <2>3
<1>d. ASSUME \A x \in Users, w \in Workers : acks'[w][x] = acks[w][x] \/ acks'[w][x] <= top[x]
      PROVE  \A x \in Users, w \in Workers : acks'[w][x] <= top'[x]
  <2> SUFFICES ASSUME NEW x \in Users, NEW w \in Workers PROVE acks'[w][x] <= top'[x]
    OBVIOUS
  <2>1. acks'[w][x] \in Nat /\ acks'[w][x] <= top[x]
    <3>1. acks'[w][x] \in Nat /\ acks[w][x] <= top[x]
      BY <1>t DEF UpToTop, TypeOK, Ids
    <3> QED
      BY <1>d, <3>1
  <2> QED
    BY <1>a, <2>1
<1>e. ASSUME \A x \in Users : clearing'[x] # None =>
                \/ clearing[x] # None /\ clearing'[x].time = clearing[x].time
                \/ clearing'[x].time <= top'[x]
      PROVE  \A x \in Users : clearing'[x] # None => clearing'[x].time <= top'[x]
  <2> SUFFICES ASSUME NEW x \in Users, clearing'[x] # None, clearing[x] # None,
                      clearing'[x].time = clearing[x].time
               PROVE  clearing'[x].time <= top'[x]
    BY <1>e
  <2>1. clearing[x].time \in Nat /\ clearing[x].time <= top[x]
    BY DEF UpToTop, TypeOK, Clearance, Ids
  <2> QED
    BY <1>a, <2>1
<1>f. CASE UNCHANGED <<queue, acks, clearing>>
  BY <1>c, <1>d, <1>e, <1>f DEF UpToTop
<1>1. CASE SendMessage
  <2>1. UNCHANGED <<queue, acks, clearing>>
    BY <1>1 DEF SendMessage, requests, working
  <2> QED
    BY <1>f, <2>1
<1>2. ASSUME NEW m \in Messages, InsertMessage(m) PROVE UpToTop'
  <2>1. UNCHANGED <<queue, acks, clearing>>
    BY <1>2 DEF InsertMessage, requests, working
  <2> QED
    BY <1>f, <2>1
<1>3. ASSUME NEW m \in Messages, QueueMessage(m) PROVE UpToTop'
  <2>1. \A i \in DOMAIN queue' : IsAck(queue'[i]) =>
           \E j \in DOMAIN queue : queue'[i] = queue[j]
    <3>1. [message |-> m] \in Data /\ ~IsAck([message |-> m])
      BY DataFacts
    <3>2. queue' = queue \/ queue' = Append(queue, [message |-> m])
      BY <1>3 DEF QueueMessage
    <3>3. ASSUME queue' = Append(queue, [message |-> m]), NEW i \in DOMAIN queue', IsAck(queue'[i])
          PROVE  \E j \in DOMAIN queue : queue'[i] = queue[j]
      <4>1. i \in DOMAIN queue
        BY <1>b, <3>1, <3>3, Added
      <4> QED
        BY <1>b, <3>1, <3>3, <4>1, Added
    <3> QED
      BY <3>2, <3>3
  <2>2. acks' = acks
    BY <1>3 DEF QueueMessage, working
  <2>3. clearing' = clearing
    BY <1>3 DEF QueueMessage
  <2> QED
    BY <1>c, <1>d, <1>e, <2>1, <2>2, <2>3 DEF UpToTop
<1>4. ASSUME NEW u \in Users, NEW m \in Messages, Ack(u, m) PROVE UpToTop'
  <2>1. \A i \in DOMAIN queue' : IsAck(queue'[i]) =>
           \/ \E j \in DOMAIN queue : queue'[i] = queue[j]
           \/ queue'[i].id # 0 /\ queue'[i].id <= top'[queue'[i].user]
    <3> DEFINE d == [user |-> u, id |-> m]
    <3>1. d \in Data /\ d.user = u /\ d.id = m
      BY DataFacts DEF Ids, Messages
    <3> HIDE DEF d
    <3>2. queue' = queue \/ queue' = Append(queue, d)
      BY <1>4 DEF Ack, d
    <3>3. m <= top'[u] /\ m # 0
      BY <1>4, <1>a DEF Ack, Asked, TypeOK, Messages
    <3>4. ASSUME queue' = Append(queue, d), NEW i \in DOMAIN queue'
          PROVE  (\E j \in DOMAIN queue : queue'[i] = queue[j]) \/ queue'[i] = d
      <4>1. /\ \A j \in DOMAIN queue : queue'[j] = queue[j]
            /\ queue'[Len(queue) + 1] = d
            /\ DOMAIN queue = 1 .. Len(queue) /\ DOMAIN queue' = 1 .. (Len(queue) + 1)
            /\ Len(queue) \in Nat
        BY <1>b, <3>1, <3>4, Added
      <4>2. CASE i \in DOMAIN queue
        BY <4>1, <4>2
      <4>3. CASE i \notin DOMAIN queue
        BY <4>1, <4>3
      <4> QED
        BY <4>2, <4>3
    <3> QED
      BY <3>1, <3>2, <3>3, <3>4
  <2>2. acks' = acks
    BY <1>4 DEF Ack, working
  <2>3. clearing' = clearing
    BY <1>4 DEF Ack
  <2> QED
    BY <1>c, <1>d, <1>e, <2>1, <2>2, <2>3 DEF UpToTop
<1>5. ASSUME NEW u \in Users, AckServer(u) PROVE UpToTop'
  <2>1. queue' = queue
    BY <1>5 DEF AckServer
  <2>2. acks' = acks
    BY <1>5 DEF AckServer, working
  <2>3. \A x \in Users : clearing'[x] # None =>
           \/ clearing[x] # None /\ clearing'[x].time = clearing[x].time
           \/ clearing'[x].time <= top'[x]
    <3>1. Now \in Nat
      BY NowIs DEF Ids
    <3>2. clearing' = [clearing EXCEPT ![u] = [time |-> Now, deleted |-> FALSE]]
      BY <1>5 DEF AckServer
    <3>3. Now <= top'[u]
      BY <1>5, <1>a, <3>1 DEF AckServer, Asked, TypeOK
    <3> QED
      BY <3>2, <3>3 DEF TypeOK
  <2> QED
    BY <1>c, <1>d, <1>e, <2>1, <2>2, <2>3 DEF UpToTop
<1>6. ASSUME NEW u \in Users, DeleteUnread(u) PROVE UpToTop'
  <2>1. queue' = queue
    BY <1>6 DEF DeleteUnread
  <2>2. acks' = acks
    BY <1>6 DEF DeleteUnread, working
  <2>3. \A x \in Users : clearing'[x] # None =>
           clearing[x] # None /\ clearing'[x].time = clearing[x].time
    <3>1. clearing[u] # None /\ clearing[u] \in Clearance
          /\ clearing' = [clearing EXCEPT ![u] = [clearing[u] EXCEPT !.deleted = TRUE]]
      BY <1>6 DEF DeleteUnread, TypeOK
    <3>2. [clearing[u] EXCEPT !.deleted = TRUE].time = clearing[u].time
      BY <3>1 DEF Clearance
    <3> QED
      BY <3>1, <3>2 DEF TypeOK
  <2> QED
    BY <1>c, <1>d, <1>e, <2>1, <2>2, <2>3 DEF UpToTop
<1>7. ASSUME NEW u \in Users, InsertUnread(u) PROVE UpToTop'
  <2>1. queue' = queue
    BY <1>7 DEF InsertUnread
  <2>2. acks' = acks
    BY <1>7 DEF InsertUnread, working
  <2>3. \A x \in Users : clearing'[x] # None => clearing'[x] = clearing[x]
    BY <1>7 DEF InsertUnread, TypeOK
  <2> QED
    BY <1>c, <1>d, <1>e, <2>1, <2>2, <2>3 DEF UpToTop
<1>8. ASSUME NEW w \in Workers, TakeAck(w) PROVE UpToTop'
  <2>1. \A i \in DOMAIN queue' : \E j \in DOMAIN queue : queue'[i] = queue[j]
    <3>1. queue # <<>> /\ queue' = Tail(queue)
      BY <1>8 DEF TakeAck
    <3> QED
      BY <1>b, <3>1, Removed
  <2>2. \A x \in Users, v \in Workers : acks'[v][x] = acks[v][x] \/ acks'[v][x] <= top[x]
    <3>1. /\ queue # <<>> /\ IsAck(Head(queue))
          /\ acks' = [acks EXCEPT ![w][Head(queue).user] = Head(queue).id]
      BY <1>8 DEF TakeAck, TakenAck
    <3>2. Head(queue) = queue[1] /\ 1 \in DOMAIN queue /\ Head(queue) \in Data
      BY <1>b, <3>1, Removed
    <3>3. Head(queue).user \in Users /\ Head(queue).id <= top[Head(queue).user]
      BY <3>1, <3>2, DataFacts DEF UpToTop
    <3> QED
      BY <3>1, <3>3 DEF TypeOK
  <2>3. clearing' = clearing
    BY <1>8 DEF TakeAck
  <2> QED
    BY <1>c, <1>d, <1>e, <2>1, <2>2, <2>3 DEF UpToTop
<1>9. ASSUME NEW w \in Workers, TakeMessage(w) PROVE UpToTop'
  <2>1. \A i \in DOMAIN queue' : \E j \in DOMAIN queue : queue'[i] = queue[j]
    <3>1. queue # <<>> /\ queue' = Tail(queue)
      BY <1>9 DEF TakeMessage
    <3> QED
      BY <1>b, <3>1, Removed
  <2>2. acks' = acks
    BY <1>9 DEF TakeMessage
  <2>3. clearing' = clearing
    BY <1>9 DEF TakeMessage
  <2> QED
    BY <1>c, <1>d, <1>e, <2>1, <2>2, <2>3 DEF UpToTop
<1>10. ASSUME NEW w \in Workers, NEW u \in Users, AckMessage(w, u) PROVE UpToTop'
  <2>1. queue' = queue
    BY <1>10 DEF AckMessage, requests
  <2>2. \A x \in Users, v \in Workers : acks'[v][x] = acks[v][x] \/ acks'[v][x] <= top[x]
    <3>1. acks' = [acks EXCEPT ![w][u] = 0]
      BY <1>10 DEF AckMessage
    <3>2. 0 <= top[u]
      BY <1>a
    <3> QED
      BY <3>1, <3>2 DEF TypeOK
  <2>3. clearing' = clearing
    BY <1>10 DEF AckMessage, requests
  <2> QED
    BY <1>c, <1>d, <1>e, <2>1, <2>2, <2>3 DEF UpToTop
<1>11. ASSUME NEW w \in Workers, ProcessMessage(w) PROVE UpToTop'
  <2>1. UNCHANGED <<queue, acks, clearing>>
    BY <1>11 DEF ProcessMessage, requests, working
  <2> QED
    BY <1>f, <2>1
<1>12. ASSUME NEW w \in Workers, NEW u \in Users, AddMention(w, u) PROVE UpToTop'
  <2>1. UNCHANGED <<queue, acks, clearing>>
    BY <1>12 DEF AddMention, requests, working
  <2> QED
    BY <1>f, <2>1
<1>13. ASSUME NEW w \in Workers, NEW u \in Users, AckFails(w, u) PROVE UpToTop'
  <2>1. queue' = queue
    BY <1>13 DEF AckFails, requests
  <2>2. \A x \in Users, v \in Workers : acks'[v][x] = acks[v][x] \/ acks'[v][x] <= top[x]
    <3>1. acks' = [acks EXCEPT ![w][u] = 0]
      BY <1>13 DEF AckFails
    <3>2. 0 <= top[u]
      BY <1>a
    <3> QED
      BY <3>1, <3>2 DEF TypeOK
  <2>3. clearing' = clearing
    BY <1>13 DEF AckFails, requests
  <2> QED
    BY <1>c, <1>d, <1>e, <2>1, <2>2, <2>3 DEF UpToTop
<1>14. ASSUME NEW w \in Workers, AddMentionFails(w) PROVE UpToTop'
  <2>1. UNCHANGED <<queue, acks, clearing>>
    BY <1>14 DEF AddMentionFails, requests, working
  <2> QED
    BY <1>f, <2>1
<1>15. ASSUME NEW w \in Workers, TakeLast(w) PROVE UpToTop'
  <2>1. UNCHANGED <<queue, acks, clearing>>
    BY <1>15 DEF TakeLast, requests, working
  <2> QED
    BY <1>f, <2>1
<1>16. ASSUME NEW w \in Workers, WriteLast(w) PROVE UpToTop'
  <2>1. UNCHANGED <<queue, acks, clearing>>
    BY <1>16 DEF WriteLast, requests, working
  <2> QED
    BY <1>f, <2>1
<1>17. ASSUME NEW w \in Workers, WriteLastFails(w) PROVE UpToTop'
  <2>1. UNCHANGED <<queue, acks, clearing>>
    BY <1>17 DEF WriteLastFails, requests, working
  <2> QED
    BY <1>f, <2>1
<1>18. CASE Crash
  <2>1. queue' = <<>>
    BY <1>18 DEF Crash
  <2>2. \A x \in Users, v \in Workers : acks'[v][x] <= top[x]
    BY <1>18, <1>a DEF Crash
  <2>3. \A x \in Users : clearing'[x] = None
    BY <1>18 DEF Crash
  <2> QED
    BY <1>c, <1>d, <1>e, <2>1, <2>2, <2>3 DEF UpToTop
<1>19. CASE UNCHANGED vars
  <2>1. UNCHANGED <<queue, acks, clearing>>
    BY <1>19 DEF vars, requests, working
  <2> QED
    BY <1>f, <2>1
<1> QED
  BY <1>1, <1>2, <1>3, <1>4, <1>5, <1>6, <1>7, <1>8, <1>9, <1>10, <1>11, <1>12,
     <1>13, <1>14, <1>15, <1>16, <1>17, <1>18, <1>19
     DEF Next, Sending, Clearing, AckWorker, LastWorker


\* The acknowledgements of a user in a queue, and the last of them.
AckAt(q, i, u) == IsAck(q[i]) /\ q[i].user = u

HoldsAck(q, u) == \E i \in DOMAIN q : AckAt(q, i, u)

LastAck(q, u, id) ==
    \A i \in DOMAIN q :
        AckAt(q, i, u) /\ (\A j \in DOMAIN q : j > i => ~AckAt(q, j, u)) => q[i].id = id

\* After data has been added.
LEMMA AckAdded ==
    ASSUME NEW q \in Seq(Data), NEW d \in Data, NEW u, NEW id
    PROVE  /\ IsAck(d) /\ d.user = u => HoldsAck(Append(q, d), u)
                 /\ LastAck(Append(q, d), u, d.id)
           /\ ~(IsAck(d) /\ d.user = u) =>
                 /\ HoldsAck(Append(q, d), u) <=> HoldsAck(q, u)
                 /\ LastAck(q, u, id) => LastAck(Append(q, d), u, id)
<1> DEFINE p == Append(q, d)
<1>1. /\ DOMAIN q = 1 .. Len(q) /\ DOMAIN p = 1 .. (Len(q) + 1) /\ Len(q) \in Nat
      /\ \A i \in DOMAIN q : p[i] = q[i]
      /\ p[Len(q) + 1] = d
  BY Added
<1> HIDE DEF p
<1>2. \A i \in DOMAIN q : AckAt(p, i, u) <=> AckAt(q, i, u)
  BY <1>1 DEF AckAt
<1>3. CASE IsAck(d) /\ d.user = u
  <2>1. AckAt(p, Len(q) + 1, u) /\ Len(q) + 1 \in DOMAIN p
    BY <1>1, <1>3 DEF AckAt
  <2>2. ASSUME NEW i \in DOMAIN p, AckAt(p, i, u), \A j \in DOMAIN p : j > i =>
                  ~AckAt(p, j, u)
        PROVE  p[i].id = d.id
    <3>1. ~(Len(q) + 1 > i)
      BY <2>1, <2>2
    <3>2. i = Len(q) + 1
      BY <1>1, <3>1
    <3> QED
      BY <1>1, <3>2
  <2> QED
    BY <1>3, <2>1, <2>2 DEF HoldsAck, LastAck, p
<1>4. CASE ~(IsAck(d) /\ d.user = u)
  <2>1. ~AckAt(p, Len(q) + 1, u)
    BY <1>1, <1>4 DEF AckAt
  <2>2. HoldsAck(p, u) <=> HoldsAck(q, u)
    BY <1>1, <1>2, <2>1 DEF HoldsAck
  <2>3. ASSUME LastAck(q, u, id), NEW i \in DOMAIN p, AckAt(p, i, u),
               \A j \in DOMAIN p : j > i => ~AckAt(p, j, u)
        PROVE  p[i].id = id
    <3>1. i \in DOMAIN q /\ AckAt(q, i, u)
      BY <1>1, <1>2, <2>1, <2>3
    <3>2. \A j \in DOMAIN q : j > i => ~AckAt(q, j, u)
      BY <1>1, <1>2, <2>3
    <3> QED
      BY <1>1, <2>3, <3>1, <3>2 DEF LastAck
  <2> QED
    BY <1>4, <2>2, <2>3 DEF LastAck, p
<1> QED
  BY <1>3, <1>4

\* After the first has been taken away.
LEMMA AckTaken ==
    ASSUME NEW q \in Seq(Data), q # <<>>, NEW u, NEW id
    PROVE  /\ IsAck(Head(q)) /\ Head(q).user = u => HoldsAck(q, u)
           /\ ~(IsAck(Head(q)) /\ Head(q).user = u) =>
                 (HoldsAck(Tail(q), u) <=> HoldsAck(q, u))
           /\ LastAck(q, u, id) => LastAck(Tail(q), u, id)
           /\ LastAck(q, u, id) /\ IsAck(Head(q)) /\ Head(q).user = u
                 /\ ~HoldsAck(Tail(q), u) =>
                 Head(q).id = id
<1> DEFINE p == Tail(q)
<1>1. /\ Head(q) = q[1] /\ 1 \in DOMAIN q
      /\ Len(q) \in Nat /\ DOMAIN q = 1 .. Len(q) /\ DOMAIN p = 1 .. (Len(q) - 1)
      /\ \A i \in DOMAIN p : i + 1 \in DOMAIN q /\ p[i] = q[i + 1]
      /\ \A i \in DOMAIN q : i # 1 => i - 1 \in DOMAIN p /\ p[i - 1] = q[i]
  BY Removed
<1> HIDE DEF p
<1>2. /\ \A i \in DOMAIN p : AckAt(p, i, u) <=> AckAt(q, i + 1, u)
      /\ \A i \in DOMAIN q : i # 1 => (AckAt(p, i - 1, u) <=> AckAt(q, i, u))
      /\ AckAt(q, 1, u) <=> IsAck(Head(q)) /\ Head(q).user = u
  BY <1>1 DEF AckAt
<1>3. AckAt(q, 1, u) => HoldsAck(q, u)
  BY <1>1 DEF HoldsAck
<1>4. ~AckAt(q, 1, u) => (HoldsAck(p, u) <=> HoldsAck(q, u))
  BY <1>1, <1>2 DEF HoldsAck
<1>5. ASSUME LastAck(q, u, id), NEW i \in DOMAIN p, AckAt(p, i, u),
             \A j \in DOMAIN p : j > i => ~AckAt(p, j, u)
      PROVE  p[i].id = id
  <2>1. i + 1 \in DOMAIN q /\ AckAt(q, i + 1, u) /\ p[i] = q[i + 1] /\ i \in Nat
    BY <1>1, <1>2, <1>5
  <2>2. ASSUME NEW j \in DOMAIN q, j > i + 1 PROVE ~AckAt(q, j, u)
    <3>1. j # 1 /\ j - 1 > i
      BY <1>1, <2>1, <2>2
    <3> QED
      BY <1>1, <1>2, <1>5, <3>1
  <2> QED
    BY <1>5, <2>1, <2>2 DEF LastAck
<1>6. ASSUME LastAck(q, u, id), AckAt(q, 1, u), ~HoldsAck(p, u) PROVE Head(q).id = id
  <2>1. ASSUME NEW j \in DOMAIN q, j > 1 PROVE ~AckAt(q, j, u)
    <3>1. j # 1
      BY <1>1, <2>1
    <3> QED
      BY <1>1, <1>2, <1>6, <3>1 DEF HoldsAck
  <2> QED
    BY <1>1, <1>6, <2>1 DEF LastAck
<1> QED
  BY <1>2, <1>3, <1>4, <1>5, <1>6 DEF LastAck, p

\* What AcksInOrder says of one user.
Sound(u) ==
    /\ clearing[u] # None => clearing[u].time = read[u] /\ ~AckPending(u)
    /\ \A w \in Workers : acks[w][u] # 0 => \A v \in Workers \ {w} : acks[v][u] = 0
    /\ LastAck(queue, u, read[u])
    /\ ~HoldsAck(queue, u) => \A w \in Workers : acks[w][u] # 0 => acks[w][u] = read[u]
    /\ ~AckPending(u) /\ clearing[u] = None => Done(u)

LEMMA SoundIs ==
    /\ AcksInOrder <=> \A u \in Users \ unsure : Sound(u)
    /\ AcksInOrder' <=> \A u \in Users \ unsure' : Sound(u)'
BY DEF AcksInOrder, Sound, AckOf, AckAt, HoldsAck, LastAck

LEMMA PendingIs ==
    ASSUME NEW u
    PROVE  /\ AckPending(u) <=> HoldsAck(queue, u) \/ \E w \in Workers : acks[w][u] # 0
           /\ AckPending(u)' <=> HoldsAck(queue', u) \/ \E w \in Workers : acks'[w][u] # 0
BY DEF AckPending, HoldsAck, AckAt

LEMMA AcksStep ==
    TypeOK /\ Numbered /\ UpToTop /\ Overtaken /\ AcksInOrder /\ [Next]_vars =>
       AcksInOrder'
<1> SUFFICES ASSUME TypeOK, Numbered, UpToTop, Overtaken, AcksInOrder, [Next]_vars,
                    NEW u \in Users, u \notin unsure'
             PROVE  Sound(u)'
  BY SoundIs
<1> USE UnreadsAssumption
<1>a. Sound(u) /\ u \notin unsure /\ overtaken \subseteq overtaken'
  BY Marks, SoundIs
<1>b. queue \in Seq(Data)
  BY DEF TypeOK
<1>c. ASSUME HoldsAck(queue', u) <=> HoldsAck(queue, u),
             LastAck(queue, u, read[u]) => LastAck(queue', u, read[u]),
             \A w \in Workers : acks'[w][u] = acks[w][u],
             read'[u] = read[u], clearing'[u] = clearing[u],
             Done(u) => Done(u)'
      PROVE  Sound(u)'
  <2>1. AckPending(u)' <=> AckPending(u)
    BY <1>c, PendingIs
  <2> QED
    BY <1>a, <1>c, <2>1 DEF Sound
<1>d. ASSUME unread'[u] = unread[u], read'[u] = read[u] PROVE Done(u) => Done(u)'
  BY <1>a, <1>d DEF Done
<1>e. ASSUME queue' = queue, acks' = acks, read' = read, clearing' = clearing, unread' = unread
      PROVE  Sound(u)'
  BY <1>c, <1>d, <1>e
<1>1. CASE SendMessage
  <2>1. UNCHANGED <<queue, acks, read, clearing, unread>>
    BY <1>1 DEF SendMessage, requests, working, marks
  <2> QED
    BY <1>e, <2>1
<1>2. ASSUME NEW k \in Messages, InsertMessage(k) PROVE Sound(u)'
  <2>1. UNCHANGED <<queue, acks, read, clearing, unread>>
    BY <1>2 DEF InsertMessage, requests, working, marks
  <2> QED
    BY <1>e, <2>1
<1>3. ASSUME NEW k \in Messages, QueueMessage(k) PROVE Sound(u)'
  <2>1. [message |-> k] \in Data /\ ~IsAck([message |-> k])
    BY DataFacts
  <2>2. /\ queue' = queue \/ queue' = Append(queue, [message |-> k])
        /\ acks' = acks /\ read' = read /\ clearing' = clearing /\ unread' = unread
    BY <1>3 DEF QueueMessage, working
  <2>3. /\ HoldsAck(queue', u) <=> HoldsAck(queue, u)
        /\ LastAck(queue, u, read[u]) => LastAck(queue', u, read[u])
    <3> DEFINE d == [message |-> k]
    <3>1. d \in Data /\ ~IsAck(d) /\ (queue' = queue \/ queue' = Append(queue, d))
      BY <2>1, <2>2
    <3> HIDE DEF d
    <3>2. CASE queue' = Append(queue, d)
      BY <1>b, <3>1, <3>2, AckAdded
    <3> QED
      BY <3>1, <3>2
  <2> QED
    BY <1>c, <1>d, <2>2, <2>3
<1>4. ASSUME NEW x \in Users, NEW k \in Messages, Ack(x, k) PROVE Sound(u)'
  <2> DEFINE d == [user |-> x, id |-> k]
  <2>1. d \in Data /\ IsAck(d) /\ d.user = x /\ d.id = k
    BY DataFacts DEF Ids, Messages
  <2>2. /\ queue' = (IF Len(queue) = QueueSize THEN queue ELSE Append(queue, d))
        /\ acks' = acks /\ clearing' = clearing /\ unread' = unread
        /\ read' = [read EXCEPT ![x] = k]
        /\ Len(queue) = QueueSize \/ clearing[x] # None => x \in unsure'
    BY <1>4 DEF Ack, Asked, working
  <2> HIDE DEF d
  <2>3. CASE x # u
    <3>1. read'[u] = read[u]
      BY <2>2, <2>3 DEF TypeOK
    <3>2. /\ HoldsAck(queue', u) <=> HoldsAck(queue, u)
          /\ LastAck(queue, u, read[u]) => LastAck(queue', u, read[u])
      BY <1>b, <2>1, <2>2, <2>3, AckAdded
    <3> QED
      BY <1>c, <1>d, <2>2, <3>1, <3>2
  <2>4. CASE x = u
    <3>1. queue' = Append(queue, d) /\ clearing'[u] = None /\ read'[u] = k
      BY <2>2, <2>4 DEF TypeOK
    <3>2. HoldsAck(queue', u) /\ LastAck(queue', u, k)
      BY <1>b, <2>1, <2>4, <3>1, AckAdded
    <3> QED
      BY <1>a, <2>2, <3>1, <3>2, PendingIs DEF Sound
  <2> QED
    BY <2>3, <2>4
<1>5. ASSUME NEW x \in Users, AckServer(x) PROVE Sound(u)'
  <2>1. /\ queue' = queue /\ acks' = acks /\ unread' = unread
        /\ read' = [read EXCEPT ![x] = Now]
        /\ clearing' = [clearing EXCEPT ![x] = [time |-> Now, deleted |-> FALSE]]
        /\ AckPending(x) => x \in unsure'
    BY <1>5 DEF AckServer, Asked, working
  <2>2. CASE x # u
    BY <1>c, <1>d, <2>1, <2>2 DEF TypeOK
  <2>3. CASE x = u
    <3>1. ~AckPending(u) /\ ~AckPending(u)'
      BY <2>1, <2>3, PendingIs
    <3>2. clearing'[u] = [time |-> Now, deleted |-> FALSE] /\ read'[u] = Now
      BY <2>1, <2>3 DEF TypeOK
    <3>3. clearing'[u] \in Clearance
      BY <3>2, NowIs DEF Clearance
    <3>4. LastAck(queue', u, read'[u]) /\ \A w \in Workers : acks'[w][u] = 0
      BY <2>1, <3>1, PendingIs DEF HoldsAck, LastAck
    <3>5. clearing'[u] # None /\ clearing'[u].time = read'[u]
      <4>1. clearing'[u] # None
        BY <3>3
      <4>2. clearing'[u].time = read'[u]
        BY <3>2
      <4> QED
        BY <4>1, <4>2
    <3>6. ~HoldsAck(queue', u)
      BY <2>1, <3>1, PendingIs
    <3> QED
      BY <3>1, <3>4, <3>5, <3>6 DEF Sound
  <2> QED
    BY <2>2, <2>3
<1>6. ASSUME NEW x \in Users, DeleteUnread(x) PROVE Sound(u)'
  <2>1. /\ queue' = queue /\ acks' = acks /\ read' = read
        /\ unread' = [unread EXCEPT ![x] = None]
        /\ clearing' = [clearing EXCEPT ![x] = [clearing[x] EXCEPT !.deleted = TRUE]]
        /\ clearing[x] # None
    BY <1>6 DEF DeleteUnread, working
  <2>2. CASE x # u
    BY <1>c, <1>d, <2>1, <2>2 DEF TypeOK
  <2>3. CASE x = u
    <3>1. clearing[u] \in Clearance
      BY <2>1, <2>3 DEF TypeOK
    <3>2. /\ clearing'[u] = [clearing[u] EXCEPT !.deleted = TRUE]
          /\ [clearing[u] EXCEPT !.deleted = TRUE] \in Clearance
          /\ [clearing[u] EXCEPT !.deleted = TRUE].time = clearing[u].time
      BY <2>1, <2>3, <3>1 DEF Clearance, TypeOK
    <3>3. AckPending(u)' <=> AckPending(u)
      BY <2>1, PendingIs
    <3>4. clearing[u].time = read[u] /\ ~AckPending(u)
      BY <1>a, <2>1, <2>3 DEF Sound
    <3>5. clearing'[u] # None /\ clearing'[u].time = read'[u] /\ ~AckPending(u)'
      BY <2>1, <3>2, <3>3, <3>4
    <3> QED
      BY <1>a, <2>1, <3>5 DEF Sound
  <2> QED
    BY <2>2, <2>3
<1>7. ASSUME NEW x \in Users, InsertUnread(x) PROVE Sound(u)'
  <2>1. /\ queue' = queue /\ acks' = acks /\ read' = read /\ clearing[x] # None
        /\ clearing' = [clearing EXCEPT ![x] = None]
        /\ unread[x] # None => x \in unsure'
        /\ unread[x] = None =>
              unread' = [unread EXCEPT ![x] = [last |-> clearing[x].time, mentions |-> {}]]
    BY <1>7 DEF InsertUnread, working
  <2>2. CASE x # u
    <3>1. unread'[u] = unread[u]
      BY <1>7, <2>2 DEF InsertUnread, TypeOK
    <3> QED
      BY <1>c, <1>d, <2>1, <2>2, <3>1 DEF TypeOK
  <2>3. CASE x = u
    <3>1. clearing[u].time = read[u] /\ ~AckPending(u) /\ clearing[u] \in Clearance
      BY <1>a, <2>1, <2>3 DEF Sound, TypeOK
    <3>2. unread'[u] = [last |-> clearing[u].time, mentions |-> {}]
      BY <2>1, <2>3 DEF TypeOK
    <3>3. unread'[u] \in Document
      BY <3>1, <3>2 DEF Document, Clearance
    <3>4. Done(u)'
      BY <2>1, <3>1, <3>2, <3>3 DEF Done
    <3>5. clearing'[u] = None
      BY <2>1, <2>3 DEF TypeOK
    <3> QED
      BY <1>a, <2>1, <3>4, <3>5 DEF Sound
  <2> QED
    BY <2>2, <2>3
<1>8. ASSUME NEW w \in Workers, TakeAck(w) PROVE Sound(u)'
  <2> DEFINE d == Head(queue)
  <2>1. /\ queue # <<>> /\ queue' = Tail(queue) /\ IsAck(d)
        /\ acks' = [acks EXCEPT ![w][d.user] = d.id]
        /\ (\E v \in Workers \ {w} : acks[v][d.user] # 0) => d.user \in unsure'
        /\ read' = read /\ clearing' = clearing /\ unread' = unread
    BY <1>8 DEF TakeAck, TakenAck
  <2>2. /\ d \in Data /\ d = queue[1] /\ 1 \in DOMAIN queue
    BY <1>b, <2>1, Removed
  <2>3. d.user \in Users /\ d.id # 0
    BY <2>1, <2>2, DataFacts DEF UpToTop
  <2>4. LastAck(queue, u, read[u]) => LastAck(queue', u, read[u])
    BY <1>b, <2>1, AckTaken
  <2>5. CASE d.user # u
    <3>1. HoldsAck(queue', u) <=> HoldsAck(queue, u)
      BY <1>b, <2>1, <2>5, AckTaken
    <3>2. \A v \in Workers : acks'[v][u] = acks[v][u]
      BY <2>1, <2>3, <2>5 DEF TypeOK
    <3> QED
      BY <1>c, <1>d, <2>1, <2>4, <3>1, <3>2
  <2>6. CASE d.user = u
    <3>1. HoldsAck(queue, u)
      BY <1>b, <2>1, <2>6, AckTaken
    <3>2. LastAck(queue, u, read[u]) /\ ~HoldsAck(queue', u) => d.id = read[u]
      BY <1>b, <2>1, <2>6, AckTaken
    <3>3. acks'[w][u] = d.id /\ \A v \in Workers \ {w} : acks'[v][u] = 0
      <4>1. \A v \in Workers \ {w} : acks[v][u] = 0
        BY <2>1, <2>6
      <4> QED
        BY <2>1, <2>6, <4>1 DEF TypeOK
    <3> HIDE DEF d
    <3>4. clearing[u] = None
      BY <1>a, <3>1, PendingIs DEF Sound
    <3>5. AckPending(u)'
      BY <2>3, <3>3, PendingIs
    <3> QED
      BY <1>a, <2>1, <2>4, <3>2, <3>3, <3>4, <3>5 DEF Sound
  <2> QED
    BY <2>5, <2>6
<1>9. ASSUME NEW w \in Workers, TakeMessage(w) PROVE Sound(u)'
  <2>1. /\ queue # <<>> /\ queue' = Tail(queue) /\ ~IsAck(Head(queue))
        /\ acks' = acks /\ read' = read /\ clearing' = clearing /\ unread' = unread
    BY <1>9 DEF TakeMessage, marks
  <2>2. /\ HoldsAck(queue', u) <=> HoldsAck(queue, u)
        /\ LastAck(queue, u, read[u]) => LastAck(queue', u, read[u])
    BY <1>b, <2>1, AckTaken
  <2> QED
    BY <1>c, <1>d, <2>1, <2>2
<1>10. ASSUME NEW w \in Workers, NEW x \in Users, AckMessage(w, x) PROVE Sound(u)'
  <2> DEFINE id == acks[w][x]
  <2>1. /\ acks' = [acks EXCEPT ![w][x] = 0] /\ id # 0 /\ id \in Ids
        /\ unread' = [unread EXCEPT ![x] = Acknowledged(unread[x], id)]
        /\ queue' = queue /\ clearing' = clearing /\ read' = read
    BY <1>10 DEF AckMessage, requests, marks, TypeOK
  <2> HIDE DEF id
  <2>2. CASE x # u
    BY <1>c, <1>d, <2>1, <2>2 DEF TypeOK
  <2>3. CASE x = u
    <3>1. acks'[w][u] = 0 /\ \A v \in Workers \ {w} : acks'[v][u] = acks[v][u]
      BY <2>1, <2>3 DEF TypeOK
    <3>2. AckPending(u) /\ acks[w][u] # 0
      BY <2>1, <2>3, PendingIs DEF id
    <3>3. clearing[u] = None /\ \A v \in Workers \ {w} : acks[v][u] = 0
      BY <1>a, <3>2 DEF Sound
    <3>4. ~HoldsAck(queue, u) => id = read[u]
      BY <1>a, <2>3, <3>2 DEF Sound, id
    <3>5. ~HoldsAck(queue, u) => Done(u)'
      <4>1. unread'[u] = [last |-> id,
                mentions |-> IF unread[u] = None THEN {} ELSE {j \in unread[u].mentions : j > id}]
        BY <2>1, <2>3 DEF Acknowledged, TypeOK
      <4>2. (IF unread[u] = None THEN {} ELSE {j \in unread[u].mentions : j > id}) \in SUBSET Messages
        BY DEF TypeOK, Document
      <4>3. unread'[u] # None
        BY <2>1, <4>1, <4>2 DEF Document
      <4> QED
        BY <2>1, <3>4, <4>1, <4>3 DEF Done
    <3> QED
      BY <1>a, <2>1, <3>1, <3>3, <3>5, PendingIs DEF Sound
  <2> QED
    BY <2>2, <2>3
<1>11. ASSUME NEW w \in Workers, ProcessMessage(w) PROVE Sound(u)'
  <2>1. UNCHANGED <<queue, acks, read, clearing, unread>>
    BY <1>11 DEF ProcessMessage, requests, working, marks
  <2> QED
    BY <1>e, <2>1
<1>12. ASSUME NEW w \in Workers, NEW x \in Users, AddMention(w, x) PROVE Sound(u)'
  <2> DEFINE ids == {j \in doing[w] : x \in mentioned[j]}
  <2>1. /\ unread' = [unread EXCEPT ![x] = WithMentions(unread[x], ids)] /\ x \in left[w]
        /\ queue' = queue /\ acks' = acks /\ read' = read /\ clearing' = clearing
    BY <1>12 DEF AddMention, requests, marks
  <2>2. CASE x # u
    BY <1>c, <1>d, <2>1, <2>2 DEF TypeOK
  <2>3. CASE x = u
    <3>1. ASSUME NEW m \in ids
          PROVE  m \in Messages /\ (m > read[u] \/ <<m, u>> \in overtaken')
      <4>1. m \in Messages /\ m \in doing[w] /\ u \in mentioned[m] /\ u \in left[w]
        BY <2>1, <2>3 DEF TypeOK
      <4>2. Unrecorded(m, u)
        BY <4>1 DEF Unrecorded
      <4>3. m \in Nat /\ read[u] \in Nat
        BY <4>1 DEF TypeOK, Ids, Messages
      <4> QED
        BY <1>a, <4>1, <4>2, <4>3 DEF Overtaken
    <3> HIDE DEF ids
    <3>2. unread'[u] = WithMentions(unread[u], ids)
      BY <2>1, <2>3 DEF TypeOK
    <3>3. Done(u) => Done(u)'
      <4>1. CASE unread[u] = None
        <5>1. unread'[u] = [last |-> 0, mentions |-> ids]
          BY <3>2, <4>1 DEF WithMentions
        <5> QED
          BY <1>a, <2>1, <3>1, <4>1, <5>1 DEF Done
      <4>2. CASE unread[u] # None
        <5>1. unread[u] \in Document /\ unread'[u] = [unread[u] EXCEPT !.mentions = @ \cup ids]
          BY <3>2, <4>2 DEF WithMentions, TypeOK
        <5>2. /\ unread'[u].last = unread[u].last
              /\ unread'[u].mentions = unread[u].mentions \cup ids
              /\ unread'[u] \in Document
          BY <3>1, <5>1 DEF Document
        <5> QED
          BY <1>a, <2>1, <3>1, <4>2, <5>2 DEF Done
      <4> QED
        BY <4>1, <4>2
    <3> QED
      BY <1>c, <2>1, <3>3
  <2> QED
    BY <2>2, <2>3
<1>13. ASSUME NEW w \in Workers, NEW x \in Users, AckFails(w, x) PROVE Sound(u)'
  <2>1. /\ acks' = [acks EXCEPT ![w][x] = 0] /\ x \in unsure'
        /\ queue' = queue /\ clearing' = clearing /\ read' = read /\ unread' = unread
    BY <1>13 DEF AckFails, requests
  <2>2. x # u
    BY <2>1
  <2> QED
    BY <1>c, <1>d, <2>1, <2>2 DEF TypeOK
<1>14. ASSUME NEW w \in Workers, AddMentionFails(w) PROVE Sound(u)'
  <2>1. UNCHANGED <<queue, acks, read, clearing, unread>>
    BY <1>14 DEF AddMentionFails, requests, working, marks
  <2> QED
    BY <1>e, <2>1
<1>15. ASSUME NEW w \in Workers, TakeLast(w) PROVE Sound(u)'
  <2>1. UNCHANGED <<queue, acks, read, clearing, unread>>
    BY <1>15 DEF TakeLast, requests, working, marks
  <2> QED
    BY <1>e, <2>1
<1>16. ASSUME NEW w \in Workers, WriteLast(w) PROVE Sound(u)'
  <2>1. UNCHANGED <<queue, acks, read, clearing, unread>>
    BY <1>16 DEF WriteLast, requests, working, marks
  <2> QED
    BY <1>e, <2>1
<1>17. ASSUME NEW w \in Workers, WriteLastFails(w) PROVE Sound(u)'
  <2>1. UNCHANGED <<queue, acks, read, clearing, unread>>
    BY <1>17 DEF WriteLastFails, requests, working, marks
  <2> QED
    BY <1>e, <2>1
<1>18. CASE Crash
  <2>1. ~AckPending(u) /\ clearing[u] = None
    BY <1>18 DEF Crash
  <2>2. /\ queue' = <<>> /\ read' = read /\ unread' = unread
        /\ clearing'[u] = None /\ \A w \in Workers : acks'[w][u] = 0
    BY <1>18 DEF Crash
  <2>3. ~HoldsAck(queue', u) /\ LastAck(queue', u, read'[u])
    BY <2>2 DEF HoldsAck, LastAck
  <2>4. Done(u)'
    BY <1>a, <1>d, <2>1, <2>2 DEF Sound
  <2> QED
    BY <2>2, <2>3, <2>4, PendingIs DEF Sound
<1>19. CASE UNCHANGED vars
  <2>1. UNCHANGED <<queue, acks, read, clearing, unread>>
    BY <1>19 DEF vars, requests, working, marks
  <2> QED
    BY <1>e, <2>1
<1> QED
  BY <1>1, <1>2, <1>3, <1>4, <1>5, <1>6, <1>7, <1>8, <1>9, <1>10, <1>11, <1>12,
     <1>13, <1>14, <1>15, <1>16, <1>17, <1>18, <1>19
     DEF Next, Sending, Clearing, AckWorker, LastWorker

LEMMA InvStep == IInv /\ [Next]_vars => IInv'
<1> SUFFICES ASSUME IInv, [Next]_vars PROVE IInv'
  OBVIOUS
<1>1. TypeOK' /\ Numbered' /\ UpToTop'
  BY TypeStep, NumberedStep, UpToTopStep DEF IInv
<1>2. MentionsKept' /\ Overtaken'
  BY MentionsKeptStep, OvertakenStep DEF IInv
<1>3. LastInOrder' /\ LastKept'
  BY LastStep DEF IInv
<1>4. AcksInOrder'
  BY AcksStep DEF IInv
<1> QED
  BY <1>1, <1>2, <1>3, <1>4 DEF IInv

LEMMA Invariance == Spec => []IInv
<1>1. Init => IInv
  BY InitInv
<1>2. IInv /\ [Next]_vars => IInv'
  BY InvStep
<1> QED
  BY <1>1, <1>2, PTL DEF Spec

(***************************************************************************)
(* What is shown                                                           *)
(***************************************************************************)

\* What the requests, the workers and the database hold is always of its type.
THEOREM TypeCorrect == Spec => []TypeOK
<1>1. IInv => TypeOK
  BY DEF IInv
<1> QED
  BY <1>1, Invariance, PTL

\* No mention later than what its user has ever acknowledged is lost on the way to the
\* database, and the last message of the channel is the last one sent, but for what a
\* fault or a full queue drops (tasks/ack.rs, tasks/last_message_id.rs).
THEOREM UnreadKept == Spec => []UnreadIsKept
<1>1. ASSUME IInv PROVE UnreadIsKept
  <2> SUFFICES ASSUME Quiet PROVE UnreadIsKept
    BY DEF UnreadIsKept
  <2>1. ASSUME NEW u \in Users, NEW m \in Messages, stage[m] = "sent", u \in mentioned[m],
               m > top[u], <<m, u>> \notin lost
        PROVE  unread[u] # None /\ m \in unread[u].mentions
    <3>1. ~Unrecorded(m, u)
      BY <2>1 DEF Quiet, Unrecorded
    <3> QED
      BY <1>1, <2>1, <3>1 DEF IInv, MentionsKept, Recorded
  <2>2. ASSUME ~lastUnsure, NEW m \in Messages, stage[m] = "sent" PROVE m <= lastMessage
    <3>1. \/ m <= lastMessage
          \/ \E w \in Workers : m <= lastTask[w]
          \/ \E i \in DOMAIN lastQueue : m <= lastQueue[i]
      BY <1>1, <2>2 DEF IInv, LastKept
    <3>2. ~(m <= 0)
      BY UnreadsAssumption DEF Messages
    <3> QED
      BY <3>1, <3>2 DEF Quiet
  <2> QED
    BY <2>1, <2>2 DEF UnreadIsKept
<1> QED
  BY <1>1, Invariance, PTL

\* What a user has acknowledged last is on record as read once all is written, and what
\* he has acknowledged is not left as a mention, however workers merge and delay it.
THEOREM ReadStays == Spec => []ReadStaysRead
<1>1. ASSUME IInv PROVE ReadStaysRead
  <2> SUFFICES ASSUME Quiet, NEW u \in Users \ unsure PROVE Done(u)
    BY DEF ReadStaysRead, Done
  <2>1. ~AckPending(u) /\ clearing[u] = None
    BY DEF Quiet, AckPending
  <2> QED
    BY <1>1, <2>1 DEF IInv, AcksInOrder
<1> QED
  BY <1>1, Invariance, PTL

=============================================================================
