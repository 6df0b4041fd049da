------------------------ MODULE SettingsSync_proofs ------------------------
(***************************************************************************)
(* Proofs about SettingsSync, for any devices, keys, clocks and bounds:    *)
(* nothing carries a revision of the future, so that a page's revision of  *)
(* a key never goes back; a revision names one value; and the open pages   *)
(* agree with the server once nothing is under way.                        *)
(***************************************************************************)
EXTENDS SettingsSync, TLAPS

\* A device's clock is a time.
LEMMA ClockTime == ASSUME TypeOK, NEW d \in Devices PROVE Clock(d) \in Times /\ Clock(d) >= now
BY SettingsAssumption DEF TypeOK, Clock, Times

LEMMA InitTypes == Init => TypeOK
BY SettingsAssumption DEF Init, TypeOK, Times, Values, Copies, Absent

\* What merge does to the page that is given copies of some keys.
LEMMA MergeTypes ==
    ASSUME TypeOK, NEW d \in Devices, NEW update, DOMAIN update \subseteq Keys,
           \A k \in DOMAIN update : update[k] \in Copies,
           Merge(d, update)
    PROVE  /\ store' \in [Devices -> [Keys -> Values]]
           /\ revision' \in [Devices -> [Keys -> Times \cup {Undefined}]]
           /\ calls' \subseteq Calls
           /\ stamps' \in [Keys -> SUBSET Copies]
<1>1. Clock(d) \in Times
  BY ClockTime
<1>2. store' \in [Devices -> [Keys -> Values]]
  BY DEF Merge, TypeOK, Copies
<1>3. revision' \in [Devices -> [Keys -> Times \cup {Undefined}]]
  BY <1>1 DEF Merge, TypeOK, Copies
<1>4. calls' \subseteq Calls
  BY <1>1 DEF Merge, TypeOK, Push, Calls
<1>5. stamps' \in [Keys -> SUBSET Copies]
  BY <1>1 DEF Merge, TypeOK, Copies
<1> QED
  BY <1>2, <1>3, <1>4, <1>5

\* Every step keeps the types.
LEMMA TypeStep == TypeOK /\ [Next]_vars => TypeOK'
<1> SUFFICES ASSUME TypeOK, [Next]_vars PROVE TypeOK'
  OBVIOUS
<1> USE SettingsAssumption DEF counters, memory, requests, lapses
<1>1. CASE Tick
  BY <1>1 DEF Tick, TypeOK
<1>2. ASSUME NEW d \in Devices, NEW k \in Keys, Edit(d, k) PROVE TypeOK'
  <2>1. Clock(d) \in Times
    BY ClockTime
  <2>2. edits' \in Values
    BY <1>2 DEF Edit, TypeOK, Values
  <2>3. calls' \subseteq Calls
    BY <1>2, <2>1, <2>2 DEF Edit, Push, Calls, TypeOK
  <2>4. stamps' \in [Keys -> SUBSET Copies]
    BY <1>2, <2>1, <2>2 DEF Edit, Stamp, Copies, TypeOK
  <2> QED
    BY <1>2, <2>1, <2>2, <2>3, <2>4 DEF Edit, TypeOK
<1>3. ASSUME NEW d \in Devices, Deliver(d) PROVE TypeOK'
  <2> DEFINE e == Head(inbox[d])
             update == [k \in {e.key} |-> [ts |-> e.ts, val |-> e.val]]
  <2>1. e \in Events /\ inbox' \in [Devices -> Seq(Events)]
    BY <1>3 DEF Deliver, TypeOK
  <2>2. DOMAIN update \subseteq Keys /\ \A k \in DOMAIN update : update[k] \in Copies
    BY <2>1 DEF Events, Copies
  <2>3. Merge(d, update)
    BY <1>3 DEF Deliver
  <2> HIDE DEF update
  <2> QED
    BY <1>3, <2>1, <2>2, <2>3, MergeTypes DEF Deliver, TypeOK
<1>4. ASSUME NEW d \in Devices, ConsumeFetch(d) PROVE TypeOK'
  <2> DEFINE update == [k \in {k \in Keys : answer[d][k].ts # 0} |-> answer[d][k]]
  <2>1. DOMAIN update \subseteq Keys /\ \A k \in DOMAIN update : update[k] \in Copies
    BY DEF TypeOK
  <2>2. Merge(d, update)
    BY <1>4 DEF ConsumeFetch
  <2>3. answer' \in [Devices -> [Keys -> Copies]]
    BY <1>4 DEF ConsumeFetch, TypeOK, Absent, Copies, Times, Values
  <2> HIDE DEF update
  <2> QED
    BY <1>4, <2>1, <2>2, <2>3, MergeTypes DEF ConsumeFetch, TypeOK
<1>5. ASSUME NEW d \in Devices, NEW expired \in SUBSET Expiring, Open(d, expired)
      PROVE TypeOK'
  <2>1. Clock(d) \in Times
    BY ClockTime
  <2>2. /\ disk[d].store \in [Keys -> Values]
        /\ disk[d].revision \in [Keys -> Times \cup {Undefined}]
    BY DEF TypeOK
  <2>3. Clean(disk[d].revision) \in [Keys -> Times \cup {Undefined}]
    BY <2>2 DEF Clean
  <2>4. store' \in [Devices -> [Keys -> Values]]
    BY <1>5, <2>2 DEF Open, TypeOK
  <2>5. revision' \in [Devices -> [Keys -> Times \cup {Undefined}]]
    BY <1>5, <2>1, <2>3 DEF Open, TypeOK
  <2>6. calls' \subseteq Calls
    BY <1>5, <2>1, <2>2 DEF Open, Push, Calls, TypeOK
  <2>7. stamps' \in [Keys -> SUBSET Copies]
    BY <1>5, <2>1, <2>2 DEF Open, Copies, TypeOK
  <2> QED
    BY <1>5, <2>4, <2>5, <2>6, <2>7 DEF Open, TypeOK
<1>6. ASSUME NEW d \in Devices, Connect(d) PROVE TypeOK'
  BY <1>6 DEF Connect, TypeOK
<1>7. ASSUME NEW d \in Devices PROVE Expected(d) \subseteq Keys
  <2>1. inbox[d] \in Seq(Events)
    BY DEF TypeOK
  <2>2. \A i \in DOMAIN inbox[d] : inbox[d][i] \in Events
    BY <2>1
  <2> QED
    BY <2>2 DEF Expected, Events
<1>8. ASSUME NEW d \in Devices, Disconnect(d) PROVE TypeOK'
  BY <1>7, <1>8 DEF Disconnect, TypeOK
<1>9. ASSUME NEW d \in Devices, Close(d) PROVE TypeOK'
  <2>1. {c.key : c \in {c \in calls : c.from = d}} \subseteq Keys
    BY DEF TypeOK, Calls
  <2>2. answer' \in [Devices -> [Keys -> Copies]]
    BY <1>9 DEF Close, TypeOK, Absent, Copies, Times, Values
  <2>3. /\ store' \in [Devices -> [Keys -> Values]]
        /\ revision' \in [Devices -> [Keys -> Times \cup {Undefined}]]
    BY <1>9 DEF Close, TypeOK, Times, Values
  <2> QED
    BY <1>7, <1>9, <2>1, <2>2, <2>3 DEF Close, TypeOK
<1>10. ASSUME NEW d \in Devices, NEW k \in Keys, FlushStore(d, k) PROVE TypeOK'
  <2>1. disk' \in [Devices -> [store : [Keys -> Values],
                               revision : [Keys -> Times \cup {Undefined}]]]
    <3> DEFINE Disks == [store : [Keys -> Values],
                         revision : [Keys -> Times \cup {Undefined}]]
               r == [disk[d] EXCEPT !.store = [@ EXCEPT ![k] = store[d][k]]]
    <3>1. disk \in [Devices -> Disks] /\ disk[d] \in Disks /\ store[d][k] \in Values
      BY DEF TypeOK
    <3>2. r \in Disks
      BY <3>1
    <3>3. disk' = [disk EXCEPT ![d] = r]
      BY <1>10 DEF FlushStore
    <3> QED
      BY <3>1, <3>2, <3>3
  <2> QED
    BY <1>10, <2>1 DEF FlushStore, TypeOK
<1>11. ASSUME NEW d \in Devices, FlushSync(d) PROVE TypeOK'
  <2>1. disk' = [disk EXCEPT ![d] = [disk[d] EXCEPT !.revision = revision[d]]]
    BY <1>11 DEF FlushSync
  <2>2. revision[d] \in [Keys -> Times \cup {Undefined}]
    BY DEF TypeOK
  <2>3. disk' \in [Devices -> [store : [Keys -> Values],
                               revision : [Keys -> Times \cup {Undefined}]]]
    <3> DEFINE Disks == [store : [Keys -> Values],
                         revision : [Keys -> Times \cup {Undefined}]]
               r == [disk[d] EXCEPT !.revision = revision[d]]
    <3>1. disk \in [Devices -> Disks] /\ disk[d] \in Disks
      BY DEF TypeOK
    <3>2. r \in Disks
      BY <2>2, <3>1
    <3>3. disk' = [disk EXCEPT ![d] = r]
      BY <2>1
    <3> QED
      BY <3>1, <3>2, <3>3
  <2> QED
    BY <1>11, <2>3 DEF FlushSync, TypeOK
<1>12. ASSUME NEW d \in Devices, AnswerFetch(d) PROVE TypeOK'
  BY <1>12 DEF AnswerFetch, TypeOK
<1>13. ASSUME NEW d \in Devices, FetchFails(d) PROVE TypeOK'
  BY <1>13 DEF FetchFails, TypeOK
<1>14. ASSUME NEW c \in calls, Apply(c) PROVE TypeOK'
  <2>1. c \in Calls
    BY DEF TypeOK
  <2>2. Clamp(c.ts) \in Times
    BY <2>1 DEF Clamp, Calls, Times, TypeOK
  <2>3. calls' \subseteq Calls
    BY <1>14, <2>1, <2>2 DEF Apply, Calls, TypeOK
  <2>4. stamps' \in [Keys -> SUBSET Copies]
    <3> DEFINE copy == [ts |-> Clamp(c.ts), val |-> c.val]
    <3>1. copy \in Copies /\ c.key \in Keys /\ stamps \in [Keys -> SUBSET Copies]
      BY <2>1, <2>2 DEF Calls, Copies, TypeOK
    <3>2. stamps' = stamps \/ stamps' = [stamps EXCEPT ![c.key] = @ \cup {copy}]
      BY <1>14 DEF Apply, Stamp
    <3> HIDE DEF copy
    <3> QED
      BY <3>1, <3>2
  <2>5. server' \in [Keys -> Copies]
    BY <1>14, <2>1, <2>2 DEF Apply, Calls, Copies, TypeOK
  <2> QED
    BY <1>14, <2>1, <2>3, <2>4, <2>5 DEF Apply, Calls, TypeOK
<1>15. ASSUME NEW c \in calls, Publish(c) PROVE TypeOK'
  <2>1. [key |-> c.key, ts |-> c.ts, val |-> c.val, from |-> c.from] \in Events
    BY DEF TypeOK, Calls, Events
  <2>2. inbox' \in [Devices -> Seq(Events)]
    BY <1>15, <2>1 DEF Publish, TypeOK
  <2>3. c.key \in Keys
    BY DEF TypeOK, Calls
  <2> QED
    BY <1>15, <2>2, <2>3 DEF Publish, TypeOK
<1>16. ASSUME NEW c \in calls, CallFails(c) PROVE TypeOK'
  <2>1. c.key \in Keys
    BY DEF TypeOK, Calls
  <2> QED
    BY <1>16, <2>1 DEF CallFails, TypeOK
<1>17. CASE UNCHANGED vars
  BY <1>17 DEF vars, TypeOK
<1> QED
  BY <1>1, <1>2, <1>3, <1>4, <1>5, <1>6, <1>8, <1>9, <1>10, <1>11, <1>12, <1>13,
     <1>14, <1>15, <1>16, <1>17 DEF Next

\* TypeOK: pages, requests and events hold revisions, values and keys of their
\* kinds, whatever their order.
THEOREM TypeCorrect == Spec => []TypeOK
BY InitTypes, TypeStep, PTL DEF Spec

-----------------------------------------------------------------------------
\* Time does not go back, nor does a device's clock.
LEMMA NowStep == ASSUME TypeOK, [Next]_vars PROVE now' = now \/ now' = now + 1
BY ZenonT(60)
   DEF Next, vars, counters, memory, requests, lapses, Tick, Edit, Deliver, ConsumeFetch,
       Open, Connect, Disconnect, Close, FlushStore, FlushSync, AnswerFetch, FetchFails,
       Apply, Publish, CallFails

LEMMA ClockStep ==
    ASSUME TypeOK, [Next]_vars, NEW d \in Devices
    PROVE Clock(d)' >= Clock(d) /\ Clock(d)' \in Nat
BY NowStep DEF Clock, TypeOK

LEMMA InitNoFuture == Init => NoFuture
BY SettingsAssumption DEF Init, NoFuture, Clock, Absent

\* merge takes a revision of the past or the device's clock, and never one below
\* the revision it replaces.
LEMMA MergeForward ==
    ASSUME TypeOK, NoFuture, NEW d \in Devices, NEW update, DOMAIN update \subseteq Keys,
           \A k \in DOMAIN update : update[k] \in Copies /\ update[k].ts <= now,
           Merge(d, update)
    PROVE  /\ \A e \in Devices, k \in Keys :
                revision'[e][k] >= revision[e][k] /\ revision'[e][k] <= Clock(e)
           /\ \A c \in calls' : c.stage = "stored" => c \in calls
<1>1. Clock(d) \in Times /\ Clock(d) >= now /\ now \in Nat
  BY ClockTime DEF TypeOK, Times
<1>2. ASSUME NEW e \in Devices, NEW k \in Keys
      PROVE revision'[e][k] >= revision[e][k] /\ revision'[e][k] <= Clock(e)
  <2>1. revision[e][k] \in Int /\ revision[e][k] <= Clock(e)
    BY DEF TypeOK, NoFuture, Times, Undefined
  <2>2. CASE e # d
    BY <2>1, <2>2 DEF Merge, TypeOK
  <2>3. CASE e = d /\ k \in DOMAIN update /\ Hydrates(d, update[k], k)
    <3>1. revision'[d][k] = update[k].ts
      BY <2>3 DEF Merge, TypeOK
    <3>2. update[k].ts > revision[d][k] /\ update[k].ts \in Int /\ update[k].ts <= now
      BY <2>3 DEF Hydrates, Copies, Times
    <3> QED
      BY <1>1, <2>1, <2>3, <3>1, <3>2 DEF Times
  <2>4. CASE e = d /\ ~(k \in DOMAIN update /\ Hydrates(d, update[k], k))
    <3>1. revision'[d][k] \in {Clock(d), revision[d][k]}
      BY <2>4 DEF Merge, TypeOK
    <3> QED
      BY <1>1, <2>1, <2>4, <3>1 DEF Times
  <2> QED
    BY <2>2, <2>3, <2>4
<1>3. \A c \in calls' : c.stage = "stored" => c \in calls
  BY DEF Merge, Push
<1> QED
  BY <1>2, <1>3

\* Every step keeps the copies out of the future.
LEMMA NoFutureStep == TypeOK /\ NoFuture /\ [Next]_vars => NoFuture'
<1> SUFFICES ASSUME TypeOK, NoFuture, [Next]_vars PROVE NoFuture'
  OBVIOUS
<1> USE SettingsAssumption DEF counters, memory, requests, lapses
<1>0. /\ now \in Nat /\ now' \in Nat /\ now' >= now
      /\ \A d \in Devices : /\ Clock(d) \in Nat /\ Clock(d)' \in Nat
                            /\ Clock(d) >= now /\ Clock(d)' >= Clock(d)
  <2>1. now \in Nat /\ now' \in Nat
    BY TypeStep DEF TypeOK
  <2>2. now' >= now
    BY <2>1, NowStep
  <2>3. ASSUME NEW d \in Devices
        PROVE  /\ Clock(d) \in Nat /\ Clock(d)' \in Nat
               /\ Clock(d) >= now /\ Clock(d)' >= Clock(d)
    <3>1. Clock(d) \in Nat /\ Clock(d) >= now
      BY <2>1 DEF Clock
    <3> QED
      BY <3>1, ClockStep
  <2> QED
    BY <2>1, <2>2, <2>3
<1>t. /\ \A d \in Devices, k \in Keys : /\ revision[d][k] \in Int
                                        /\ disk[d].revision[k] \in Int
                                        /\ answer[d][k].ts \in Int
      /\ \A k \in Keys : server[k].ts \in Int
      /\ \A c \in calls : c.ts \in Int
      /\ \A d \in Devices : inbox[d] \in Seq(Events)
                          /\ \A i \in DOMAIN inbox[d] : inbox[d][i] \in Events
                                                      /\ inbox[d][i].ts \in Int
  <2>1. \A d \in Devices : inbox[d] \in Seq(Events)
    BY DEF TypeOK
  <2>2. \A d \in Devices : \A i \in DOMAIN inbox[d] : inbox[d][i] \in Events
    BY <2>1
  <2>3. \A d \in Devices, k \in Keys :
            revision[d][k] \in Int /\ disk[d].revision[k] \in Int
    BY DEF TypeOK, Times, Undefined
  <2>4. \A d \in Devices, k \in Keys : answer[d][k].ts \in Int
    BY DEF TypeOK, Copies, Times
  <2>5. \A c \in calls : c.ts \in Int
    BY DEF TypeOK, Calls, Times
  <2>6. \A k \in Keys : server[k].ts \in Int
    BY DEF TypeOK, Copies, Times
  <2>7. \A e \in Events : e.ts \in Int
    BY DEF Events, Times
  <2> QED
    BY <2>1, <2>2, <2>3, <2>4, <2>5, <2>6, <2>7
<1>1. CASE Tick
  BY <1>0, <1>t, <1>1 DEF Tick, NoFuture
<1>2. ASSUME NEW d \in Devices, NEW k \in Keys, Edit(d, k) PROVE NoFuture'
  <2>1. \A e \in Devices, j \in Keys : revision'[e][j] <= Clock(e)
    BY <1>0, <1>2 DEF Edit, NoFuture, TypeOK
  <2>2. \A c \in calls' : c.stage = "stored" => c \in calls
    BY <1>2 DEF Edit, Push
  <2> QED
    BY <1>0, <1>t, <1>2, <2>1, <2>2 DEF Edit, NoFuture, Clock
<1>3. ASSUME NEW d \in Devices, Deliver(d) PROVE NoFuture'
  <2> DEFINE e == Head(inbox[d])
             update == [k \in {e.key} |-> [ts |-> e.ts, val |-> e.val]]
  <2>1. 1 \in DOMAIN inbox[d] /\ e = inbox[d][1]
    BY <1>3, <1>t DEF Deliver
  <2>2. DOMAIN update \subseteq Keys
        /\ \A k \in DOMAIN update : update[k] \in Copies /\ update[k].ts <= now
    BY <1>t, <2>1 DEF Events, Copies, NoFuture
  <2>3. Merge(d, update)
    BY <1>3 DEF Deliver
  <2>4. \A f \in Devices : \A i \in DOMAIN inbox'[f] : inbox'[f][i].ts <= now
    <3>1. inbox' = [inbox EXCEPT ![d] = Tail(@)] /\ inbox[d] # << >>
      BY <1>3 DEF Deliver
    <3>2. \A i \in DOMAIN Tail(inbox[d]) :
              i + 1 \in DOMAIN inbox[d] /\ Tail(inbox[d])[i] = inbox[d][i + 1]
      BY <1>t, <3>1
    <3> QED
      BY <3>1, <3>2 DEF NoFuture, TypeOK
  <2> HIDE DEF update
  <2>5. /\ \A f \in Devices, k \in Keys : revision'[f][k] <= Clock(f)
        /\ \A c \in calls' : c.stage = "stored" => c \in calls
    BY <2>2, <2>3, MergeForward
  <2> QED
    BY <1>0, <1>t, <1>3, <2>4, <2>5 DEF Deliver, NoFuture, Clock
<1>4. ASSUME NEW d \in Devices, ConsumeFetch(d) PROVE NoFuture'
  <2> DEFINE update == [k \in {k \in Keys : answer[d][k].ts # 0} |-> answer[d][k]]
  <2>1. DOMAIN update \subseteq Keys
        /\ \A k \in DOMAIN update : update[k] \in Copies /\ update[k].ts <= now
    BY DEF TypeOK, NoFuture
  <2>2. Merge(d, update)
    BY <1>4 DEF ConsumeFetch
  <2> HIDE DEF update
  <2>3. /\ \A f \in Devices, k \in Keys : revision'[f][k] <= Clock(f)
        /\ \A c \in calls' : c.stage = "stored" => c \in calls
    BY <2>1, <2>2, MergeForward
  <2>4. \A f \in Devices, k \in Keys : answer'[f][k].ts <= now
    BY <1>0, <1>4 DEF ConsumeFetch, NoFuture, Absent, TypeOK
  <2> QED
    BY <1>0, <1>t, <1>4, <2>3, <2>4 DEF ConsumeFetch, NoFuture, Clock
<1>5. ASSUME NEW d \in Devices, NEW expired \in SUBSET Expiring, Open(d, expired)
      PROVE NoFuture'
  <2>1. \A k \in Keys : Clean(disk[d].revision)[k] <= Clock(d)
    BY <1>0, <1>t DEF Clean, NoFuture, Undefined
  <2>2. \A e \in Devices, k \in Keys : revision'[e][k] <= Clock(e)
    BY <1>0, <1>t, <1>5, <2>1 DEF Open, NoFuture, TypeOK
  <2>3. \A c \in calls' : c.stage = "stored" => c \in calls
    BY <1>5 DEF Open, Push
  <2> QED
    BY <1>0, <1>t, <1>5, <2>2, <2>3 DEF Open, NoFuture, Clock
<1>6. ASSUME NEW d \in Devices, Connect(d) PROVE NoFuture'
  BY <1>6 DEF Connect, NoFuture, Clock
<1>7. ASSUME NEW d \in Devices, Disconnect(d) PROVE NoFuture'
  BY <1>7 DEF Disconnect, NoFuture, Clock, TypeOK
<1>8. ASSUME NEW d \in Devices, Close(d) PROVE NoFuture'
  BY <1>0, <1>8 DEF Close, NoFuture, Clock, Absent, TypeOK
<1>9. ASSUME NEW d \in Devices, NEW k \in Keys, FlushStore(d, k) PROVE NoFuture'
  <2>1. \A e \in Devices : disk'[e].revision = disk[e].revision
    BY <1>9 DEF FlushStore, TypeOK
  <2> QED
    BY <1>9, <2>1 DEF FlushStore, NoFuture, Clock
<1>10. ASSUME NEW d \in Devices, FlushSync(d) PROVE NoFuture'
  <2>1. \A e \in Devices : disk'[e].revision \in {disk[e].revision, revision[e]}
    BY <1>10 DEF FlushSync, TypeOK
  <2> QED
    BY <1>10, <2>1 DEF FlushSync, NoFuture, Clock
<1>11. ASSUME NEW d \in Devices, AnswerFetch(d) PROVE NoFuture'
  BY <1>11 DEF AnswerFetch, NoFuture, Clock, TypeOK
<1>12. ASSUME NEW d \in Devices, FetchFails(d) PROVE NoFuture'
  BY <1>12 DEF FetchFails, NoFuture, Clock
<1>13. ASSUME NEW c \in calls, Apply(c) PROVE NoFuture'
  <2>1. c \in Calls /\ Clamp(c.ts) <= now /\ Clamp(c.ts) \in Int
    BY <1>0, <1>t DEF Clamp, TypeOK
  <2>2. \A k \in Keys : server'[k].ts <= now
    BY <1>13, <2>1 DEF Apply, NoFuture, TypeOK
  <2>3. [c EXCEPT !.ts = Clamp(c.ts), !.stage = "stored"].ts <= now
    BY <2>1 DEF Calls
  <2>4. \A b \in calls' : b.stage = "stored" => b.ts <= now
    BY <1>13, <2>3 DEF Apply, NoFuture
  <2> QED
    BY <1>13, <2>2, <2>4 DEF Apply, NoFuture, Clock
<1>14. ASSUME NEW c \in calls, Publish(c) PROVE NoFuture'
  <2> DEFINE event == [key |-> c.key, ts |-> c.ts, val |-> c.val, from |-> c.from]
  <2>1. event.ts <= now
    BY <1>14 DEF Publish, NoFuture
  <2>2. event \in Events
    BY DEF TypeOK, Calls, Events
  <2>3. \A d \in Devices : inbox'[d] = inbox[d] \/ inbox'[d] = Append(inbox[d], event)
    BY <1>14 DEF Publish
  <2> HIDE DEF event
  <2>4. \A d \in Devices : \A i \in DOMAIN inbox'[d] :
            \/ i \in DOMAIN inbox[d] /\ inbox'[d][i] = inbox[d][i]
            \/ inbox'[d][i] = event
    BY <1>t, <2>2, <2>3
  <2> QED
    BY <1>14, <2>1, <2>4 DEF Publish, NoFuture, Clock
<1>15. ASSUME NEW c \in calls, CallFails(c) PROVE NoFuture'
  BY <1>15 DEF CallFails, NoFuture, Clock
<1>16. CASE UNCHANGED vars
  BY <1>16 DEF vars, NoFuture, Clock
<1> QED
  BY <1>1, <1>2, <1>3, <1>4, <1>5, <1>6, <1>7, <1>8, <1>9, <1>10, <1>11, <1>12, <1>13,
     <1>14, <1>15, <1>16 DEF Next

\* NoFuture: no clock, however wrong, makes the server, a stored push, an event or
\* an answer carry a revision later than the server's time, nor a page or its disk
\* one later than the device's own clock.
THEOREM NothingOfTheFuture == Spec => []NoFuture
BY InitTypes, TypeStep, InitNoFuture, NoFutureStep, PTL DEF Spec

\* NeverBack: whatever is handled late, an open page's revision of a key only
\* grows.  A push is stamped with a clock that is not behind any revision the page
\* may have taken over (NoFuture); merge takes newer ones only.
THEOREM RevisionsGrow == Spec => NeverBack
<1> DEFINE Forward == \A d \in Devices, k \in Keys :
              IsOpen(d) /\ page'[d] # "closed" => revision'[d][k] >= revision[d][k]
<1>1. ASSUME TypeOK, NoFuture, [Next]_vars PROVE Forward
  <2> SUFFICES ASSUME NEW d \in Devices, NEW k \in Keys,
                      IsOpen(d), page'[d] # "closed"
               PROVE revision'[d][k] >= revision[d][k]
    OBVIOUS
  <2>0. /\ revision[d][k] \in Int /\ Clock(d) \in Int /\ revision[d][k] <= Clock(d)
    BY <1>1, ClockTime DEF TypeOK, NoFuture, Times, Undefined
  <2>1. ASSUME revision' = revision PROVE revision'[d][k] >= revision[d][k]
    BY <2>0, <2>1
  <2>2. ASSUME NEW e \in Devices, NEW j \in Keys, Edit(e, j)
        PROVE revision'[d][k] >= revision[d][k]
    BY <1>1, <2>0, <2>2 DEF Edit, TypeOK
  <2>3. ASSUME NEW e \in Devices, Deliver(e) PROVE revision'[d][k] >= revision[d][k]
    <3> DEFINE m == Head(inbox[e])
               update == [x \in {m.key} |-> [ts |-> m.ts, val |-> m.val]]
    <3>1. inbox[e] \in Seq(Events) /\ inbox[e] # << >>
      BY <1>1, <2>3 DEF Deliver, TypeOK
    <3>2. 1 \in DOMAIN inbox[e] /\ m = inbox[e][1] /\ m \in Events
      BY <3>1
    <3>3. DOMAIN update \subseteq Keys
          /\ \A x \in DOMAIN update : update[x] \in Copies /\ update[x].ts <= now
      BY <1>1, <3>2 DEF Events, Copies, NoFuture
    <3>4. Merge(e, update)
      BY <2>3 DEF Deliver
    <3> HIDE DEF update
    <3> QED
      BY <1>1, <3>3, <3>4, MergeForward
  <2>4. ASSUME NEW e \in Devices, ConsumeFetch(e) PROVE revision'[d][k] >= revision[d][k]
    <3> DEFINE update == [x \in {x \in Keys : answer[e][x].ts # 0} |-> answer[e][x]]
    <3>1. DOMAIN update \subseteq Keys
          /\ \A x \in DOMAIN update : update[x] \in Copies /\ update[x].ts <= now
      BY <1>1 DEF TypeOK, NoFuture
    <3>2. Merge(e, update)
      BY <2>4 DEF ConsumeFetch
    <3> HIDE DEF update
    <3> QED
      BY <1>1, <3>1, <3>2, MergeForward
  <2>5. ASSUME NEW e \in Devices, NEW expired \in SUBSET Expiring, Open(e, expired)
        PROVE revision'[d][k] >= revision[d][k]
    <3>1. e # d
      BY <2>5 DEF Open, IsOpen
    <3> QED
      BY <1>1, <2>0, <2>5, <3>1 DEF Open, TypeOK
  <2>6. ASSUME NEW e \in Devices, Close(e) PROVE revision'[d][k] >= revision[d][k]
    <3>1. e # d
      BY <1>1, <2>6 DEF Close, TypeOK
    <3> QED
      BY <1>1, <2>0, <2>6, <3>1 DEF Close, TypeOK
  <2> QED
    BY <1>1, <2>1, <2>2, <2>3, <2>4, <2>5, <2>6
       DEF Next, vars, counters, memory, requests, lapses, Tick, Connect, Disconnect,
           FlushStore, FlushSync, AnswerFetch, FetchFails, Apply, Publish, CallFails
<1>2. TypeOK /\ NoFuture /\ [Next]_vars => [Forward]_vars
  BY <1>1
<1> HIDE DEF Forward
<1>3. Spec => [][Forward]_vars
  BY <1>2, TypeCorrect, NothingOfTheFuture, PTL DEF Spec
<1> QED
  BY <1>3 DEF NeverBack, Forward

-----------------------------------------------------------------------------
\* The steps leave what is stamped so: what a step adds has its stamp, the rest keeps its own.
LEMMA StampedBy ==
    ASSUME Stamped,
           \A k \in Keys : stamps[k] \subseteq stamps'[k]
                           /\ \A s \in stamps'[k] \ stamps[k] : s.ts # 0,
           \A c \in calls : c.key \in Keys,
           \A d \in Devices : \A i \in DOMAIN inbox[d] : inbox[d][i].key \in Keys,
           torn \subseteq torn',
           \A c \in calls' : c \in calls \/ [ts |-> c.ts, val |-> c.val] \in stamps'[c.key],
           \A d \in Devices : \A i \in DOMAIN inbox'[d] :
               \/ \E j \in DOMAIN inbox[d] : inbox'[d][i] = inbox[d][j]
               \/ [ts |-> inbox'[d][i].ts, val |-> inbox'[d][i].val]
                     \in stamps'[inbox'[d][i].key],
           \A k \in Keys : server'[k] = server[k] \/ server'[k] \in stamps'[k],
           \A d \in Devices, k \in Keys : answer'[d][k] \in {answer[d][k], Absent, server[k]},
           \A d \in Devices, k \in Keys \ torn' :
               Named(d, k)' \/ (revision'[d][k] = revision[d][k] /\ store'[d][k] = store[d][k])
    PROVE  Stamped'
<1>1. \A k \in Keys : \A s \in stamps'[k] : s.ts # 0
  BY DEF Stamped
<1>2. ASSUME NEW c \in calls' PROVE [ts |-> c.ts, val |-> c.val] \in stamps'[c.key]
  BY <1>2 DEF Stamped
<1>3. ASSUME NEW d \in Devices, NEW i \in DOMAIN inbox'[d]
      PROVE  [ts |-> inbox'[d][i].ts, val |-> inbox'[d][i].val] \in stamps'[inbox'[d][i].key]
  <2> DEFINE e == inbox'[d][i]
  <2>1. ASSUME NEW j \in DOMAIN inbox[d], e = inbox[d][j]
        PROVE  [ts |-> e.ts, val |-> e.val] \in stamps'[e.key]
    <3>1. [ts |-> e.ts, val |-> e.val] \in stamps[e.key] /\ e.key \in Keys
      BY <2>1 DEF Stamped
    <3> QED
      BY <3>1
  <2>2. \/ \E j \in DOMAIN inbox[d] : e = inbox[d][j]
        \/ [ts |-> e.ts, val |-> e.val] \in stamps'[e.key]
    BY <1>3
  <2> QED
    BY <2>1, <2>2
<1>4. ASSUME NEW k \in Keys PROVE server'[k] \in stamps'[k] \cup {Absent}
  BY <1>4 DEF Stamped
<1>5. ASSUME NEW d \in Devices, NEW k \in Keys PROVE answer'[d][k] \in stamps'[k] \cup {Absent}
  BY <1>5 DEF Stamped
<1>6. ASSUME NEW d \in Devices, NEW k \in Keys \ torn' PROVE Named(d, k)'
  <2>1. Named(d, k) /\ stamps[k] \subseteq stamps'[k]
    BY <1>6 DEF Stamped
  <2>2. CASE revision'[d][k] = revision[d][k] /\ store'[d][k] = store[d][k]
    <3>1. [ts |-> revision[d][k], val |-> store[d][k]]
             = [ts |-> revision'[d][k], val |-> store'[d][k]]
      BY <2>2
    <3> QED
      BY <2>1, <2>2, <3>1 DEF Named
  <2> QED
    BY <1>6, <2>2
<1> QED
  BY <1>1, <1>2, <1>3, <1>4, <1>5, <1>6 DEF Stamped

LEMMA NamedAfter ==
    ASSUME NEW d \in Devices, NEW k \in Keys, NEW t, NEW v,
           revision'[d][k] = t, store'[d][k] = v,
           (t \in {0, Undefined} /\ v = 0) \/ [ts |-> t, val |-> v] \in stamps'[k]
    PROVE  Named(d, k)'
<1>1. [ts |-> t, val |-> v] = [ts |-> revision'[d][k], val |-> store'[d][k]]
  OBVIOUS
<1> QED
  BY <1>1 DEF Named

\* merge stamps what it pushes, and gives the page values with their own revisions.
LEMMA MergeStamps ==
    ASSUME TypeOK, Stamped, NEW d \in Devices, NEW update, DOMAIN update \subseteq Keys,
           \A k \in DOMAIN update : update[k] \in Copies /\ update[k] \in stamps[k],
           Merge(d, update)
    PROVE  /\ \A k \in Keys : stamps[k] \subseteq stamps'[k]
                              /\ \A s \in stamps'[k] \ stamps[k] : s.ts # 0
           /\ \A c \in calls' : c \in calls \/ [ts |-> c.ts, val |-> c.val] \in stamps'[c.key]
           /\ \A e \in Devices, k \in Keys :
                 Named(e, k)' \/ (revision'[e][k] = revision[e][k] /\ store'[e][k] = store[e][k])
<1> DEFINE fresh == {k \in DOMAIN update : Hydrates(d, update[k], k)}
           stale == {k \in DOMAIN update : Repushes(d, update[k], k)}
<1>0. /\ store' = [store EXCEPT ![d] = [k \in Keys |->
                        IF k \in fresh THEN update[k].val ELSE @[k]]]
      /\ revision' = [revision EXCEPT ![d] = [k \in Keys |->
                        IF k \in fresh THEN update[k].ts
                        ELSE IF k \in stale THEN Clock(d) ELSE @[k]]]
      /\ calls' = calls \cup {Push(d, k, store[d][k]) : k \in stale}
      /\ stamps' = [k \in Keys |-> IF k \in stale
                        THEN stamps[k] \cup {[ts |-> Clock(d), val |-> store[d][k]]}
                        ELSE stamps[k]]
  BY DEF Merge
<1>1. Clock(d) # 0
  BY SettingsAssumption DEF Clock, TypeOK
<1>2. stale \subseteq Keys /\ fresh \subseteq Keys /\ fresh \cap stale = {}
  BY DEF Repushes
<1>3. \A k \in fresh : [ts |-> update[k].ts, val |-> update[k].val] \in stamps[k]
  BY DEF Copies
<1> HIDE DEF fresh, stale
<1>4. \A k \in Keys : stamps[k] \subseteq stamps'[k]
                      /\ \A s \in stamps'[k] \ stamps[k] : s.ts # 0
  BY <1>0, <1>1
<1>5. \A c \in calls' : c \in calls \/ [ts |-> c.ts, val |-> c.val] \in stamps'[c.key]
  BY <1>0, <1>2 DEF Push
<1>6. ASSUME NEW e \in Devices, NEW k \in Keys
      PROVE  Named(e, k)' \/ (revision'[e][k] = revision[e][k] /\ store'[e][k] = store[e][k])
  <2>1. CASE e # d \/ k \notin fresh \cup stale
    BY <1>0, <2>1 DEF TypeOK
  <2>2. CASE e = d /\ k \in fresh
    <3>1. revision'[d][k] = update[k].ts /\ store'[d][k] = update[k].val
      BY <1>0, <2>2 DEF TypeOK
    <3> QED
      <4>1. [ts |-> update[k].ts, val |-> update[k].val] \in stamps'[k]
        BY <1>3, <1>4, <2>2
      <4> QED
        BY <2>2, <3>1, <4>1, NamedAfter
  <2>3. CASE e = d /\ k \in stale
    <3>1. revision'[d][k] = Clock(d) /\ store'[d][k] = store[d][k]
      BY <1>0, <1>2, <2>3 DEF TypeOK
    <3>2. [ts |-> Clock(d), val |-> store[d][k]] \in stamps'[k]
      BY <1>0, <2>3
    <3> QED
      BY <2>3, <3>1, <3>2, NamedAfter
  <2> QED
    BY <2>1, <2>2, <2>3
<1> QED
  BY <1>4, <1>5, <1>6

LEMMA InitStamped == Init => Stamped
BY DEF Init, Stamped, Named, Absent

\* Every step keeps the copies stamped.
LEMMA StampedStep == TypeOK /\ Stamped /\ [Next]_vars => Stamped'
<1> SUFFICES ASSUME TypeOK, Stamped, [Next]_vars PROVE Stamped'
  OBVIOUS
<1> USE SettingsAssumption DEF counters, memory, requests, lapses
<1>k. /\ \A c \in calls : c \in Calls /\ c.key \in Keys
      /\ \A d \in Devices : \A i \in DOMAIN inbox[d] : inbox[d][i] \in Events
                                                       /\ inbox[d][i].key \in Keys
  <2>1. \A d \in Devices : inbox[d] \in Seq(Events)
    BY DEF TypeOK
  <2>2. \A d \in Devices : \A i \in DOMAIN inbox[d] : inbox[d][i] \in Events
    BY <2>1
  <2> QED
    BY <2>2 DEF TypeOK, Calls, Events
<1>t. \A d \in Devices : Clock(d) # 0 /\ inbox[d] \in Seq(Events)
  BY DEF TypeOK, Clock
<1>s. ASSUME UNCHANGED stamps
      PROVE  \A k \in Keys : stamps[k] \subseteq stamps'[k]
                             /\ \A s \in stamps'[k] \ stamps[k] : s.ts # 0
  BY <1>s
<1>1. ASSUME UNCHANGED <<store, revision, calls, inbox, server, stamps, torn>>,
             \A d \in Devices, k \in Keys : answer'[d][k] \in {answer[d][k], Absent, server[k]}
      PROVE  Stamped'
  BY <1>1, <1>k, StampedBy
<1>2. ASSUME NEW d \in Devices, NEW k \in Keys, Edit(d, k) PROVE Stamped'
  <2>1. /\ revision' = [revision EXCEPT ![d] = [@ EXCEPT ![k] = Clock(d)]]
        /\ store' = [store EXCEPT ![d] = [@ EXCEPT ![k] = edits']]
        /\ calls' = calls \cup {Push(d, k, edits')}
        /\ stamps' = [stamps EXCEPT ![k] = @ \cup {[ts |-> Clock(d), val |-> edits']}]
        /\ UNCHANGED <<inbox, server, answer, torn>>
    BY <1>2 DEF Edit, Stamp
  <2>2. \A j \in Keys : stamps[j] \subseteq stamps'[j]
                        /\ \A s \in stamps'[j] \ stamps[j] : s.ts # 0
    BY <1>t, <2>1 DEF TypeOK
  <2>3. [ts |-> Clock(d), val |-> edits'] \in stamps'[k]
    BY <2>1 DEF TypeOK
  <2>4. \A c \in calls' : c \in calls \/ [ts |-> c.ts, val |-> c.val] \in stamps'[c.key]
    BY <2>1, <2>3 DEF Push
  <2>5. ASSUME NEW e \in Devices, NEW j \in Keys
        PROVE  Named(e, j)' \/ (revision'[e][j] = revision[e][j] /\ store'[e][j] = store[e][j])
    <3>1. CASE e = d /\ j = k
      <4>1. revision'[d][k] = Clock(d) /\ store'[d][k] = edits'
        BY <2>1 DEF TypeOK
      <4> QED
        BY <2>3, <3>1, <4>1, NamedAfter
    <3>2. CASE ~(e = d /\ j = k)
      BY <2>1, <3>2 DEF TypeOK
    <3> QED
      BY <3>1, <3>2
  <2> QED
    BY <1>k, <2>1, <2>2, <2>4, <2>5, StampedBy
<1>3. ASSUME NEW d \in Devices, Deliver(d) PROVE Stamped'
  <2> DEFINE e == Head(inbox[d])
             update == [k \in {e.key} |-> [ts |-> e.ts, val |-> e.val]]
  <2>1. 1 \in DOMAIN inbox[d] /\ e = inbox[d][1]
    BY <1>3, <1>t DEF Deliver
  <2>2. e \in Events /\ [ts |-> e.ts, val |-> e.val] \in stamps[e.key]
    BY <1>k, <2>1 DEF Stamped
  <2>3. DOMAIN update \subseteq Keys
        /\ \A k \in DOMAIN update : update[k] \in Copies /\ update[k] \in stamps[k]
    BY <2>2 DEF Events, Copies
  <2>4. Merge(d, update)
    BY <1>3 DEF Deliver
  <2>5. \A f \in Devices : \A i \in DOMAIN inbox'[f] :
            \E j \in DOMAIN inbox[f] : inbox'[f][i] = inbox[f][j]
    <3>1. inbox' = [inbox EXCEPT ![d] = Tail(@)] /\ inbox[d] # << >>
      BY <1>3 DEF Deliver
    <3>2. \A i \in DOMAIN Tail(inbox[d]) :
              i + 1 \in DOMAIN inbox[d] /\ Tail(inbox[d])[i] = inbox[d][i + 1]
      BY <1>t, <3>1
    <3> QED
      BY <3>1, <3>2 DEF TypeOK
  <2>6. UNCHANGED <<server, answer, torn>>
    BY <1>3 DEF Deliver
  <2> HIDE DEF update
  <2>7. /\ \A k \in Keys : stamps[k] \subseteq stamps'[k]
                           /\ \A s \in stamps'[k] \ stamps[k] : s.ts # 0
        /\ \A c \in calls' : c \in calls \/ [ts |-> c.ts, val |-> c.val] \in stamps'[c.key]
        /\ \A f \in Devices, k \in Keys :
              Named(f, k)' \/ (revision'[f][k] = revision[f][k] /\ store'[f][k] = store[f][k])
    BY <2>3, <2>4, MergeStamps
  <2> QED
    BY <1>k, <2>5, <2>6, <2>7, StampedBy
<1>4. ASSUME NEW d \in Devices, ConsumeFetch(d) PROVE Stamped'
  <2> DEFINE update == [k \in {k \in Keys : answer[d][k].ts # 0} |-> answer[d][k]]
  <2>1. DOMAIN update \subseteq Keys
        /\ \A k \in DOMAIN update : update[k] \in Copies /\ update[k] \in stamps[k]
    BY DEF TypeOK, Stamped, Absent
  <2>2. Merge(d, update)
    BY <1>4 DEF ConsumeFetch
  <2>3. UNCHANGED <<inbox, server, torn>>
        /\ \A e \in Devices, k \in Keys : answer'[e][k] \in {answer[e][k], Absent, server[k]}
    BY <1>4 DEF ConsumeFetch, TypeOK
  <2> HIDE DEF update
  <2>4. /\ \A k \in Keys : stamps[k] \subseteq stamps'[k]
                           /\ \A s \in stamps'[k] \ stamps[k] : s.ts # 0
        /\ \A c \in calls' : c \in calls \/ [ts |-> c.ts, val |-> c.val] \in stamps'[c.key]
        /\ \A f \in Devices, k \in Keys :
              Named(f, k)' \/ (revision'[f][k] = revision[f][k] /\ store'[f][k] = store[f][k])
    BY <2>1, <2>2, MergeStamps
  <2> QED
    BY <1>k, <2>3, <2>4, StampedBy
<1>5. ASSUME NEW d \in Devices, NEW expired \in SUBSET Expiring, Open(d, expired)
      PROVE Stamped'
  <2>1. /\ store' = [store EXCEPT ![d] = disk[d].store]
        /\ revision' = [revision EXCEPT ![d] = [k \in Keys |->
              IF k \in expired THEN Clock(d) ELSE Clean(disk[d].revision)[k]]]
        /\ calls' = calls \cup {Push(d, k, disk[d].store[k]) : k \in expired}
        /\ stamps' = [k \in Keys |-> IF k \in expired
              THEN stamps[k] \cup {[ts |-> Clock(d), val |-> disk[d].store[k]]}
              ELSE stamps[k]]
        /\ torn' = torn \cup {k \in Keys : Torn(d, k)}
        /\ UNCHANGED <<inbox, server, answer>>
    BY <1>5 DEF Open
  <2>2. \A k \in Keys : stamps[k] \subseteq stamps'[k]
                        /\ \A s \in stamps'[k] \ stamps[k] : s.ts # 0
    BY <1>t, <2>1
  <2>3. \A k \in expired : [ts |-> Clock(d), val |-> disk[d].store[k]] \in stamps'[k]
    BY <2>1
  <2>4. \A c \in calls' : c \in calls \/ [ts |-> c.ts, val |-> c.val] \in stamps'[c.key]
    BY <2>1, <2>3 DEF Push
  <2>5. ASSUME NEW e \in Devices, NEW k \in Keys \ torn'
        PROVE  Named(e, k)' \/ (revision'[e][k] = revision[e][k] /\ store'[e][k] = store[e][k])
    <3>1. CASE e # d
      BY <2>1, <3>1 DEF TypeOK
    <3>2. CASE e = d /\ k \in expired
      <4>1. revision'[d][k] = Clock(d) /\ store'[d][k] = disk[d].store[k]
        BY <2>1, <3>2 DEF TypeOK
      <4> QED
        BY <2>3, <3>2, <4>1, NamedAfter
    <3>3. CASE e = d /\ k \notin expired
      <4>1. revision'[d][k] = Clean(disk[d].revision)[k] /\ store'[d][k] = disk[d].store[k]
        BY <2>1, <3>3 DEF TypeOK
      <4>2. ~Torn(d, k)
        BY <2>1, <2>5
      <4>3. \/ Clean(disk[d].revision)[k] = disk[d].revision[k]
            \/ disk[d].revision[k] = 0 /\ Clean(disk[d].revision)[k] = Undefined
        BY DEF Clean
      <4>4. CASE disk[d].revision[k] \in {0, Undefined}
        <5>1. store'[d][k] = 0 /\ revision'[d][k] \in {0, Undefined}
          BY <4>1, <4>2, <4>3, <4>4 DEF Torn
        <5> QED
          BY <3>3, <5>1, NamedAfter
      <4>5. CASE disk[d].revision[k] \notin {0, Undefined}
        <5>1. [ts |-> disk[d].revision[k], val |-> disk[d].store[k]] \in stamps[k]
          BY <4>2, <4>5 DEF Torn
        <5>2. revision'[d][k] = disk[d].revision[k]
          BY <4>1, <4>3, <4>5
        <5> QED
          BY <2>2, <3>3, <4>1, <5>1, <5>2, NamedAfter
      <4> QED
        BY <4>4, <4>5
    <3> QED
      BY <3>1, <3>2, <3>3
  <2> QED
    BY <1>k, <2>1, <2>2, <2>4, <2>5, StampedBy
<1>6. ASSUME NEW d \in Devices, Connect(d) PROVE Stamped'
  BY <1>1, <1>6 DEF Connect
<1>7. ASSUME NEW d \in Devices, Disconnect(d) PROVE Stamped'
  <2>1. UNCHANGED <<store, revision, calls, server, answer, stamps, torn>>
        /\ inbox' = [inbox EXCEPT ![d] = << >>]
    BY <1>7 DEF Disconnect
  <2>2. \A e \in Devices : inbox'[e] = inbox[e] \/ inbox'[e] = << >>
    BY <2>1 DEF TypeOK
  <2> QED
    BY <1>k, <2>1, <2>2, StampedBy
<1>8. ASSUME NEW d \in Devices, Close(d) PROVE Stamped'
  <2>1. /\ UNCHANGED <<calls, server, stamps, torn>>
        /\ inbox' = [inbox EXCEPT ![d] = << >>]
        /\ store' = [store EXCEPT ![d] = [k \in Keys |-> 0]]
        /\ revision' = [revision EXCEPT ![d] = [k \in Keys |-> 0]]
        /\ answer' = [answer EXCEPT ![d] = [k \in Keys |-> Absent]]
    BY <1>8 DEF Close
  <2>2. \A e \in Devices : inbox'[e] = inbox[e] \/ inbox'[e] = << >>
    BY <2>1 DEF TypeOK
  <2>3. \A e \in Devices, k \in Keys : answer'[e][k] \in {answer[e][k], Absent, server[k]}
    BY <2>1 DEF TypeOK
  <2>4. \A e \in Devices, k \in Keys :
           \/ revision'[e][k] = 0 /\ store'[e][k] = 0
           \/ revision'[e][k] = revision[e][k] /\ store'[e][k] = store[e][k]
    BY <2>1 DEF TypeOK
  <2>5. \A e \in Devices, k \in Keys :
           Named(e, k)' \/ (revision'[e][k] = revision[e][k] /\ store'[e][k] = store[e][k])
    BY <2>4, NamedAfter
  <2> QED
    BY <1>k, <2>1, <2>2, <2>3, <2>5, StampedBy
<1>9. ASSUME NEW d \in Devices, NEW k \in Keys, FlushStore(d, k) PROVE Stamped'
  BY <1>1, <1>9 DEF FlushStore
<1>10. ASSUME NEW d \in Devices, FlushSync(d) PROVE Stamped'
  BY <1>1, <1>10 DEF FlushSync
<1>11. ASSUME NEW d \in Devices, AnswerFetch(d) PROVE Stamped'
  <2>1. \A e \in Devices, k \in Keys : answer'[e][k] \in {answer[e][k], Absent, server[k]}
    BY <1>11 DEF AnswerFetch, TypeOK
  <2> QED
    BY <1>1, <1>11, <2>1 DEF AnswerFetch
<1>12. ASSUME NEW d \in Devices, FetchFails(d) PROVE Stamped'
  BY <1>1, <1>12 DEF FetchFails
<1>13. ASSUME NEW c \in calls, Apply(c) PROVE Stamped'
  <2> DEFINE copy == [ts |-> Clamp(c.ts), val |-> c.val]
             stored == [c EXCEPT !.ts = Clamp(c.ts), !.stage = "stored"]
  <2>0. c \in Calls /\ c.key \in Keys /\ [ts |-> c.ts, val |-> c.val] \in stamps[c.key]
    BY <1>k DEF Stamped
  <2>1. c.ts # 0 /\ Clamp(c.ts) # 0
    <3>1. c.ts # 0
      BY <2>0 DEF Stamped
    <3> QED
      BY <3>1 DEF Clamp, TypeOK
  <2>2. /\ server' = [server EXCEPT ![c.key] = copy]
        /\ calls' = (calls \ {c}) \cup {stored}
        /\ UNCHANGED <<store, revision, inbox, answer, torn>>
    BY <1>13 DEF Apply
  <2>3. \/ UNCHANGED stamps /\ Clamp(c.ts) = c.ts
        \/ stamps' = [stamps EXCEPT ![c.key] = @ \cup {copy}]
    BY <1>13 DEF Apply, Stamp
  <2>4. stored.ts = copy.ts /\ stored.val = copy.val /\ stored.key = c.key /\ copy.ts # 0
        /\ copy = [ts |-> stored.ts, val |-> stored.val]
    BY <2>0, <2>1 DEF Calls
  <2>5. copy \in stamps'[c.key]
    BY <2>0, <2>3 DEF TypeOK
  <2> HIDE DEF copy, stored
  <2>6. \A k \in Keys : stamps[k] \subseteq stamps'[k]
                        /\ \A s \in stamps'[k] \ stamps[k] : s.ts # 0
    <3>1. ASSUME NEW k \in Keys
          PROVE  stamps'[k] = stamps[k] \/ stamps'[k] = stamps[k] \cup {copy}
      BY <2>3 DEF TypeOK
    <3> QED
      BY <2>4, <3>1
  <2>7. \A b \in calls' : b \in calls \/ [ts |-> b.ts, val |-> b.val] \in stamps'[b.key]
    BY <2>2, <2>4, <2>5
  <2>8. \A k \in Keys : server'[k] = server[k] \/ server'[k] \in stamps'[k]
    BY <2>0, <2>2, <2>5 DEF TypeOK
  <2> QED
    BY <1>k, <2>2, <2>6, <2>7, <2>8, StampedBy
<1>14. ASSUME NEW c \in calls, Publish(c) PROVE Stamped'
  <2> DEFINE event == [key |-> c.key, ts |-> c.ts, val |-> c.val, from |-> c.from]
  <2>1. [ts |-> event.ts, val |-> event.val] \in stamps[event.key]
    BY DEF Stamped
  <2>2. event \in Events
    BY DEF TypeOK, Calls, Events
  <2>3. \A d \in Devices : inbox'[d] = inbox[d] \/ inbox'[d] = Append(inbox[d], event)
    BY <1>14 DEF Publish
  <2>4. UNCHANGED <<store, revision, server, answer, stamps, torn>> /\ calls' \subseteq calls
    BY <1>14 DEF Publish
  <2> HIDE DEF event
  <2>5. \A d \in Devices : \A i \in DOMAIN inbox'[d] :
            \/ i \in DOMAIN inbox[d] /\ inbox'[d][i] = inbox[d][i]
            \/ inbox'[d][i] = event
    <3>1. ASSUME NEW q \in Seq(Events), NEW i \in DOMAIN Append(q, event)
          PROVE  \/ i \in DOMAIN q /\ Append(q, event)[i] = q[i]
                 \/ Append(q, event)[i] = event
      BY <2>2
    <3> QED
      BY <1>t, <2>3, <3>1
  <2>6. \A d \in Devices : \A i \in DOMAIN inbox'[d] :
               \/ \E j \in DOMAIN inbox[d] : inbox'[d][i] = inbox[d][j]
               \/ [ts |-> inbox'[d][i].ts, val |-> inbox'[d][i].val]
                     \in stamps'[inbox'[d][i].key]
    BY <2>1, <2>4, <2>5
  <2> QED
    BY <1>k, <2>4, <2>6, StampedBy
<1>15. ASSUME NEW c \in calls, CallFails(c) PROVE Stamped'
  <2>1. UNCHANGED <<store, revision, inbox, server, answer, stamps, torn>>
        /\ calls' \subseteq calls
    BY <1>15 DEF CallFails
  <2> QED
    BY <1>k, <2>1, StampedBy
<1>16. CASE Tick
  BY <1>1, <1>16 DEF Tick
<1>17. CASE UNCHANGED vars
  BY <1>1, <1>17 DEF vars
<1> QED
  BY <1>2, <1>3, <1>4, <1>5, <1>6, <1>7, <1>8, <1>9, <1>10, <1>11, <1>12, <1>13, <1>14,
     <1>15, <1>16, <1>17 DEF Next

\* Where the copies are stamped and no two stamps of a key differ in their values alone,
\* equal revisions mean equal values.
LEMMA StampsName == TypeOK /\ Stamped => RevisionNamesValue
<1> SUFFICES ASSUME TypeOK, Stamped, NEW k \in Keys, ~Tied(k), k \notin torn,
                    NEW d \in Devices, IsOpen(d)
             PROVE  /\ revision[d][k] = server[k].ts => store[d][k] = server[k].val
                    /\ \A e \in Devices : IsOpen(e) /\ revision[d][k] = revision[e][k] =>
                          store[d][k] = store[e][k]
  BY DEF RevisionNamesValue
<1>1. \A s, t \in stamps[k] : s.ts = t.ts => s.val = t.val
  BY DEF Tied
<1>2. \A s \in stamps[k] : s.ts \notin {0, Undefined}
  BY DEF Stamped, TypeOK, Copies, Times, Undefined
<1>3. \A e \in Devices : Named(e, k)
  BY DEF Stamped
<1>4. \/ server[k].ts = 0 /\ server[k].val = 0
      \/ server[k] \in stamps[k]
  BY DEF Stamped, Absent
<1>5. server[k].ts # Undefined
  BY DEF TypeOK, Copies, Times, Undefined
<1>6. revision[d][k] = server[k].ts => store[d][k] = server[k].val
  BY <1>1, <1>2, <1>3, <1>4, <1>5 DEF Named
<1>7. ASSUME NEW e \in Devices, revision[d][k] = revision[e][k]
      PROVE  store[d][k] = store[e][k]
  BY <1>1, <1>2, <1>3, <1>7 DEF Named
<1> QED
  BY <1>6, <1>7

\* RevisionNamesValue: pages, or a page and the server, that hold a key with the same
\* revision hold the same value, so that `merge`, which skips an equal revision, skips
\* nothing but the value it has.
THEOREM RevisionsName == Spec => []RevisionNamesValue
BY InitTypes, TypeStep, InitStamped, StampedStep, StampsName, PTL DEF Spec

-----------------------------------------------------------------------------
(* The agreement of the pages.  A step is described first by what it does to  *)
(* one key, so that each part of the invariant is shown to be kept once for   *)
(* every shape of step, and every action is shown to have a shape at the end. *)

\* What is known of the revisions of a key.
Numbers(k) ==
    /\ now \in Nat /\ server[k].ts \in Nat /\ server[k].ts <= now
    /\ \A d \in Devices :
          /\ revision[d][k] \in Int /\ revision[d][k] <= Clock(d)
          /\ Clock(d) \in Nat /\ Clock(d) >= now /\ Clock(d) >= 1
          /\ disk[d].revision[k] \in Int
          /\ answer[d][k].ts \in Nat /\ answer[d][k].ts <= now
          /\ \A t \in Coming(d, k) : t \in Nat /\ 1 <= t /\ t <= now
    /\ \A c \in Stored(k) : c.ts \in Nat /\ 1 <= c.ts /\ c.ts <= now /\ c.from \in Devices
    /\ \A c \in Unhandled(k) : c.ts \in Nat /\ 1 <= c.ts /\ c.from \in Devices

\* The types, and what is known of stamps and of the future, give all that.
LEMMA HasNumbers == ASSUME TypeOK, NoFuture, Stamped, NEW k \in Keys PROVE Numbers(k)
<1>1. now \in Nat /\ now >= 1 /\ server[k].ts \in Nat /\ server[k].ts <= now
  BY SettingsAssumption DEF TypeOK, NoFuture, Copies, Times
<1>2. ASSUME NEW d \in Devices
      PROVE  /\ revision[d][k] \in Int /\ revision[d][k] <= Clock(d)
             /\ Clock(d) \in Nat /\ Clock(d) >= now /\ Clock(d) >= 1
             /\ disk[d].revision[k] \in Int
             /\ answer[d][k].ts \in Nat /\ answer[d][k].ts <= now
  <2>1. /\ revision[d][k] \in Int /\ revision[d][k] <= Clock(d)
        /\ disk[d].revision[k] \in Int
    BY DEF TypeOK, NoFuture, Times, Undefined
  <2>2. answer[d][k].ts \in Nat /\ answer[d][k].ts <= now
    BY DEF TypeOK, NoFuture, Copies, Times
  <2>3. Clock(d) \in Nat /\ Clock(d) >= now
    BY ClockTime, SettingsAssumption DEF Times
  <2> QED
    BY <1>1, <2>1, <2>2, <2>3
<1>3. ASSUME NEW d \in Devices, NEW t \in Coming(d, k)
      PROVE  t \in Nat /\ 1 <= t /\ t <= now
  <2>1. PICK i \in DOMAIN inbox[d] : inbox[d][i].key = k /\ inbox[d][i].ts = t
    BY DEF Coming, About
  <2>2. inbox[d][i] \in Events
    BY DEF TypeOK
  <2>3. t \in Nat /\ t <= now
    BY <2>1, <2>2 DEF Events, Times, NoFuture
  <2>4. t # 0
    BY <2>1 DEF Stamped
  <2> QED
    BY <2>3, <2>4
<1>4. ASSUME NEW c \in calls, c.key = k
      PROVE  c.ts \in Nat /\ 1 <= c.ts /\ c.from \in Devices /\ (c.stage = "stored" => c.ts <= now)
  <2>1. c \in Calls
    BY DEF TypeOK
  <2>2. c.ts # 0
    BY <1>4 DEF Stamped
  <2> QED
    BY <2>1, <2>2 DEF Calls, Times, NoFuture
<1> QED
  BY <1>1, <1>2, <1>3, <1>4 DEF Numbers, Stored, Unhandled

-----------------------------------------------------------------------------
\* What a step may do to the key k.  What it leaves alone:
SameServer(k) ==
    /\ server'[k].ts = server[k].ts
    /\ k \in overtaken => k \in overtaken'
    /\ k \in unseen => k \in unseen'

SameCalls(k) == Unhandled(k)' = Unhandled(k) /\ Stored(k)' = Stored(k)

SameInbox(d, k) ==
    /\ Coming(d, k)' = Coming(d, k)
    /\ \A t, u : Before(d, k, t, u) => Before(d, k, t, u)'

SameFetch(d, k) == answer'[d][k].ts = answer[d][k].ts /\ fetch'[d] = fetch[d]

SameDisk(d, k) == disk'[d].revision[k] = disk[d].revision[k]

SamePage(d, k) ==
    /\ IsOpen(d)' <=> IsOpen(d)
    /\ revision'[d][k] = revision[d][k]
    /\ k \in behind[d] => k \in behind'[d]

\* p is a new push by d of the revision that it gives k.
Pushes(d, k) ==
    /\ revision'[d][k] = Clock(d)
    /\ \E p : /\ p.from = d /\ p.ts = Clock(d)
              /\ Unhandled(k)' = Unhandled(k) \cup {p} /\ Stored(k)' = Stored(k)

\* The steps: one that is not about k, but for what is written to a disk or is not answered,
Resting(k) ==
    /\ SameServer(k) /\ SameCalls(k)
    /\ \A d \in Devices :
          /\ SamePage(d, k) /\ SameInbox(d, k)
          /\ SameDisk(d, k) \/ (IsOpen(d) /\ disk'[d].revision[k] = revision[d][k])
          /\ answer'[d][k].ts = answer[d][k].ts
          /\ \/ fetch'[d] = fetch[d]
             \/ k \in behind'[d]
             \/ fetch[d] = "answered" /\ answer[d][k].ts = 0 /\ fetch'[d] = "none"

\* an edit,
Editing(d, k) ==
    /\ IsOpen(d) /\ Pushes(d, k) /\ SameServer(k)
    /\ \A e \in Devices :
          /\ e # d => SamePage(e, k)
          /\ SameInbox(e, k) /\ SameFetch(e, k) /\ SameDisk(e, k)
    /\ IsOpen(d)' /\ (k \in behind[d] => k \in behind'[d])

\* an event or an answer with the revision t, which d takes, or answers with its own,
Taking(d, k, t) ==
    /\ IsOpen(d) /\ SameServer(k)
    /\ (SameCalls(k) /\ revision'[d][k] = t /\ revision[d][k] <= t) \/ Pushes(d, k)
    /\ IsOpen(d)' /\ (k \in behind[d] => k \in behind'[d])
    /\ \A e \in Devices : SameDisk(e, k)
    /\ \A e \in Devices \ {d} : SamePage(e, k) /\ SameInbox(e, k) /\ SameFetch(e, k)

Hearing(d, k, t) ==
    /\ Taking(d, k, t) /\ SameFetch(d, k)
    /\ Coming(d, k) = Coming(d, k)' \cup {t}
    /\ \A u, v : Before(d, k, u, v) =>
          \/ Before(d, k, u, v)' /\ u \in Coming(d, k)'
          \/ u = t /\ v \in Coming(d, k)'

Reading(d, k) ==
    /\ Taking(d, k, answer[d][k].ts) /\ SameInbox(d, k)
    /\ fetch[d] = "answered" /\ answer[d][k].ts # 0
    /\ fetch'[d] = "none" /\ answer'[d][k].ts = 0

\* a page that is opened, closed, or answered,
Opening(d, k) ==
    /\ ~IsOpen(d) /\ IsOpen(d)' /\ SameServer(k)
    /\ \/ SameCalls(k) /\ revision'[d][k] \in {disk[d].revision[k], Undefined}
       \/ Pushes(d, k)
    /\ fetch'[d] = "asked" /\ answer'[d][k].ts = answer[d][k].ts
    /\ k \in behind[d] /\ server[k].ts = 0 => k \in behind'[d]
    /\ \A e \in Devices : SameInbox(e, k) /\ SameDisk(e, k)
    /\ \A e \in Devices \ {d} : SamePage(e, k) /\ SameFetch(e, k)

Closing(d, k) ==
    /\ IsOpen(d) /\ ~IsOpen(d)' /\ SameServer(k) /\ SameCalls(k)
    /\ answer'[d][k].ts = 0 /\ Coming(d, k)' = {}
    /\ Coming(d, k) # {} => k \in unseen'
    /\ \A c \in Unhandled(k) \cup Stored(k) : c.from = d => k \in unseen'
    /\ k \in behind[d] => k \in behind'[d]
    /\ \A e \in Devices : SameDisk(e, k)
    /\ \A e \in Devices \ {d} : SamePage(e, k) /\ SameInbox(e, k) /\ SameFetch(e, k)

Answering(d, k) ==
    /\ SameServer(k) /\ SameCalls(k)
    /\ fetch[d] = "asked" /\ fetch'[d] = "answered" /\ answer'[d][k].ts = server[k].ts
    /\ \A e \in Devices : SamePage(e, k) /\ SameInbox(e, k) /\ SameDisk(e, k)
    /\ \A e \in Devices \ {d} : SameFetch(e, k)

\* the server's part,
Applying(c, k) ==
    /\ c \in Unhandled(k)
    /\ \E p : /\ p.from = c.from /\ p.ts = server'[k].ts
              /\ Unhandled(k)' = Unhandled(k) \ {c} /\ Stored(k)' = Stored(k) \cup {p}
    /\ server'[k].ts \in Nat /\ server'[k].ts >= 1
    /\ \/ server'[k].ts = c.ts
       \/ server'[k].ts = now /\ now <= c.ts
    /\ k \in overtaken \/ server'[k].ts < server[k].ts => k \in overtaken'
    /\ k \in unseen => k \in unseen'
    /\ \A e \in Devices :
          SamePage(e, k) /\ SameInbox(e, k) /\ SameFetch(e, k) /\ SameDisk(e, k)

Publishing(c, k) ==
    /\ c \in Stored(k) /\ SameServer(k)
    /\ Unhandled(k)' = Unhandled(k) /\ Stored(k)' = Stored(k) \ {c}
    /\ \A d \in Devices :
          /\ SamePage(d, k) /\ SameFetch(d, k) /\ SameDisk(d, k)
          /\ \/ /\ Coming(d, k)' = Coming(d, k) \cup {c.ts}
                /\ \A t, u : Before(d, k, t, u) => Before(d, k, t, u)'
                /\ \A t \in Coming(d, k) : Before(d, k, t, c.ts)'
             \/ /\ SameInbox(d, k)
                /\ IsOpen(d) => k \in unseen' /\ (fetch[d] = "asked" \/ k \in behind'[d])

\* and what a page does not see.
Losing(k) ==
    /\ k \in unseen' /\ SameServer(k)
    /\ Unhandled(k)' \subseteq Unhandled(k) /\ Stored(k)' \subseteq Stored(k)
    /\ \A d \in Devices :
          /\ SamePage(d, k) /\ SameFetch(d, k) /\ SameDisk(d, k)
          /\ Coming(d, k)' \subseteq Coming(d, k)
          /\ \/ k \in behind'[d]
             \/ /\ SameInbox(d, k) /\ Stored(k)' = Stored(k)
                /\ \A c \in Unhandled(k) : c.from = d => c \in Unhandled(k)'

Step(k) ==
    \/ Resting(k) \/ Losing(k)
    \/ \E d \in Devices :
          \/ Editing(d, k) \/ Reading(d, k) \/ Opening(d, k) \/ Closing(d, k) \/ Answering(d, k)
          \/ \E t \in Coming(d, k) : Hearing(d, k, t)
    \/ \E c \in Unhandled(k) : Applying(c, k)
    \/ \E c \in Stored(k) : Publishing(c, k)

\* The revisions about to be published.
LEMMA AnnouncedAs ==
    ASSUME NEW k
    PROVE  /\ Stored(k)' = Stored(k) => Announced(k)' = Announced(k)
           /\ Stored(k)' \subseteq Stored(k) => Announced(k)' \subseteq Announced(k)
           /\ \A c \in Stored(k) : c.ts \in Announced(k)
           /\ \A t \in Announced(k) : \E c \in Stored(k) : c.ts = t
           /\ \A p : Stored(k)' = Stored(k) \cup {p} => Announced(k)' = Announced(k) \cup {p.ts}
           /\ \A c : Stored(k)' = Stored(k) \ {c} =>
                 /\ Announced(k)' \subseteq Announced(k)
                 /\ Announced(k) \subseteq Announced(k)' \cup {c.ts}
BY DEF Announced

\* The server speaks only of what it has.
LEMMA SpokenKept ==
    ASSUME NEW k \in Keys, Numbers(k), Spoken(k), Step(k)
    PROVE  Spoken(k)'
<1> USE AnnouncedAs DEF Spoken, SameServer, SameCalls, SameInbox, SameFetch
<1>1. CASE Resting(k)
  <2>1. server'[k].ts = server[k].ts /\ Stored(k)' = Stored(k)
    BY <1>1 DEF Resting
  <2>2. \A e \in Devices : Coming(e, k)' = Coming(e, k) /\ answer'[e][k].ts = answer[e][k].ts
    BY <1>1 DEF Resting
  <2> QED
    BY <2>1, <2>2
<1>2. CASE Losing(k)
  BY <1>2 DEF Losing
<1>3. ASSUME NEW d \in Devices, Editing(d, k) PROVE Spoken(k)'
  BY <1>3 DEF Editing, Pushes
<1>4. ASSUME NEW d \in Devices, Reading(d, k) PROVE Spoken(k)'
  BY <1>4 DEF Reading, Taking, Pushes
<1>5. ASSUME NEW d \in Devices, Opening(d, k) PROVE Spoken(k)'
  <2>1. server'[k].ts = server[k].ts /\ Stored(k)' = Stored(k)
    BY <1>5 DEF Opening, Pushes
  <2>2. \A e \in Devices : Coming(e, k)' = Coming(e, k) /\ answer'[e][k].ts = answer[e][k].ts
    BY <1>5 DEF Opening
  <2> QED
    BY <2>1, <2>2
<1>6. ASSUME NEW d \in Devices, Closing(d, k) PROVE Spoken(k)'
  BY <1>6 DEF Closing
<1>7. ASSUME NEW d \in Devices, Answering(d, k) PROVE Spoken(k)'
  BY <1>7 DEF Answering
<1>8. ASSUME NEW d \in Devices, NEW t \in Coming(d, k), Hearing(d, k, t) PROVE Spoken(k)'
  BY <1>8 DEF Hearing, Taking, Pushes
<1>9. ASSUME NEW c \in Unhandled(k), Applying(c, k) PROVE Spoken(k)'
  <2>1. server'[k].ts \in Nat /\ server'[k].ts >= 1
    BY <1>9 DEF Applying
  <2> QED
    BY <2>1
<1>10. ASSUME NEW c \in Stored(k), Publishing(c, k) PROVE Spoken(k)'
  BY <1>10 DEF Publishing
<1> QED
  BY <1>1, <1>2, <1>3, <1>4, <1>5, <1>6, <1>7, <1>8, <1>9, <1>10 DEF Step

\* A push of its own gives k a revision.
LEMMA PushesOwn ==
    ASSUME NEW k \in Keys, NEW d \in Devices, Pushes(d, k)
    PROVE  /\ revision'[d][k] = Clock(d) /\ Stored(k)' = Stored(k)
           /\ Unhandled(k) \subseteq Unhandled(k)'
           /\ \E c \in Unhandled(k)' : c.from = d /\ c.ts = revision'[d][k]
           /\ \A c \in Unhandled(k)' : c \in Unhandled(k) \/ (c.from = d /\ c.ts = Clock(d))
BY DEF Pushes

\* What the server has not got yet is in the pushes of whoever has it.
LEMMA FirstPushKept ==
    ASSUME NEW k \in Keys, Numbers(k), Spoken(k), FirstPush(k), Step(k)
    PROVE  FirstPush(k)'
<1> SUFFICES ASSUME NEW e \in Devices, server'[k].ts = 0, k \notin behind'[e]
             PROVE  /\ disk'[e].revision[k] > 0 =>
                          \E c \in Unhandled(k)' : c.from = e /\ c.ts = disk'[e].revision[k]
                    /\ IsOpen(e)' /\ revision'[e][k] > 0 =>
                          \E c \in Unhandled(k)' : c.from = e /\ c.ts = revision'[e][k]
  BY DEF FirstPush, Pushed
<1> DEFINE Goal == /\ disk'[e].revision[k] > 0 =>
                          \E c \in Unhandled(k)' : c.from = e /\ c.ts = disk'[e].revision[k]
                   /\ IsOpen(e)' /\ revision'[e][k] > 0 =>
                          \E c \in Unhandled(k)' : c.from = e /\ c.ts = revision'[e][k]
<1>a. ASSUME server[k].ts = 0, k \notin behind[e]
      PROVE  /\ disk[e].revision[k] > 0 =>
                   \E c \in Unhandled(k) : c.from = e /\ c.ts = disk[e].revision[k]
             /\ IsOpen(e) /\ revision[e][k] > 0 =>
                   \E c \in Unhandled(k) : c.from = e /\ c.ts = revision[e][k]
  BY <1>a DEF FirstPush, Pushed
<1>b. ASSUME server[k].ts = 0, k \notin behind[e], SamePage(e, k), SameDisk(e, k),
             Unhandled(k) \subseteq Unhandled(k)'
      PROVE  Goal
  BY <1>a, <1>b DEF SamePage, SameDisk
<1>1. CASE Resting(k)
  <2>1. /\ server[k].ts = 0 /\ k \notin behind[e] /\ Unhandled(k)' = Unhandled(k)
        /\ (IsOpen(e)' <=> IsOpen(e)) /\ revision'[e][k] = revision[e][k]
        /\ \/ disk'[e].revision[k] = disk[e].revision[k]
           \/ IsOpen(e) /\ disk'[e].revision[k] = revision[e][k]
    BY <1>1 DEF Resting, SameServer, SameCalls, SamePage, SameDisk
  <2> QED
    BY <1>a, <2>1
<1>2. CASE Losing(k)
  <2>1. /\ server[k].ts = 0 /\ k \notin behind[e] /\ SamePage(e, k) /\ SameDisk(e, k)
        /\ \A c \in Unhandled(k) : c.from = e => c \in Unhandled(k)'
    BY <1>2 DEF Losing, SameServer, SamePage
  <2> QED
    BY <1>a, <2>1 DEF SamePage, SameDisk
<1>3. ASSUME NEW d \in Devices, Editing(d, k) PROVE Goal
  <2>1. server[k].ts = 0 /\ k \notin behind[e] /\ SameDisk(e, k) /\ Pushes(d, k)
    BY <1>3 DEF Editing, SameServer, SamePage
  <2>2. CASE e = d
    BY <1>a, <2>1, <2>2, PushesOwn DEF SameDisk
  <2>3. CASE e # d
    BY <1>3, <1>b, <2>1, <2>3, PushesOwn DEF Editing
  <2> QED
    BY <2>2, <2>3
<1>5. ASSUME NEW d \in Devices, Opening(d, k) PROVE Goal
  <2>1. server[k].ts = 0 /\ k \notin behind[e] /\ SameDisk(e, k)
    BY <1>5 DEF Opening, SameServer, SamePage
  <2>2. CASE e # d
    <3>1. Unhandled(k) \subseteq Unhandled(k)' /\ SamePage(e, k)
      BY <1>5, <2>2, PushesOwn DEF Opening, SameCalls
    <3> QED
      BY <1>b, <2>1, <3>1
  <2>3. CASE e = d /\ Pushes(d, k)
    BY <1>a, <2>1, <2>3, PushesOwn DEF SameDisk
  <2>4. CASE e = d /\ SameCalls(k) /\ revision'[d][k] \in {disk[d].revision[k], Undefined}
    BY <1>a, <2>1, <2>4 DEF SameDisk, SameCalls, Undefined
  <2> QED
    BY <1>5, <2>2, <2>3, <2>4 DEF Opening
<1>6. ASSUME NEW d \in Devices, Closing(d, k) PROVE Goal
  <2>1. /\ server[k].ts = 0 /\ k \notin behind[e] /\ SameDisk(e, k)
        /\ Unhandled(k)' = Unhandled(k) /\ (e # d => SamePage(e, k)) /\ ~IsOpen(d)'
    BY <1>6 DEF Closing, SameServer, SamePage, SameCalls
  <2> QED
    BY <1>a, <1>b, <2>1 DEF SameDisk
<1>7. ASSUME NEW d \in Devices, Answering(d, k) PROVE Goal
  <2>1. /\ server[k].ts = 0 /\ k \notin behind[e] /\ SameDisk(e, k) /\ SamePage(e, k)
        /\ Unhandled(k)' = Unhandled(k)
    BY <1>7 DEF Answering, SameServer, SamePage, SameCalls
  <2> QED
    BY <1>b, <2>1
<1>8. ASSUME NEW d \in Devices, NEW t \in Coming(d, k), Hearing(d, k, t) PROVE Goal
  <2>1. server[k].ts = 0
    BY <1>8 DEF Hearing, Taking, SameServer
  <2> QED
    BY <2>1 DEF Spoken
<1>9. ASSUME NEW c \in Unhandled(k), Applying(c, k) PROVE Goal
  <2>1. server'[k].ts >= 1
    BY <1>9 DEF Applying
  <2> QED
    BY <2>1
<1>10. ASSUME NEW c \in Stored(k), Publishing(c, k) PROVE Goal
  <2>1. server[k].ts = 0 /\ c.ts \in Announced(k)
    BY <1>10, AnnouncedAs DEF Publishing, SameServer
  <2> QED
    BY <2>1 DEF Spoken
<1>11. ASSUME NEW d \in Devices, Reading(d, k) PROVE Goal
  <2>1. server[k].ts = 0 /\ answer[d][k].ts # 0
    BY <1>11 DEF Reading, Taking, SameServer
  <2> QED
    BY <2>1 DEF Spoken
<1> QED
  BY <1>1, <1>2, <1>3, <1>5, <1>6, <1>7, <1>8, <1>9, <1>10, <1>11 DEF Step

\* What d hears of the server, or will hear.
LEMMA NotOlderKept ==
    ASSUME NEW k \in Keys, Numbers(k), Numbers(k)', NotOlder(k), Step(k)
    PROVE  NotOlder(k)'
<1> SUFFICES ASSUME NEW e \in Devices, IsOpen(e)', k \notin behind'[e], server'[k].ts # 0
             PROVE  \/ revision'[e][k] >= server'[k].ts
                    \/ fetch'[e] = "asked"
                    \/ fetch'[e] = "answered" /\ answer'[e][k].ts >= server'[k].ts
                    \/ \E t \in Announced(k)' \cup Coming(e, k)' : t >= server'[k].ts
  BY DEF NotOlder
<1> DEFINE Goal == \/ revision'[e][k] >= server'[k].ts
                   \/ fetch'[e] = "asked"
                   \/ fetch'[e] = "answered" /\ answer'[e][k].ts >= server'[k].ts
                   \/ \E t \in Announced(k)' \cup Coming(e, k)' : t >= server'[k].ts
<1>n. /\ server[k].ts \in Nat /\ server'[k].ts \in Nat /\ revision[e][k] \in Int
      /\ server[k].ts <= now /\ now \in Nat
      /\ \A d \in Devices : Clock(d) \in Nat /\ Clock(d) >= now
  BY DEF Numbers
<1>a. ASSUME IsOpen(e), k \notin behind[e], server[k].ts # 0
      PROVE  \/ revision[e][k] >= server[k].ts
             \/ fetch[e] = "asked"
             \/ fetch[e] = "answered" /\ answer[e][k].ts >= server[k].ts
             \/ \E t \in Announced(k) \cup Coming(e, k) : t >= server[k].ts
  BY <1>a DEF NotOlder
<1>b. ASSUME SamePage(e, k), SameServer(k), SameFetch(e, k),
             Announced(k) \cup Coming(e, k) \subseteq Announced(k)' \cup Coming(e, k)'
      PROVE  Goal
  BY <1>a, <1>b DEF SamePage, SameServer, SameFetch
<1>1. CASE Resting(k)
  <2>1. /\ SamePage(e, k) /\ SameServer(k) /\ answer'[e][k].ts = answer[e][k].ts
        /\ Announced(k)' = Announced(k) /\ Coming(e, k)' = Coming(e, k)
        /\ fetch'[e] = fetch[e] \/ (fetch[e] = "answered" /\ answer[e][k].ts = 0)
    BY <1>1, AnnouncedAs DEF Resting, SameCalls, SameInbox
  <2>2. CASE fetch'[e] = fetch[e]
    BY <1>b, <2>1, <2>2 DEF SameFetch
  <2>3. CASE fetch[e] = "answered" /\ answer[e][k].ts = 0
    BY <1>a, <1>n, <2>1, <2>3 DEF SamePage, SameServer
  <2> QED
    BY <2>1, <2>2, <2>3
<1>2. CASE Losing(k)
  <2>1. Announced(k)' = Announced(k) /\ Coming(e, k)' = Coming(e, k)
    BY <1>2, AnnouncedAs DEF Losing, SameInbox
  <2> QED
    BY <1>2, <1>b, <2>1 DEF Losing
<1>3. ASSUME NEW d \in Devices, Pushes(d, k), e = d, SameServer(k) PROVE Goal
  <2>1. revision'[e][k] = Clock(e) /\ server'[k].ts = server[k].ts
    BY <1>3, PushesOwn DEF SameServer
  <2> QED
    BY <1>n, <2>1
<1>4. ASSUME NEW d \in Devices, Editing(d, k) PROVE Goal
  <2>1. CASE e = d
    BY <1>3, <1>4, <2>1 DEF Editing
  <2>2. CASE e # d
    <3>1. Announced(k)' = Announced(k) /\ Coming(e, k)' = Coming(e, k)
      BY <1>4, AnnouncedAs DEF Editing, Pushes, SameInbox
    <3> QED
      BY <1>4, <1>b, <2>2, <3>1 DEF Editing
  <2> QED
    BY <2>1, <2>2
<1>5. ASSUME NEW d \in Devices, NEW t, Taking(d, k, t), e # d PROVE Goal
  <2>1. Announced(k)' = Announced(k) /\ Coming(e, k)' = Coming(e, k)
    BY <1>5, AnnouncedAs DEF Taking, Pushes, SameInbox, SameCalls
  <2> QED
    BY <1>5, <1>b, <2>1 DEF Taking
<1>6. ASSUME NEW d \in Devices, Reading(d, k) PROVE Goal
  <2>1. CASE e = d /\ Pushes(d, k)
    BY <1>3, <1>6, <2>1 DEF Reading, Taking
  <2>2. CASE e = d /\ ~Pushes(d, k)
    <3>1. /\ revision'[e][k] = answer[e][k].ts /\ revision[e][k] <= answer[e][k].ts
          /\ server'[k].ts = server[k].ts
          /\ Announced(k)' = Announced(k) /\ Coming(e, k)' = Coming(e, k)
          /\ fetch[e] = "answered" /\ IsOpen(e) /\ k \notin behind[e]
      BY <1>6, <2>2, AnnouncedAs DEF Reading, Taking, SameCalls, SameInbox, SameServer
    <3>2. answer[e][k].ts \in Nat
      BY DEF Numbers
    <3> QED
      BY <1>a, <1>n, <3>1, <3>2
  <2> QED
    BY <1>5, <1>6, <2>1, <2>2 DEF Reading
<1>7. ASSUME NEW d \in Devices, Opening(d, k) PROVE Goal
  <2>1. CASE e = d
    BY <1>7, <2>1 DEF Opening
  <2>2. CASE e # d
    <3>1. Announced(k)' = Announced(k) /\ Coming(e, k)' = Coming(e, k)
      BY <1>7, AnnouncedAs DEF Opening, Pushes, SameInbox, SameCalls
    <3> QED
      BY <1>7, <1>b, <2>2, <3>1 DEF Opening
  <2> QED
    BY <2>1, <2>2
<1>8. ASSUME NEW d \in Devices, Closing(d, k) PROVE Goal
  <2>1. e # d
    BY <1>8 DEF Closing
  <2>2. Announced(k)' = Announced(k) /\ Coming(e, k)' = Coming(e, k)
    BY <1>8, <2>1, AnnouncedAs DEF Closing, SameInbox, SameCalls
  <2> QED
    BY <1>8, <1>b, <2>1, <2>2 DEF Closing
<1>9. ASSUME NEW d \in Devices, Answering(d, k) PROVE Goal
  <2>1. Announced(k)' = Announced(k) /\ Coming(e, k)' = Coming(e, k)
    BY <1>9, AnnouncedAs DEF Answering, SameInbox, SameCalls
  <2>2. CASE e = d
    BY <1>9, <1>n, <2>2 DEF Answering, SameServer
  <2>3. CASE e # d
    BY <1>9, <1>b, <2>1, <2>3 DEF Answering
  <2> QED
    BY <2>2, <2>3
<1>10. ASSUME NEW d \in Devices, NEW t \in Coming(d, k), Hearing(d, k, t) PROVE Goal
  <2>1. CASE e = d /\ Pushes(d, k)
    BY <1>3, <1>10, <2>1 DEF Hearing, Taking
  <2>2. CASE e = d /\ ~Pushes(d, k)
    <3>1. /\ revision'[e][k] = t /\ revision[e][k] <= t
          /\ server'[k].ts = server[k].ts /\ SameFetch(e, k)
          /\ Announced(k)' = Announced(k) /\ Coming(e, k) = Coming(e, k)' \cup {t}
          /\ IsOpen(e) /\ k \notin behind[e]
      BY <1>10, <2>2, AnnouncedAs DEF Hearing, Taking, SameCalls, SameServer
    <3>2. t \in Nat
      BY <2>2 DEF Numbers
    <3> QED
      BY <1>a, <1>n, <3>1, <3>2 DEF SameFetch
  <2> QED
    BY <1>5, <1>10, <2>1, <2>2 DEF Hearing
<1>11. ASSUME NEW c \in Unhandled(k), Applying(c, k) PROVE Goal
  <2>1. server'[k].ts \in Announced(k)'
    BY <1>11, AnnouncedAs DEF Applying
  <2> QED
    BY <1>n, <2>1
<1>12. ASSUME NEW c \in Stored(k), Publishing(c, k) PROVE Goal
  <2>1. SamePage(e, k) /\ SameServer(k) /\ SameFetch(e, k)
    BY <1>12 DEF Publishing
  <2>2. Announced(k) \subseteq Announced(k)' \cup {c.ts}
    BY <1>12, AnnouncedAs DEF Publishing
  <2>3. CASE Coming(e, k)' = Coming(e, k) \cup {c.ts}
    BY <1>b, <2>1, <2>2, <2>3
  <2>4. CASE fetch[e] = "asked"
    BY <2>1, <2>4 DEF SameFetch
  <2> QED
    BY <1>12, <2>1, <2>3, <2>4 DEF Publishing, SamePage
<1> QED
  BY <1>1, <1>2, <1>4, <1>6, <1>7, <1>8, <1>9, <1>10, <1>11, <1>12 DEF Step

\* The revisions that are under way are of the past of the server.
LEMMA NotNewerKept ==
    ASSUME NEW k \in Keys, Numbers(k), Numbers(k)', FirstPush(k), Step(k),
           k \notin overtaken', k \notin overtaken => NotNewer(k)
    PROVE  NotNewer(k)'
<1>n. /\ server[k].ts \in Nat /\ server'[k].ts \in Nat
      /\ \A t \in Announced(k) : t \in Nat
      /\ \A d \in Devices : \A t \in Coming(d, k) : t \in Nat
      /\ \A d \in Devices : answer[d][k].ts \in Nat
      /\ \A d \in Devices : revision[d][k] \in Int /\ revision'[d][k] \in Int
  BY AnnouncedAs DEF Numbers
<1>a. NotNewer(k) /\ server'[k].ts >= server[k].ts
  <2>1. CASE Resting(k) \/ Losing(k) \/ \E c \in Stored(k) : Publishing(c, k)
    BY <1>n, <2>1 DEF Resting, Losing, Publishing, SameServer
  <2>2. ASSUME NEW d \in Devices, Editing(d, k) \/ Reading(d, k) \/ Opening(d, k)
                                  \/ Closing(d, k) \/ Answering(d, k)
                                  \/ \E t \in Coming(d, k) : Hearing(d, k, t)
        PROVE  NotNewer(k) /\ server'[k].ts >= server[k].ts
    <3>1. SameServer(k)
      BY <2>2 DEF Editing, Reading, Opening, Closing, Answering, Hearing, Taking
    <3> QED
      BY <1>n, <3>1 DEF SameServer
  <2>3. ASSUME NEW c \in Unhandled(k), Applying(c, k)
        PROVE  NotNewer(k) /\ server'[k].ts >= server[k].ts
    BY <1>n, <2>3 DEF Applying
  <2> QED
    BY <2>1, <2>2, <2>3 DEF Step
<1>b. /\ \A t \in Announced(k) : t <= server'[k].ts
      /\ \A d \in Devices : /\ answer[d][k].ts <= server'[k].ts
                            /\ \A t \in Coming(d, k) : t <= server'[k].ts
  BY <1>n, <1>a DEF NotNewer
<1> DEFINE Bound == /\ \A t \in Announced(k)' : t <= server'[k].ts
                    /\ \A d \in Devices : /\ answer'[d][k].ts <= server'[k].ts
                                          /\ \A t \in Coming(d, k)' : t <= server'[k].ts
<1>c. ASSUME Announced(k)' \subseteq Announced(k) \cup {server'[k].ts},
             \A d \in Devices : answer'[d][k].ts \in {answer[d][k].ts, 0, server'[k].ts},
             \A d \in Devices : Coming(d, k)' \subseteq Coming(d, k) \cup Announced(k)
      PROVE  Bound
  BY <1>b, <1>c, <1>n
<1>d. Bound
  <2>1. CASE Resting(k)
    BY <1>c, <2>1, AnnouncedAs DEF Resting, SameCalls, SameInbox
  <2>2. CASE Losing(k)
    BY <1>c, <2>2, AnnouncedAs DEF Losing, SameFetch
  <2>3. ASSUME NEW d \in Devices, Editing(d, k) PROVE Bound
    BY <1>c, <2>3, AnnouncedAs DEF Editing, Pushes, SameInbox, SameFetch
  <2>4. ASSUME NEW d \in Devices, Reading(d, k) PROVE Bound
    <3>1. Announced(k)' = Announced(k)
      BY <2>4, AnnouncedAs DEF Reading, Taking, Pushes, SameCalls
    <3>2. \A e \in Devices : /\ Coming(e, k)' = Coming(e, k)
                             /\ answer'[e][k].ts \in {answer[e][k].ts, 0}
      BY <2>4 DEF Reading, Taking, SameInbox, SameFetch
    <3> QED
      BY <1>c, <3>1, <3>2
  <2>5. ASSUME NEW d \in Devices, Opening(d, k) PROVE Bound
    <3>1. Announced(k)' = Announced(k)
      BY <2>5, AnnouncedAs DEF Opening, Pushes, SameCalls
    <3>2. \A e \in Devices : /\ Coming(e, k)' = Coming(e, k)
                             /\ answer'[e][k].ts = answer[e][k].ts
      BY <2>5 DEF Opening, SameInbox, SameFetch
    <3> QED
      BY <1>c, <3>1, <3>2
  <2>6. ASSUME NEW d \in Devices, Closing(d, k) PROVE Bound
    BY <1>c, <2>6, AnnouncedAs DEF Closing, SameCalls, SameInbox, SameFetch
  <2>7. ASSUME NEW d \in Devices, Answering(d, k) PROVE Bound
    BY <1>c, <2>7, AnnouncedAs DEF Answering, SameCalls, SameInbox, SameFetch, SameServer
  <2>8. ASSUME NEW d \in Devices, NEW t \in Coming(d, k), Hearing(d, k, t) PROVE Bound
    <3>1. Announced(k)' = Announced(k)
      BY <2>8, AnnouncedAs DEF Hearing, Taking, Pushes, SameCalls
    <3>2. \A e \in Devices : /\ Coming(e, k)' \subseteq Coming(e, k)
                             /\ answer'[e][k].ts = answer[e][k].ts
      BY <2>8 DEF Hearing, Taking, SameInbox, SameFetch
    <3> QED
      BY <1>c, <3>1, <3>2
  <2>9. ASSUME NEW c \in Unhandled(k), Applying(c, k) PROVE Bound
    <3>1. Announced(k)' = Announced(k) \cup {server'[k].ts}
      BY <2>9, AnnouncedAs DEF Applying
    <3> QED
      BY <1>c, <2>9, <3>1 DEF Applying, SameInbox, SameFetch
  <2>10. ASSUME NEW c \in Stored(k), Publishing(c, k) PROVE Bound
    BY <1>c, <2>10, AnnouncedAs DEF Publishing, SameInbox, SameFetch
  <2> QED
    BY <2>1, <2>2, <2>3, <2>4, <2>5, <2>6, <2>7, <2>8, <2>9, <2>10 DEF Step
<1>e. ASSUME NEW e \in Devices, IsOpen(e)', k \notin behind'[e], revision'[e][k] > server'[k].ts
      PROVE  \/ \E c \in Unhandled(k)' : c.from = e /\ c.ts = revision'[e][k]
             \/ Corrected(e, k)'
             \/ \E t \in Announced(k)' \cup Coming(e, k)' : t < revision'[e][k]
  <2> DEFINE Goal == \/ \E c \in Unhandled(k)' : c.from = e /\ c.ts = revision'[e][k]
                     \/ Corrected(e, k)'
                     \/ \E t \in Announced(k)' \cup Coming(e, k)' : t < revision'[e][k]
  <2>a. ASSUME SamePage(e, k)
        PROVE  \/ \E c \in Unhandled(k) : c.from = e /\ c.ts = revision[e][k]
               \/ Corrected(e, k)
               \/ \E t \in Announced(k) \cup Coming(e, k) : t < revision[e][k]
    <3>1. IsOpen(e) /\ k \notin behind[e] /\ revision[e][k] > server[k].ts
      BY <1>a, <1>e, <1>n, <2>a DEF SamePage
    <3> QED
      BY <1>a, <3>1 DEF NotNewer, Pushed
  <2>b. ASSUME SamePage(e, k), SameFetch(e, k), server[k].ts # 0 => server'[k].ts # 0,
               \A c \in Unhandled(k) : c.from = e => c \in Unhandled(k)',
               Announced(k) \cup Coming(e, k) \subseteq Announced(k)' \cup Coming(e, k)'
        PROVE  Goal
    BY <2>a, <2>b DEF SamePage, SameFetch, Corrected
  <2>c. ASSUME NEW d \in Devices, e = d, Pushes(d, k) PROVE Goal
    BY <2>c, PushesOwn
  <2>1. CASE Resting(k)
    <3>1. /\ SamePage(e, k) /\ answer'[e][k].ts = answer[e][k].ts /\ server'[k].ts = server[k].ts
          /\ Unhandled(k)' = Unhandled(k) /\ Announced(k)' = Announced(k)
          /\ Coming(e, k)' = Coming(e, k)
          /\ fetch'[e] = fetch[e] \/ (fetch[e] = "answered" /\ answer[e][k].ts = 0)
      BY <1>e, <2>1, AnnouncedAs DEF Resting, SameCalls, SameInbox, SameServer
    <3> QED
      BY <2>a, <3>1 DEF SamePage, Corrected
  <2>2. CASE Losing(k)
    <3>1. Announced(k)' = Announced(k) /\ Coming(e, k)' = Coming(e, k)
      BY <1>e, <2>2, AnnouncedAs DEF Losing, SameInbox
    <3> QED
      BY <1>e, <2>2, <2>b, <3>1 DEF Losing, SameServer
  <2>3. ASSUME NEW d \in Devices, Editing(d, k) PROVE Goal
    <3>1. CASE e # d
      <4>1. Announced(k)' = Announced(k) /\ Coming(e, k)' = Coming(e, k)
            /\ Unhandled(k) \subseteq Unhandled(k)'
        BY <2>3, AnnouncedAs, PushesOwn DEF Editing, SameInbox
      <4> QED
        BY <2>3, <2>b, <3>1, <4>1 DEF Editing, SameServer
    <3> QED
      BY <2>3, <2>c, <3>1 DEF Editing
  <2>d. ASSUME NEW d \in Devices, NEW t, Taking(d, k, t), e # d PROVE Goal
    <3>1. Announced(k)' = Announced(k) /\ Coming(e, k)' = Coming(e, k)
          /\ Unhandled(k) \subseteq Unhandled(k)'
      BY <2>d, AnnouncedAs, PushesOwn DEF Taking, SameInbox, SameCalls
    <3> QED
      BY <2>d, <2>b, <3>1 DEF Taking, SameServer
  <2>e. ASSUME NEW d \in Devices, NEW t, Taking(d, k, t), e = d, t <= server'[k].ts PROVE Goal
    <3>1. Pushes(d, k) \/ revision'[d][k] = t
      BY <2>e DEF Taking
    <3>2. CASE revision'[d][k] = t
      BY <1>e, <1>n, <2>e, <3>2
    <3> QED
      BY <2>c, <2>e, <3>1, <3>2
  <2>4. ASSUME NEW d \in Devices, Reading(d, k) PROVE Goal
    BY <1>b, <2>4, <2>d, <2>e DEF Reading
  <2>5. ASSUME NEW d \in Devices, Opening(d, k) PROVE Goal
    <3>1. CASE e # d
      <4>1. Announced(k)' = Announced(k) /\ Coming(e, k)' = Coming(e, k)
            /\ Unhandled(k) \subseteq Unhandled(k)'
        BY <2>5, AnnouncedAs, PushesOwn DEF Opening, SameInbox, SameCalls
      <4> QED
        BY <2>5, <2>b, <3>1, <4>1 DEF Opening, SameServer
    <3>2. CASE e = d /\ server[k].ts # 0
      BY <2>5, <3>2 DEF Opening, Corrected, SameServer
    <3>3. CASE e = d /\ server[k].ts = 0 /\ ~Pushes(d, k)
      <4>1. /\ Unhandled(k)' = Unhandled(k) /\ k \notin behind[e]
            /\ revision'[e][k] \in {disk[e].revision[k], Undefined}
        BY <1>e, <2>5, <3>3 DEF Opening, SameCalls
      <4>2. disk[e].revision[k] > 0 /\ revision'[e][k] = disk[e].revision[k]
        BY <1>a, <1>e, <1>n, <3>3, <4>1 DEF Undefined
      <4> QED
        BY <3>3, <4>1, <4>2 DEF FirstPush, Pushed
    <3> QED
      BY <2>c, <3>1, <3>2, <3>3
  <2>6. ASSUME NEW d \in Devices, Closing(d, k) PROVE Goal
    <3>1. e # d
      BY <1>e, <2>6 DEF Closing
    <3>2. Announced(k)' = Announced(k) /\ Coming(e, k)' = Coming(e, k)
          /\ Unhandled(k)' = Unhandled(k)
      BY <2>6, <3>1, AnnouncedAs DEF Closing, SameInbox, SameCalls
    <3> QED
      BY <2>6, <2>b, <3>1, <3>2 DEF Closing, SameServer
  <2>7. ASSUME NEW d \in Devices, Answering(d, k) PROVE Goal
    <3>1. Announced(k)' = Announced(k) /\ Coming(e, k)' = Coming(e, k)
          /\ Unhandled(k)' = Unhandled(k) /\ SamePage(e, k) /\ server'[k].ts = server[k].ts
      BY <2>7, AnnouncedAs DEF Answering, SameInbox, SameCalls, SameServer
    <3>2. CASE e # d
      BY <2>7, <2>b, <3>1, <3>2 DEF Answering
    <3>3. CASE e = d /\ server[k].ts # 0
      BY <1>e, <2>7, <3>1, <3>3 DEF Answering, Corrected
    <3>4. CASE e = d /\ server[k].ts = 0
      <4>1. IsOpen(e) /\ k \notin behind[e] /\ revision[e][k] > 0
        BY <1>e, <3>1, <3>4 DEF SamePage
      <4> QED
        BY <3>1, <3>4, <4>1 DEF FirstPush, Pushed, SamePage
    <3> QED
      BY <3>2, <3>3, <3>4
  <2>8. ASSUME NEW d \in Devices, NEW t \in Coming(d, k), Hearing(d, k, t) PROVE Goal
    BY <1>b, <2>8, <2>d, <2>e DEF Hearing
  <2>9. ASSUME NEW c \in Unhandled(k), Applying(c, k) PROVE Goal
    <3>1. /\ SamePage(e, k) /\ SameFetch(e, k) /\ server'[k].ts # 0
          /\ Announced(k)' = Announced(k) \cup {server'[k].ts} /\ Coming(e, k)' = Coming(e, k)
          /\ Unhandled(k)' = Unhandled(k) \ {c}
      BY <2>9, AnnouncedAs DEF Applying, SameInbox
    <3>2. CASE c.from = e /\ c.ts = revision[e][k]
      BY <1>e, <3>1
    <3>3. CASE ~(c.from = e /\ c.ts = revision[e][k])
      BY <1>e, <3>1
    <3> QED
      BY <3>2, <3>3
  <2>10. ASSUME NEW c \in Stored(k), Publishing(c, k) PROVE Goal
    <3>1. /\ SamePage(e, k) /\ SameFetch(e, k) /\ server'[k].ts = server[k].ts
          /\ Unhandled(k)' = Unhandled(k) /\ Announced(k) \subseteq Announced(k)' \cup {c.ts}
      BY <2>10, AnnouncedAs DEF Publishing, SameServer
    <3>2. CASE Coming(e, k)' = Coming(e, k) \cup {c.ts}
      BY <2>b, <3>1, <3>2
    <3>3. CASE fetch[e] = "asked"
      <4>1. c.ts \in Announced(k) /\ c.ts >= 1 /\ c.ts \in Nat
        BY AnnouncedAs DEF Numbers
      <4>2. server[k].ts # 0
        BY <1>n, <1>a, <4>1 DEF NotNewer
      <4> QED
        BY <3>1, <3>3, <4>2 DEF Corrected, SameFetch
    <3> QED
      BY <1>e, <2>10, <3>1, <3>2, <3>3 DEF Publishing, SamePage
  <2> QED
    BY <2>1, <2>2, <2>3, <2>4, <2>5, <2>6, <2>7, <2>8, <2>9, <2>10 DEF Step
<1> QED
  BY <1>d, <1>e DEF NotNewer, Pushed

-----------------------------------------------------------------------------
(* While no page misses anything: who pushed a revision is there to learn of  *)
(* what becomes of it.                                                        *)

\* A page that stays open never goes back.
LEMMA RevisionKept ==
    ASSUME NEW k \in Keys, Numbers(k), Step(k),
           NEW f \in Devices, IsOpen(f), IsOpen(f)'
    PROVE  revision'[f][k] >= revision[f][k]
<1> USE DEF SamePage
<1>n. revision[f][k] \in Int /\ Clock(f) \in Nat /\ revision[f][k] <= Clock(f)
  BY DEF Numbers
<1>a. ASSUME revision'[f][k] = revision[f][k] PROVE revision'[f][k] >= revision[f][k]
  BY <1>a, <1>n
<1>b. ASSUME Pushes(f, k) PROVE revision'[f][k] >= revision[f][k]
  BY <1>b, <1>n, PushesOwn
<1>c. ASSUME NEW d \in Devices, NEW t, Taking(d, k, t), t \in Nat
      PROVE  revision'[f][k] >= revision[f][k]
  BY <1>a, <1>b, <1>c DEF Taking
<1>1. CASE Resting(k) \/ Losing(k)
  BY <1>1, <1>a DEF Resting, Losing
<1>2. ASSUME NEW d \in Devices, Editing(d, k) PROVE revision'[f][k] >= revision[f][k]
  BY <1>2, <1>a, <1>b DEF Editing
<1>3. ASSUME NEW d \in Devices, Reading(d, k) PROVE revision'[f][k] >= revision[f][k]
  BY <1>3, <1>c DEF Reading, Numbers
<1>4. ASSUME NEW d \in Devices, Opening(d, k) PROVE revision'[f][k] >= revision[f][k]
  BY <1>4, <1>a DEF Opening
<1>5. ASSUME NEW d \in Devices, Closing(d, k) PROVE revision'[f][k] >= revision[f][k]
  BY <1>5, <1>a DEF Closing
<1>6. ASSUME NEW d \in Devices, Answering(d, k) PROVE revision'[f][k] >= revision[f][k]
  BY <1>6, <1>a DEF Answering
<1>7. ASSUME NEW d \in Devices, NEW t \in Coming(d, k), Hearing(d, k, t)
      PROVE  revision'[f][k] >= revision[f][k]
  BY <1>7, <1>c DEF Hearing, Numbers
<1>8. ASSUME NEW c \in Unhandled(k), Applying(c, k) PROVE revision'[f][k] >= revision[f][k]
  BY <1>8, <1>a DEF Applying
<1>9. ASSUME NEW c \in Stored(k), Publishing(c, k) PROVE revision'[f][k] >= revision[f][k]
  BY <1>9, <1>a DEF Publishing
<1> QED
  BY <1>1, <1>2, <1>3, <1>4, <1>5, <1>6, <1>7, <1>8, <1>9 DEF Step

\* The step opens no page but by Opening, and closes none but by Closing.
LEMMA SenderStays ==
    ASSUME NEW k \in Keys, Numbers(k), Step(k), k \notin unseen',
           NEW c \in Unhandled(k) \cup Stored(k), IsOpen(c.from)
    PROVE  IsOpen(c.from)'
<1> USE DEF SamePage
<1>n. c.from \in Devices
  BY DEF Numbers
<1>1. CASE Resting(k) \/ Losing(k)
  BY <1>1, <1>n DEF Resting, Losing
<1>2. ASSUME NEW d \in Devices, Editing(d, k) PROVE IsOpen(c.from)'
  BY <1>2, <1>n DEF Editing
<1>3. ASSUME NEW d \in Devices, NEW t, Taking(d, k, t) PROVE IsOpen(c.from)'
  BY <1>3, <1>n DEF Taking
<1>4. ASSUME NEW d \in Devices, Opening(d, k) PROVE IsOpen(c.from)'
  BY <1>4, <1>n DEF Opening
<1>5. ASSUME NEW d \in Devices, Closing(d, k) PROVE IsOpen(c.from)'
  BY <1>5, <1>n DEF Closing
<1>6. ASSUME NEW d \in Devices, Answering(d, k) PROVE IsOpen(c.from)'
  BY <1>6, <1>n DEF Answering
<1>8. ASSUME NEW b \in Unhandled(k), Applying(b, k) PROVE IsOpen(c.from)'
  BY <1>8, <1>n DEF Applying
<1>9. ASSUME NEW b \in Stored(k), Publishing(b, k) PROVE IsOpen(c.from)'
  BY <1>9, <1>n DEF Publishing
<1> QED
  BY <1>1, <1>2, <1>3, <1>4, <1>5, <1>6, <1>8, <1>9 DEF Step, Reading, Hearing

\* While no page misses anything, what d is to hear it hears.
LEMMA HeardOrComing ==
    ASSUME NEW k \in Keys, Numbers(k), Step(k), k \notin unseen',
           NEW f \in Devices, IsOpen(f), IsOpen(f)',
           NEW u \in Announced(k) \cup Coming(f, k)
    PROVE  revision'[f][k] >= u \/ u \in Announced(k)' \cup Coming(f, k)'
<1> DEFINE Goal == revision'[f][k] >= u \/ u \in Announced(k)' \cup Coming(f, k)'
<1>n. u \in Nat /\ u <= now /\ Clock(f) \in Nat /\ Clock(f) >= now /\ now \in Nat
  BY AnnouncedAs DEF Numbers
<1>a. ASSUME Announced(k) \subseteq Announced(k)', Coming(f, k)' = Coming(f, k) PROVE Goal
  BY <1>a
<1>1. CASE Resting(k)
  BY <1>1, <1>a, AnnouncedAs DEF Resting, SameCalls, SameInbox
<1>2. ASSUME NEW d \in Devices, Editing(d, k) PROVE Goal
  BY <1>2, <1>a, AnnouncedAs, PushesOwn DEF Editing, SameInbox
<1>3. ASSUME NEW d \in Devices, NEW t, Taking(d, k, t) PROVE Announced(k) \subseteq Announced(k)'
  BY <1>3, AnnouncedAs, PushesOwn DEF Taking, SameCalls
<1>4. ASSUME NEW d \in Devices, Reading(d, k) PROVE Goal
  BY <1>3, <1>4, <1>a DEF Reading, Taking, SameInbox
<1>5. ASSUME NEW d \in Devices, Opening(d, k) PROVE Goal
  BY <1>5, <1>a, AnnouncedAs, PushesOwn DEF Opening, SameInbox, SameCalls
<1>6. ASSUME NEW d \in Devices, Closing(d, k) PROVE Goal
  BY <1>6, <1>a, AnnouncedAs DEF Closing, SameInbox, SameCalls
<1>7. ASSUME NEW d \in Devices, Answering(d, k) PROVE Goal
  BY <1>7, <1>a, AnnouncedAs DEF Answering, SameInbox, SameCalls
<1>8. ASSUME NEW d \in Devices, NEW t \in Coming(d, k), Hearing(d, k, t) PROVE Goal
  <2>1. Announced(k) \subseteq Announced(k)' /\ Taking(d, k, t)
    BY <1>3, <1>8 DEF Hearing
  <2>2. CASE f # d
    BY <1>a, <2>1, <2>2 DEF Taking, SameInbox
  <2>3. CASE f = d /\ u = t
    BY <1>n, <2>1, <2>3, PushesOwn DEF Taking
  <2>4. CASE f = d /\ u # t
    BY <1>8, <2>1, <2>4 DEF Hearing
  <2> QED
    BY <2>2, <2>3, <2>4
<1>9. ASSUME NEW c \in Unhandled(k), Applying(c, k) PROVE Goal
  BY <1>9, <1>a, AnnouncedAs DEF Applying, SameInbox
<1>10. ASSUME NEW c \in Stored(k), Publishing(c, k) PROVE Goal
  <2>1. Announced(k) \subseteq Announced(k)' \cup {c.ts}
    BY <1>10, AnnouncedAs DEF Publishing
  <2>2. Coming(f, k)' = Coming(f, k) \cup {c.ts}
    BY <1>10 DEF Publishing
  <2> QED
    BY <2>1, <2>2
<1> QED
  BY <1>1, <1>2, <1>4, <1>5, <1>6, <1>7, <1>8, <1>9, <1>10 DEF Step, Losing

\* A page that is open, and stays so, still comes to have what it was to have.
LEMMA LearnsKept ==
    ASSUME NEW k \in Keys, Numbers(k), Numbers(k)', Step(k), k \notin unseen',
           NEW f \in Devices, IsOpen(f), IsOpen(f)',
           NEW t \in Int, Learns(f, k, t)
    PROVE  Learns(f, k, t)'
<1>1. CASE revision[f][k] >= t
  BY <1>1, RevisionKept DEF Learns, Numbers
<1>2. ASSUME NEW u \in Announced(k) \cup Coming(f, k), u >= t PROVE Learns(f, k, t)'
  <2>1. u \in Nat
    BY AnnouncedAs DEF Numbers
  <2>2. revision'[f][k] >= u \/ u \in Announced(k)' \cup Coming(f, k)'
    BY HeardOrComing
  <2> QED
    BY <1>2, <2>1, <2>2 DEF Learns, Numbers
<1> QED
  BY <1>1, <1>2 DEF Learns

\* Where the calls and the answers of the next state come from.
LEMMA CallsFrom ==
    ASSUME NEW k \in Keys, Numbers(k), Numbers(k)', Step(k)
    PROVE  /\ \/ /\ server'[k].ts = server[k].ts
                 /\ \A c \in Stored(k)' : c \in Stored(k)
              \/ \E b \in Unhandled(k) :
                    /\ server'[k].ts <= b.ts /\ server'[k].ts \in Announced(k)'
                    /\ \A c \in Stored(k)' :
                          c \in Stored(k) \/ (c.from = b.from /\ c.ts = server'[k].ts)
           /\ \A e \in Devices : answer'[e][k].ts \in {answer[e][k].ts, 0, server[k].ts}
           /\ \A c \in Unhandled(k)' :
                 \/ c \in Unhandled(k)
                 \/ /\ IsOpen(c.from)' /\ c.ts = Clock(c.from) /\ revision'[c.from][k] = c.ts
                    /\ server'[k].ts = server[k].ts
<1> DEFINE Server == \/ /\ server'[k].ts = server[k].ts
                        /\ \A c \in Stored(k)' : c \in Stored(k)
                     \/ \E b \in Unhandled(k) :
                           /\ server'[k].ts <= b.ts /\ server'[k].ts \in Announced(k)'
                           /\ \A c \in Stored(k)' :
                                 c \in Stored(k) \/ (c.from = b.from /\ c.ts = server'[k].ts)
           Answers == \A e \in Devices : answer'[e][k].ts \in {answer[e][k].ts, 0, server[k].ts}
           Sent == \A c \in Unhandled(k)' :
                      \/ c \in Unhandled(k)
                      \/ /\ IsOpen(c.from)' /\ c.ts = Clock(c.from) /\ revision'[c.from][k] = c.ts
                         /\ server'[k].ts = server[k].ts
<1>a. ASSUME SameServer(k), SameCalls(k) PROVE Server /\ Sent
  BY <1>a DEF SameServer, SameCalls
<1>b. ASSUME NEW d \in Devices, SameServer(k), Pushes(d, k), IsOpen(d)' PROVE Server /\ Sent
  BY <1>b, PushesOwn DEF SameServer
<1>c. ASSUME NEW d \in Devices, NEW t, Taking(d, k, t) PROVE Server /\ Sent
  BY <1>a, <1>b, <1>c DEF Taking
<1>1. CASE Resting(k)
  BY <1>1, <1>a DEF Resting
<1>2. CASE Losing(k)
  BY <1>2 DEF Losing, SameServer, SameFetch
<1>3. ASSUME NEW d \in Devices, Editing(d, k) PROVE Server /\ Sent /\ Answers
  BY <1>3, <1>b DEF Editing, SameFetch
<1>4. ASSUME NEW d \in Devices, Reading(d, k) PROVE Server /\ Sent /\ Answers
  <2>1. Answers
    BY <1>4 DEF Reading, Taking, SameFetch
  <2> QED
    BY <1>4, <1>c, <2>1 DEF Reading
<1>5. ASSUME NEW d \in Devices, Opening(d, k) PROVE Server /\ Sent /\ Answers
  <2>1. Answers
    BY <1>5 DEF Opening, SameFetch
  <2> QED
    BY <1>5, <1>a, <1>b, <2>1 DEF Opening
<1>6. ASSUME NEW d \in Devices, Closing(d, k) PROVE Server /\ Sent /\ Answers
  BY <1>6, <1>a DEF Closing, SameFetch
<1>7. ASSUME NEW d \in Devices, Answering(d, k) PROVE Server /\ Sent /\ Answers
  BY <1>7, <1>a DEF Answering, SameFetch
<1>8. ASSUME NEW d \in Devices, NEW t \in Coming(d, k), Hearing(d, k, t)
      PROVE  Server /\ Sent /\ Answers
  <2>1. Answers
    BY <1>8 DEF Hearing, Taking, SameFetch
  <2> QED
    BY <1>8, <1>c, <2>1 DEF Hearing
<1>9. ASSUME NEW c \in Unhandled(k), Applying(c, k) PROVE Server /\ Sent /\ Answers
  <2>1. server'[k].ts \in Announced(k)' /\ server'[k].ts <= c.ts
    <3>1. c.ts \in Nat /\ now \in Nat
      BY DEF Numbers
    <3> QED
      BY <1>9, <3>1, AnnouncedAs DEF Applying
  <2>2. Server
    BY <1>9, <2>1 DEF Applying
  <2> QED
    BY <1>9, <2>2 DEF Applying, SameFetch
<1>10. ASSUME NEW c \in Stored(k), Publishing(c, k) PROVE Server /\ Sent /\ Answers
  BY <1>10 DEF Publishing, SameServer, SameFetch
<1> QED
  BY <1>1, <1>2, <1>3, <1>4, <1>5, <1>6, <1>7, <1>8, <1>9, <1>10, <1>a DEF Step, Resting

\* Whoever has pushed is there to learn of what becomes of it.
LEMMA WatchedKept ==
    ASSUME NEW k \in Keys, Numbers(k), Numbers(k)', Step(k), k \notin unseen', Watched(k)
    PROVE  Watched(k)'
<1>a. ASSUME NEW c \in Unhandled(k) \cup Stored(k)
      PROVE  c.from \in Devices /\ c.ts \in Nat /\ IsOpen(c.from) /\ IsOpen(c.from)'
             /\ revision[c.from][k] >= c.ts /\ revision'[c.from][k] >= c.ts
  <2>1. c.from \in Devices /\ c.ts \in Nat /\ IsOpen(c.from) /\ revision[c.from][k] >= c.ts
    BY DEF Watched, Numbers
  <2>2. IsOpen(c.from)'
    BY <2>1, SenderStays
  <2>3. revision'[c.from][k] >= revision[c.from][k]
    BY <2>1, <2>2, RevisionKept
  <2>4. revision'[c.from][k] \in Int /\ revision[c.from][k] \in Int
    BY <2>1 DEF Numbers
  <2> QED
    BY <2>1, <2>2, <2>3, <2>4
<1>1. ASSUME NEW c \in Unhandled(k)' \cup Stored(k)'
      PROVE  IsOpen(c.from)' /\ revision'[c.from][k] >= c.ts
  <2>1. CASE c \in Unhandled(k) \cup Stored(k)
    BY <1>a, <2>1
  <2>2. CASE c \in Unhandled(k)' /\ c \notin Unhandled(k)
    <3>1. IsOpen(c.from)' /\ revision'[c.from][k] = c.ts /\ c.ts \in Nat
      BY <2>2, CallsFrom DEF Numbers
    <3> QED
      BY <3>1
  <2>3. CASE c \in Stored(k)' /\ c \notin Stored(k)
    <3>1. PICK b \in Unhandled(k) : c.ts <= b.ts /\ c.from = b.from
      BY <2>3, CallsFrom
    <3>2. c.ts \in Nat /\ revision'[c.from][k] \in Int
      BY <2>3 DEF Numbers
    <3> QED
      BY <1>a, <3>1, <3>2
  <2> QED
    BY <2>1, <2>2, <2>3
<1>2. ASSUME NEW c \in Unhandled(k)'
      PROVE  /\ server'[k].ts > c.ts => Learns(c.from, k, server[k].ts)'
             /\ \A d \in Devices :
                   answer'[d][k].ts > c.ts => Learns(c.from, k, answer[d][k].ts)'
  <2>n. /\ server[k].ts \in Nat /\ server[k].ts <= now /\ now \in Nat
        /\ c.ts \in Nat /\ c.from \in Devices /\ c.ts >= 1
        /\ Clock(c.from) \in Nat /\ Clock(c.from) >= now
        /\ \A d \in Devices : answer[d][k].ts \in Nat /\ answer[d][k].ts <= now
    BY DEF Numbers
  <2>1. CASE c \in Unhandled(k)
    <3>1. ASSUME NEW t \in Nat,
                 \/ revision[c.from][k] >= t
                 \/ \E u \in Announced(k) \cup Coming(c.from, k) : u >= t
          PROVE  \/ revision'[c.from][k] >= t
                 \/ \E u \in Announced(k)' \cup Coming(c.from, k)' : u >= t
      <4>1. Learns(c.from, k, t)
        BY <3>1 DEF Learns
      <4>2. Learns(c.from, k, t)'
        BY <1>a, <2>1, <4>1, LearnsKept
      <4> QED
        BY <4>2 DEF Learns
    <3>2. \A t \in Announced(k)' : t \in Nat
      BY AnnouncedAs DEF Numbers, Announced
    <3>3. ASSUME server'[k].ts > c.ts PROVE Learns(c.from, k, server[k].ts)'
      <4>1. CASE server'[k].ts = server[k].ts
        BY <2>1, <2>n, <3>1, <3>3, <4>1 DEF Watched, Learns
      <4>2. CASE server'[k].ts \in Announced(k)'
        BY <3>2, <4>2 DEF Learns
      <4> QED
        BY <4>1, <4>2, CallsFrom
    <3>4. ASSUME NEW d \in Devices, answer'[d][k].ts > c.ts
          PROVE  Learns(c.from, k, answer[d][k].ts)'
      <4>1. answer'[d][k].ts = answer[d][k].ts \/ answer'[d][k].ts = server[k].ts
        BY <2>n, <3>4, CallsFrom
      <4>2. answer'[d][k].ts \in Nat
        BY <2>n, <4>1
      <4>3. \/ revision[c.from][k] >= answer'[d][k].ts
            \/ \E u \in Announced(k) \cup Coming(c.from, k) : u >= answer'[d][k].ts
        BY <2>1, <3>4, <4>1 DEF Watched, Learns
      <4> QED
        BY <3>1, <4>2, <4>3 DEF Learns
    <3> QED
      BY <3>3, <3>4
  <2>2. CASE c \notin Unhandled(k)
    <3>1. c.ts = Clock(c.from) /\ server'[k].ts = server[k].ts
      BY <2>2, CallsFrom
    <3>2. \A d \in Devices : answer'[d][k].ts \in {answer[d][k].ts, 0, server[k].ts}
      BY CallsFrom
    <3> QED
      BY <2>n, <3>1, <3>2
  <2> QED
    BY <2>1, <2>2
<1> QED
  BY <1>1, <1>2 DEF Watched

-----------------------------------------------------------------------------
(* While no page misses anything: a revision that was replaced by an older    *)
(* one comes back.                                                            *)

\* Only an open page has events on their way to it.
Listens(k) == \A d \in Devices : Coming(d, k) # {} => IsOpen(d)

\* What is on its way to a page that is open.
LEMMA InboxKept ==
    ASSUME NEW k \in Keys, Numbers(k), Step(k), k \notin unseen',
           NEW d \in Devices, Coming(d, k) # {}, IsOpen(d)
    PROVE  /\ IsOpen(d)'
           /\ \/ /\ Coming(d, k) \subseteq Coming(d, k)'
                 /\ \A t, u : Before(d, k, t, u) => Before(d, k, t, u)'
              \/ \E t \in Coming(d, k) : Hearing(d, k, t)
<1> DEFINE Kept == /\ IsOpen(d)'
                   /\ Coming(d, k) \subseteq Coming(d, k)'
                   /\ \A t, u : Before(d, k, t, u) => Before(d, k, t, u)'
<1>1. CASE Resting(k)
  BY <1>1 DEF Resting, SamePage, SameInbox
<1>2. ASSUME NEW e \in Devices, Editing(e, k) PROVE Kept
  BY <1>2 DEF Editing, SamePage, SameInbox
<1>3. ASSUME NEW e \in Devices, Reading(e, k) PROVE Kept
  BY <1>3 DEF Reading, Taking, SamePage, SameInbox
<1>4. ASSUME NEW e \in Devices, Opening(e, k) PROVE Kept
  BY <1>4 DEF Opening, SamePage, SameInbox
<1>5. ASSUME NEW e \in Devices, Closing(e, k) PROVE Kept
  BY <1>5 DEF Closing, SamePage, SameInbox
<1>6. ASSUME NEW e \in Devices, Answering(e, k) PROVE Kept
  BY <1>6 DEF Answering, SamePage, SameInbox
<1>7. ASSUME NEW e \in Devices, NEW t \in Coming(e, k), Hearing(e, k, t)
      PROVE  IsOpen(d)' /\ (Kept \/ e = d)
  BY <1>7 DEF Hearing, Taking, SamePage, SameInbox
<1>8. ASSUME NEW c \in Unhandled(k), Applying(c, k) PROVE Kept
  BY <1>8 DEF Applying, SamePage, SameInbox
<1>9. ASSUME NEW c \in Stored(k), Publishing(c, k) PROVE Kept
  BY <1>9 DEF Publishing, SamePage, SameInbox
<1> QED
  BY <1>1, <1>2, <1>3, <1>4, <1>5, <1>6, <1>7, <1>8, <1>9 DEF Step, Losing

\* An event has been announced.
LEMMA ComingFrom ==
    ASSUME NEW k \in Keys, Numbers(k), Step(k), NEW d \in Devices
    PROVE  Coming(d, k)' \subseteq Coming(d, k) \cup Announced(k)
<1> USE DEF SameInbox
<1>1. CASE Resting(k) \/ Losing(k)
  BY <1>1 DEF Resting, Losing
<1>2. ASSUME NEW e \in Devices, Editing(e, k) PROVE Coming(d, k)' \subseteq Coming(d, k)
  BY <1>2 DEF Editing
<1>3. ASSUME NEW e \in Devices, Reading(e, k) PROVE Coming(d, k)' \subseteq Coming(d, k)
  BY <1>3 DEF Reading, Taking
<1>4. ASSUME NEW e \in Devices, Opening(e, k) PROVE Coming(d, k)' \subseteq Coming(d, k)
  BY <1>4 DEF Opening
<1>5. ASSUME NEW e \in Devices, Closing(e, k) PROVE Coming(d, k)' \subseteq Coming(d, k)
  BY <1>5 DEF Closing
<1>6. ASSUME NEW e \in Devices, Answering(e, k) PROVE Coming(d, k)' \subseteq Coming(d, k)
  BY <1>6 DEF Answering
<1>7. ASSUME NEW e \in Devices, NEW t \in Coming(e, k), Hearing(e, k, t)
      PROVE  Coming(d, k)' \subseteq Coming(d, k)
  BY <1>7 DEF Hearing, Taking
<1>8. ASSUME NEW c \in Unhandled(k), Applying(c, k) PROVE Coming(d, k)' \subseteq Coming(d, k)
  BY <1>8 DEF Applying
<1>9. ASSUME NEW c \in Stored(k), Publishing(c, k)
      PROVE  Coming(d, k)' \subseteq Coming(d, k) \cup Announced(k)
  BY <1>9, AnnouncedAs DEF Publishing
<1> QED
  BY <1>1, <1>2, <1>3, <1>4, <1>5, <1>6, <1>7, <1>8, <1>9 DEF Step

\* A push that is not handled stays, unless a page misses something.
LEMMA UnhandledKept ==
    ASSUME NEW k \in Keys, Step(k), k \notin unseen', ~\E c \in Unhandled(k) : Applying(c, k)
    PROVE  Unhandled(k) \subseteq Unhandled(k)' /\ SameServer(k)
<1> USE DEF SameCalls
<1>1. CASE Resting(k)
  BY <1>1 DEF Resting
<1>2. ASSUME NEW e \in Devices, Editing(e, k)
      PROVE  Unhandled(k) \subseteq Unhandled(k)' /\ SameServer(k)
  BY <1>2, PushesOwn DEF Editing
<1>3. ASSUME NEW e \in Devices, NEW t, Taking(e, k, t)
      PROVE  Unhandled(k) \subseteq Unhandled(k)' /\ SameServer(k)
  BY <1>3, PushesOwn DEF Taking
<1>4. ASSUME NEW e \in Devices, Opening(e, k)
      PROVE  Unhandled(k) \subseteq Unhandled(k)' /\ SameServer(k)
  BY <1>4, PushesOwn DEF Opening
<1>5. ASSUME NEW e \in Devices, Closing(e, k)
      PROVE  Unhandled(k) \subseteq Unhandled(k)' /\ SameServer(k)
  BY <1>5 DEF Closing
<1>6. ASSUME NEW e \in Devices, Answering(e, k)
      PROVE  Unhandled(k) \subseteq Unhandled(k)' /\ SameServer(k)
  BY <1>6 DEF Answering
<1>7. ASSUME NEW c \in Stored(k), Publishing(c, k)
      PROVE  Unhandled(k) \subseteq Unhandled(k)' /\ SameServer(k)
  BY <1>7 DEF Publishing
<1> QED
  BY <1>1, <1>2, <1>3, <1>4, <1>5, <1>6, <1>7 DEF Step, Losing, Reading, Hearing

\* What will push again does, or still will, unless the server handles a push.
LEMMA MendedKept ==
    ASSUME NEW k \in Keys, Numbers(k), Numbers(k)', Step(k), k \notin unseen',
           ~\E c \in Unhandled(k) : Applying(c, k), Mended(k)
    PROVE  Mended(k)'
<1>a. Unhandled(k) \subseteq Unhandled(k)' /\ server'[k].ts = server[k].ts
  BY UnhandledKept DEF SameServer
<1>1. CASE Unhandled(k) # {}
  BY <1>1, <1>a DEF Mended
<1>2. ASSUME NEW d \in Devices, IsOpen(d),
             \/ server[k].ts \in Coming(d, k) /\ revision[d][k] > server[k].ts
             \/ \E t \in Coming(d, k) : t > server[k].ts /\ Before(d, k, t, server[k].ts)
      PROVE  Mended(k)'
  <2>1. Coming(d, k) # {}
    BY <1>2
  <2>2. IsOpen(d)'
    BY <1>2, <2>1, InboxKept
  <2>3. revision'[d][k] >= revision[d][k] /\ revision'[d][k] \in Int /\ revision[d][k] \in Int
    BY <1>2, <2>2, RevisionKept DEF Numbers
  <2>4. server[k].ts \in Nat
    BY DEF Numbers
  <2>5. CASE /\ Coming(d, k) \subseteq Coming(d, k)'
             /\ \A t, u : Before(d, k, t, u) => Before(d, k, t, u)'
    BY <1>2, <1>a, <2>2, <2>3, <2>4, <2>5 DEF Mended
  <2>6. ASSUME NEW t \in Coming(d, k), Hearing(d, k, t) PROVE Mended(k)'
    <3>1. CASE Pushes(d, k)
      BY <3>1, PushesOwn DEF Mended
    <3>2. CASE ~Pushes(d, k)
      <4>1. revision'[d][k] = t /\ revision[d][k] <= t /\ t \in Nat
        BY <2>6, <3>2 DEF Hearing, Taking, Numbers
      <4>2. Coming(d, k) = Coming(d, k)' \cup {t}
        BY <2>6 DEF Hearing
      <4>3. CASE server[k].ts \in Coming(d, k) /\ revision[d][k] > server[k].ts
        <5>1. t # server[k].ts
          BY <2>3, <2>4, <4>1, <4>3
        <5> QED
          BY <1>a, <2>2, <2>3, <2>4, <4>2, <4>3, <5>1 DEF Mended
      <4>4. ASSUME NEW v \in Coming(d, k), v > server[k].ts, Before(d, k, v, server[k].ts)
            PROVE  Mended(k)'
        <5>1. \/ Before(d, k, v, server[k].ts)' /\ v \in Coming(d, k)'
              \/ v = t /\ server[k].ts \in Coming(d, k)'
          <6> DEFINE s == server[k].ts
          <6>1. Before(d, k, v, s)
            BY <4>4
          <6>2. \A u, w : Before(d, k, u, w) =>
                   \/ Before(d, k, u, w)' /\ u \in Coming(d, k)'
                   \/ u = t /\ w \in Coming(d, k)'
            BY <2>6 DEF Hearing
          <6> QED
            BY <1>a, <6>1, <6>2 DEF Before
        <5>2. CASE Before(d, k, v, server[k].ts)' /\ v \in Coming(d, k)'
          BY <1>a, <2>2, <4>4, <5>2 DEF Mended
        <5>3. CASE v = t /\ server[k].ts \in Coming(d, k)'
          BY <1>a, <2>2, <4>1, <4>4, <5>3 DEF Mended
        <5> QED
          BY <5>1, <5>2, <5>3
      <4> QED
        BY <1>2, <4>3, <4>4
    <3> QED
      BY <3>1, <3>2
  <2> QED
    BY <1>2, <2>1, <2>5, <2>6, InboxKept
<1> QED
  BY <1>1, <1>2 DEF Mended

\* d has, or is to hear of, a later revision than the server.
LeadsTo(d, k) ==
    /\ IsOpen(d)
    /\ \/ revision[d][k] > server[k].ts
       \/ \E t \in Announced(k) \cup Coming(d, k) : t > server[k].ts

\* Once the server's revision is published, somebody corrects it.
LEMMA PublishMends ==
    ASSUME NEW k \in Keys, Numbers(k), Numbers(k)', Step(k), k \notin unseen', Watched(k),
           NEW c \in Stored(k), Publishing(c, k), c.ts = server[k].ts,
           NEW e \in Devices, LeadsTo(e, k)
    PROVE  Mended(k)'
<1>n. server[k].ts \in Nat /\ server'[k].ts = server[k].ts
  BY DEF Numbers, Publishing, SameServer
<1>1. ASSUME NEW d \in Devices, IsOpen(d)
      PROVE  /\ IsOpen(d)' /\ revision'[d][k] = revision[d][k]
             /\ Coming(d, k)' = Coming(d, k) \cup {server[k].ts}
             /\ \A t \in Coming(d, k) : Before(d, k, t, c.ts)'
  BY <1>1 DEF Publishing, SamePage
<1>2. ASSUME NEW d \in Devices, IsOpen(d), revision[d][k] > server[k].ts PROVE Mended(k)'
  BY <1>n, <1>1, <1>2 DEF Mended
<1>3. ASSUME NEW t \in Coming(e, k), t > server[k].ts PROVE Mended(k)'
  <2>1. IsOpen(e)' /\ t \in Coming(e, k)' /\ Before(e, k, t, c.ts)'
    BY <1>1 DEF LeadsTo
  <2>2. Before(e, k, t, server[k].ts)'
    BY <1>n, <2>1 DEF Before
  <2> QED
    BY <1>n, <1>3, <2>1, <2>2 DEF Mended
<1>4. ASSUME NEW t \in Announced(k), t > server[k].ts PROVE Mended(k)'
  <2>1. PICK b \in Stored(k) : b.ts = t
    BY AnnouncedAs
  <2>2. b.from \in Devices /\ IsOpen(b.from) /\ revision[b.from][k] >= t
    BY <2>1 DEF Watched, Numbers
  <2>3. revision[b.from][k] \in Int /\ t \in Nat
    BY <2>1, <2>2 DEF Numbers
  <2> QED
    BY <1>n, <1>2, <1>4, <2>2, <2>3
<1> QED
  BY <1>2, <1>3, <1>4 DEF LeadsTo

\* What comes back in one state does so in the next.
LEMMA BackKept ==
    ASSUME NEW k \in Keys, Numbers(k), Numbers(k)', Step(k), k \notin unseen', Watched(k),
           ~\E c \in Unhandled(k) : Applying(c, k),
           Mended(k) \/ server[k].ts \in Announced(k),
           NEW e \in Devices, LeadsTo(e, k)
    PROVE  Mended(k)' \/ server'[k].ts \in Announced(k)'
<1>a. server'[k].ts = server[k].ts
  BY UnhandledKept DEF SameServer
<1>1. CASE Mended(k)
  BY <1>1, MendedKept
<1>2. ASSUME NEW c \in Stored(k), c.ts = server[k].ts, Publishing(c, k) PROVE Mended(k)'
  BY <1>2, PublishMends
<1>3. CASE server[k].ts \in Announced(k) /\ server[k].ts \notin Announced(k)'
  <2>1. Announced(k) \subseteq Announced(k)'
        \/ \E c \in Stored(k) : Publishing(c, k) /\ server[k].ts = c.ts
    <3>1. CASE Resting(k)
      BY <3>1, AnnouncedAs DEF Resting, SameCalls
    <3>2. ASSUME NEW d \in Devices, Editing(d, k) PROVE Announced(k) \subseteq Announced(k)'
      BY <3>2, AnnouncedAs, PushesOwn DEF Editing
    <3>3. ASSUME NEW d \in Devices, NEW t, Taking(d, k, t)
          PROVE  Announced(k) \subseteq Announced(k)'
      BY <3>3, AnnouncedAs, PushesOwn DEF Taking, SameCalls
    <3>4. ASSUME NEW d \in Devices, Opening(d, k) PROVE Announced(k) \subseteq Announced(k)'
      BY <3>4, AnnouncedAs, PushesOwn DEF Opening, SameCalls
    <3>5. ASSUME NEW d \in Devices, Closing(d, k) PROVE Announced(k) \subseteq Announced(k)'
      BY <3>5, AnnouncedAs DEF Closing, SameCalls
    <3>6. ASSUME NEW d \in Devices, Answering(d, k) PROVE Announced(k) \subseteq Announced(k)'
      BY <3>6, AnnouncedAs DEF Answering, SameCalls
    <3>7. ASSUME NEW c \in Stored(k), Publishing(c, k)
          PROVE  Announced(k) \subseteq Announced(k)' \cup {c.ts}
      BY <3>7, AnnouncedAs DEF Publishing
    <3> QED
      BY <1>3, <3>1, <3>2, <3>3, <3>4, <3>5, <3>6, <3>7 DEF Step, Losing, Reading, Hearing
  <2> QED
    BY <1>2, <1>3, <2>1
<1> QED
  BY <1>a, <1>1, <1>3

\* The server handles a push: the revision that it then has is about to be published.
LEMMA ComesBackApplied ==
    ASSUME NEW k \in Keys, Numbers(k), Numbers(k)', Step(k), k \notin unseen', Watched(k),
           NEW c \in Unhandled(k), Applying(c, k)
    PROVE  ComesBack(k)'
<1>1. server'[k].ts \in Announced(k)'
  BY AnnouncedAs DEF Applying
<1>2. PICK p \in Stored(k)' : p.from = c.from /\ p.ts = server'[k].ts
  BY DEF Applying
<1>3. c.from \in Devices /\ IsOpen(c.from) /\ IsOpen(c.from)'
  BY SenderStays DEF Watched, Numbers
<1>4. ASSUME NEW d \in Devices, answer'[d][k].ts > server'[k].ts
      PROVE  Learns(c.from, k, answer[d][k].ts)'
  <2>1. answer'[d][k].ts = answer[d][k].ts /\ answer[d][k].ts \in Nat /\ answer[d][k].ts <= now
        /\ now \in Nat
    BY DEF Applying, SameFetch, Numbers
  <2>2. answer[d][k].ts > c.ts
    BY <1>4, <2>1 DEF Applying
  <2> DEFINE t == answer[d][k].ts
  <2>3. Learns(c.from, k, t)
    BY <2>2 DEF Watched
  <2>4. ASSUME NEW u \in Int, Learns(c.from, k, u) PROVE Learns(c.from, k, u)'
    BY <1>3, <2>4, LearnsKept
  <2>5. \/ revision'[c.from][k] >= t
        \/ \E u \in Announced(k)' \cup Coming(c.from, k)' : u >= t
    <3> HIDE DEF t
    <3>1. \A u \in Int : \/ revision[c.from][k] >= u
                         \/ \E v \in Announced(k) \cup Coming(c.from, k) : v >= u
                      => \/ revision'[c.from][k] >= u
                         \/ \E v \in Announced(k)' \cup Coming(c.from, k)' : v >= u
      BY <2>4 DEF Learns
    <3>2. t \in Int
      BY <2>1 DEF t
    <3> QED
      BY <2>3, <3>1, <3>2 DEF Learns
  <2> QED
    BY <2>1, <2>5 DEF Learns
<1> QED
  BY <1>1, <1>2, <1>4 DEF ComesBack, Returns

\* A page that has, after the step, a later revision than the server that nothing under
\* way to it will correct: something was to come back before it.
LEMMA NewerLeads ==
    ASSUME NEW k \in Keys, Numbers(k), Numbers(k)', Step(k), k \notin unseen',
           Listens(k), FirstPush(k), Watched(k), ComesBack(k),
           ~\E c \in Unhandled(k) : Applying(c, k),
           NEW e \in Devices, IsOpen(e)', k \notin behind'[e],
           revision'[e][k] > server'[k].ts, ~Corrected(e, k)'
    PROVE  Mended(k)' \/ server'[k].ts \in Announced(k)'
<1> DEFINE Goal == Mended(k)' \/ server'[k].ts \in Announced(k)'
<1>a. Unhandled(k) \subseteq Unhandled(k)' /\ SameServer(k)
  BY UnhandledKept
<1>n. /\ server'[k].ts = server[k].ts /\ server[k].ts \in Nat
      /\ revision'[e][k] \in Int /\ revision[e][k] \in Int /\ answer[e][k].ts \in Nat
  BY <1>a DEF SameServer, Numbers
<1>b. ASSUME IsOpen(e), k \notin behind[e], revision[e][k] > server[k].ts, ~Corrected(e, k)
      PROVE  Goal
  <2>1. Mended(k) \/ server[k].ts \in Announced(k)
    BY <1>b DEF ComesBack, Returns
  <2>2. LeadsTo(e, k)
    BY <1>b DEF LeadsTo
  <2> QED
    BY <2>1, <2>2, BackKept
<1>c. ASSUME SamePage(e, k), Corrected(e, k) => Corrected(e, k)' PROVE Goal
  BY <1>b, <1>c, <1>n DEF SamePage
<1>d. ASSUME SamePage(e, k), SameFetch(e, k) PROVE Goal
  <2>1. Corrected(e, k) => Corrected(e, k)'
    BY <1>d, <1>n DEF Corrected, SamePage, SameFetch
  <2> QED
    BY <1>c, <1>d, <2>1
<1>e. ASSUME Pushes(e, k) PROVE Goal
  BY <1>e, PushesOwn DEF Mended
<1>1. CASE Resting(k)
  <2>1. /\ SamePage(e, k) /\ answer'[e][k].ts = answer[e][k].ts
        /\ fetch'[e] = fetch[e] \/ (fetch[e] = "answered" /\ answer[e][k].ts = 0)
    BY <1>1 DEF Resting
  <2>2. Corrected(e, k) => Corrected(e, k)'
    BY <1>n, <2>1 DEF Corrected, SamePage
  <2> QED
    BY <1>c, <2>1, <2>2
<1>2. ASSUME NEW d \in Devices, Editing(d, k) PROVE Goal
  BY <1>2, <1>d, <1>e DEF Editing
<1>3. ASSUME NEW d \in Devices, Reading(d, k) PROVE Goal
  <2>1. CASE e # d
    BY <1>3, <1>d, <2>1 DEF Reading, Taking
  <2>2. CASE e = d /\ ~Pushes(d, k)
    <3>1. revision'[e][k] = answer[e][k].ts /\ Stored(k)' = Stored(k)
      BY <1>3, <2>2 DEF Reading, Taking, SameCalls
    <3>2. \/ Mended(k)
          \/ \E c \in Stored(k) : c.ts = server[k].ts
      BY <1>n, <3>1 DEF ComesBack, Returns
    <3>3. CASE Mended(k)
      BY <3>3, MendedKept
    <3>4. CASE \E c \in Stored(k) : c.ts = server[k].ts
      BY <1>n, <3>1, <3>4, AnnouncedAs
    <3> QED
      BY <3>2, <3>3, <3>4
  <2> QED
    BY <1>e, <2>1, <2>2
<1>4. ASSUME NEW d \in Devices, Opening(d, k) PROVE Goal
  <2>1. CASE e # d
    BY <1>4, <1>d, <2>1 DEF Opening
  <2>2. CASE e = d /\ server[k].ts # 0
    BY <1>4, <1>n, <2>2 DEF Opening, Corrected
  <2>3. CASE e = d /\ server[k].ts = 0 /\ ~Pushes(d, k)
    <3>1. k \notin behind[e] /\ revision'[e][k] \in {disk[e].revision[k], Undefined}
      BY <1>4, <2>3 DEF Opening
    <3>2. disk[e].revision[k] > 0
      BY <1>n, <2>3, <3>1 DEF Undefined
    <3>3. Unhandled(k) # {}
      BY <2>3, <3>1, <3>2 DEF FirstPush, Pushed
    <3> QED
      BY <1>a, <3>3 DEF Mended
  <2> QED
    BY <1>e, <2>1, <2>2, <2>3
<1>5. ASSUME NEW d \in Devices, Closing(d, k) PROVE Goal
  BY <1>5, <1>d DEF Closing
<1>6. ASSUME NEW d \in Devices, Answering(d, k) PROVE Goal
  <2>1. SamePage(e, k)
    BY <1>6 DEF Answering
  <2>2. CASE e # d
    BY <1>6, <1>d, <2>1, <2>2 DEF Answering
  <2>3. CASE e = d
    <3>1. Corrected(e, k) => Corrected(e, k)'
      BY <1>6, <1>n, <2>1, <2>3 DEF Answering, Corrected, SamePage
    <3> QED
      BY <1>c, <2>1, <3>1
  <2> QED
    BY <2>2, <2>3
<1>7. ASSUME NEW d \in Devices, NEW t \in Coming(d, k), Hearing(d, k, t) PROVE Goal
  <2>1. CASE e # d
    BY <1>7, <1>d, <2>1 DEF Hearing, Taking
  <2>2. CASE e = d /\ ~Pushes(d, k)
    <3>1. revision'[e][k] = t /\ IsOpen(e)
      BY <1>7, <2>2 DEF Hearing, Taking
    <3>2. t > server[k].ts
      BY <1>n, <3>1
    <3>3. Mended(k) \/ server[k].ts \in Announced(k)
      BY <2>2, <3>2 DEF ComesBack, Returns
    <3>4. LeadsTo(e, k)
      BY <2>2, <3>1, <3>2 DEF LeadsTo
    <3> QED
      BY <3>3, <3>4, BackKept
  <2> QED
    BY <1>e, <2>1, <2>2
<1>8. ASSUME NEW c \in Stored(k), Publishing(c, k) PROVE Goal
  BY <1>8, <1>d DEF Publishing
<1> QED
  BY <1>1, <1>2, <1>3, <1>4, <1>5, <1>6, <1>7, <1>8 DEF Step, Losing

\* A revision that was replaced by an older one comes back.
LEMMA ComesBackKept ==
    ASSUME NEW k \in Keys, Numbers(k), Numbers(k)', Step(k), k \notin unseen',
           Listens(k), FirstPush(k), Watched(k), ComesBack(k)
    PROVE  ComesBack(k)'
<1>1. CASE \E c \in Unhandled(k) : Applying(c, k)
  BY <1>1, ComesBackApplied
<1>2. CASE ~\E c \in Unhandled(k) : Applying(c, k)
  <2>n. server'[k].ts = server[k].ts /\ server[k].ts \in Nat
    BY <1>2, UnhandledKept DEF SameServer, Numbers
  <2>a. ASSUME NEW t \in Announced(k), t > server[k].ts
        PROVE  Mended(k)' \/ server'[k].ts \in Announced(k)'
    <3>1. PICK b \in Stored(k) : b.ts = t
      BY AnnouncedAs
    <3>2. b.from \in Devices /\ LeadsTo(b.from, k)
      BY <2>a, <3>1 DEF Watched, Numbers, LeadsTo
    <3>3. Mended(k) \/ server[k].ts \in Announced(k)
      BY <2>a DEF ComesBack, Returns
    <3> QED
      BY <1>2, <3>2, <3>3, BackKept
  <2>1. \A t \in Announced(k)' : t \in Announced(k)
    <3>1. \A c \in Stored(k)' : c \in Stored(k)
      <4>1. ASSUME NEW d \in Devices, NEW t, Taking(d, k, t) PROVE Stored(k)' = Stored(k)
        BY <4>1, PushesOwn DEF Taking, SameCalls
      <4>2. ASSUME NEW d \in Devices, Opening(d, k) \/ Editing(d, k) PROVE Stored(k)' = Stored(k)
        BY <4>2, PushesOwn DEF Opening, Editing, SameCalls
      <4> QED
        BY <1>2, <4>1, <4>2
           DEF Step, Resting, Losing, Reading, Hearing, Closing, Answering, Publishing, SameCalls
    <3> QED
      BY <3>1, AnnouncedAs
  <2>2. ASSUME NEW d \in Devices, NEW t \in Coming(d, k)', t > server'[k].ts
        PROVE  Mended(k)' \/ server'[k].ts \in Announced(k)'
    <3>1. CASE t \in Announced(k)
      BY <2>a, <2>n, <2>2, <3>1
    <3>2. CASE t \in Coming(d, k)
      <4>1. LeadsTo(d, k)
        BY <2>n, <2>2, <3>2 DEF LeadsTo, Listens
      <4>2. Mended(k) \/ server[k].ts \in Announced(k)
        BY <2>n, <2>2, <3>2 DEF ComesBack, Returns
      <4> QED
        BY <1>2, <4>1, <4>2, BackKept
    <3> QED
      BY <3>1, <3>2, ComingFrom
  <2>3. ASSUME NEW d \in Devices, answer'[d][k].ts > server'[k].ts
        PROVE  \/ Mended(k)'
               \/ \E c \in Stored(k)' :
                     c.ts = server'[k].ts /\ Learns(c.from, k, answer[d][k].ts)'
    <3>1. answer'[d][k].ts = answer[d][k].ts /\ answer[d][k].ts \in Nat
      BY <2>n, <2>3, CallsFrom DEF Numbers
    <3>2. CASE Mended(k)
      BY <1>2, <3>2, MendedKept
    <3>3. ASSUME NEW c \in Stored(k), c.ts = server[k].ts, Learns(c.from, k, answer[d][k].ts)
          PROVE  \/ Mended(k)'
                 \/ c \in Stored(k)' /\ Learns(c.from, k, answer[d][k].ts)'
      <4>1. c.from \in Devices /\ IsOpen(c.from) /\ IsOpen(c.from)'
        BY SenderStays DEF Watched, Numbers
      <4>2. CASE c \in Stored(k)'
        <5>1. ASSUME NEW u \in Int, Learns(c.from, k, u) PROVE Learns(c.from, k, u)'
          BY <4>1, <5>1, LearnsKept
        <5>2. \A u \in Int : \/ revision[c.from][k] >= u
                             \/ \E v \in Announced(k) \cup Coming(c.from, k) : v >= u
                          => \/ revision'[c.from][k] >= u
                             \/ \E v \in Announced(k)' \cup Coming(c.from, k)' : v >= u
          BY <5>1 DEF Learns
        <5>3. \/ revision[c.from][k] >= answer[d][k].ts
              \/ \E v \in Announced(k) \cup Coming(c.from, k) : v >= answer[d][k].ts
          BY <3>3 DEF Learns
        <5>4. answer[d][k].ts \in Int
          BY <3>1
        <5>5. \/ revision'[c.from][k] >= answer[d][k].ts
              \/ \E v \in Announced(k)' \cup Coming(c.from, k)' : v >= answer[d][k].ts
          BY <5>2, <5>3, <5>4
        <5> QED
          BY <3>1, <4>2, <5>5 DEF Learns
      <4>3. CASE c \notin Stored(k)'
        <5>1. Publishing(c, k)
          <6>1. ASSUME NEW e \in Devices, NEW t, Taking(e, k, t) PROVE Stored(k)' = Stored(k)
            BY <6>1, PushesOwn DEF Taking, SameCalls
          <6>2. ASSUME NEW e \in Devices, Opening(e, k) \/ Editing(e, k)
                PROVE  Stored(k)' = Stored(k)
            BY <6>2, PushesOwn DEF Opening, Editing, SameCalls
          <6>3. ASSUME NEW b \in Stored(k), Publishing(b, k) PROVE b = c
            BY <4>3, <6>3 DEF Publishing
          <6> QED
            BY <1>2, <4>3, <6>1, <6>2, <6>3
               DEF Step, Resting, Losing, Reading, Hearing, Closing, Answering, SameCalls
        <5>2. LeadsTo(c.from, k)
          <6>1. revision[c.from][k] \in Int /\ answer[d][k].ts > server[k].ts
            BY <2>n, <2>3, <3>1, <4>1 DEF Numbers
          <6>2. \A v \in Announced(k) \cup Coming(c.from, k) : v \in Int
            BY <4>1, AnnouncedAs DEF Numbers
          <6> QED
            BY <2>n, <3>1, <3>3, <4>1, <6>1, <6>2 DEF LeadsTo, Learns
        <5> QED
          BY <3>3, <4>1, <5>1, <5>2, PublishMends
      <4> QED
        BY <4>2, <4>3
    <3>4. \/ Mended(k)
          \/ \E c \in Stored(k) : c.ts = server[k].ts /\ Learns(c.from, k, answer[d][k].ts)
      BY <2>n, <2>3, <3>1 DEF ComesBack, Returns
    <3> QED
      BY <2>n, <3>2, <3>3, <3>4
  <2>4. ASSUME NEW d \in Devices, IsOpen(d)', k \notin behind'[d],
               revision'[d][k] > server'[k].ts, ~Corrected(d, k)'
        PROVE  Mended(k)' \/ server'[k].ts \in Announced(k)'
    BY <1>2, <2>4, NewerLeads
  <2>5. ASSUME NEW t \in Announced(k)', t > server'[k].ts
        PROVE  Mended(k)' \/ server'[k].ts \in Announced(k)'
    BY <2>a, <2>n, <2>1, <2>5
  <2> QED
    BY <2>2, <2>3, <2>4, <2>5 DEF ComesBack, Returns
<1> QED
  BY <1>1, <1>2

-----------------------------------------------------------------------------
(* Every action has one of the shapes, for every key.                         *)

\* The pushes of the keys K by d, as far as the key k is concerned.
LEMMA PushedKeys ==
    ASSUME NEW d \in Devices, NEW k, NEW K, NEW f,
           calls' = calls \cup {Push(d, j, f[j]) : j \in K}
    PROVE  /\ k \notin K => SameCalls(k)
           /\ k \in K /\ revision'[d][k] = Clock(d) => Pushes(d, k)
<1> DEFINE p == Push(d, k, f[k])
<1>1. \A j \in K : LET q == Push(d, j, f[j])
                    IN  q.stage = "sent" /\ q.key = j /\ (j = k => q = p)
  BY DEF Push
<1>2. p.key = k /\ p.stage = "sent" /\ p.from = d /\ p.ts = Clock(d)
  BY DEF Push
<1>3. k \in K => p \in calls'
  OBVIOUS
<1>4. \A c \in calls' : c \in calls \/ \E j \in K : c = Push(d, j, f[j])
  OBVIOUS
<1>5. calls \subseteq calls'
  OBVIOUS
<1> HIDE DEF p
<1>6. Stored(k)' = Stored(k)
  BY <1>1, <1>4, <1>5 DEF Stored
<1>7. k \notin K => Unhandled(k)' = Unhandled(k)
  BY <1>1, <1>4, <1>5 DEF Unhandled
<1>8. k \in K => Unhandled(k)' = Unhandled(k) \cup {p}
  BY <1>1, <1>2, <1>3, <1>4, <1>5 DEF Unhandled
<1> QED
  BY <1>2, <1>6, <1>7, <1>8 DEF SameCalls, Pushes

\* What merge does to the key k.
LEMMA MergeKey ==
    ASSUME TypeOK, NEW d \in Devices, NEW k \in Keys, NEW update, DOMAIN update \subseteq Keys,
           \A j \in DOMAIN update : update[j].ts \in Nat,
           Merge(d, update)
    PROVE  /\ k \in DOMAIN update =>
                 \/ SameCalls(k) /\ revision'[d][k] = update[k].ts /\ revision[d][k] <= update[k].ts
                 \/ Pushes(d, k)
           /\ k \notin DOMAIN update => SameCalls(k) /\ revision'[d][k] = revision[d][k]
           /\ \A e \in Devices \ {d} : revision'[e] = revision[e]
<1> DEFINE fresh == {j \in DOMAIN update : Hydrates(d, update[j], j)}
           stale == {j \in DOMAIN update : Repushes(d, update[j], j)}
<1>1. /\ revision' = [revision EXCEPT ![d] = [j \in Keys |->
            IF j \in fresh THEN update[j].ts ELSE IF j \in stale THEN Clock(d)
            ELSE revision[d][j]]]
      /\ calls' = calls \cup {Push(d, j, store[d][j]) : j \in stale}
  BY DEF Merge
<1>2. /\ revision'[d][k] = IF k \in fresh THEN update[k].ts
                           ELSE IF k \in stale THEN Clock(d) ELSE revision[d][k]
      /\ \A e \in Devices \ {d} : revision'[e] = revision[e]
      /\ revision[d][k] \in Int
  <2> HIDE DEF fresh, stale
  <2> QED
    BY <1>1 DEF TypeOK, Times, Undefined
<1>3. /\ k \notin stale => SameCalls(k)
      /\ k \in stale /\ revision'[d][k] = Clock(d) => Pushes(d, k)
  <2> HIDE DEF stale
  <2> QED
    BY <1>1, PushedKeys
<1>4. k \in stale => revision'[d][k] = Clock(d)
  BY <1>2 DEF Repushes
<1>5. ASSUME k \in DOMAIN update, k \notin stale
      PROVE  revision'[d][k] = update[k].ts /\ revision[d][k] <= update[k].ts
  BY <1>2, <1>5 DEF Hydrates, Repushes
<1>6. ASSUME k \notin DOMAIN update PROVE k \notin stale /\ revision'[d][k] = revision[d][k]
  BY <1>2, <1>6
<1> HIDE DEF fresh, stale
<1> QED
  BY <1>2, <1>3, <1>4, <1>5, <1>6

\* The events on the way to d, when they are as they were, when one is handled,
LEMMA InboxSame == ASSUME NEW d, NEW k, inbox'[d] = inbox[d] PROVE SameInbox(d, k)
BY DEF SameInbox, Coming, About, Before

LEMMA InboxTail ==
    ASSUME NEW d, NEW k, inbox[d] \in Seq(Events), inbox[d] # << >>, inbox'[d] = Tail(inbox[d])
    PROVE  /\ Head(inbox[d]).key # k => SameInbox(d, k)
           /\ Head(inbox[d]).key = k =>
                 /\ Coming(d, k) = Coming(d, k)' \cup {Head(inbox[d]).ts}
                 /\ \A u, v : Before(d, k, u, v) =>
                       \/ Before(d, k, u, v)' /\ u \in Coming(d, k)'
                       \/ u = Head(inbox[d]).ts /\ v \in Coming(d, k)'
<1> DEFINE s == inbox[d]
<1>0. /\ Len(s) \in Nat /\ Len(s) # 0 /\ DOMAIN s = 1 .. Len(s)
      /\ DOMAIN Tail(s) = 1 .. Len(s) - 1
      /\ \A i \in 1 .. Len(s) - 1 : Tail(s)[i] = s[i + 1]
      /\ Head(s) = s[1]
  <2>1. Len(s) \in Nat /\ DOMAIN s = 1 .. Len(s)
    OBVIOUS
  <2>2. Len(s) # 0 /\ Head(s) = s[1]
    OBVIOUS
  <2>3. DOMAIN Tail(s) = 1 .. Len(s) - 1
    OBVIOUS
  <2>4. \A i \in 1 .. Len(s) - 1 : Tail(s)[i] = s[i + 1]
    OBVIOUS
  <2> QED
    BY <2>1, <2>2, <2>3, <2>4
<1>1. /\ Head(s) = s[1] /\ 1 \in DOMAIN s
      /\ \A i \in DOMAIN Tail(s) : i + 1 \in DOMAIN s /\ Tail(s)[i] = s[i + 1] /\ i \in Nat
      /\ \A i \in DOMAIN s :
            i \in Nat /\ (i = 1 \/ (i - 1 \in DOMAIN Tail(s) /\ s[i] = Tail(s)[i - 1]))
  <2> HIDE DEF s
  <2>1. ASSUME NEW i \in DOMAIN s, i # 1
        PROVE  i - 1 \in DOMAIN Tail(s) /\ s[i] = Tail(s)[i - 1]
    <3>1. i - 1 \in 1 .. Len(s) - 1 /\ (i - 1) + 1 = i
      BY <1>0, <2>1
    <3> QED
      BY <1>0, <3>1
  <2> QED
    BY <1>0, <2>1
<1>2. \A i \in About(d, k)' : i + 1 \in About(d, k) /\ inbox'[d][i] = inbox[d][i + 1] /\ i \in Nat
  BY <1>1 DEF About
<1>3. \A i \in About(d, k) : i \in Nat /\
         (i = 1 \/ (i - 1 \in About(d, k)' /\ inbox[d][i] = inbox'[d][i - 1]))
  BY <1>1 DEF About
<1>4. 1 \in About(d, k) <=> Head(inbox[d]).key = k
  BY <1>1 DEF About
<1>h. Head(inbox[d]) = inbox[d][1]
  BY <1>1
<1>5. Coming(d, k)' \subseteq Coming(d, k)
  BY <1>2 DEF Coming
<1>6. Coming(d, k) \subseteq Coming(d, k)' \cup {inbox[d][1].ts}
  BY <1>3 DEF Coming
<1>7. 1 \notin About(d, k) => Coming(d, k) \subseteq Coming(d, k)'
  BY <1>3 DEF Coming
<1>8. 1 \in About(d, k) => inbox[d][1].ts \in Coming(d, k)
  BY DEF Coming
<1>9. ASSUME NEW u, NEW v, Before(d, k, u, v)
      PROVE  \/ Before(d, k, u, v)' /\ u \in Coming(d, k)'
             \/ 1 \in About(d, k) /\ u = inbox[d][1].ts /\ v \in Coming(d, k)'
  <2>1. PICK i \in About(d, k), j \in About(d, k) :
            i < j /\ inbox[d][i].ts = u /\ inbox[d][j].ts = v
    BY <1>9 DEF Before
  <2>2. j # 1 /\ (i # 1 => i - 1 < j - 1)
    <3>1. ~(i < 1)
      <4>1. DOMAIN s = 1 .. Len(s)
        OBVIOUS
      <4> QED
        BY <4>1 DEF About
    <3> QED
      BY <1>3, <2>1, <3>1
  <2>3. v \in Coming(d, k)'
    BY <1>3, <2>1, <2>2 DEF Coming
  <2>4. CASE i # 1
    <3>1. u \in Coming(d, k)'
      BY <1>3, <2>1, <2>4 DEF Coming
    <3> QED
      BY <1>3, <2>1, <2>2, <2>4, <3>1 DEF Before
  <2> QED
    BY <2>1, <2>3, <2>4
<1> QED
  BY <1>4, <1>5, <1>6, <1>7, <1>8, <1>9, <1>h DEF SameInbox

\* and when one is published.
LEMMA InboxAppend ==
    ASSUME NEW d, NEW k, inbox[d] \in Seq(Events), NEW x, inbox'[d] = Append(inbox[d], x)
    PROVE  /\ x.key # k => SameInbox(d, k)
           /\ x.key = k =>
                 /\ Coming(d, k)' = Coming(d, k) \cup {x.ts}
                 /\ \A t, u : Before(d, k, t, u) => Before(d, k, t, u)'
                 /\ \A t \in Coming(d, k) : Before(d, k, t, x.ts)'
<1> DEFINE s == inbox[d]
           n == Len(s) + 1
<1>1. /\ n \in DOMAIN inbox'[d] /\ inbox'[d][n] = x
      /\ \A i \in DOMAIN s : i \in DOMAIN inbox'[d] /\ inbox'[d][i] = s[i] /\ i < n
      /\ \A i \in DOMAIN inbox'[d] : i \in DOMAIN s \/ i = n
  OBVIOUS
<1> HIDE DEF n
<1>2. \A i \in About(d, k) : i \in About(d, k)' /\ inbox'[d][i] = inbox[d][i] /\ i < n
  BY <1>1 DEF About
<1>3. \A i \in About(d, k)' : i \in About(d, k) \/ (i = n /\ x.key = k)
  BY <1>1 DEF About
<1>4. x.key = k => n \in About(d, k)'
  BY <1>1 DEF About
<1>5. Coming(d, k) \subseteq Coming(d, k)'
  BY <1>2 DEF Coming
<1>6. Coming(d, k)' \subseteq Coming(d, k) \cup {x.ts}
  BY <1>1, <1>2, <1>3 DEF Coming
<1>7. x.key # k => Coming(d, k)' \subseteq Coming(d, k)
  BY <1>1, <1>2, <1>3 DEF Coming
<1>8. x.key = k => x.ts \in Coming(d, k)'
  BY <1>1, <1>4 DEF Coming
<1>9. ASSUME NEW t, NEW u, Before(d, k, t, u) PROVE Before(d, k, t, u)'
  BY <1>2, <1>9 DEF Before
<1>10. ASSUME x.key = k, NEW t \in Coming(d, k) PROVE Before(d, k, t, x.ts)'
  <2>1. PICK i \in About(d, k) : inbox[d][i].ts = t
    BY DEF Coming
  <2> QED
    BY <1>1, <1>2, <1>4, <1>10, <2>1 DEF Before
<1> QED
  BY <1>5, <1>6, <1>7, <1>8, <1>9, <1>10 DEF SameInbox

\* The steps of the pages and of the network that leave the key k alone.
LEMMA Rests ==
    ASSUME NEW k \in Keys, server'[k] = server[k], SameCalls(k),
           overtaken \subseteq overtaken', unseen \subseteq unseen',
           \A d \in Devices :
               /\ IsOpen(d)' <=> IsOpen(d)
               /\ revision'[d][k] = revision[d][k] /\ behind[d] \subseteq behind'[d]
               /\ SameInbox(d, k) /\ answer'[d][k].ts = answer[d][k].ts
               /\ SameDisk(d, k) \/ (IsOpen(d) /\ disk'[d].revision[k] = revision[d][k])
               /\ \/ fetch'[d] = fetch[d]
                  \/ k \in behind'[d]
                  \/ fetch[d] = "answered" /\ answer[d][k].ts = 0 /\ fetch'[d] = "none"
    PROVE  Resting(k)
BY DEF Resting, SameServer, SamePage

\* The pushes, when they are as they were.
LEMMA CallsSame == ASSUME NEW k, calls' = calls PROVE SameCalls(k)
BY DEF SameCalls, Unhandled, Stored

\* The clock, a page that connects or writes to its disk, a fetch that fails.
LEMMA StepHere ==
    ASSUME TypeOK, NEW k \in Keys,
           \/ Tick \/ UNCHANGED vars
           \/ \E d \in Devices : \/ Connect(d) \/ FlushSync(d) \/ FetchFails(d)
                                 \/ \E j \in Keys : FlushStore(d, j)
    PROVE  Resting(k)
<1> USE CallsSame, InboxSame, Rests DEF SameDisk, IsOpen
<1> USE DEF memory, requests, counters, lapses, vars
<1>1. CASE Tick \/ UNCHANGED vars
  BY <1>1 DEF Tick
<1>2. ASSUME NEW d \in Devices, Connect(d) PROVE Resting(k)
  <2>1. \A e \in Devices : page'[e] # "closed" <=> page[e] # "closed"
    BY <1>2 DEF Connect, TypeOK
  <2> QED
    BY <1>2, <2>1 DEF Connect
<1>3. ASSUME NEW d \in Devices, FlushSync(d) PROVE Resting(k)
  <2>1. \A e \in Devices : IF e = d THEN disk'[e].revision = revision[e] ELSE disk'[e] = disk[e]
    BY <1>3 DEF FlushSync, TypeOK
  <2> QED
    BY <1>3, <2>1 DEF FlushSync, CanFlush
<1>4. ASSUME NEW d \in Devices, FetchFails(d) PROVE Resting(k)
  <2>1. \A e \in Devices : IF e = d THEN behind'[e] = Keys
                           ELSE behind'[e] = behind[e] /\ fetch'[e] = fetch[e]
    BY <1>4 DEF FetchFails, TypeOK
  <2>2. \A e \in Devices : behind[e] \subseteq behind'[e]
    BY <2>1 DEF TypeOK
  <2> QED
    BY <1>4, <2>1, <2>2 DEF FetchFails
<1>5. ASSUME NEW d \in Devices, NEW j \in Keys, FlushStore(d, j) PROVE Resting(k)
  <2>1. \A e \in Devices : disk'[e].revision = disk[e].revision
    <3> DEFINE r == [disk[d] EXCEPT !.store = [@ EXCEPT ![j] = store[d][j]]]
    <3>1. disk' = [disk EXCEPT ![d] = r] /\ r.revision = disk[d].revision
      BY <1>5 DEF FlushStore, TypeOK
    <3> HIDE DEF r
    <3> QED
      BY <3>1 DEF TypeOK
  <2> QED
    BY <1>5, <2>1 DEF FlushStore
<1> QED
  BY <1>1, <1>2, <1>3, <1>4, <1>5

\* The user changes a setting.
LEMMA StepEdit ==
    ASSUME TypeOK, NEW k \in Keys, NEW d \in Devices, NEW j \in Keys, Edit(d, j)
    PROVE  Step(k)
<1> DEFINE p == Push(d, j, edits')
<1>1. /\ calls' = calls \cup {p} /\ IsOpen(d)
      /\ UNCHANGED <<page, disk, inbox, fetch, answer, server, behind, overtaken, unseen>>
  BY DEF Edit, lapses
<1>2. \A e \in Devices : /\ e # d => revision'[e] = revision[e]
                         /\ j # k => revision'[e][k] = revision[e][k]
                         /\ revision'[d][j] = Clock(d)
  <2>1. revision' = [revision EXCEPT ![d] = [@ EXCEPT ![j] = Clock(d)]]
    BY DEF Edit
  <2> QED
    BY <2>1 DEF TypeOK
<1>3. p.key = j /\ p.stage = "sent" /\ p.from = d /\ p.ts = Clock(d)
  BY DEF Push
<1> HIDE DEF p
<1>4. \A e \in Devices : SameInbox(e, k) /\ SameFetch(e, k) /\ SameDisk(e, k)
  BY <1>1, InboxSame DEF SameFetch, SameDisk
<1>5. SameServer(k)
  BY <1>1 DEF SameServer
<1>6. CASE j # k
  <2>1. SameCalls(k)
    BY <1>1, <1>3, <1>6 DEF SameCalls, Unhandled, Stored
  <2> QED
    BY <1>1, <1>2, <1>4, <1>6, <2>1, Rests DEF SameFetch, Step, IsOpen
<1>7. CASE j = k
  <2>1. Unhandled(k)' = Unhandled(k) \cup {p} /\ Stored(k)' = Stored(k)
    BY <1>1, <1>3, <1>7 DEF Unhandled, Stored
  <2>2. Pushes(d, k)
    BY <1>2, <1>3, <1>7, <2>1 DEF Pushes
  <2>3. \A e \in Devices : e # d => SamePage(e, k)
    BY <1>1, <1>2 DEF SamePage, IsOpen
  <2>4. Editing(d, k)
    BY <1>1, <1>4, <1>5, <2>2, <2>3 DEF Editing, IsOpen
  <2> QED
    BY <2>4 DEF Step
<1> QED
  BY <1>6, <1>7

\* A page handles an event.
LEMMA StepDeliver ==
    ASSUME TypeOK, NEW k \in Keys, NEW d \in Devices, Deliver(d)
    PROVE  Step(k)
<1> DEFINE e == Head(inbox[d])
           update == [j \in {e.key} |-> [ts |-> e.ts, val |-> e.val]]
<1>1. /\ inbox[d] \in Seq(Events) /\ inbox[d] # << >> /\ page[d] = "live"
      /\ inbox'[d] = Tail(inbox[d]) /\ \A f \in Devices \ {d} : inbox'[f] = inbox[f]
      /\ UNCHANGED <<page, disk, fetch, answer, server, behind, overtaken, unseen>>
  BY DEF Deliver, TypeOK, lapses
<1>2. e \in Events
  BY <1>1
<1>3. Merge(d, update)
  BY DEF Deliver
<1>4. DOMAIN update = {e.key} /\ update[e.key].ts = e.ts /\ e.key \in Keys /\ e.ts \in Nat
  BY <1>2 DEF Events, Times
<1> HIDE DEF update
<1>5. /\ k = e.key =>
            \/ SameCalls(k) /\ revision'[d][k] = e.ts /\ revision[d][k] <= e.ts
            \/ Pushes(d, k)
      /\ k # e.key => SameCalls(k) /\ revision'[d][k] = revision[d][k]
      /\ \A f \in Devices \ {d} : revision'[f] = revision[f]
  <2>1. DOMAIN update \subseteq Keys /\ \A j \in DOMAIN update : update[j].ts \in Nat
    BY <1>4
  <2> HIDE DEF e
  <2> QED
    BY <1>3, <1>4, <2>1, MergeKey
<1>6. \A f \in Devices : SameFetch(f, k) /\ SameDisk(f, k) /\ (f # d => SameInbox(f, k))
  BY <1>1, InboxSame DEF SameFetch, SameDisk
<1>7. SameServer(k) /\ \A f \in Devices : IsOpen(f)' <=> IsOpen(f)
  BY <1>1 DEF SameServer, IsOpen
<1>8. CASE k # e.key
  <2>1. SameInbox(d, k)
    BY <1>1, <1>8, InboxTail
  <2> HIDE DEF e
  <2> QED
    BY <1>1, <1>5, <1>6, <1>7, <1>8, <2>1, Rests DEF SameFetch, Step
<1>9. CASE k = e.key
  <2>1. /\ Coming(d, k) = Coming(d, k)' \cup {e.ts}
        /\ \A u, v : Before(d, k, u, v) =>
              \/ Before(d, k, u, v)' /\ u \in Coming(d, k)'
              \/ u = e.ts /\ v \in Coming(d, k)'
    BY <1>1, <1>9, InboxTail
  <2> HIDE DEF e
  <2>2. Taking(d, k, e.ts)
    <3>1. IsOpen(d) /\ IsOpen(d)'
      BY <1>1 DEF IsOpen
    <3>2. \A f \in Devices \ {d} : SamePage(f, k)
      BY <1>1, <1>5, <1>7 DEF SamePage
    <3> QED
      BY <1>1, <1>5, <1>6, <1>7, <1>9, <3>1, <3>2 DEF Taking
  <2>3. Hearing(d, k, e.ts) /\ e.ts \in Coming(d, k)
    BY <1>6, <2>1, <2>2 DEF Hearing
  <2> QED
    BY <2>3 DEF Step
<1> QED
  BY <1>8, <1>9

\* A page reads the answer to its fetch.
LEMMA StepConsume ==
    ASSUME TypeOK, NEW k \in Keys, NEW d \in Devices, ConsumeFetch(d)
    PROVE  Step(k)
<1> DEFINE update == [j \in {j \in Keys : answer[d][j].ts # 0} |-> answer[d][j]]
<1>1. /\ IsOpen(d) /\ fetch[d] = "answered" /\ fetch'[d] = "none"
      /\ \A f \in Devices \ {d} : fetch'[f] = fetch[f] /\ answer'[f] = answer[f]
      /\ UNCHANGED <<page, disk, inbox, server, behind, overtaken, unseen>>
      /\ answer'[d] = [j \in Keys |-> Absent]
  BY DEF ConsumeFetch, TypeOK, lapses
<1>2. Merge(d, update)
  BY DEF ConsumeFetch
<1>3. /\ DOMAIN update = {j \in Keys : answer[d][j].ts # 0}
      /\ \A j \in DOMAIN update : update[j] = answer[d][j] /\ update[j].ts \in Nat
  BY DEF TypeOK, Copies, Times
<1> HIDE DEF update
<1>4. /\ answer[d][k].ts # 0 =>
            \/ SameCalls(k) /\ revision'[d][k] = answer[d][k].ts
                            /\ revision[d][k] <= answer[d][k].ts
            \/ Pushes(d, k)
      /\ answer[d][k].ts = 0 => SameCalls(k) /\ revision'[d][k] = revision[d][k]
      /\ \A f \in Devices \ {d} : revision'[f] = revision[f]
  BY <1>2, <1>3, MergeKey
<1>5. answer'[d][k].ts = 0
  BY <1>1 DEF Absent
<1>6. \A f \in Devices : SameInbox(f, k) /\ SameDisk(f, k) /\ (f # d => SameFetch(f, k))
  BY <1>1, InboxSame DEF SameFetch, SameDisk
<1>7. SameServer(k) /\ \A f \in Devices : IsOpen(f)' <=> IsOpen(f)
  BY <1>1 DEF SameServer, IsOpen
<1>8. CASE answer[d][k].ts = 0
  BY <1>1, <1>4, <1>5, <1>6, <1>7, <1>8, Rests DEF SameFetch, Step
<1>9. CASE answer[d][k].ts # 0
  <2>1. \A f \in Devices \ {d} : SamePage(f, k)
    BY <1>1, <1>4, <1>7 DEF SamePage
  <2>2. Taking(d, k, answer[d][k].ts)
    BY <1>1, <1>4, <1>6, <1>7, <1>9, <2>1 DEF Taking
  <2>3. Reading(d, k)
    BY <1>1, <1>5, <1>6, <1>9, <2>2 DEF Reading
  <2> QED
    BY <2>3 DEF Step
<1> QED
  BY <1>8, <1>9

\* A page is opened.
LEMMA StepOpen ==
    ASSUME TypeOK, NEW k \in Keys, NEW d \in Devices, NEW expired \in SUBSET Expiring,
           Open(d, expired)
    PROVE  Opening(d, k)
<1>1. /\ ~IsOpen(d) /\ IsOpen(d)' /\ fetch'[d] = "asked"
      /\ \A f \in Devices \ {d} : /\ fetch'[f] = fetch[f] /\ page'[f] = page[f]
                                  /\ revision'[f] = revision[f] /\ behind'[f] = behind[f]
      /\ k \in behind[d] /\ server[k].ts = 0 => k \in behind'[d]
      /\ UNCHANGED <<disk, inbox, answer, server, overtaken, unseen>>
  BY DEF Open, TypeOK, lapses, IsOpen
<1>2. calls' = calls \cup {Push(d, j, disk[d].store[j]) : j \in expired}
  BY DEF Open
<1>3. revision'[d][k] = IF k \in expired THEN Clock(d) ELSE Clean(disk[d].revision)[k]
  BY DEF Open, TypeOK
<1>4. Clean(disk[d].revision)[k] \in {disk[d].revision[k], Undefined}
  BY DEF Clean
<1>5. \/ SameCalls(k) /\ revision'[d][k] \in {disk[d].revision[k], Undefined}
      \/ Pushes(d, k)
  <2>1. /\ k \notin expired => SameCalls(k)
        /\ k \in expired /\ revision'[d][k] = Clock(d) => Pushes(d, k)
    BY <1>2, PushedKeys
  <2> QED
    BY <1>3, <1>4, <2>1
<1>6. \A f \in Devices : SameInbox(f, k) /\ SameDisk(f, k)
  BY <1>1, InboxSame DEF SameDisk
<1>7. \A f \in Devices \ {d} : SamePage(f, k) /\ SameFetch(f, k)
  BY <1>1 DEF SamePage, SameFetch, IsOpen
<1>8. SameServer(k)
  BY <1>1 DEF SameServer
<1> QED
  BY <1>1, <1>5, <1>6, <1>7, <1>8 DEF Opening

\* A page that has lost its events expects none; one that expected none of k lost none.
LEMMA InboxLost ==
    ASSUME NEW d, NEW k, inbox'[d] = << >>
    PROVE  Coming(d, k)' = {} /\ (k \notin Expected(d) => SameInbox(d, k))
           /\ (Coming(d, k) # {} => k \in Expected(d))
<1>1. About(d, k)' = {}
  BY DEF About
<1>2. k \notin Expected(d) => About(d, k) = {}
  BY DEF About, Expected
<1> QED
  BY <1>1, <1>2 DEF Coming, Before, SameInbox

\* A connection is lost.
LEMMA StepDisconnect ==
    ASSUME TypeOK, NEW k \in Keys, NEW d \in Devices, Disconnect(d)
    PROVE  Step(k)
<1>1. /\ \A f \in Devices : IsOpen(f)' <=> IsOpen(f)
      /\ inbox'[d] = << >> /\ behind'[d] = behind[d] \cup Expected(d)
      /\ unseen' = unseen \cup Expected(d)
      /\ \A f \in Devices \ {d} : inbox'[f] = inbox[f] /\ behind'[f] = behind[f]
      /\ UNCHANGED <<revision, disk, calls, fetch, answer, server, overtaken>>
  BY DEF Disconnect, TypeOK, IsOpen
<1>2. /\ SameCalls(k) /\ SameServer(k)
      /\ \A f \in Devices : /\ SamePage(f, k) /\ SameFetch(f, k) /\ SameDisk(f, k)
                            /\ f # d => SameInbox(f, k)
  BY <1>1, CallsSame, InboxSame DEF SameServer, SamePage, SameFetch, SameDisk
<1>3. CASE k \notin Expected(d)
  <2>1. SameInbox(d, k)
    BY <1>1, <1>3, InboxLost
  <2> QED
    BY <1>2, <2>1 DEF Resting, Step, SameFetch
<1>4. CASE k \in Expected(d)
  <2>1. Coming(d, k)' = {}
    BY <1>1, InboxLost
  <2>2. \A f \in Devices : Coming(f, k)' \subseteq Coming(f, k)
    BY <1>2, <2>1 DEF SameInbox
  <2>3. Losing(k)
    BY <1>1, <1>2, <1>4, <2>2 DEF Losing, SameCalls
  <2> QED
    BY <2>3 DEF Step
<1> QED
  BY <1>3, <1>4

\* A page is closed.
LEMMA StepClose ==
    ASSUME TypeOK, NEW k \in Keys, NEW d \in Devices, Close(d)
    PROVE  Closing(d, k)
<1>1. /\ IsOpen(d) /\ ~IsOpen(d)' /\ inbox'[d] = << >> /\ answer'[d][k].ts = 0
      /\ unseen' = unseen \cup Expected(d) \cup {c.key : c \in {c \in calls : c.from = d}}
      /\ \A f \in Devices \ {d} : /\ page'[f] = page[f] /\ revision'[f] = revision[f]
                                  /\ inbox'[f] = inbox[f] /\ fetch'[f] = fetch[f]
                                  /\ answer'[f] = answer[f]
      /\ UNCHANGED <<disk, calls, server, behind, overtaken>>
  BY DEF Close, TypeOK, IsOpen, Absent
<1>2. SameCalls(k) /\ SameServer(k) /\ \A f \in Devices : SameDisk(f, k)
  BY <1>1, CallsSame DEF SameServer, SameDisk
<1>3. \A f \in Devices \ {d} : SamePage(f, k) /\ SameInbox(f, k) /\ SameFetch(f, k)
  BY <1>1, InboxSame DEF SamePage, SameFetch, IsOpen
<1>4. Coming(d, k)' = {} /\ (Coming(d, k) # {} => k \in unseen')
  BY <1>1, InboxLost
<1>5. \A c \in Unhandled(k) \cup Stored(k) : c.from = d => k \in unseen'
  BY <1>1 DEF Unhandled, Stored
<1> QED
  BY <1>1, <1>2, <1>3, <1>4, <1>5 DEF Closing

\* The server answers a fetch,
LEMMA StepAnswer ==
    ASSUME TypeOK, NEW k \in Keys, NEW d \in Devices, AnswerFetch(d)
    PROVE  Answering(d, k)
<1>1. /\ fetch[d] = "asked" /\ fetch'[d] = "answered" /\ answer'[d] = server
      /\ \A f \in Devices \ {d} : fetch'[f] = fetch[f] /\ answer'[f] = answer[f]
      /\ UNCHANGED <<page, revision, disk, calls, inbox, server, behind, overtaken, unseen>>
  BY DEF AnswerFetch, TypeOK, memory, lapses
<1> QED
  BY <1>1, CallsSame, InboxSame
     DEF Answering, SameServer, SamePage, SameFetch, SameDisk, IsOpen

\* stores what was pushed,
LEMMA StepApply ==
    ASSUME TypeOK, NEW k \in Keys, Numbers(k), NEW c \in calls, Apply(c)
    PROVE  Step(k)
<1> DEFINE t == Clamp(c.ts)
           p == [c EXCEPT !.ts = t, !.stage = "stored"]
<1>1. /\ c.stage = "sent" /\ calls' = (calls \ {c}) \cup {p}
      /\ server' = [server EXCEPT ![c.key] = [ts |-> t, val |-> c.val]]
      /\ overtaken' = IF t < server[c.key].ts THEN overtaken \cup {c.key} ELSE overtaken
      /\ UNCHANGED <<page, revision, disk, inbox, fetch, answer, behind, unseen>>
  BY DEF Apply, memory
<1>2. p.key = c.key /\ p.stage = "stored" /\ p.from = c.from /\ p.ts = t /\ c.key \in Keys
  BY DEF TypeOK, Calls
<1>3. t = c.ts \/ (t = now /\ now <= c.ts)
  BY DEF Clamp, TypeOK, Calls, Times
<1> HIDE DEF p, t
<1>4. \A f \in Devices :
         SamePage(f, k) /\ SameInbox(f, k) /\ SameFetch(f, k) /\ SameDisk(f, k)
  BY <1>1, InboxSame DEF SamePage, SameFetch, SameDisk, IsOpen
<1>5. CASE c.key # k
  <2>1. SameCalls(k)
    BY <1>1, <1>2, <1>5 DEF SameCalls, Unhandled, Stored
  <2>2. SameServer(k)
    BY <1>1, <1>5 DEF SameServer, TypeOK
  <2> QED
    BY <1>4, <2>1, <2>2 DEF Step, Resting, SameFetch
<1>6. CASE c.key = k
  <2>1. c \in Unhandled(k)
    BY <1>1, <1>6 DEF Unhandled
  <2>2. Unhandled(k)' = Unhandled(k) \ {c}
    BY <1>1, <1>2 DEF Unhandled
  <2>3. Stored(k)' = Stored(k) \cup {p}
    BY <1>1, <1>2, <1>6 DEF Stored
  <2>4. server'[k].ts = t
    BY <1>1, <1>6 DEF TypeOK
  <2>5. t \in Nat /\ t >= 1
    BY <1>3, <2>1 DEF Numbers, TypeOK
  <2>6. Applying(c, k)
    BY <1>1, <1>2, <1>3, <1>4, <1>6, <2>1, <2>2, <2>3, <2>4, <2>5 DEF Applying
  <2> QED
    BY <2>1, <2>6 DEF Step
<1> QED
  BY <1>5, <1>6

\* publishes it,
LEMMA StepPublish ==
    ASSUME TypeOK, NEW k \in Keys, NEW c \in calls, Publish(c)
    PROVE  Step(k)
<1> DEFINE x == [key |-> c.key, ts |-> c.ts, val |-> c.val, from |-> c.from]
<1>1. /\ c.stage = "stored" /\ calls' = calls \ {c}
      /\ \A d \in Devices :
            /\ page[d] = "live" => inbox'[d] = Append(inbox[d], x)
            /\ page[d] # "live" => inbox'[d] = inbox[d]
            /\ Misses(d) => behind'[d] = behind[d] \cup {c.key}
            /\ ~Misses(d) => behind'[d] = behind[d]
            /\ page[d] = "open" => c.key \in unseen'
            /\ inbox[d] \in Seq(Events) /\ page[d] \in {"closed", "open", "live"}
      /\ unseen \subseteq unseen'
      /\ UNCHANGED <<page, revision, disk, fetch, answer, server, overtaken>>
  BY DEF Publish, memory, TypeOK
<1>2. x.key = c.key /\ x.ts = c.ts
  OBVIOUS
<1> HIDE DEF x
<1>3. SameServer(k)
      /\ \A d \in Devices : SamePage(d, k) /\ SameFetch(d, k) /\ SameDisk(d, k)
  BY <1>1 DEF SameServer, SamePage, SameFetch, SameDisk, IsOpen
<1>4. CASE c.key # k
  <2>1. SameCalls(k)
    BY <1>1, <1>4 DEF SameCalls, Unhandled, Stored
  <2>2. \A d \in Devices : SameInbox(d, k)
    BY <1>1, <1>2, <1>4, InboxSame, InboxAppend
  <2> QED
    BY <1>3, <2>1, <2>2 DEF Step, Resting, SameFetch
<1>5. CASE c.key = k
  <2>1. c \in Stored(k) /\ Unhandled(k)' = Unhandled(k) /\ Stored(k)' = Stored(k) \ {c}
    BY <1>1, <1>5 DEF Unhandled, Stored
  <2>2. ASSUME NEW d \in Devices
        PROVE  \/ /\ Coming(d, k)' = Coming(d, k) \cup {c.ts}
                  /\ \A t, u : Before(d, k, t, u) => Before(d, k, t, u)'
                  /\ \A t \in Coming(d, k) : Before(d, k, t, c.ts)'
               \/ /\ SameInbox(d, k)
                  /\ IsOpen(d) => k \in unseen' /\ (fetch[d] = "asked" \/ k \in behind'[d])
    <3>1. CASE page[d] = "live"
      <4>1. inbox[d] \in Seq(Events) /\ inbox'[d] = Append(inbox[d], x)
        BY <1>1, <3>1
      <4>2. /\ Coming(d, k)' = Coming(d, k) \cup {x.ts}
            /\ \A t, u : Before(d, k, t, u) => Before(d, k, t, u)'
            /\ \A t \in Coming(d, k) : Before(d, k, t, x.ts)'
        BY <1>2, <1>5, <4>1, InboxAppend
      <4>3. \A t : Before(d, k, t, x.ts)' => Before(d, k, t, c.ts)'
        BY <1>1, <1>2 DEF Before
      <4> QED
        BY <1>2, <4>2, <4>3
    <3>2. CASE page[d] # "live"
      BY <1>1, <1>5, <3>2, InboxSame DEF IsOpen, Misses
    <3> QED
      BY <3>1, <3>2
  <2>3. Publishing(c, k)
    BY <1>3, <2>1, <2>2 DEF Publishing
  <2> QED
    BY <2>1, <2>3 DEF Step
<1> QED
  BY <1>4, <1>5

\* or fails to.
LEMMA StepFails ==
    ASSUME TypeOK, NEW k \in Keys, NEW c \in calls, CallFails(c)
    PROVE  Step(k)
<1>1. /\ calls' = calls \ {c} /\ unseen' = unseen \cup {c.key}
      /\ \A d \in Devices :
            /\ behind[d] \subseteq behind'[d]
            /\ c.stage = "stored" \/ d = c.from => c.key \in behind'[d]
      /\ UNCHANGED <<page, revision, disk, inbox, fetch, answer, server, overtaken>>
  BY DEF CallFails, memory
<1>2. SameServer(k)
      /\ \A d \in Devices :
            SamePage(d, k) /\ SameInbox(d, k) /\ SameFetch(d, k) /\ SameDisk(d, k)
  BY <1>1, InboxSame DEF SameServer, SamePage, SameFetch, SameDisk, IsOpen
<1>3. CASE c.key # k
  <2>1. SameCalls(k)
    BY <1>1, <1>3 DEF SameCalls, Unhandled, Stored
  <2> QED
    BY <1>2, <2>1 DEF Step, Resting, SameFetch
<1>4. CASE c.key = k
  <2>1. Unhandled(k)' = Unhandled(k) \ {c} /\ Stored(k)' = Stored(k) \ {c}
    BY <1>1 DEF Unhandled, Stored
  <2>2. c.stage # "stored" => Stored(k)' = Stored(k)
    BY <2>1 DEF Stored
  <2>3. Losing(k)
    BY <1>1, <1>2, <1>4, <2>1, <2>2 DEF Losing, SameInbox
  <2> QED
    BY <2>3 DEF Step
<1> QED
  BY <1>3, <1>4

\* Every step is, for each key, one of those.
LEMMA EveryStep ==
    ASSUME TypeOK, NEW k \in Keys, Numbers(k), [Next]_vars
    PROVE  Step(k)
<1>1. CASE \/ Tick \/ UNCHANGED vars
           \/ \E d \in Devices : \/ Connect(d) \/ FlushSync(d) \/ FetchFails(d)
                                 \/ \E j \in Keys : FlushStore(d, j)
  BY <1>1, StepHere DEF Step
<1>2. ASSUME NEW d \in Devices,
             \/ \E j \in Keys : Edit(d, j)
             \/ Deliver(d) \/ ConsumeFetch(d) \/ Disconnect(d)
      PROVE  Step(k)
  BY <1>2, StepEdit, StepDeliver, StepConsume, StepDisconnect
<1>3. ASSUME NEW d \in Devices,
             (\E expired \in SUBSET Expiring : Open(d, expired)) \/ Close(d) \/ AnswerFetch(d)
      PROVE  Step(k)
  BY <1>3, StepOpen, StepClose, StepAnswer DEF Step
<1>4. ASSUME NEW c \in calls, Apply(c) \/ Publish(c) \/ CallFails(c) PROVE Step(k)
  BY <1>4, StepApply, StepPublish, StepFails
<1> QED
  BY <1>1, <1>2, <1>3, <1>4 DEF Next

-----------------------------------------------------------------------------
(* The invariant, and what it says at rest.                                   *)

\* The invariant holds at first, when nobody has anything;
LEMMA InitSync == Init => SyncInv
<1> SUFFICES ASSUME Init PROVE SyncInv
  OBVIOUS
<1>1. TypeOK /\ NoFuture /\ Stamped
  BY InitTypes, InitNoFuture, InitStamped
<1>2. Deaf
  BY DEF Init, Deaf
<1>3. ASSUME NEW k \in Keys PROVE Settles(k)
  <2>1. /\ Unhandled(k) = {} /\ Announced(k) = {} /\ Stored(k) = {}
        /\ \A d \in Devices : About(d, k) = {} /\ Coming(d, k) = {}
    BY DEF Init, Unhandled, Stored, Announced, Coming, About
  <2>2. /\ server[k].ts = 0
        /\ \A d \in Devices : /\ answer[d][k].ts = 0
                              /\ revision[d][k] = 0 /\ disk[d].revision[k] = 0
    BY DEF Init, Absent
  <2>3. Spoken(k) /\ FirstPush(k) /\ NotOlder(k)
    BY <2>1, <2>2 DEF Spoken, FirstPush, NotOlder
  <2>4. NotNewer(k)
    BY <2>1, <2>2 DEF NotNewer
  <2>5. Watched(k) /\ ComesBack(k)
    BY <2>1, <2>2 DEF Watched, ComesBack
  <2> QED
    BY <2>3, <2>4, <2>5 DEF Settles
<1> QED
  BY <1>1, <1>2, <1>3 DEF SyncInv

\* only a live page has events on their way;
LEMMA DeafStep == ASSUME TypeOK, Deaf, [Next]_vars PROVE Deaf'
<1> USE DEF memory, requests, counters, lapses, vars
<1>1. ASSUME UNCHANGED <<page, inbox>> PROVE Deaf'
  BY <1>1 DEF Deaf
<1>2. ASSUME NEW d \in Devices, Deliver(d) PROVE Deaf'
  <2>1. /\ page[d] = "live" /\ page' = page
        /\ \A e \in Devices \ {d} : inbox'[e] = inbox[e]
    BY <1>2 DEF Deliver, TypeOK
  <2> QED
    BY <2>1 DEF Deaf
<1>3. ASSUME NEW d \in Devices, Connect(d) PROVE Deaf'
  BY <1>3 DEF Connect, Deaf, TypeOK
<1>4. ASSUME NEW d \in Devices, NEW expired \in SUBSET Expiring, Open(d, expired) PROVE Deaf'
  BY <1>4 DEF Open, Deaf, TypeOK
<1>5. ASSUME NEW d \in Devices, Disconnect(d) \/ Close(d) PROVE Deaf'
  BY <1>5 DEF Disconnect, Close, Deaf, TypeOK
<1>6. ASSUME NEW c \in calls, Publish(c) PROVE Deaf'
  BY <1>6 DEF Publish, Deaf, TypeOK
<1>7. ASSUME \/ Tick \/ UNCHANGED vars
             \/ \E d \in Devices : \/ \E k \in Keys : Edit(d, k) \/ FlushStore(d, k)
                                   \/ ConsumeFetch(d) \/ FlushSync(d)
                                   \/ AnswerFetch(d) \/ FetchFails(d)
             \/ \E c \in calls : Apply(c) \/ CallFails(c)
      PROVE  UNCHANGED <<page, inbox>>
  BY <1>7
     DEF Tick, Edit, FlushStore, ConsumeFetch, FlushSync, AnswerFetch, FetchFails, Apply, CallFails
<1> QED
  BY <1>1, <1>2, <1>3, <1>4, <1>5, <1>6, <1>7 DEF Next

\* What a page missed of a key, or the server overtook, is never forgotten.
LEMMA LapsesGrow ==
    ASSUME NEW k \in Keys, Step(k)
    PROVE  (k \in overtaken => k \in overtaken') /\ (k \in unseen => k \in unseen')
BY DEF Step, Resting, Losing, Editing, Reading, Hearing, Taking, Opening, Closing, Answering,
       Applying, Publishing, SameServer

\* and every step keeps it.
LEMMA SyncStep == SyncInv /\ [Next]_vars => SyncInv'
<1> SUFFICES ASSUME SyncInv, [Next]_vars PROVE SyncInv'
  OBVIOUS
<1>1. TypeOK' /\ NoFuture' /\ Stamped'
  BY TypeStep, NoFutureStep, StampedStep DEF SyncInv
<1>2. Deaf'
  BY DeafStep DEF SyncInv
<1>3. ASSUME NEW k \in Keys PROVE Settles(k)'
  <2>1. Numbers(k)
    BY HasNumbers DEF SyncInv
  <2>2. Numbers(k)'
    <3>1. TypeOK /\ NoFuture /\ Stamped => Numbers(k)
      BY HasNumbers
    <3>2. (TypeOK /\ NoFuture /\ Stamped => Numbers(k))'
      BY HasNumbers, PTL
    <3> QED
      BY <1>1, <3>2
  <2>3. Step(k)
    BY <2>1, EveryStep DEF SyncInv
  <2>4. Spoken(k) /\ FirstPush(k) /\ NotOlder(k)
    BY DEF SyncInv, Settles
  <2>5. Listens(k)
    BY DEF SyncInv, Deaf, Listens, Coming, About, IsOpen
  <2>6. Spoken(k)' /\ FirstPush(k)' /\ NotOlder(k)'
    BY <2>1, <2>2, <2>3, <2>4, SpokenKept, FirstPushKept, NotOlderKept
  <2>7. k \notin overtaken' => NotNewer(k)'
    BY <2>1, <2>2, <2>3, <2>4, NotNewerKept DEF SyncInv, Settles
  <2>8. k \notin unseen' => Watched(k)' /\ ComesBack(k)'
    <3>1. k \notin unseen' => Watched(k) /\ ComesBack(k)
      BY <2>3, LapsesGrow DEF SyncInv, Settles
    <3> QED
      BY <2>1, <2>2, <2>3, <2>4, <2>5, <3>1, WatchedKept, ComesBackKept
  <2> QED
    BY <2>6, <2>7, <2>8 DEF Settles
<1> QED
  BY <1>1, <1>2, <1>3 DEF SyncInv

\* At rest nothing is left of what could make a page agree later: a page that nothing will
\* correct has the server's revision, and so its value.
LEMMA SyncAtRest == SyncInv => AgreeAtRest
<1> SUFFICES ASSUME SyncInv,
                    NEW k \in Keys, AtRest(k), ~Tied(k), k \notin torn \cup (overtaken \cap unseen),
                    NEW d \in Devices, IsOpen(d), k \notin behind[d]
             PROVE  store[d][k] = server[k].val
  BY DEF AgreeAtRest
<1>1. TypeOK /\ Stamped /\ Settles(k) /\ Numbers(k)
  BY HasNumbers DEF SyncInv
<1>2. /\ Unhandled(k) = {} /\ Stored(k) = {} /\ Announced(k) = {}
      /\ \A e \in Devices : Coming(e, k) = {} /\ (IsOpen(e) => fetch[e] = "none")
  <2>1. Unhandled(k) = {} /\ Stored(k) = {} /\ Announced(k) = {}
    BY DEF AtRest, Unhandled, Stored, Announced
  <2>2. ASSUME NEW e \in Devices PROVE Coming(e, k) = {}
    BY DEF AtRest, SyncInv, Deaf, Coming, About, IsOpen
  <2> QED
    BY <2>1, <2>2 DEF AtRest
<1>3. ~Corrected(d, k) /\ ~Mended(k)
  BY <1>2 DEF Corrected, Mended
<1>4. server[k].ts \in Nat /\ revision[d][k] \in Int
  BY <1>1 DEF Numbers
<1>5. ~(revision[d][k] > server[k].ts)
  <2>1. CASE k \notin overtaken
    BY <1>1, <1>2, <1>3, <2>1 DEF Settles, NotNewer, Pushed
  <2>2. CASE k \notin unseen
    BY <1>1, <1>2, <1>3, <2>2 DEF Settles, ComesBack, Returns
  <2> QED
    BY <2>1, <2>2
<1>6. CASE server[k].ts # 0
  <2>1. revision[d][k] >= server[k].ts
    BY <1>1, <1>2, <1>6 DEF Settles, NotOlder
  <2>2. revision[d][k] = server[k].ts
    BY <1>4, <1>5, <2>1
  <2> QED
    BY <1>1, <2>2, StampsName DEF RevisionNamesValue
<1>7. CASE server[k].ts = 0
  <2>1. server[k] = Absent
    BY <1>1, <1>7 DEF Stamped
  <2>2. Named(d, k) /\ \A s \in stamps[k] : s.ts # 0
    BY <1>1 DEF Stamped
  <2>3. revision[d][k] \in {0, Undefined} /\ store[d][k] = 0
    <3>1. revision[d][k] \in Times \cup {Undefined}
      BY <1>1 DEF TypeOK
    <3>2. revision[d][k] \in {0, Undefined}
      BY <1>4, <1>5, <1>7, <3>1 DEF Times, Undefined
    <3>3. CASE [ts |-> revision[d][k], val |-> store[d][k]] \in stamps[k]
      <4>1. revision[d][k] # 0
        BY <2>2, <3>3
      <4>2. stamps[k] \subseteq Copies
        BY <1>1 DEF TypeOK
      <4>3. revision[d][k] \in Times
        BY <3>3, <4>2 DEF Copies
      <4> QED
        BY <3>2, <4>1, <4>3 DEF Times, Undefined
    <3> QED
      BY <2>2, <3>2, <3>3 DEF Named
  <2> QED
    BY <2>1, <2>3 DEF Absent
<1> QED
  BY <1>6, <1>7

\* AgreeAtRest: once nothing about a setting is under way, every open page shows the value
\* the server stores, whatever order set_user_settings, the events and initialSync were
\* handled in, but for the lapses that AgreeAtRest names.
THEOREM PagesAgree == Spec => []AgreeAtRest
<1>1. Spec => []SyncInv
  BY InitSync, SyncStep, PTL DEF Spec
<1> QED
  BY <1>1, SyncAtRest, PTL

=============================================================================
