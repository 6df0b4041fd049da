-------------------------- MODULE Presence_proofs --------------------------
(***************************************************************************)
(* Proofs about Presence, for any number of users, regions and             *)
(* connections: the inductive invariant, and the properties it implies.    *)
(***************************************************************************)
EXTENDS Presence, TLAPS

\* Nobody is connected at the start.
LEMMA InitInv == Init => IInv
BY PresenceAssumption
   DEF Init, IInv, TypeOK, Wired, Recorded, Answered, Clean, ConnsOf, Alive, Opening,
       Closing, Ended, SweepStep

\* Every step keeps the types.
LEMMA TypeStep == TypeOK /\ [Next]_vars => TypeOK'
<1> SUFFICES ASSUME TypeOK, [Next]_vars PROVE TypeOK'
  OBVIOUS
<1> USE PresenceAssumption DEF TypeOK, Goto, Redis, Sweeper, History, Opening, Closing,
        Ended, Alive, SweepStep
<1>1. ASSUME NEW c \in Conns, CountSessions(c) PROVE TypeOK'
  BY <1>1 DEF CountSessions, NoteMix
<1>2. ASSUME NEW c \in Conns, CreateFails(c) PROVE TypeOK'
  BY <1>2 DEF CreateFails
<1>3. ASSUME NEW c \in Conns, AddSession(c) PROVE TypeOK'
  BY <1>3 DEF AddSession
<1>4. ASSUME NEW c \in Conns, AddOnline(c) PROVE TypeOK'
  BY <1>4 DEF AddOnline
<1>5. ASSUME NEW c \in Conns, AddRegion(c) PROVE TypeOK'
  BY <1>5 DEF AddRegion
<1>6. ASSUME NEW c \in Conns, AnnounceOnline(c) PROVE TypeOK'
  BY <1>6 DEF AnnounceOnline, Broadcast
<1>7. ASSUME NEW c \in Conns, DropRegion(c) PROVE TypeOK'
  BY <1>7 DEF DropRegion
<1>8. ASSUME NEW c \in Conns, Recount(c) PROVE TypeOK'
  BY <1>8 DEF Recount
<1>9. ASSUME NEW c \in Conns, DropOnline(c) PROVE TypeOK'
  BY <1>9 DEF DropOnline
<1>10. ASSUME NEW c \in Conns, AnnounceOffline(c) PROVE TypeOK'
  BY <1>10 DEF AnnounceOffline, Broadcast
<1>11. ASSUME NEW c \in Conns, DropSession(c) PROVE TypeOK'
  BY <1>11 DEF DropSession, NoteMix
<1>12. ASSUME NEW c \in Conns, DeleteFails(c) PROVE TypeOK'
  BY <1>12 DEF DeleteFails
<1>13. ASSUME NEW c \in Conns, CountPanics(c) PROVE TypeOK'
  BY <1>13 DEF CountPanics
<1>14. ASSUME NEW r \in Regions, Crash(r) PROVE TypeOK'
  BY <1>14 DEF Crash, WhereItDied
<1>15. ASSUME NEW r \in Regions, Restart(r) PROVE TypeOK'
  BY <1>15 DEF Restart
<1>16. ASSUME NEW r \in Regions, SweepSession(r) PROVE TypeOK'
  BY <1>16 DEF SweepSession
<1>17. ASSUME NEW r \in Regions, SweepRecount(r) PROVE TypeOK'
  BY <1>17 DEF SweepRecount
<1>18. ASSUME NEW r \in Regions, SweepOnline(r) PROVE TypeOK'
  BY <1>18 DEF SweepOnline
<1>19. ASSUME NEW r \in Regions, SweepDone(r) PROVE TypeOK'
  BY <1>19 DEF SweepDone
<1>20. CASE UNCHANGED vars
  BY <1>20 DEF vars
<1> QED
  BY <1>1, <1>2, <1>3, <1>4, <1>5, <1>6, <1>7, <1>8, <1>9, <1>10, <1>11,
     <1>12, <1>13, <1>14, <1>15, <1>16, <1>17, <1>18, <1>19, <1>20
     DEF Next, Progress, Recover

\* Every step keeps the sets wired.
LEMMA WiredStep == TypeOK /\ Wired /\ [Next]_vars => Wired'
<1> SUFFICES ASSUME TypeOK, Wired, [Next]_vars PROVE Wired'
  OBVIOUS
<1> USE PresenceAssumption DEF TypeOK, Goto, Redis, Sweeper, History, Opening, Closing,
        Ended, Alive, SweepStep
<1>1. ASSUME NEW c \in Conns, CountSessions(c) PROVE Wired'
  BY <1>1 DEF CountSessions, NoteMix, Wired
<1>2. ASSUME NEW c \in Conns, CreateFails(c) PROVE Wired'
  BY <1>2 DEF CreateFails, Wired
<1>3. ASSUME NEW c \in Conns, AddSession(c) PROVE Wired'
  BY <1>3 DEF AddSession, Wired
<1>4. ASSUME NEW c \in Conns, AddOnline(c) PROVE Wired'
  BY <1>4 DEF AddOnline, Wired
<1>5. ASSUME NEW c \in Conns, AddRegion(c) PROVE Wired'
  BY <1>5 DEF AddRegion, Wired
<1>6. ASSUME NEW c \in Conns, AnnounceOnline(c) PROVE Wired'
  BY <1>6 DEF AnnounceOnline, Broadcast, Wired
<1>7. ASSUME NEW c \in Conns, DropRegion(c) PROVE Wired'
  BY <1>7 DEF DropRegion, Wired
<1>8. ASSUME NEW c \in Conns, Recount(c) PROVE Wired'
  BY <1>8 DEF Recount, Wired
<1>9. ASSUME NEW c \in Conns, DropOnline(c) PROVE Wired'
  BY <1>9 DEF DropOnline, Wired
<1>10. ASSUME NEW c \in Conns, AnnounceOffline(c) PROVE Wired'
  BY <1>10 DEF AnnounceOffline, Broadcast, Wired
<1>11. ASSUME NEW c \in Conns, DropSession(c) PROVE Wired'
  BY <1>11 DEF DropSession, NoteMix, Wired
<1>12. ASSUME NEW c \in Conns, DeleteFails(c) PROVE Wired'
  BY <1>12 DEF DeleteFails, Wired
<1>13. ASSUME NEW c \in Conns, CountPanics(c) PROVE Wired'
  BY <1>13 DEF CountPanics, Wired
<1>14. ASSUME NEW r \in Regions, Crash(r) PROVE Wired'
  BY <1>14 DEF Crash, WhereItDied, Wired
<1>15. ASSUME NEW r \in Regions, Restart(r) PROVE Wired'
  BY <1>15 DEF Restart, Wired
<1>16. ASSUME NEW r \in Regions, SweepSession(r) PROVE Wired'
  BY <1>16 DEF SweepSession, Wired
<1>17. ASSUME NEW r \in Regions, SweepRecount(r) PROVE Wired'
  <2>1. PICK c \in Conns :
          /\ sweeping[r] = {<<c, "recount">>}
          /\ sweeping' = [sweeping EXCEPT ![r] =
                IF sessions[UserOf[c]] = {} THEN {<<c, "dropOnline">>} ELSE {}]
    BY <1>17 DEF SweepRecount
  <2>2. <<c, "recount">>[1] \in region[r] /\ process[r] = "clearing"
    BY <2>1 DEF Wired
  <2>3. \A t \in sweeping'[r] : t[1] \in region[r]
    BY <2>1, <2>2
  <2> QED
    BY <1>17, <2>1, <2>2, <2>3 DEF SweepRecount, Wired
<1>18. ASSUME NEW r \in Regions, SweepOnline(r) PROVE Wired'
  BY <1>18 DEF SweepOnline, Wired
<1>19. ASSUME NEW r \in Regions, SweepDone(r) PROVE Wired'
  BY <1>19 DEF SweepDone, Wired
<1>20. CASE UNCHANGED vars
  BY <1>20 DEF vars, Wired
<1> QED
  BY <1>1, <1>2, <1>3, <1>4, <1>5, <1>6, <1>7, <1>8, <1>9, <1>10, <1>11,
     <1>12, <1>13, <1>14, <1>15, <1>16, <1>17, <1>18, <1>19, <1>20
     DEF Next, Progress, Recover

\* Every step keeps the records of each connection in order.
LEMMA RecordedStep == TypeOK /\ Wired /\ Recorded /\ [Next]_vars => Recorded'
<1> SUFFICES ASSUME TypeOK, Wired, Recorded, [Next]_vars PROVE Recorded'
  OBVIOUS
<1> USE PresenceAssumption DEF TypeOK, Goto, Redis, Sweeper, History, Opening, Closing,
        Ended, Alive, SweepStep
<1>1. ASSUME NEW c \in Conns, CountSessions(c) PROVE Recorded'
  BY <1>1 DEF CountSessions, NoteMix, Wired, Recorded
<1>2. ASSUME NEW c \in Conns, CreateFails(c) PROVE Recorded'
  BY <1>2 DEF CreateFails, Wired, Recorded
<1>3. ASSUME NEW c \in Conns, AddSession(c) PROVE Recorded'
  BY <1>3 DEF AddSession, Wired, Recorded
<1>4. ASSUME NEW c \in Conns, AddOnline(c) PROVE Recorded'
  BY <1>4 DEF AddOnline, Wired, Recorded
<1>5. ASSUME NEW c \in Conns, AddRegion(c) PROVE Recorded'
  BY <1>5 DEF AddRegion, Wired, Recorded
<1>6. ASSUME NEW c \in Conns, AnnounceOnline(c) PROVE Recorded'
  BY <1>6 DEF AnnounceOnline, Broadcast, Wired, Recorded
<1>7. ASSUME NEW c \in Conns, DropRegion(c) PROVE Recorded'
  BY <1>7 DEF DropRegion, Wired, Recorded
<1>8. ASSUME NEW c \in Conns, Recount(c) PROVE Recorded'
  BY <1>8 DEF Recount, Wired, Recorded
<1>9. ASSUME NEW c \in Conns, DropOnline(c) PROVE Recorded'
  BY <1>9 DEF DropOnline, Wired, Recorded
<1>10. ASSUME NEW c \in Conns, AnnounceOffline(c) PROVE Recorded'
  BY <1>10 DEF AnnounceOffline, Broadcast, Wired, Recorded
<1>11. ASSUME NEW c \in Conns, DropSession(c) PROVE Recorded'
  BY <1>11 DEF DropSession, NoteMix, Wired, Recorded
<1>12. ASSUME NEW c \in Conns, DeleteFails(c) PROVE Recorded'
  BY <1>12 DEF DeleteFails, Wired, Recorded
<1>13. ASSUME NEW c \in Conns, CountPanics(c) PROVE Recorded'
  BY <1>13 DEF CountPanics, Wired, Recorded
<1>14. ASSUME NEW r \in Regions, Crash(r) PROVE Recorded'
  BY <1>14 DEF Crash, WhereItDied, Wired, Recorded
<1>15. ASSUME NEW r \in Regions, Restart(r) PROVE Recorded'
  BY <1>15 DEF Restart, Wired, Recorded
<1>16. ASSUME NEW r \in Regions, SweepSession(r) PROVE Recorded'
  BY <1>16 DEF SweepSession, Wired, Recorded
<1>17. ASSUME NEW r \in Regions, SweepRecount(r) PROVE Recorded'
  BY <1>17 DEF SweepRecount, Wired, Recorded
<1>18. ASSUME NEW r \in Regions, SweepOnline(r) PROVE Recorded'
  BY <1>18 DEF SweepOnline, Wired, Recorded
<1>19. ASSUME NEW r \in Regions, SweepDone(r) PROVE Recorded'
  BY <1>19 DEF SweepDone, Wired, Recorded
<1>20. CASE UNCHANGED vars
  BY <1>20 DEF vars, Wired, Recorded
<1> QED
  BY <1>1, <1>2, <1>3, <1>4, <1>5, <1>6, <1>7, <1>8, <1>9, <1>10, <1>11,
     <1>12, <1>13, <1>14, <1>15, <1>16, <1>17, <1>18, <1>19, <1>20
     DEF Next, Progress, Recover

\* Every step leaves somebody to take a user without sessions off `online`.
LEMMA AnsweredStep ==
    TypeOK /\ Wired /\ Recorded /\ Answered /\ [Next]_vars => Answered'
<1> SUFFICES ASSUME TypeOK, Wired, Recorded, Answered, [Next]_vars PROVE Answered'
  OBVIOUS
<1> USE PresenceAssumption DEF TypeOK, Goto, Redis, Sweeper, History, Opening, Closing,
        Ended, Alive, SweepStep, ConnsOf
<1>1. ASSUME NEW c \in Conns, CountSessions(c) PROVE Answered'
  BY <1>1 DEF CountSessions, NoteMix, Wired, Recorded, Answered, Answers
<1>2. ASSUME NEW c \in Conns, CreateFails(c) PROVE Answered'
  BY <1>2 DEF CreateFails, Wired, Recorded, Answered, Answers
<1>3. ASSUME NEW c \in Conns, AddSession(c) PROVE Answered'
  BY <1>3 DEF AddSession, Wired, Recorded, Answered, Answers
<1>4. ASSUME NEW c \in Conns, AddOnline(c) PROVE Answered'
  BY <1>4 DEF AddOnline, Wired, Recorded, Answered, Answers
<1>5. ASSUME NEW c \in Conns, AddRegion(c) PROVE Answered'
  BY <1>5 DEF AddRegion, Wired, Recorded, Answered, Answers
<1>6. ASSUME NEW c \in Conns, AnnounceOnline(c) PROVE Answered'
  BY <1>6 DEF AnnounceOnline, Broadcast, Wired, Recorded, Answered, Answers
<1>7. ASSUME NEW c \in Conns, DropRegion(c) PROVE Answered'
  BY <1>7 DEF DropRegion, Wired, Recorded, Answered, Answers
<1>8. ASSUME NEW c \in Conns, Recount(c) PROVE Answered'
  BY <1>8 DEF Recount, Wired, Recorded, Answered, Answers
<1>9. ASSUME NEW c \in Conns, DropOnline(c) PROVE Answered'
  BY <1>9 DEF DropOnline, Wired, Recorded, Answered, Answers
<1>10. ASSUME NEW c \in Conns, AnnounceOffline(c) PROVE Answered'
  BY <1>10 DEF AnnounceOffline, Broadcast, Wired, Recorded, Answered, Answers
<1>11. ASSUME NEW c \in Conns, DropSession(c) PROVE Answered'
  BY <1>11 DEF DropSession, NoteMix, Wired, Recorded, Answered, Answers
<1>12. ASSUME NEW c \in Conns, DeleteFails(c) PROVE Answered'
  BY <1>12 DEF DeleteFails, Wired, Recorded, Answered, Answers
<1>13. ASSUME NEW c \in Conns, CountPanics(c) PROVE Answered'
  BY <1>13 DEF CountPanics, Wired, Recorded, Answered, Answers
<1>14. ASSUME NEW r \in Regions, Crash(r) PROVE Answered'
  BY <1>14 DEF Crash, WhereItDied, Wired, Recorded, Answered, Answers
<1>15. ASSUME NEW r \in Regions, Restart(r) PROVE Answered'
  BY <1>15 DEF Restart, Wired, Recorded, Answered, Answers
<1>16. ASSUME NEW r \in Regions, SweepSession(r) PROVE Answered'
  <2>1. PICK c \in sweep[r] :
          /\ sweeping[r] = {}
          /\ sessions' = [sessions EXCEPT ![UserOf[c]] = @ \ {c}]
          /\ sweep' = [sweep EXCEPT ![r] = @ \ {c}]
          /\ sweeping' = [sweeping EXCEPT ![r] = {<<c, "recount">>}]
    BY <1>16 DEF SweepSession
  <2>2. c \in Conns /\ RegionOf[c] = r /\ process[r] = "clearing"
    BY <2>1 DEF Wired
  <2>3. Answers(c)'
    <3>1. <<c, "recount">> \in sweeping'[RegionOf[c]] /\ <<c, "recount">>[1] = c
      BY <2>1, <2>2
    <3> QED
      BY <3>1 DEF Answers
  <2>4. ASSUME NEW d \in Conns, d # c, Answers(d) PROVE Answers(d)'
    BY <1>16, <2>1, <2>2, <2>4 DEF SweepSession, Answers
  <2> QED
    BY <1>16, <2>1, <2>2, <2>3, <2>4 DEF SweepSession, Answered
<1>17. ASSUME NEW r \in Regions, SweepRecount(r) PROVE Answered'
  <2>1. PICK c \in Conns :
          /\ sweeping[r] = {<<c, "recount">>}
          /\ sweeping' = [sweeping EXCEPT ![r] =
                IF sessions[UserOf[c]] = {} THEN {<<c, "dropOnline">>} ELSE {}]
    BY <1>17 DEF SweepRecount
  <2>2. <<c, "recount">>[1] = c /\ <<c, "dropOnline">>[1] = c
    OBVIOUS
  <2>3. c \in region[r] /\ RegionOf[c] = r
    <3>1. <<c, "recount">>[1] \in region[r]
      BY <2>1 DEF Wired
    <3> QED
      BY <2>2, <3>1 DEF Wired
  <2>4. ASSUME sessions[UserOf[c]] = {} PROVE Answers(c)'
    <3>1. <<c, "dropOnline">> \in sweeping'[RegionOf[c]]
      BY <2>1, <2>3, <2>4
    <3> QED
      BY <3>1, <2>2 DEF Answers
  <2>5. ASSUME NEW d \in Conns, d # c, Answers(d) PROVE Answers(d)'
    BY <1>17, <2>1, <2>2, <2>3, <2>5 DEF SweepRecount, Answers
  <2> QED
    BY <1>17, <2>1, <2>3, <2>4, <2>5 DEF SweepRecount, Answered
<1>18. ASSUME NEW r \in Regions, SweepOnline(r) PROVE Answered'
  BY <1>18 DEF SweepOnline, Wired, Recorded, Answered, Answers
<1>19. ASSUME NEW r \in Regions, SweepDone(r) PROVE Answered'
  BY <1>19 DEF SweepDone, Wired, Recorded, Answered, Answers
<1>20. CASE UNCHANGED vars
  BY <1>20 DEF vars, Wired, Recorded, Answered, Answers
<1> QED
  BY <1>1, <1>2, <1>3, <1>4, <1>5, <1>6, <1>7, <1>8, <1>9, <1>10, <1>11,
     <1>12, <1>13, <1>14, <1>15, <1>16, <1>17, <1>18, <1>19, <1>20
     DEF Next, Progress, Recover


\* Every step keeps the bookkeeping of a clean user exact, or the user is clean
\* no more.
LEMMA CleanStep ==
    ASSUME TypeOK, Wired, Recorded, [Next]_vars, NEW u \in Users,
           u \notin (mixed \cup faulted) => Clean(u),
           u \notin (mixed \cup faulted)'
    PROVE  Clean(u)'
<1> USE PresenceAssumption DEF TypeOK, Goto, Redis, Sweeper, History, Opening, Closing,
        Ended, Alive, SweepStep, ConnsOf
<1>1. ASSUME NEW c \in Conns, CountSessions(c) PROVE Clean(u)'
  <2>1. Clean(u)
    BY <1>1 DEF CountSessions, NoteMix
  <2>2. CASE UserOf[c] # u
    BY <1>1, <2>1, <2>2 DEF CountSessions, NoteMix, Clean
  <2>3. CASE UserOf[c] = u
    <3>1. \A d \in Conns : UserOf[d] = u => pc[d] \notin Closing
      BY <1>1, <2>3 DEF CountSessions, NoteMix
    <3>2. /\ c \notin sessions[u]
          /\ c \notin region[RegionOf[c]]
      BY <1>1, <2>3 DEF CountSessions, Recorded
    <3>3. /\ pc' = [pc EXCEPT ![c] = "add"]
          /\ first' = [first EXCEPT ![c] = sessions[u] = {}]
          /\ UNCHANGED <<sessions, online, region, shown>>
      BY <1>1, <2>3 DEF CountSessions
    <3>4. (first'[c] <=> sessions[u] = {}) /\ \A d \in Conns \ {c} : first'[d] = first[d]
      BY <3>3
    <3>5. pc'[c] = "add" /\ \A d \in Conns \ {c} : pc'[d] = pc[d]
      BY <3>3
    <3>6. \A d \in Conns : UserOf[d] = u =>
            /\ pc'[d] \in {"idle", "gone"} \cup Alive
            /\ pc'[d] = "connected" => d \in sessions[u]
            /\ d \in region[RegionOf[d]] => pc'[d] \in {"announce", "connected", "dropRegion"}
            /\ pc'[d] \in {"addRegion", "announce", "connected"} => u \in online
            /\ pc'[d] \notin Closing
            /\ pc'[d] \in Opening /\ ~first'[d] => sessions[u] # {}
            /\ pc'[d] = "announce" => first'[d]
      BY <2>1, <3>1, <3>2, <3>4, <3>5 DEF Clean
    <3>7. \A d \in Conns : pc[d] \in Opening /\ first[d] => pc'[d] \in Opening /\ first'[d]
      BY <2>3, <3>4, <3>5, <1>1 DEF CountSessions
    <3> QED
      BY <2>1, <3>1, <3>3, <3>6, <3>7 DEF Clean
  <2> QED
    BY <2>2, <2>3
<1>2. ASSUME NEW c \in Conns, CreateFails(c) PROVE Clean(u)'
  BY <1>2 DEF CreateFails, Wired, Recorded, Clean
<1>3. ASSUME NEW c \in Conns, AddSession(c) PROVE Clean(u)'
  BY <1>3 DEF AddSession, Wired, Recorded, Clean
<1>4. ASSUME NEW c \in Conns, AddOnline(c) PROVE Clean(u)'
  BY <1>4 DEF AddOnline, Wired, Recorded, Clean
<1>5. ASSUME NEW c \in Conns, AddRegion(c) PROVE Clean(u)'
  BY <1>5 DEF AddRegion, Wired, Recorded, Clean
<1>6. ASSUME NEW c \in Conns, AnnounceOnline(c) PROVE Clean(u)'
  BY <1>6 DEF AnnounceOnline, Broadcast, Wired, Recorded, Clean
<1>7. ASSUME NEW c \in Conns, DropRegion(c) PROVE Clean(u)'
  BY <1>7 DEF DropRegion, Wired, Recorded, Clean
<1>8. ASSUME NEW c \in Conns, Recount(c) PROVE Clean(u)'
  BY <1>8 DEF Recount, Wired, Recorded, Clean
<1>9. ASSUME NEW c \in Conns, DropOnline(c) PROVE Clean(u)'
  BY <1>9 DEF DropOnline, Wired, Recorded, Clean
<1>10. ASSUME NEW c \in Conns, AnnounceOffline(c) PROVE Clean(u)'
  BY <1>10 DEF AnnounceOffline, Broadcast, Wired, Recorded, Clean
<1>11. ASSUME NEW c \in Conns, DropSession(c) PROVE Clean(u)'
  BY <1>11 DEF DropSession, NoteMix, Wired, Recorded, Clean
<1>12. ASSUME NEW c \in Conns, DeleteFails(c) PROVE Clean(u)'
  BY <1>12 DEF DeleteFails, Wired, Recorded, Clean
<1>13. ASSUME NEW c \in Conns, CountPanics(c) PROVE Clean(u)'
  BY <1>13 DEF CountPanics, Wired, Recorded, Clean
<1>14. ASSUME NEW r \in Regions, Crash(r) PROVE Clean(u)'
  BY <1>14 DEF Crash, WhereItDied, Wired, Recorded, Clean
<1>15. ASSUME NEW r \in Regions, Restart(r) PROVE Clean(u)'
  BY <1>15 DEF Restart, Wired, Recorded, Clean
<1>16. ASSUME NEW r \in Regions, SweepSession(r) PROVE Clean(u)'
  BY <1>16 DEF SweepSession, Wired, Recorded, Clean
<1>17. ASSUME NEW r \in Regions, SweepRecount(r) PROVE Clean(u)'
  BY <1>17 DEF SweepRecount, Wired, Recorded, Clean
<1>18. ASSUME NEW r \in Regions, SweepOnline(r) PROVE Clean(u)'
  <2>1. PICK c \in Conns :
          /\ sweeping[r] = {<<c, "dropOnline">>}
          /\ online' = online \ {UserOf[c]}
    BY <1>18 DEF SweepOnline
  <2>2. Clean(u)
    BY <1>18 DEF SweepOnline
  <2>3. <<c, "dropOnline">>[1] \in region[r] /\ process[r] = "clearing"
    BY <2>1 DEF Wired
  <2>4. c \in region[r] /\ RegionOf[c] = r
    BY <2>3 DEF Wired
  <2>5. UserOf[c] # u
    BY <2>2, <2>3, <2>4 DEF Clean, Wired
  <2> QED
    BY <1>18, <2>1, <2>2, <2>5 DEF SweepOnline, Clean
<1>19. ASSUME NEW r \in Regions, SweepDone(r) PROVE Clean(u)'
  BY <1>19 DEF SweepDone, Wired, Recorded, Clean
<1>20. CASE UNCHANGED vars
  BY <1>20 DEF vars, Wired, Recorded, Clean
<1> QED
  BY <1>1, <1>2, <1>3, <1>4, <1>5, <1>6, <1>7, <1>8, <1>9, <1>10, <1>11,
     <1>12, <1>13, <1>14, <1>15, <1>16, <1>17, <1>18, <1>19, <1>20
     DEF Next, Progress, Recover

\* Every step keeps the inductive invariant.
LEMMA StepInv == IInv /\ [Next]_vars => IInv'
<1> SUFFICES ASSUME IInv, [Next]_vars PROVE IInv'
  OBVIOUS
<1>1. TypeOK' /\ Wired' /\ Recorded' /\ Answered'
  BY TypeStep, WiredStep, RecordedStep, AnsweredStep DEF IInv
<1>2. ASSUME NEW u \in Users, u \notin (mixed \cup faulted)' PROVE Clean(u)'
  BY <1>2, CleanStep DEF IInv
<1> QED
  BY <1>1, <1>2 DEF IInv

\* The inductive invariant holds throughout, for any number of users, regions,
\* connections and crashes.
THEOREM Invariant == Spec => []IInv
BY InitInv, StepInv, PTL DEF Spec

\* The state always has its type.
THEOREM TypeCorrect == Spec => []TypeOK
<1>1. IInv => TypeOK
  BY DEF IInv
<1> QED
  BY <1>1, Invariant, PTL

\* Session set, user key, online set and last broadcast are exact for a quiet
\* user none of whose sessions opened while another closed, faults aside.
THEOREM Exactness == Spec => []ExactUnlessMixed
<1>1. IInv => ExactUnlessMixed
  <2> SUFFICES ASSUME IInv, NEW u \in Users, u \notin mixed \cup faulted, Quiet(u)
               PROVE  /\ sessions[u] = {c \in ConnsOf(u) : pc[c] = "connected"}
                      /\ u \in online <=> sessions[u] # {}
                      /\ u \notin Invisible => (shown[u] <=> sessions[u] # {})
    BY DEF ExactUnlessMixed
  <2> USE PresenceAssumption DEF ConnsOf, Opening, Closing, Ended, Alive
  <2>1. TypeOK /\ Wired /\ Recorded /\ Answered /\ Clean(u)
    BY DEF IInv
  <2>2. \A c \in Conns : UserOf[c] = u => pc[c] \in {"idle", "connected", "gone"}
    BY <2>1 DEF Quiet, Clean
  <2>3. \A c \in Conns : UserOf[c] = u => (c \in sessions[u] <=> pc[c] = "connected")
    BY <2>1, <2>2 DEF Clean, Recorded
  <2>4. \A c \in sessions[u] : c \in Conns /\ UserOf[c] = u
    BY <2>1 DEF TypeOK, Wired
  <2>5. sessions[u] = {c \in ConnsOf(u) : pc[c] = "connected"}
    BY <2>3, <2>4
  <2>6. sessions[u] # {} => u \in online
    BY <2>1, <2>3, <2>4 DEF Clean
  <2>7. sessions[u] = {} => u \notin online
    <3> SUFFICES ASSUME sessions[u] = {}, u \in online PROVE FALSE
      OBVIOUS
    <3>1. PICK c \in Conns : UserOf[c] = u /\ Answers(c)
      BY <2>1 DEF Answered
    <3>2. c \in region[RegionOf[c]]
      BY <2>1, <2>2, <3>1 DEF Answers, Wired, TypeOK
    <3> QED
      BY <2>1, <2>2, <2>3, <3>1, <3>2 DEF Clean
  <2>8. u \notin Invisible => (shown[u] <=> sessions[u] # {})
    BY <2>1, <2>2 DEF Clean, TypeOK
  <2> QED
    BY <2>5, <2>6, <2>7, <2>8
<1> QED
  BY <1>1, Invariant, PTL

\* A recorded session is always known to a live client or to its region, except
\* one whose process died between the writes of create_session.
THEOREM Tracking == Spec => []SessionsTracked
<1>1. IInv => SessionsTracked
  <2> SUFFICES ASSUME IInv, NEW u \in Users, NEW c \in sessions[u],
                      c \notin region[RegionOf[c]]
               PROVE  pc[c] \in {"addOnline", "addRegion", "announce", "connected",
                                 "orphaned"}
    BY DEF SessionsTracked
  <2>1. c \in Conns /\ UserOf[c] = u
    BY DEF IInv, TypeOK, Wired
  <2> QED
    BY <2>1 DEF IInv, Recorded, Opening
<1> QED
  BY <1>1, Invariant, PTL

\* Somebody always stands to take a user without sessions off `online`, unless
\* a delete_session was cut short.
THEOREM OnlineOwned == Spec => []StaleOnlineHasOwner
<1>1. IInv => StaleOnlineHasOwner
  <2> SUFFICES ASSUME IInv, NEW u \in online, sessions[u] = {}
               PROVE  \E c \in ConnsOf(u) :
                         \/ pc[c] \in {"recount", "dropOnline", "abandoned", "panicked"}
                         \/ c \in region[RegionOf[c]]
    BY DEF StaleOnlineHasOwner
  <2>1. PICK c \in ConnsOf(u) : Answers(c)
    BY DEF IInv, Answered
  <2>2. c \in Conns /\ RegionOf[c] \in Regions
    BY PresenceAssumption DEF ConnsOf
  <2> QED
    BY <2>1, <2>2 DEF Answers, IInv, Wired
<1> QED
  BY <1>1, Invariant, PTL
=============================================================================
