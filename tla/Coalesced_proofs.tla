-------------------------- MODULE Coalesced_proofs --------------------------
(***************************************************************************)
(* Proofs about Coalesced: the inductive invariant, from which the types   *)
(* and the accounting of map entries follow, and that the service          *)
(* implements CoalescedPromise.                                            *)
(***************************************************************************)
EXTENDS Coalesced, TLAPS

\* Removing an element leaves a sequence over the same set.
LEMMA RemoveAtType ==
    ASSUME NEW S, NEW s \in Seq(S), NEW k \in DOMAIN s
    PROVE  RemoveAt(s, k) \in Seq(S)
<1>1. k \in 1 .. Len(s)
  OBVIOUS
<1>2. SubSeq(s, 1, k - 1) \in Seq(S) /\ SubSeq(s, k + 1, Len(s)) \in Seq(S)
  BY <1>1
<1> QED
  BY <1>2 DEF RemoveAt

\* The empty service satisfies the invariant.
LEMMA InitInv == Init => IInv
BY CoalescedAssumption
   DEF Init, IInv, TypeOK, Steps, Waiting, ChannelState, Receiver, EntriesAccounted, Phases,
       Channels, Receivers

\* Making a call keeps the invariant: a receiver is cloned out of `watchers`
\* only from an entry that is accounted for.
LEMMA ExecuteInv ==
    ASSUME IInv, NEW c \in Calls, NEW i \in Ids, Execute(c, i)
    PROVE  IInv'
<1> USE CoalescedAssumption DEF Goto, Return, WaitFor
<1>1. TypeOK'
  BY SMTT(60) DEF IInv, TypeOK, Execute, Steps, Waiting, Receiver, Error
<1>2. EntriesAccounted'
  BY DEF IInv, TypeOK, Execute, EntriesAccounted, Phases, Waiting
<1>3. Phases'
  BY DEF IInv, TypeOK, Execute, Phases, Waiting
<1>4. Channels'
  BY DEF IInv, TypeOK, Execute, Channels, Phases, Retired
<1>5. Receivers'
  BY DEF IInv, TypeOK, Execute, Receivers, EntriesAccounted, Phases, Retired, Receiver
<1>6. (\A d \in Calls : \A e \in over[d] : Retired(e))'
  BY DEF IInv, TypeOK, Execute, Phases, Retired
<1> QED
  BY <1>1, <1>2, <1>3, <1>4, <1>5, <1>6 DEF IInv

\* A call that finds its id queued listens to the call that owns the entry.
LEMMA LookupQueueInv ==
    ASSUME IInv, NEW c \in Calls, LookupQueue(c)
    PROVE  IInv'
<1> USE CoalescedAssumption DEF Goto, Return, WaitFor, IInv, TypeOK
<1>1. TypeOK'
  BY SMTT(60)
  DEF LookupQueue, Queued, Steps, Waiting, Receiver, Error, Receivers, ChannelState, Phases
<1>2. EntriesAccounted'
  BY DEF LookupQueue, Queued, EntriesAccounted, Phases, Waiting
<1>3. Phases'
  BY DEF LookupQueue, Queued, Phases, Waiting, Receivers, Receiver, Error
<1>4. Channels'
  BY DEF LookupQueue, Queued, Channels, ChannelState, Phases, Waiting, Retired
<1>5. Receivers'
  BY DEF LookupQueue, Queued, Receivers, EntriesAccounted, Phases, Retired, Receiver
<1>6. (\A d \in Calls : \A e \in over[d] : Retired(e))'
  BY DEF LookupQueue, Queued, Phases, Retired, Waiting
<1> QED
  BY <1>1, <1>2, <1>3, <1>4, <1>5, <1>6 DEF IInv

\* Joining the queue makes the caller the owner of the entry under its id.
LEMMA EnqueueInv ==
    ASSUME IInv, NEW c \in Calls, Enqueue(c)
    PROVE  IInv'
<1> USE CoalescedAssumption DEF Goto, Return, WaitFor, IInv, TypeOK
<1>1. TypeOK'
  BY DEF Enqueue, Steps, Waiting, Receiver, Error, Receivers, ChannelState, Phases
<1>2. EntriesAccounted'
  BY DEF Enqueue, EntriesAccounted, Phases, Waiting
<1>3. Phases'
  BY DEF Enqueue, Phases, Waiting, Receivers, Receiver, Error
<1>4. Channels'
  BY DEF Enqueue, Channels, ChannelState, Phases, Waiting, Retired
<1>5. Receivers'
  BY DEF Enqueue, Receivers, EntriesAccounted, Phases, Retired, Receiver
<1>6. (\A d \in Calls : \A e \in over[d] : Retired(e))'
  BY DEF Enqueue, Phases, Retired, Waiting
<1> QED
  BY <1>1, <1>2, <1>3, <1>4, <1>5, <1>6 DEF IInv

\* Polling the two maps changes nothing but the step of the caller.
LEMMA PollInv ==
    ASSUME IInv, NEW c \in Calls, PollLength(c) \/ PollHead(c)
    PROVE  IInv'
<1> USE CoalescedAssumption DEF Goto, Return, WaitFor, IInv, TypeOK
<1>1. TypeOK'
  BY DEF PollLength, PollHead, Steps, Waiting, Receiver, Error, Receivers, ChannelState, Phases
<1>2. EntriesAccounted'
  BY DEF PollLength, PollHead, EntriesAccounted, Phases, Waiting
<1>3. Phases'
  BY DEF PollLength, PollHead, Phases, Waiting, Receivers, Receiver, Error
<1>4. Channels'
  BY DEF PollLength, PollHead, Channels, ChannelState, Phases, Waiting, Retired
<1>5. Receivers'
  BY DEF PollLength, PollHead, Receivers, EntriesAccounted, Phases, Retired, Receiver
<1>6. (\A d \in Calls : \A e \in over[d] : Retired(e))'
  BY DEF PollLength, PollHead, Phases, Retired, Waiting
<1> QED
  BY <1>1, <1>2, <1>3, <1>4, <1>5, <1>6 DEF IInv

\* Taking a turn removes whatever entry stands under the id.
LEMMA DequeueInv ==
    ASSUME IInv, NEW c \in Calls, Dequeue(c)
    PROVE  IInv'
<1> USE CoalescedAssumption DEF Goto, Return, WaitFor, IInv, TypeOK
<1>1. TypeOK'
  <2>1. order' \in Seq(Ids)
    BY RemoveAtType DEF Dequeue
  <2> QED
    BY <2>1 DEF Dequeue, Steps, Waiting, Phases
<1>2. EntriesAccounted'
  BY DEF Dequeue, EntriesAccounted, Phases, Waiting
<1>3. Phases'
  BY DEF Dequeue, Phases, Waiting, Receivers, Receiver, Error
<1>4. Channels'
  BY DEF Dequeue, Channels, ChannelState, Phases, Waiting, Retired
<1>5. Receivers'
  BY DEF Dequeue, Receivers, EntriesAccounted, Phases, Retired, Receiver
<1>6. (\A d \in Calls : \A e \in over[d] : Retired(e))'
  BY DEF Dequeue, Phases, Retired, Waiting
<1> QED
  BY <1>1, <1>2, <1>3, <1>4, <1>5, <1>6 DEF IInv

\* Registering a run replaces whatever entry stood under the id.
LEMMA InsertWatcherInv ==
    ASSUME IInv, NEW c \in Calls, InsertWatcher(c)
    PROVE  IInv'
<1> USE CoalescedAssumption DEF Goto, Return, WaitFor, IInv, TypeOK
<1>1. TypeOK'
  BY DEF InsertWatcher, Steps, Waiting, Receiver, Error, Receivers, ChannelState, Phases
<1>2. EntriesAccounted'
  BY DEF InsertWatcher, EntriesAccounted, Phases, Waiting
<1>3. Phases'
  BY DEF InsertWatcher, Phases, Waiting, Receivers, Receiver, Error
<1>4. Channels'
  BY DEF InsertWatcher, Channels, ChannelState, Phases, Waiting, Retired
<1>5. Receivers'
  BY DEF InsertWatcher, Receivers, EntriesAccounted, Phases, Retired, Receiver
<1>6. (\A d \in Calls : \A e \in over[d] : Retired(e))'
  BY DEF InsertWatcher, Phases, Retired, Waiting
<1> QED
  BY <1>1, <1>2, <1>3, <1>4, <1>5, <1>6 DEF IInv

\* A run that sends its value keeps its entry accounted for.
LEMMA FinishRunInv ==
    ASSUME IInv, NEW c \in Calls, FinishRun(c)
    PROVE  IInv'
<1> USE CoalescedAssumption DEF Goto, Return, WaitFor, IInv, TypeOK
<1>1. TypeOK'
  BY DEF FinishRun, Steps, Waiting, Receiver, Error, Receivers, ChannelState, Phases
<1>2. EntriesAccounted'
  BY DEF FinishRun, EntriesAccounted, Phases, Waiting
<1>3. Phases'
  BY DEF FinishRun, Phases, Waiting, Receivers, Receiver, Error
<1>4. Channels'
  BY DEF FinishRun, Channels, ChannelState, Phases, Waiting, Retired
<1>5. Receivers'
  BY DEF FinishRun, Receivers, EntriesAccounted, Phases, Retired, Receiver
<1>6. (\A d \in Calls : \A e \in over[d] : Retired(e))'
  BY DEF FinishRun, Phases, Retired, Waiting
<1> QED
  BY <1>1, <1>2, <1>3, <1>4, <1>5, <1>6 DEF IInv

\* Cleaning up a run removes whatever entry stands under the id, so none of
\* this run is left.
LEMMA RemoveWatcherInv ==
    ASSUME IInv, NEW c \in Calls, RemoveWatcher(c)
    PROVE  IInv'
<1> USE CoalescedAssumption DEF Goto, Return, WaitFor, IInv, TypeOK
<1>1. TypeOK'
  BY DEF RemoveWatcher, Steps, Waiting, Receiver, Error, Receivers, ChannelState, Phases
<1>2. EntriesAccounted'
  BY DEF RemoveWatcher, EntriesAccounted, Phases, Waiting
<1>3. Phases'
  BY DEF RemoveWatcher, Phases, Waiting, Receivers, Receiver, Error
<1>4. Channels'
  BY DEF RemoveWatcher, Channels, ChannelState, Phases, Waiting, Retired
<1>5. Receivers'
  BY DEF RemoveWatcher, Receivers, EntriesAccounted, Phases, Retired, Receiver
<1>6. (\A d \in Calls : \A e \in over[d] : Retired(e))'
  BY DEF RemoveWatcher, Phases, Retired, Waiting
<1> QED
  BY <1>1, <1>2, <1>3, <1>4, <1>5, <1>6 DEF IInv

\* Sending on the turn channel comes after the clean-up.
LEMMA PublishInv ==
    ASSUME IInv, NEW c \in Calls, Publish(c)
    PROVE  IInv'
<1> USE CoalescedAssumption DEF Goto, Return, WaitFor, IInv, TypeOK
<1>1. TypeOK'
  BY DEF Publish, Steps, Waiting, Receiver, Error, Receivers, ChannelState, Phases
<1>2. EntriesAccounted'
  BY DEF Publish, EntriesAccounted, Phases, Waiting
<1>3. Phases'
  BY DEF Publish, Phases, Waiting, Receivers, Receiver, Error
<1>4. Channels'
  BY DEF Publish, Channels, ChannelState, Phases, Waiting, Retired
<1>5. Receivers'
  BY DEF Publish, Receivers, EntriesAccounted, Phases, Retired, Receiver
<1>6. (\A d \in Calls : \A e \in over[d] : Retired(e))'
  BY DEF Publish, Phases, Retired, Waiting
<1> QED
  BY <1>1, <1>2, <1>3, <1>4, <1>5, <1>6 DEF IInv

\* Receiving ends a call that owns no entry.
LEMMA ReceiveInv ==
    ASSUME IInv, NEW c \in Calls, Receive(c)
    PROVE  IInv'
<1> USE CoalescedAssumption DEF Goto, Return, WaitFor, IInv, TypeOK
<1>1. TypeOK'
  BY DEF Receive, SenderState, Steps, Waiting, Receiver, Error, Receivers, ChannelState, Phases
<1>2. EntriesAccounted'
  BY DEF Receive, SenderState, EntriesAccounted, Phases, Waiting
<1>3. Phases'
  BY DEF Receive, SenderState, Phases, Waiting, Receivers, Receiver, Error
<1>4. Channels'
  BY DEF Receive, SenderState, Channels, ChannelState, Phases, Waiting, Retired
<1>5. Receivers'
  BY DEF Receive, SenderState, Receivers, EntriesAccounted, Phases, Retired, Receiver
<1>6. (\A d \in Calls : \A e \in over[d] : Retired(e))'
  BY DEF Receive, SenderState, Phases, Retired, Waiting
<1> QED
  BY <1>1, <1>2, <1>3, <1>4, <1>5, <1>6 DEF IInv

\* Dropping a call closes its channels and leaves its entries, accounted for.
LEMMA DropInv ==
    ASSUME IInv, NEW c \in Calls, Drop(c)
    PROVE  IInv'
<1> USE CoalescedAssumption DEF Goto, Return, WaitFor, IInv, TypeOK
<1>1. TypeOK'
  BY DEF Drop, Steps, Waiting, Receiver, Error, Receivers, ChannelState, Phases
<1>2. EntriesAccounted'
  BY DEF Drop, EntriesAccounted, Phases, Waiting
<1>3. Phases'
  BY DEF Drop, Phases, Waiting, Receivers, Receiver, Error
<1>4. Channels'
  BY DEF Drop, Channels, ChannelState, Phases, Waiting, Retired
<1>5. Receivers'
  BY DEF Drop, Receivers, EntriesAccounted, Phases, Retired, Receiver
<1>6. (\A d \in Calls : \A e \in over[d] : Retired(e))'
  BY DEF Drop, Phases, Retired, Waiting
<1> QED
  BY <1>1, <1>2, <1>3, <1>4, <1>5, <1>6 DEF IInv

\* Every step keeps the invariant.
LEMMA StepInv == IInv /\ [Next]_vars => IInv'
<1> SUFFICES ASSUME IInv, [Next]_vars PROVE IInv'
  OBVIOUS
<1>1. CASE UNCHANGED vars
  BY <1>1 DEF vars, IInv, TypeOK, EntriesAccounted, Phases, Channels, Receivers, Retired
<1>2. ASSUME NEW c \in Calls, NEW i \in Ids, Execute(c, i) PROVE IInv'
  BY <1>2, ExecuteInv
<1>3. ASSUME NEW c \in Calls, Progress(c) PROVE IInv'
  BY <1>3, LookupQueueInv, EnqueueInv, PollInv, DequeueInv, InsertWatcherInv,
     FinishRunInv, RemoveWatcherInv, PublishInv, ReceiveInv DEF Progress
<1>4. ASSUME NEW c \in Calls, Drop(c) PROVE IInv'
  BY <1>4, DropInv
<1> QED
  BY <1>1, <1>2, <1>3, <1>4 DEF Next

\* The inductive invariant holds throughout, for any number of calls and ids
\* and every configuration of the service.
THEOREM Invariant == Spec => []IInv
BY InitInv, StepInv, PTL DEF Spec

\* The state always has its type.
THEOREM TypeCorrect == Spec => []TypeOK
<1>1. IInv => TypeOK
  BY DEF IInv
<1> QED
  BY <1>1, Invariant, PTL

\* No interleaving leaves an entry behind in `watchers` or `queue`, except the
\* entries of calls whose future was dropped.
THEOREM NoEntryLeaks == Spec => []EntriesAccounted
<1>1. IInv => EntriesAccounted
  BY DEF IInv
<1> QED
  BY <1>1, Invariant, PTL

-----------------------------------------------------------------------------
(* The service implements CoalescedPromise *)

\* Before any call the service is in the initial state of the promise.
LEMMA PromiseInit == Init => Promise!Init
BY DEF Init, Promise!Init, RunOf, Retired

\* Every step of the service is a step of the promise, or leaves it unchanged.
LEMMA PromiseStep == IInv /\ [Next]_vars => [Promise!Next]_(Promise!vars)
<1> SUFFICES ASSUME IInv, [Next]_vars PROVE [Promise!Next]_(Promise!vars)
  OBVIOUS
<1> DEFINE run == [d \in Calls |-> RunOf(d)]
<1> USE CoalescedAssumption DEF IInv, TypeOK, Goto, Return, WaitFor
<1>1. CASE UNCHANGED vars
  BY <1>1 DEF vars, Promise!vars, RunOf, Retired
<1>2. ASSUME NEW c \in Calls, NEW i \in Ids, Execute(c, i)
      PROVE  Promise!Call(c, i)
  <2>1. run' = run
    BY <1>2 DEF Execute, RunOf, Retired, Phases, Error
  <2>2. over' = [over EXCEPT ![c] = {d \in Calls : run[d] = "retired"}]
    BY <1>2 DEF Execute, RunOf, Retired
  <2>3. id[c] = None /\ result[c] = None
    BY <1>2 DEF Execute, Phases
  <2>4. result' \in {[result EXCEPT ![c] = None], [result EXCEPT ![c] = "MaxConcurrent"]}
    <3>1. result = [result EXCEPT ![c] = None]
      BY <2>3
    <3> QED
      BY <1>2, <3>1 DEF Execute
  <2>5. id' = [id EXCEPT ![c] = i]
    BY <1>2 DEF Execute
  <2> QED
    BY <2>1, <2>2, <2>3, <2>4, <2>5 DEF Promise!Call, Promise!Refusal
<1>3. ASSUME NEW c \in Calls, LookupQueue(c)
      PROVE  Promise!Refuse(c) \/ UNCHANGED Promise!vars
  <2>1. run' = run
    BY <1>3 DEF LookupQueue, RunOf, Retired, Phases, Error
  <2>2. run[c] = "none" /\ id[c] # None /\ result[c] = None
    BY <1>3 DEF LookupQueue, RunOf, Retired, Phases, Waiting
  <2> QED
    BY <1>3, <2>1, <2>2 DEF LookupQueue, Promise!Refuse, Promise!Refusal, Promise!vars
<1>4. ASSUME NEW c \in Calls, Enqueue(c) \/ PollLength(c) \/ PollHead(c) \/ Dequeue(c)
      PROVE  UNCHANGED Promise!vars
  BY <1>4 DEF Enqueue, PollLength, PollHead, Dequeue, RunOf, Retired, Promise!vars
<1>5. ASSUME NEW c \in Calls, InsertWatcher(c)
      PROVE  Promise!Start(c)
  <2>1. run' = [run EXCEPT ![c] = "running"]
    BY <1>5 DEF InsertWatcher, RunOf, Retired
  <2>2. run[c] = "none" /\ id[c] # None /\ result[c] = None
    BY <1>5 DEF InsertWatcher, RunOf, Retired, Phases, Waiting
  <2> QED
    BY <1>5, <2>1, <2>2 DEF InsertWatcher, Promise!Start
<1>6. ASSUME NEW c \in Calls, FinishRun(c)
      PROVE  Promise!Produce(c)
  <2>1. run[c] = "running" /\ run' = [run EXCEPT ![c] = "produced"]
    BY <1>6, ZenonT(60) DEF FinishRun, RunOf, Retired
  <2> QED
    BY <1>6, <2>1 DEF FinishRun, Promise!Produce
<1>7. ASSUME NEW c \in Calls, RemoveWatcher(c)
      PROVE  Promise!Retire(c)
  <2>1. run[c] = "produced" /\ run' = [run EXCEPT ![c] = "retired"]
    BY <1>7, ZenonT(60) DEF RemoveWatcher, RunOf, Retired
  <2> QED
    BY <1>7, <2>1 DEF RemoveWatcher, Promise!Retire
<1>8. ASSUME NEW c \in Calls, Publish(c)
      PROVE  UNCHANGED Promise!vars
  BY <1>8 DEF Publish, RunOf, Retired, Promise!vars, Phases
<1>9. ASSUME NEW c \in Calls, Receive(c)
      PROVE  \E d \in Calls : Promise!Share(c, d) \/ Promise!Lose(c, d)
  <2> DEFINE d == waitsOn[c][2]
  <2>1. /\ d \in Calls /\ d # c /\ id[d] = id[c] /\ d \notin over[c]
        /\ result[c] = None
    BY <1>9 DEF Receive, Receivers, Receiver, Phases, Waiting
  <2>2. run[c] = "none" /\ run' = run
    BY <1>9, <2>1 DEF Receive, RunOf, Retired, Error, Waiting
  <2>3. CASE SenderState(waitsOn[c]) = "sent"
    <3>1. run[d] \in {"produced", "retired", "dropped"}
      BY <2>1, <2>3 DEF SenderState, Channels, RunOf, Retired
    <3> QED
      BY <1>9, <2>1, <2>2, <2>3, <3>1 DEF Receive, Promise!Share
  <2>4. CASE SenderState(waitsOn[c]) # "sent"
    <3>1. SenderState(waitsOn[c]) = "closed"
      BY <1>9, <2>1, <2>4 DEF Receive, SenderState, ChannelState
    <3>2. run[d] = "dropped"
      BY <2>1, <3>1 DEF SenderState, Channels, RunOf, Retired
    <3> QED
      BY <1>9, <2>1, <2>2, <2>4, <3>2 DEF Receive, Promise!Lose
  <2> QED
    BY <2>1, <2>3, <2>4
<1>10. ASSUME NEW c \in Calls, Drop(c)
      PROVE  Promise!Abandon(c)
  <2>1. run' = [run EXCEPT ![c] = "dropped"]
    BY <1>10 DEF Drop, RunOf, Retired
  <2> QED
    BY <1>10, <2>1 DEF Drop, Promise!Abandon, Phases, Waiting
<1> QED
  BY <1>1, <1>2, <1>3, <1>4, <1>5, <1>6, <1>7, <1>8, <1>9, <1>10
     DEF Next, Progress, Promise!Next

\* The service implements CoalescedPromise: whatever the interleaving, a caller
\* gets the value of a run of its own id that had not been cleaned up when it
\* called, and RecvError only when a call with its id was dropped.
THEOREM Refinement == Spec => KeepsPromise
BY PromiseInit, PromiseStep, Invariant, PTL DEF Spec, KeepsPromise, Promise!Spec
=============================================================================
