-------------------------- MODULE CoalescedPromise --------------------------
(***************************************************************************)
(* What the coalescion service promises the caller of `execute`, whatever  *)
(* the maps, locks and channels behind it: a value comes from a run of an  *)
(* action with the caller's own id, and never from a run that had been     *)
(* cleaned up before the call was made; a call is left without a value     *)
(* (RecvError) only if another call with its id was dropped.               *)
(***************************************************************************)
CONSTANTS Calls, Ids, None

VARIABLES
    id,      \* id[c]: the id of call c, None before it is made
    run,     \* run[c]: how far the action that c itself runs has come
    stale,   \* stale[c]: the runs that had been cleaned up when c was made
    answer   \* answer[c]: the run whose value c returned, an error, or None

vars == <<id, run, stale, answer>>

RunState == {"none", "running", "produced", "retired", "dropped"}

Refusal == {"MaxConcurrent", "MaxQueue"}

Init ==
    /\ id = [c \in Calls |-> None]
    /\ run = [c \in Calls |-> "none"]
    /\ stale = [c \in Calls |-> {}]
    /\ answer = [c \in Calls |-> None]

\* A call is made; it may be turned away at once.
Call(c, i) ==
    /\ id[c] = None
    /\ id' = [id EXCEPT ![c] = i]
    /\ stale' = [stale EXCEPT ![c] = {d \in Calls : run[d] = "retired"}]
    /\ \E a \in {None} \cup Refusal : answer' = [answer EXCEPT ![c] = a]
    /\ UNCHANGED run

\* The action behind a pending call starts, then produces its value.
Start(c) ==
    /\ id[c] # None /\ answer[c] = None /\ run[c] = "none"
    /\ run' = [run EXCEPT ![c] = "running"]
    /\ UNCHANGED <<id, stale, answer>>

Produce(c) ==
    /\ run[c] = "running"
    /\ run' = [run EXCEPT ![c] = "produced"]
    /\ UNCHANGED <<id, stale, answer>>

\* A run that is cleaned up answers its own call.
Retire(c) ==
    /\ run[c] = "produced"
    /\ run' = [run EXCEPT ![c] = "retired"]
    /\ answer' = [answer EXCEPT ![c] = c]
    /\ UNCHANGED <<id, stale>>

\* A pending call takes the value of somebody else's run.
Share(c, d) ==
    /\ answer[c] = None /\ run[c] = "none"
    /\ id[c] = id[d]
    /\ run[d] \in {"produced", "retired", "dropped"}
    /\ d \notin stale[c]
    /\ answer' = [answer EXCEPT ![c] = d]
    /\ UNCHANGED <<id, run, stale>>

Refuse(c) ==
    /\ id[c] # None /\ answer[c] = None /\ run[c] = "none"
    /\ \E e \in Refusal : answer' = [answer EXCEPT ![c] = e]
    /\ UNCHANGED <<id, run, stale>>

\* The sender a call waits for went away without a value.
Lose(c, d) ==
    /\ answer[c] = None /\ run[c] = "none"
    /\ id[c] = id[d]
    /\ run[d] = "dropped"
    /\ answer' = [answer EXCEPT ![c] = "RecvError"]
    /\ UNCHANGED <<id, run, stale>>

\* The future of a pending call is dropped.
Abandon(c) ==
    /\ id[c] # None /\ answer[c] = None
    /\ run' = [run EXCEPT ![c] = "dropped"]
    /\ UNCHANGED <<id, stale, answer>>

Next ==
    \E c \in Calls :
        \/ \E i \in Ids : Call(c, i)
        \/ Start(c) \/ Produce(c) \/ Retire(c) \/ Refuse(c) \/ Abandon(c)
        \/ \E d \in Calls : Share(c, d) \/ Lose(c, d)

Spec == Init /\ [][Next]_vars
=============================================================================
