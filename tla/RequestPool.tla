---------------------------- MODULE RequestPool ----------------------------
(***************************************************************************)
(* What the thread pool of afb-thread.c promises to those who submit       *)
(* requests to it, whatever its threads, its mutex, its signals and its    *)
(* blocked flags do: a bounded list of pending requests, requests of one   *)
(* group started in order, a bounded count of requests run at a time, and  *)
(* an end for every accepted request.                                      *)
(***************************************************************************)
EXTENDS Naturals, Sequences, FiniteSets

CONSTANTS Jobs, NoGroup, Group, AllowedCount, WaiterCount

VARIABLES state,    \* what became of each request
          pending   \* the accepted requests that are not started

poolVars == <<state, pending>>

In(st) == {j \in Jobs : state[j] = st}

PoolInit ==
    /\ state = [j \in Jobs |-> "new"]
    /\ pending = <<>>

Accept(j) ==
    /\ state[j] = "new"
    /\ Len(pending) < WaiterCount
    /\ state' = [state EXCEPT ![j] = "queued"]
    /\ pending' = Append(pending, j)

(* Only a full list, or the lack of any thread, justifies a refusal.       *)
Refuse(j) ==
    /\ state[j] = "new"
    /\ Len(pending) = WaiterCount \/ In("running") = {}
    /\ state' = [state EXCEPT ![j] = "refused"]
    /\ UNCHANGED pending

Without(i) == SubSeq(pending, 1, i - 1) \o SubSeq(pending, i + 1, Len(pending))

Begin(i) ==
    /\ \A k \in 1..(i - 1) :
         Group[pending[i]] # NoGroup => Group[pending[k]] # Group[pending[i]]
    /\ Cardinality(In("running")) < AllowedCount
    /\ state' = [state EXCEPT ![pending[i]] = "running"]
    /\ pending' = Without(i)

End(j) ==
    /\ state[j] = "running"
    /\ state' = [state EXCEPT ![j] = "done"]
    /\ UNCHANGED pending

(* At termination, when nothing runs any more.                             *)
Cancel ==
    /\ pending # <<>>
    /\ In("running") = {}
    /\ state' = [state EXCEPT ![pending[1]] = "cancelled"]
    /\ pending' = Tail(pending)

BeginSome == \E i \in 1..Len(pending) : Begin(i)

PoolNext ==
    \/ \E j \in Jobs : Accept(j) \/ Refuse(j) \/ End(j)
    \/ BeginSome
    \/ Cancel

PoolSafety == PoolInit /\ [][PoolNext]_poolVars

(* Pending requests are begun, or cancelled, and what has begun ends.      *)
PoolSpec ==
    /\ PoolSafety
    /\ WF_poolVars(BeginSome \/ Cancel)
    /\ \A j \in Jobs : WF_poolVars(End(j))
=============================================================================
