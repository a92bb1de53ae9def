------------------------------ MODULE Pipeline ------------------------------
(***************************************************************************)
(* What the recursion promises: the schedule of one host thread feeding    *)
(* one in-order device through a launch queue of a bounded depth.  Nothing *)
(* here is computed with a max; every time is the EARLIEST one the         *)
(* machine allows:                                                         *)
(*   - the host has done its own work for the operation;                   *)
(*   - a launch finds fewer than `depth` LAUNCHES not yet finished;        *)
(*   - a waiting synchronise finds nothing unfinished;                     *)
(*   - a launch runs once issued and once everything before it is done.    *)
(***************************************************************************)
EXTENDS Integers, Sequences, FiniteSets

CONSTANT None

VARIABLES
    ops,      \* the operations, in program order
    cost,     \* s_0 of each
    depth,    \* launches the queue holds, or None for no bound
    waits,    \* whether every synchronise waits, or the last one only
    running,  \* the schedule is being built
    i,        \* the next operation
    issued,   \* when the host was done with each operation before i
    finished  \* when the device was done with it

vars == <<ops, cost, depth, waits, running, i, issued, finished>>

Count == Len(ops)
Past == 1..(i - 1)
IsLaunch(j) == ops[j].kind # "sync"
WaitsHere == ~IsLaunch(i) /\ (waits \/ i = Count)

\* Launches the device has not finished at time t
Pending(t) == {j \in Past : IsLaunch(j) /\ finished[j] > t}

\* The host may move past operation i's entry at time t
MayIssue(t) ==
    /\ IF i = 1 THEN t >= ops[i].host ELSE t >= issued[i - 1] + ops[i].host
    /\ IsLaunch(i) /\ depth # None => Cardinality(Pending(t)) < depth
    /\ WaitsHere => \A j \in Past : finished[j] <= t

Earliest(t, P(_)) == P(t) /\ \A u \in 0..(t - 1) : ~P(u)

DeviceFree(t) == \A j \in Past : finished[j] <= t

\* The issue time t and the start u of a launch are the earliest there are
ScheduleLaunch ==
    /\ running /\ i <= Count /\ IsLaunch(i)
    /\ LET t == issued'[i]
           u == finished'[i] - ops[i].link - ops[i].device
           Starts(x) == x >= t /\ DeviceFree(x)
       IN  /\ Earliest(t, MayIssue)
           /\ Earliest(u, Starts)

ScheduleSync ==
    /\ running /\ i <= Count /\ ~IsLaunch(i)
    /\ Earliest(issued'[i] - cost[i], MayIssue)
    /\ LET Done(x) == x >= issued'[i] /\ DeviceFree(x)
       IN  Earliest(finished'[i], Done)

\* Operations are scheduled one at a time and the past is never revised
Schedule ==
    /\ ScheduleLaunch \/ ScheduleSync
    /\ i' = i + 1
    /\ \A j \in Past : issued'[j] = issued[j] /\ finished'[j] = finished[j]
    /\ UNCHANGED <<ops, cost, depth, waits, running>>

\* A new arm: operations and costs are fixed before the first is scheduled
Prepare ==
    /\ ~running
    /\ i' = 1 /\ i = 1
    /\ UNCHANGED <<depth, waits>>

Stop == running /\ i > Count /\ ~running' /\ UNCHANGED <<ops, cost, i, issued, finished>>

Init == ~running /\ i = 1
Next == Schedule \/ Prepare \/ Stop
Spec == Init /\ [][Next]_vars
=============================================================================
