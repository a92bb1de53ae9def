----------------------------- MODULE Recursion -----------------------------
(***************************************************************************)
(* The critical-path recursion, attnbench/predict/recursion.py, one step   *)
(* per operation of the arm.  A sequence of operations is closed with the  *)
(* timer's synchronise, priced (or refused), and then folded into the time *)
(* H at which the host has issued each operation and the time D at which   *)
(* the device has finished it.  Times are whole ticks; a bandwidth B is    *)
(* given as its inverse, ticks per byte.                                   *)
(***************************************************************************)
EXTENDS Integers, Sequences

CONSTANTS
    Operations,   \* the Operation records a caller may build
    MaxOps,       \* bound on the length of the caller's sequence
    QueueDepths,  \* the queue_depth arguments tried, integers and None
    SyncCosts,    \* the T2.5 table: a mechanism -> [fixed, pace, loaded_pace]
    None          \* Python's None

VARIABLES
    ops,          \* the arm's operations
    depth,        \* queue_depth, Q
    waits,        \* the sync_wait argument; FALSE is the no-wait ablation
    pc,           \* "build", "price", "recurse", "done" or "refused"
    s,            \* s_0 of each operation
    i,            \* the operation being issued, from 1
    H, D,         \* host_issued and device_done
    stall, wait,  \* queue_stall and sync_wait of the Timeline
    launches      \* D of the kernels and copies, in order

input == <<depth, waits>>
timeline == <<i, H, D, stall, wait, launches>>
vars == <<ops, depth, waits, pc, s, i, H, D, stall, wait, launches>>

Kinds == {"kernel", "copy", "sync"}
PayloadFree == {"synchronize", "event_synchronize"}
PricedMechanisms == PayloadFree \cup
    {"item", "bool", "copy_to_host_pinned", "copy_to_host_pageable",
     "copy_from_host_pinned", "copy_from_host_pageable"}

ClosingSync ==
    [kind |-> "sync", host |-> 0, device |-> 0, link |-> 0,
     mechanism |-> "synchronize", payload |-> 0, loaded |-> FALSE,
     stream |-> None, closing |-> TRUE]

Operation ==
    [kind: Kinds, host: Int, device: Int, link: Int,
     mechanism: PricedMechanisms \cup {"assert", "nonzero", None},
     payload: Nat, loaded: BOOLEAN, stream: Nat \cup {None},
     closing: BOOLEAN]

Cost == [fixed: Nat, pace: Nat \cup {None}, loaded_pace: Nat \cup {None}]

ASSUME ConstantsAssumption ==
    /\ Operations \subseteq Operation
    /\ MaxOps \in Nat
    /\ None \notin Int
    /\ QueueDepths \subseteq Int \cup {None}
    /\ DOMAIN SyncCosts \subseteq PricedMechanisms
    /\ \A m \in DOMAIN SyncCosts : SyncCosts[m] \in Cost

Larger(a, b) == IF a > b THEN a ELSE b

N == Len(ops)
IsSync(j) == ops[j].kind = "sync"

(***************************************************************************)
(* What price refuses, and s_0(m, payload) = s_fixed(m) + payload / B.     *)
(***************************************************************************)
IsClosingSync(op) == op.kind = "sync" /\ op.closing

Pace(op) == LET c == SyncCosts[op.mechanism]
            IN  IF op.loaded THEN c.loaded_pace ELSE c.pace

CheckOperation(op) ==
    /\ op.host >= 0 /\ op.device >= 0 /\ op.link >= 0
    /\ op.kind = "sync" =>
         /\ op.host = 0 /\ op.device = 0 /\ op.link = 0
         /\ op.mechanism \in PricedMechanisms
         /\ op.mechanism \in PayloadFree => op.payload = 0
    /\ op.kind # "sync" => op.mechanism = None /\ ~op.loaded
    /\ op.kind = "kernel" => op.payload = 0 /\ op.link = 0
    /\ op.kind = "copy" => op.device = 0

CheckSyncCost(op) ==
    op.kind = "sync" =>
        /\ op.mechanism \in DOMAIN SyncCosts
        /\ op.payload # 0 => Pace(op) # None

S0(op) ==
    IF op.kind # "sync" THEN 0
    ELSE IF op.payload = 0 THEN SyncCosts[op.mechanism].fixed
    ELSE SyncCosts[op.mechanism].fixed + op.payload * Pace(op)

OneStream ==
    \A j1, j2 \in 1..N :
        \/ ops[j1].stream = None
        \/ ops[j2].stream = None
        \/ ops[j1].stream = ops[j2].stream

ClosingIsLast == \A j \in 1..N : IsClosingSync(ops[j]) => j = N

Priceable ==
    /\ N > 0
    /\ OneStream
    /\ ClosingIsLast
    /\ \A j \in 1..N : CheckOperation(ops[j]) /\ CheckSyncCost(ops[j])

\* is_closed: priced components carry no labels, so it reads the mechanism
IsClosed ==
    /\ N > 0
    /\ IsSync(N)
    /\ ops[N].mechanism = "synchronize"
    /\ ops[N].payload = 0

\* what recurse refuses of its arguments
Recursable ==
    /\ depth # None => depth >= 1
    /\ ~waits => IsClosed

(***************************************************************************)
(* One operation.  Before(F) is F at the previous operation, 0 at first.   *)
(***************************************************************************)
Before(F) == IF i = 1 THEN 0 ELSE F[i - 1]

HostReady == Before(H) + ops[i].host

\* mutant: off by one, one more launch in flight than the queue holds
QueueBoundLate ==
    IF depth = None \/ (~waits /\ IsSync(i)) THEN 0
    ELSE IF waits THEN IF i > depth + 1 THEN D[i - depth - 1] ELSE 0
    ELSE IF Len(launches) > depth THEN launches[Len(launches) - depth]
    ELSE 0

\* D_(i-Q) as written, or the Q-th last launch in the ablation; 0 is none
QueueBound ==
    IF depth = None \/ (~waits /\ IsSync(i)) THEN 0
    ELSE IF waits THEN IF i > depth THEN D[i - depth] ELSE 0
    ELSE IF Len(launches) >= depth THEN launches[Len(launches) - depth + 1]
    ELSE 0

IssueAt == Larger(HostReady, QueueBound)

\* mutant: the stall of the queue is not taken out of the wait
RecordStallTwice(issued, done, waited) ==
    /\ H' = [H EXCEPT ![i] = issued]
    /\ D' = [D EXCEPT ![i] = done]
    /\ stall' = [stall EXCEPT ![i] = IssueAt - HostReady]
    /\ wait' = [wait EXCEPT ![i] = IF waited > 0 THEN done - s[i] - HostReady ELSE 0]
    /\ i' = i + 1
    /\ UNCHANGED <<ops, input, pc, s>>

Record(issued, done, waited) ==
    /\ H' = [H EXCEPT ![i] = issued]
    /\ D' = [D EXCEPT ![i] = done]
    /\ stall' = [stall EXCEPT ![i] = IssueAt - HostReady]
    /\ wait' = [wait EXCEPT ![i] = waited]
    /\ i' = i + 1
    /\ UNCHANGED <<ops, input, pc, s>>

Issuing == pc = "recurse" /\ i <= N

\* A kernel or a copy: it starts once issued and once the device is free
Launch ==
    /\ Issuing /\ ~IsSync(i)
    /\ LET done == Larger(IssueAt, Before(D)) + ops[i].link + ops[i].device
       IN  Record(IssueAt, done, 0) /\ launches' = Append(launches, done)

\* mutant: the host goes on without the device
SynchroniseUnwaited ==
    /\ Issuing /\ IsSync(i) /\ (waits \/ i = N)
    /\ LET t == IssueAt + s[i] IN Record(t, Larger(t, Before(D)), 0)
    /\ UNCHANGED launches

\* A synchronisation that waits for the device
Synchronise ==
    /\ Issuing /\ IsSync(i) /\ (waits \/ i = N)
    /\ LET start == Larger(IssueAt, Before(D))
       IN  Record(start + s[i], start + s[i], start - IssueAt)
    /\ UNCHANGED launches

\* The ablation's synchronisation: s_0 is paid, the device is not waited for
PassSync ==
    /\ Issuing /\ IsSync(i) /\ ~waits /\ i < N
    /\ LET t == IssueAt + s[i] IN Record(t, Larger(t, Before(D)), 0)
    /\ UNCHANGED launches

Return ==
    /\ pc = "recurse" /\ i > N
    /\ pc' = "done"
    /\ UNCHANGED <<ops, input, s, timeline>>

(***************************************************************************)
(* close_prefill, price and the argument checks of recurse.                *)
(***************************************************************************)
Refuse == pc' = "refused" /\ UNCHANGED <<ops, input, s, timeline>>

ClosePrefill ==
    /\ pc = "build"
    /\ IF \E j \in 1..N : IsClosingSync(ops[j])
       THEN Refuse
       ELSE /\ ops' = Append(ops, ClosingSync)
            /\ pc' = "price"
            /\ UNCHANGED <<input, s, timeline>>

Price ==
    /\ pc \in {"build", "price"}
    /\ IF Priceable /\ Recursable
       THEN /\ s' = [j \in 1..N |-> S0(ops[j])]
            /\ H' = [j \in 1..N |-> 0]
            /\ D' = [j \in 1..N |-> 0]
            /\ stall' = [j \in 1..N |-> 0]
            /\ wait' = [j \in 1..N |-> 0]
            /\ pc' = "recurse"
            /\ UNCHANGED <<ops, input, i, launches>>
       ELSE Refuse

Init ==
    /\ ops \in UNION {[1..n -> Operations] : n \in 0..MaxOps}
    /\ depth \in QueueDepths
    /\ waits \in BOOLEAN
    /\ pc = "build"
    /\ i = 1
    /\ s = <<>> /\ H = <<>> /\ D = <<>> /\ stall = <<>> /\ wait = <<>>
    /\ launches = <<>>

Next ==
    \/ ClosePrefill \/ Price
    \/ Launch \/ Synchronise \/ PassSync
    \/ Return

Spec == Init /\ [][Next]_vars
=============================================================================
