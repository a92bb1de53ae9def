--------------------------- MODULE RecursionProps ---------------------------
(***************************************************************************)
(* What must be true of the recursion, and the schedule it implements.     *)
(***************************************************************************)
EXTENDS Recursion, FiniteSets

\* Every variable keeps the shape recurse gives it.
TypeOK ==
    /\ ops \in Seq(Operation)
    /\ depth \in QueueDepths
    /\ waits \in BOOLEAN
    /\ pc \in {"build", "price", "recurse", "done", "refused"}
    /\ i \in Nat \ {0}
    /\ launches \in Seq(Nat)
    /\ pc \in {"recurse", "done"} =>
         /\ i \in 1..(N + 1)
         /\ s \in [1..N -> Nat]
         /\ H \in [1..N -> Nat]
         /\ D \in [1..N -> Nat]
         /\ stall \in [1..N -> Nat]
         /\ wait \in [1..N -> Nat]

\* The host issues in program order and the device runs in order, never
\* ahead of the host (module docstring, the H_i and D_i equations): every
\* later claim about "pending" launches reads D as sorted.
InOrder ==
    pc \in {"recurse", "done"} =>
        \A j \in 1..(i - 1) :
            /\ H[j] <= D[j]
            /\ \A m \in 1..j : H[m] <= H[j] /\ D[m] <= D[j]

\* "With the wait in place the two queue counts agree (a synchronisation
\* drains the queue)": D_(i-Q), which counts every operation, and the Q-th
\* last launch hold the host back to the same time.
QueueCountsAgree ==
    Issuing /\ waits /\ depth # None =>
        LET byLaunches == IF Len(launches) >= depth
                          THEN launches[Len(launches) - depth + 1] ELSE 0
        IN  IssueAt = Larger(HostReady, byLaunches)

\* The sum of f over the first n operations
Total(f, n) == LET t[m \in 0..n] == IF m = 0 THEN 0 ELSE t[m - 1] + f[m]
               IN  t[n]
HostCosts == [j \in 1..N |-> ops[j].host]

\* Where every tick of the prediction went: host issue, s_0, queue stalls
\* and waits add up to the time of the last return, so the waits the
\* Timeline reports are neither lost nor counted twice.
HostTimeAccounted ==
    pc = "done" =>
        H[N] = Total(HostCosts, N) + Total(s, N) + Total(stall, N)
               + Total(wait, N)

\* The recursion implements the schedule of the host, the device and the
\* launch queue it stands for.
Physical == INSTANCE Pipeline
    WITH cost <- s, running <- (pc = "recurse"), issued <- H, finished <- D
Implements == Physical!Spec
=============================================================================
