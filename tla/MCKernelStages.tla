--------------------------- MODULE MCKernelStages ---------------------------
(***************************************************************************)
(* A compiled backend at a short and a long length, and one that is not    *)
(* compiled, with a backward pass that is a known fault.  A run takes all  *)
(* of it, the short length and the long gate configurations, or what is    *)
(* long and has an oracle.                                                 *)
(***************************************************************************)
EXTENDS KernelStages, TLC

MCOrder == [flex |-> 2, sdpa |-> 1]
MCSeqLen == [short |-> 1, long |-> 2, grad |-> 2]
MCFaults == {<<"sdpa", "grad">>}
MCClaims == {"flex"} \X {"short", "long"} \cup {<<"sdpa", "long">>}
Band(n) == {a \in MCClaims \cup MCFaults : MCSeqLen[a[2]] = n}
Ask(cells, long, exact) == [cells |-> cells, long |-> long, exact |-> exact]
MCAsks == {Ask(Band(1) \cup Band(2), FALSE, FALSE), Ask(Band(1), TRUE, FALSE),
           Ask(Band(2), FALSE, TRUE)}
Symmetric == Permutations(Commits) \cup Permutations(Hosts)
=============================================================================
