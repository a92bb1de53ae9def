---------------------------- MODULE MCRecursion ----------------------------
(***************************************************************************)
(* Small arms for Recursion: kernels that keep the device ahead of and     *)
(* behind the host, a copy, two synchronisations, and one operation price  *)
(* must refuse.                                                            *)
(***************************************************************************)
EXTENDS RecursionProps

Kernel(h, d) ==
    [kind |-> "kernel", host |-> h, device |-> d, link |-> 0,
     mechanism |-> None, payload |-> 0, loaded |-> FALSE,
     stream |-> 0, closing |-> FALSE]
Copy(h, l) == [Kernel(h, 0) EXCEPT !.kind = "copy", !.link = l]
Sync(m, bytes) ==
    [Kernel(0, 0) EXCEPT !.kind = "sync", !.mechanism = m, !.payload = bytes,
                         !.loaded = (bytes > 0), !.stream = None]

MCOperations ==
    {Kernel(1, 0), Kernel(1, 3), Kernel(0, 2), Copy(1, 1),
     Sync("bool", 0), Sync("item", 2), Kernel(0, -1)}

MCSyncCosts == [m \in {"synchronize", "bool", "item"} |->
    [fixed |-> 1,
     pace |-> None,
     loaded_pace |-> IF m = "item" THEN 1 ELSE None]]

MCQueueDepths == {0, 1, 2, 3, None}
=============================================================================
