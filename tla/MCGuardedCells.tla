--------------------------- MODULE MCGuardedCells ---------------------------
(***************************************************************************)
(* Two cells that share a signature; the second has one of its own.        *)
(***************************************************************************)
EXTENDS GuardedCells

MCCells == <<"dense", "oracle">>
MCSignatures ==
    [c \in {"dense", "oracle"} |->
        IF c = "dense" THEN {"matmul"} ELSE {"matmul", "gather"}]
=============================================================================
