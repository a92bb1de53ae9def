----------------------------- MODULE MCTimeArms -----------------------------
(***************************************************************************)
(* The arms of the run of TimeArms: the dense control and two others.      *)
(***************************************************************************)
EXTENDS TimeArms

MCArms == <<"dense", "xattention", "mean_pool">>
=============================================================================
