---------------------------- MODULE MCBankedOrder ----------------------------
(***************************************************************************)
(* A committed prediction's two promises: what it was fitted on, and what  *)
(* the choices in its dispatch section are worth.  The two share no state, *)
(* so a behaviour is of one of them: an order of the writes and bankings,  *)
(* with no point to dispatch, or a point.                                  *)
(***************************************************************************)
EXTENDS BankedOrder, Dispatcher

MCTimes == 1..4

MCInit == Init /\ point \in Points \cup {None}

MCNext == point = None /\ Next /\ UNCHANGED point

MCSpec == MCInit /\ [][MCNext]_<<vars, point>>
=============================================================================
