--------------------------- MODULE MCSessionBlocks ---------------------------
(***************************************************************************)
(* Five steps, of which every block runs the preflight.  The lock file     *)
(* holds a spec of three blocks, one of two, or one check must refuse: a   *)
(* step missing, a cell in two blocks.                                     *)
(***************************************************************************)
EXTENDS SessionBlocks, TLC

MCSteps == <<"preflight", "dense_select", "predict", "ground_truth", "late_check">>
MCBootSteps == {"preflight"}
MachineSymmetry == Permutations(Machines)

B(steps, cells) == [steps |-> steps, cells |-> cells]
Components == B(<<"dense_select">>, {})
First(cells) == B(<<"predict", "ground_truth", "late_check">>, cells)
Second(cells) == B(<<"ground_truth", "late_check">>, cells)

MCSpecs ==
    {[blocks |-> <<Components, First({"c1"}), Second({"c2"})>>, anchor |-> "a"],
     [blocks |-> <<B(<<"dense_select", "predict", "ground_truth", "late_check">>, {"c1"}),
                   Second({"c2"})>>, anchor |-> "a"],
     [blocks |-> <<First({"c1"}), Second({"c2"})>>, anchor |-> "a"],
     [blocks |-> <<Components, First({"c1"}), Second({"c1"})>>, anchor |-> "a"]}
=============================================================================
