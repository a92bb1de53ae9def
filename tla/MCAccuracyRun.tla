---------------------------- MODULE MCAccuracyRun ----------------------------
(***************************************************************************)
(* Grids and command lines for the runs of AccuracyRun.                    *)
(***************************************************************************)
EXTENDS AccuracyRun

K(backend, example) == [backend |-> backend, example |-> example]

\* Two dense cells and one of each sparse backend
MCGrid == <<K("dense", 1), K("dense", 2), K("block_sparse", 1), K("xattention", 1)>>

AnyWaiver == [mixed: BOOLEAN, dirty: BOOLEAN]
PinnedOrNot == {None, "sdpa_math"}

\* Nothing tells one commit, one scorer or one threshold from another
Alike == Permutations(Commits) \cup Permutations(Scorers) \cup Permutations(Taus)
=============================================================================
