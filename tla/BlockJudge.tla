----------------------------- MODULE BlockJudge -----------------------------
(***************************************************************************)
(* What the harness takes from its throttle detector (clock_sampling.py):  *)
(* a block is begun and then aborted, or ended and judged, and a block     *)
(* during which a throttle was read is never judged clean.  The detector   *)
(* may go down at any moment; then nothing is judged until it is up again. *)
(***************************************************************************)
CONSTANT Unjudged

VARIABLES
    state,   \* "down", "ready", "block" or "ended"
    seen,    \* was a throttle read in the block begun last
    flagged  \* the verdict on the block judged last

judge == <<state, seen, flagged>>

JudgeInit ==
    /\ state = "down" /\ seen = FALSE /\ flagged = Unjudged

GoesUp == state = "down" /\ state' = "ready" /\ UNCHANGED <<seen, flagged>>

GoesDown == state' = "down" /\ UNCHANGED flagged /\ seen' \in {seen, FALSE}

Begins == state = "ready" /\ state' = "block" /\ seen' = FALSE /\ UNCHANGED flagged

Aborts == state = "block" /\ state' = "ready" /\ seen' = FALSE /\ UNCHANGED flagged

Ends == state = "block" /\ state' = "ended" /\ UNCHANGED <<seen, flagged>>

\* Also once the block has ended: a reading is stored after it is taken
Sees == state \in {"block", "ended"} /\ seen' = TRUE /\ UNCHANGED <<state, flagged>>

Judges ==
    /\ state = "ended" /\ state' = "ready"
    /\ flagged' \in BOOLEAN /\ (seen => flagged')
    /\ seen' = FALSE

JudgeNext == GoesUp \/ GoesDown \/ Begins \/ Aborts \/ Ends \/ Sees \/ Judges

JudgeSpec == JudgeInit /\ [][JudgeNext]_judge
=============================================================================
