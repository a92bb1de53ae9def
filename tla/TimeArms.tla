------------------------------ MODULE TimeArms ------------------------------
(***************************************************************************)
(* ground_truth.py time_arms: the arms' timed blocks, interleaved in       *)
(* rounds whose order rotates, each block bracketed by the throttle        *)
(* detector (BlockJudge).  A round in which a block was flagged or the     *)
(* dense control drifted is not counted and is run again, while the rerun  *)
(* budget lasts.                                                           *)
(***************************************************************************)
EXTENDS Integers, Sequences, FiniteSets, SequencesExt, BlockJudge

CONSTANTS
    Arms,             \* the arms' names, in order; one is the dense control
    reps,             \* clean rounds asked for
    max_rerun_rounds  \* Controls.max_rerun_rounds

ASSUME ArmsAssumption ==
    /\ Arms \in Seq(STRING) /\ Arms # <<>>
    /\ \A i, j \in 1..Len(Arms) : Arms[i] = Arms[j] => i = j
ASSUME RoundsAssumption == reps \in Nat \ {0} /\ max_rerun_rounds \in Nat

VARIABLES
    phase,    \* "warmup", "rounds", "done" or "raised"
    first_started,  \* has first_clocked_block_started_at been taken
    at,       \* blocks of this round run so far
    clocks,   \* this round's verdicts, by arm
    rounds,   \* the rounds run: whether each is flagged
    samples,  \* by arm, its samples: [round, throttled]
    result    \* what is returned: [complete, clean_rounds, rows], or Unjudged

timing == <<phase, first_started, at, clocks, rounds, samples, result>>
armsVars == <<judge, timing>>

Names == ToSet(Arms)
SampleRecords == [round: 1..(reps + max_rerun_rounds), throttled: BOOLEAN]

ASSUME UnjudgedAssumption ==
    Unjudged \notin [complete: BOOLEAN, clean_rounds: Nat, rows: [Names -> Seq(SampleRecords)]]

\* The order of round n: arms[k:] + arms[:k]
order(n) ==
    LET k == n % Len(Arms)
    IN  SubSeq(Arms, k + 1, Len(Arms)) \o SubSeq(Arms, 1, k)

r == Len(rounds)
Flagged == {n \in 1..Len(rounds) : rounds[n]}
clean == Len(rounds) - Cardinality(Flagged)

More == clean < reps /\ r < reps + max_rerun_rounds

\* Every arm's warm-up; the first clocked forward takes the start time
Warmup ==
    /\ phase = "warmup"
    /\ phase' = "rounds" /\ first_started' = TRUE
    /\ UNCHANGED <<judge, at, clocks, rounds, samples, result>>

Arm == order(r)[at + 1]

\* timed_block: sampler.begin, the forward, then sampler.end or abort
BlockBegins ==
    /\ phase = "rounds" /\ More /\ at < Len(Arms)
    /\ Begins
    /\ UNCHANGED timing

BlockEnds == phase = "rounds" /\ Ends /\ UNCHANGED timing

BlockJudged ==
    /\ phase = "rounds"
    /\ Judges
    /\ samples' = [samples EXCEPT ![Arm] =
           Append(@, [round |-> r + 1, throttled |-> seen])]
    /\ clocks' = [clocks EXCEPT ![Arm] = flagged']
    /\ at' = at + 1
    /\ UNCHANGED <<phase, first_started, rounds, result>>

\* The forward or the detector raises, and time_arms with it
BlockRaises ==
    /\ phase = "rounds" /\ More /\ at < Len(Arms)
    /\ Aborts \/ GoesDown
    /\ phase' = "raised"
    /\ UNCHANGED <<first_started, at, clocks, rounds, samples, result>>

\* mutant: only the control's block flags a round
FlagsOfControl(drifted) == drifted \/ clocks[Arms[1]] = TRUE

\* The control drifted beyond the floor, or any arm's block was flagged
Flags(drifted) == drifted \/ \E a \in Names : clocks[a] = TRUE

RoundEnds ==
    /\ phase = "rounds" /\ at = Len(Arms)
    /\ \E drifted \in BOOLEAN :
           rounds' = Append(rounds, Flags(drifted))
    /\ at' = 0
    /\ clocks' = [a \in Names |-> Unjudged]
    /\ UNCHANGED <<judge, phase, first_started, samples, result>>

\* mutant: the first reps samples of each arm
CleanSamplesFirst(a) == SubSeq(samples[a], 1, clean)

CleanSamples(a) ==
    LET picked[n \in 0..Len(samples[a])] ==
            IF n = 0 THEN <<>>
            ELSE IF samples[a][n].round \in Flagged THEN picked[n - 1]
            ELSE Append(picked[n - 1], samples[a][n])
    IN  picked[Len(samples[a])]

Return ==
    /\ phase = "rounds" /\ at = 0 /\ ~More
    /\ result' = [complete |-> clean = reps, clean_rounds |-> clean,
                  rows |-> [a \in Names |-> CleanSamples(a)]]
    /\ phase' = "done"
    /\ UNCHANGED <<judge, first_started, at, clocks, rounds, samples>>

\* The region's checks, the recompile gate or the compiled checks refuse
Refuses ==
    /\ phase = "rounds" /\ at = 0 /\ ~More
    /\ phase' = "raised"
    /\ UNCHANGED <<judge, first_started, at, clocks, rounds, samples, result>>

\* The session starts the detector before and stops it after
Detector ==
    /\ \/ phase = "warmup" /\ GoesUp
       \/ phase \in {"done", "raised"} /\ state # "down" /\ GoesDown
       \/ phase = "rounds" /\ Sees
    /\ UNCHANGED timing

ArmsInit ==
    /\ JudgeInit
    /\ phase = "warmup" /\ first_started = FALSE
    /\ at = 0 /\ clocks = [a \in Names |-> Unjudged]
    /\ rounds = <<>> /\ samples = [a \in Names |-> <<>>]
    /\ result = Unjudged

ArmsNext ==
    \/ Warmup
    \/ BlockBegins \/ BlockEnds \/ BlockJudged \/ BlockRaises
    \/ RoundEnds \/ Return \/ Refuses
    \/ Detector

ArmsSpec == ArmsInit /\ [][ArmsNext]_armsVars

(***************************************************************************)
(* Properties.                                                             *)
(***************************************************************************)
\* Every variable keeps its shape; a block is open only in the rounds, and
\* no more rounds run than the budget allows.
TypeOK ==
    /\ state \in {"down", "ready", "block", "ended"} /\ seen \in BOOLEAN
    /\ flagged \in BOOLEAN \cup {Unjudged}
    /\ phase \in {"warmup", "rounds", "done", "raised"}
    /\ state \in {"block", "ended"} => phase = "rounds" /\ at < Len(Arms)
    /\ first_started \in BOOLEAN
    /\ at \in 0..Len(Arms)
    /\ clocks \in [Names -> BOOLEAN \cup {Unjudged}]
    /\ rounds \in Seq(BOOLEAN) /\ Len(rounds) <= reps + max_rerun_rounds
    /\ samples \in [Names -> Seq(SampleRecords)]
    /\ phase = "done" <=> result # Unjudged

Returned == phase = "done"

\* "Statistics are over unflagged rounds only": no sample of any row is from
\* a round in which a throttle was read during any arm's block.
CleanMeansUnthrottled ==
    Returned => \A a, b \in Names : \A n \in 1..Len(result.rows[a]) :
        \A s \in ToSet(samples[b]) :
            s.round = result.rows[a][n].round => ~s.throttled

\* The rows are comparable: each arm's samples are of the same rounds, as
\* many as the clean rounds, one of each.
RowsPaired ==
    Returned => \A a \in Names :
        /\ Len(result.rows[a]) = result.clean_rounds
        /\ {result.rows[a][n].round : n \in 1..Len(result.rows[a])} =
               1..Len(rounds) \ Flagged
=============================================================================
