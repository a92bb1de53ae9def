----------------------------- MODULE T31Session -----------------------------
(***************************************************************************)
(* The P1 session runner, scripts/t31_session.py run_session, with the     *)
(* steps of t31_steps.py it starts and what a debug session's keep-going   *)
(* adds (t31_debug.py).  A run goes from --from STEP to the last step and  *)
(* stops at a failure; the session directory, its manifest and the store   *)
(* outlive it.  The runner can die at any point, the write of the manifest *)
(* included, and the session is then resumed from any step whatever.       *)
(***************************************************************************)
EXTENDS Integers, Sequences

CONSTANTS
    MaxRuns,     \* bound: runs of the session
    MaxCrashes   \* bound: runners that die

VARIABLES
    manifest,    \* manifest.json: [mode, last, clocked], or Torn
    staged,      \* staged_inputs.json: where a debug session starts, else 0
    dirs,        \* steps whose directory holds a result.json that says passed
    run,         \* the runner: [mode, keep, at, phase, exit], or Idle
    receipt,     \* the prediction whose receipt.json is in predict's directory
    predictions, \* predictions written and synced so far
    ripe,        \* the instance clock is past the receipt's release
    stamped,     \* the receipt ground truth's stamps name, 0 without stamps
    clockedUnder,\* the receipts under which clocked blocks have run
    real,        \* steps whose last attempt that ended really passed
    unlisted,    \* steps with an attempt the manifest does not list
    runs, crashes

vars == <<manifest, staged, dirs, run, receipt, predictions, ripe, stamped,
          clockedUnder, real, unlisted, runs, crashes>>
evidence == <<staged, receipt, predictions, ripe, stamped, clockedUnder>>

STEPS == <<"preflight", "link", "dense_select", "probe", "host_components",
           "device_components", "predict", "hold", "ground_truth", "verify",
           "postflight">>
Steps == {STEPS[n] : n \in 1..Len(STEPS)}
IndexOf(step) == CHOOSE n \in 1..Len(STEPS) : STEPS[n] = step

CELL_STEPS == {"host_components", "device_components"}
FIRST_CLOCKED == "ground_truth"
REHEARSAL_LAST == "hold"
NEVER_STARTED == {"blocked", "not_run"}
Statuses == {"none", "started", "passed", "failed"} \cup NEVER_STARTED

DEPENDS(step) ==
    CASE step = "link" -> {"preflight"}
      [] step = "dense_select" -> {"preflight", "link"}
      [] step = "probe" -> {"preflight", "link", "dense_select"}
      [] step = "host_components" -> {"preflight", "link", "dense_select", "probe"}
      [] step = "device_components" -> {"host_components", "link"}
      [] step = "predict" -> {"device_components", "link"}
      [] step = "hold" -> {"predict"}
      [] step = "ground_truth" -> {"hold", "dense_select"}
      [] step = "verify" -> {"ground_truth", "predict"}
      [] OTHER -> {}

\* Where a debug session was staged to start: t31_debug.py explore, stage
DEBUG_STARTS == {1, IndexOf("host_components"), IndexOf("device_components")}

Modes == {"real", "rehearsal", "debug"}
Idle == [mode |-> "none", keep |-> FALSE, at |-> 0,
         phase |-> "idle", exit |-> 0]

NoAttempts == [s \in Steps |-> "none"]
Torn == [mode |-> "torn", last |-> NoAttempts, clocked |-> FALSE]

last_status == manifest.last
Current == STEPS[run.at]

\* mutant: an attempt that died before its end does not count as started
clocked_started_ended ==
    last_status[FIRST_CLOCKED] \in {"passed", "failed"}

\* clocked_started: any recorded attempt of it that did start
clocked_started == manifest.clocked

LastStep(mode) ==
    IF mode = "rehearsal" THEN IndexOf(REHEARSAL_LAST) ELSE Len(STEPS)

(***************************************************************************)
(* The manifest.  Every append is saved at once; the write itself          *)
(* truncates the file first, so a death in it leaves a file no run reads.  *)
(***************************************************************************)
\* mutant: ground truth is not recorded before it runs
AppendAtEnd(step, status) ==
    manifest' = IF status = "started" THEN manifest ELSE
        [manifest EXCEPT !.mode = run.mode,
                         !.last[step] = status,
                         !.clocked = @ \/ (step = FIRST_CLOCKED
                                        /\ status \notin NEVER_STARTED)]

Append1(step, status) ==
    manifest' =
        [manifest EXCEPT !.mode = run.mode,
                         !.last[step] = status,
                         !.clocked = @ \/ (step = FIRST_CLOCKED
                                        /\ status \notin NEVER_STARTED)]

(***************************************************************************)
(* run_session: its refusals, then the loop.                               *)
(***************************************************************************)
Refused(mode, first) ==
    \/ (manifest.mode = "debug") # (mode = "debug")
    \/ manifest.mode \notin {"none", mode}
    \/ first < staged                         \* debug_main
    \/ first > LastStep(mode)
    \/ clocked_started /\ first <= IndexOf("predict")
    \/ \E n \in 1..(first - 1) : last_status[STEPS[n]] # "passed"

Start ==
    /\ run = Idle /\ runs < MaxRuns
    /\ manifest # Torn                      \* load_manifest raises
    /\ \E mode \in Modes, keep \in BOOLEAN, first \in 1..Len(STEPS) :
         /\ keep => mode = "debug"
         /\ ~Refused(mode, first)
         /\ run' = [mode |-> mode, keep |-> keep, at |-> first,
                    phase |-> "loop", exit |-> 0]
    /\ runs' = runs + 1
    /\ UNCHANGED <<manifest, dirs, evidence, real, unlisted, crashes>>

Looping == run.phase = "loop" /\ run.at <= LastStep(run.mode)

\* mutant: an input that was blocked itself did not fail, and does not block
BlockedByFailure(step) == \E d \in DEPENDS(step) : last_status[d] = "failed"

Blocked(step) == \E d \in DEPENDS(step) : last_status[d] # "passed"

\* A debug session's cap: no step starts after it
CapReached ==
    /\ Looping /\ run.mode = "debug"
    /\ Append1(Current, "not_run")
    /\ run' = Idle
    /\ UNCHANGED <<dirs, evidence, real, unlisted, runs, crashes>>

SkipBlocked ==
    /\ Looping /\ run.keep /\ Blocked(Current)
    /\ Append1(Current, "blocked")
    /\ run' = [run EXCEPT !.at = @ + 1]
    /\ UNCHANGED <<dirs, evidence, real, unlisted, runs, crashes>>

\* keep_attempt: a cell step's directory stays, with the old result.json in
\* it; any other is moved aside, its receipt or its stamps with it
KeepAttempt ==
    /\ Looping /\ ~(run.keep /\ Blocked(Current))
    /\ dirs' = IF Current \in CELL_STEPS THEN dirs ELSE dirs \ {Current}
    /\ receipt' = IF Current = "predict" THEN 0 ELSE receipt
    /\ ripe' = (ripe /\ Current # "predict")
    /\ stamped' = IF Current = FIRST_CLOCKED THEN 0 ELSE stamped
    /\ run' = [run EXCEPT !.phase = "kept"]
    /\ UNCHANGED <<staged, manifest, predictions, clockedUnder, real, unlisted,
                   runs, crashes>>

\* Ground truth is recorded before it runs, so a crash still counts
StartStep ==
    /\ run.phase = "kept"
    /\ IF Current = FIRST_CLOCKED
       THEN Append1(Current, "started") /\ UNCHANGED unlisted
       ELSE UNCHANGED manifest /\ unlisted' = unlisted \cup {Current}
    /\ run' = [run EXCEPT !.phase = "step"]
    /\ UNCHANGED <<dirs, evidence, real, runs, crashes>>

(***************************************************************************)
(* The step's process (t31_steps.py).  Predict writes, syncs and saves its *)
(* receipt; ground truth checks the hold by its own clock, clocks, and     *)
(* leaves its stamps at its end.                                           *)
(***************************************************************************)
InStep(step) == run.phase = "step" /\ Current = step

SyncPrediction ==
    /\ InStep("predict") /\ receipt = 0
    /\ predictions' = predictions + 1
    /\ receipt' = predictions + 1
    /\ ripe' = FALSE
    /\ UNCHANGED <<staged, manifest, dirs, run, stamped, clockedUnder, real, unlisted,
                   runs, crashes>>

\* The instance clock passes synced_at + skew + guard
Ripen ==
    /\ receipt # 0 /\ ~ripe
    /\ ripe' = TRUE
    /\ UNCHANGED <<staged, manifest, dirs, run, receipt, predictions, stamped,
                   clockedUnder, real, unlisted, runs, crashes>>

\* ready_to_clock, then the first forward of any kind
Clock ==
    /\ InStep(FIRST_CLOCKED) /\ receipt # 0 /\ ripe
    /\ clockedUnder' = clockedUnder \cup {receipt}
    /\ run' = [run EXCEPT !.phase = "clocked"]
    /\ UNCHANGED <<staged, manifest, dirs, receipt, predictions, ripe, stamped, real,
                   unlisted, runs, crashes>>

Stamp ==
    /\ run.phase = "clocked" /\ stamped = 0
    /\ stamped' = receipt
    /\ UNCHANGED <<staged, manifest, dirs, run, receipt, predictions, ripe,
                   clockedUnder, real, unlisted, runs, crashes>>

\* What a step needs to pass: its inputs on disk, not the runner's word
CanPass(step) ==
    /\ step = "predict" => receipt # 0
    /\ step = "hold" => receipt # 0 /\ ripe
    /\ step = FIRST_CLOCKED => run.phase = "clocked" /\ stamped # 0
    /\ step = "verify" => stamped # 0 /\ stamped = receipt

\* The process ends: it passed, it failed, or it was killed before it could
\* write result.json.  run_phase may turn a pass into a failing exit.
StepEnds ==
    /\ run.phase \in {"step", "clocked"}
    /\ \E result \in {"passed", "failed", "killed"}, exit \in {0, 1} :
         /\ result = "passed" => CanPass(Current)
         /\ result # "passed" => exit # 0
         /\ dirs' = CASE result = "passed" -> dirs \cup {Current}
                      [] result = "failed" -> dirs \ {Current}
                      [] OTHER -> dirs
         /\ real' = IF result = "passed" THEN real \cup {Current}
                                         ELSE real \ {Current}
         /\ run' = [run EXCEPT !.phase = "end", !.exit = exit]
    /\ UNCHANGED <<manifest, evidence, unlisted, runs, crashes>>

(***************************************************************************)
(* The runner reads result.json and the exit, records, goes on or stops.   *)
(***************************************************************************)
\* mutant: the result on disk is believed, whatever the process's exit
StatusUnchecked == IF Current \in dirs THEN "passed" ELSE "failed"

Status == IF Current \in dirs /\ run.exit = 0 THEN "passed" ELSE "failed"

RecordStep ==
    /\ run.phase = "end"
    /\ Append1(Current, Status)
    /\ unlisted' = unlisted \ {Current}
    /\ run' = IF Status = "failed" /\ ~run.keep THEN Idle
              ELSE [run EXCEPT !.at = @ + 1, !.phase = "loop", !.exit = 0]
    /\ UNCHANGED <<dirs, evidence, real, runs, crashes>>

EndRun ==
    /\ run.phase = "loop" /\ run.at > LastStep(run.mode)
    /\ run' = Idle
    /\ UNCHANGED <<manifest, dirs, evidence, real, unlisted, runs, crashes>>

\* The runner dies, the step's process with it; in save_manifest, the file
\* is left truncated
Die ==
    /\ run # Idle /\ crashes < MaxCrashes
    /\ crashes' = crashes + 1
    /\ run' = Idle
    /\ \/ UNCHANGED manifest
       \/ run.phase \in {"loop", "kept", "end"} /\ manifest' = Torn
    /\ UNCHANGED <<dirs, evidence, real, unlisted, runs>>

Init ==
    /\ staged \in {0} \cup DEBUG_STARTS
    /\ LET early == {STEPS[n] : n \in 1..(staged - 1)}
       IN  /\ manifest = [mode |-> IF staged = 0 THEN "none" ELSE "debug",
                          last |-> [s \in Steps |->
                                    IF s \in early THEN "passed" ELSE "none"],
                          clocked |-> FALSE]
           /\ dirs = early
           /\ real = early
    /\ run = Idle
    /\ receipt = 0 /\ predictions = 0 /\ ripe = FALSE
    /\ stamped = 0 /\ clockedUnder = {}
    /\ unlisted = {}
    /\ runs = 0 /\ crashes = 0

Next ==
    \/ Start \/ CapReached \/ SkipBlocked
    \/ KeepAttempt \/ StartStep
    \/ SyncPrediction \/ Ripen \/ Clock \/ Stamp
    \/ StepEnds \/ RecordStep \/ EndRun
    \/ Die

Spec == Init /\ [][Next]_vars

(***************************************************************************)
(* Properties.                                                             *)
(***************************************************************************)
\* Every variable keeps the shape the runner and the steps give it.
TypeOK ==
    /\ manifest \in [mode: Modes \cup {"none", "torn"},
                     last: [Steps -> Statuses], clocked: BOOLEAN]
    /\ staged \in {0} \cup DEBUG_STARTS
    /\ dirs \subseteq Steps
    /\ run = Idle \/
       /\ run \in [mode: Modes, keep: BOOLEAN, at: 1..(Len(STEPS) + 1),
                   exit: {0, 1},
                   phase: {"loop", "kept", "step", "clocked", "end"}]
       /\ manifest.mode # "torn"
       /\ run.phase # "loop" => run.at <= Len(STEPS)
    /\ receipt \in 0..predictions /\ stamped \in 0..predictions
    /\ predictions \in 0..MaxRuns /\ clockedUnder \subseteq 1..predictions
    /\ ripe \in BOOLEAN /\ real \subseteq Steps
    /\ unlisted \subseteq Steps
    /\ runs \in 0..MaxRuns /\ crashes \in 0..MaxCrashes

\* "A new prediction written after timed data exists would not be a
\* prediction": whatever died, and wherever the session is resumed from.
NoPredictionAfterClock ==
    [][predictions' # predictions => clockedUnder = {}]_vars

\* Every clocked block of the session, those of attempts that died included,
\* ran under the one prediction whose receipt the session holds; it is what
\* verify reads the stamps of the last attempt for.
OnePrediction == clockedUnder # {} => clockedUnder = {receipt}

\* A step the manifest has as passed did pass in its last attempt, unless a
\* later one died unlisted: the result.json a resumed cell step leaves in
\* place, or one whose sync failed, is never taken for the attempt's own.
PassedIsReal ==
    \A s \in Steps \ unlisted : last_status[s] = "passed" => s \in real

\* What a step rests on, however indirectly: the least set with its inputs
\* and theirs
Needs == [step \in Steps |->
    {d \in Steps : \A S \in SUBSET Steps :
        DEPENDS(step) \subseteq S /\ (\A e \in S : DEPENDS(e) \subseteq S)
            => d \in S}]

\* "A step whose inputs did not fail runs after a failure; the others are
\* recorded as blocked": while a step's process runs, every step it rests on,
\* through inputs of its inputs too, really passed in its last attempt, or
\* that attempt died unlisted; in a run that keeps going past failures as in
\* one that stops, and wherever it was resumed from.
InputsPassed ==
    run.phase \in {"step", "clocked", "end"} =>
        Needs[Current] \subseteq real \cup unlisted
=============================================================================
