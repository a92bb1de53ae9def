# attnbench in TLA+

attnbench measures when a block-sparse attention kernel pays for itself, predicts
it from separately measured components, and commits each prediction to a bucket
before the workload it predicts is timed.  The code is Python and shell, and most
of its lines are numerical.  What makes its results stand or fall is protocol:
what is written before what, what a resumed session may reuse, what a timed block
is judged on, when a row counts.  These modules model that protocol, and the one
algorithm the study rests on, the critical-path recursion.

Paths below are relative to `src/`.  `PROJECT.json` maps each definition to the
lines it models.

## The system

| part | state | operations | what is hard |
|---|---|---|---|
| critical-path recursion, `attnbench/predict/recursion.py` | H (host issued), D (device done), stalls and waits of each operation | `close_prefill`, `price`, `recurse` | indices of the queue bound; two ways of counting a bounded queue; a wait and a cost charged twice |
| prediction commit, `attnbench/predict/commit.py`, `session_order.py` | the prediction file and its sidecar, the two objects in the bucket, the receipt | `write_prediction`, `sync_prediction`, the hold, `load_committed` | two clocks; whole seconds; `cp -n` says nothing; a death between any two steps |
| P1 session runner, `scripts/t31_session.py`, `t31_steps.py`, `t31_debug.py` | `manifest.json`, one directory per step, the receipt, ground truth's stamps | `run_session`, `keep_attempt`, the eleven steps | resume from any step after a death; which attempt a directory belongs to; a prediction after timed data |
| accuracy runner, `attnbench/accuracy/runner.py`, `attnbench/checkpoint.py`, `scripts/run_accuracy.py` | `accuracy.parquet`, the temporary file beside it, the row buffer | continuity checks, plan, measure, `append_checkpoint` | the resume key has no regime in it; runs of several arms share a file; provenance captured twice |
| throttle detector, `attnbench/clock_sampling.py` | a ring in shared memory, its count and lock, the sampler process | `start`, `begin`, `abort`, `end`, `stop`; the process's loop | a process that fails, stalls or dies with the lock; a ring that wraps; a sample in flight |
| timed region, `attnbench/ground_truth.py` | rounds, flags, samples of each arm | `time_arms`, `timed_block` | a budget of reruns; a throttle in one arm spoils all; rotation |
| guarded cells, `scripts/t31_steps.py:1014` | a step's manifest, one directory per cell, a child process | `guarded_cells`, `resumable` | a step dies in a cell; which cells of an earlier attempt may be kept |
| sessions in blocks (P2), `scripts/t61_session.py`, `attnbench/lock/blocks.py`, `attnbench/analysis/block_drift.py` | the spec in the lock file; per block a session directory with its manifest, boot, receipt and imports | check the spec, begin a block over earlier ones, run and resume it, collect the rows | preemption between any two steps; a spec written by hand; a fix between blocks |
| probe, correctness and sweep, `scripts/run_probe.py`, `attnbench/{sweep,timing,compile_guard}.py` | three parquet tables; per process what torch has compiled and given up compiling | bands of lengths, batches, resume; verdicts; the sweep's checks; the compile guard | a kernel that falls back is right and is another kernel; a process that dies, a tree and a machine that change between processes |
| banking, `attnbench/predict/{commit,training}.py` | when each pairing was banked, what each prediction was fitted on | write, time, bank, load | banking stated by hand, two clocks |
| dispatcher, `attnbench/predict/dispatcher.py`, `attnbench/lock/holm.py` | none | a configuration from predicted times; its score on measured ones; Holm's step-down | one floor over predicted gaps and measured ones; ties |
| delay injection, `attnbench/predict/delay_injection.py`, `attnbench/components/{delay_injector,host_profile,op_sequence,sync_tape}.py` | a recorded sequence, its priced form, the calls that issue it, a plan, a cursor | to_operations, the null pass, calibration, plan, schedule, the injected pass | which call issued which operation is divided out; every pass may take another path |
| recording and replay, `attnbench/components/{recorder,replay,trace_stream}.py` | the recorded trace, CUDA graphs | record, replay | one pass each |
| cloud sessions, `scripts/gcp_*.sh`, `_flex_request.sh`, `run_phase.sh`, `aws_*.sh` | a queued request or a VM, its disk, the bucket, reasons given to go without | walk the zones, wait, cancel, confirm; run the gate; sync, pull logs, delete | answers late or unreadable; signals at any point; a deletion of what was not saved |
| gates' numerics, backends, masks, model, scoring, baselines, analysis, figures | rows in, rows out | single passes | numerical |

How they meet.  The session runner starts each step as a process through
`run_phase.sh`, which runs it and syncs its directory.  `predict` builds its
record from the components, prices it with the recursion and syncs it through the
commit.  `hold` and `ground_truth` read the receipt and wait for its release.
`ground_truth` times the arms under the throttle detector, which is a process of
its own.  `verify` and later the analysis read the prediction back from the bucket
with `load_committed`.  The probe, the sweep and the accuracy runner stand apart: each
banks rows with the checkpoint.  A session on an H100 runs inside the retry loop,
which launches a VM through the flex-start queue and tears it down through its own
exit trap.

## Modules

| module | models | state and actions |
|---|---|---|
| `Recursion` | `recursion.py`: `close_prefill`, `price` with every refusal, `recurse` in both sync modes and at every depth | `H`, `D`, `stall`, `wait`, `launches` are the code's lists; one step per operation: `Launch`, `Synchronise`, `PassSync` |
| `RecursionProps` | its properties | |
| `Pipeline` | what the recursion promises: the earliest schedule of one host, one in-order device and a launch queue.  No max and no index arithmetic: a time is the least one the machine allows | refined by `Recursion` |
| `PredictionCommit` | `commit.py` write, sync and load, `GsutilStore`, `session_order` | two clocks; `path`, `sidecar` the local directory, `store` the bucket with creation times; the committer, the workload, the analysis, and somebody who replaces an object |
| `T31Session` | `t31_session.py` `run_session` with the steps' evidence, in real, rehearsal and debug mode | `manifest` as the last status of each step; `dirs` the steps whose directory says passed; `receipt`, `stamped` what predict and ground truth leave; `Die` in any phase, inside the manifest's write too |
| `AccuracyRun` | `run_accuracy`, its four continuity checks, `append_checkpoint` | `rows`, `tmp` the files; `run` the process with its buffer and stamp; `MoveHead` the repository |
| `BlockJudge` | what the timed region is promised by its detector: a block during which a throttle was read is never judged clean | refined by `ProcessSampler`, used by `TimeArms` |
| `ProcessSampler` | `clock_sampling.py` `ProcessSampler` and `_sampler_main` | the process's steps between its locks; `begin`, `end` split where they wait or lock |
| `TimeArms` | `ground_truth.py` `time_arms` and `timed_block`, over `BlockJudge` | `EXTENDS BlockJudge` and runs its steps inside its own, so what `ProcessSampler` implements is exactly what `TimeArms` assumes |
| `GuardedCells` | `t31_steps.py` `guarded_cells`, `resumable`, `staged_accept`, the child of a cell; `keep_attempt`'s hard links; a debug session's staged cells | `disk` every cell directory ever made, `here` where the steps see one, `kept` the links of earlier attempts; `cache` the bare prices; `run` the step and where its cell stands; `Die` in any phase, inside the removal of a directory too |
| `SessionBlocks` | `lock/blocks.py` `check`; `t61_session.py` `run_session` of a block, with `block_run`, `start_block`, `verify_import`, `block_identity_problems`; `block_drift.py` `collect` | `sessions` the directories and their manifests, `boot` the instance, `run` the runner; `StartBlock` writes a block's manifest with what it imports, `Start` is a run or a resume, then one action per write of the loop; `Die` and `Restart` in any phase |
| `CompileGuard` | `compile_guard.py`, and the part of `torch.compile` it watches: variants up to a limit, then eager calls, announced once in a process | `cache`, `stopped`, `reasons`; `Called`, `Watch` and `FellBack` are used inside `KernelStages`' steps |
| `KernelStages` | `run_probe.py` stages 0 and 1, `sweep.py` and `timing.measure` | `probed`, `correctness`, `sweep` the tables; `proc` the process; `Die` and `Move` (the tree or the machine) around them |
| `BankedOrder` | `commit.py` `load_committed` from `banked_at` on, `training.py` `committed_training_set` | `now` the store's clock, `banked`, `prediction` with its stamp, `loaded` the verdict |
| `Dispatcher` | `dispatcher.py` and `holm.py`, as operators over bounded points and grids | no state but its input; checked beside `BankedOrder`, the other thing a committed prediction promises: a behaviour of `MCBankedOrder` is an order of banking or a point |
| `CallAlignment` | the null pass of `host_profile.py` and `to_operations` of `op_sequence.py`; `delay_injector.py`'s `call_positions` | calls, events and positions as sequences |
| `DelayInjection` | `delay_injection.py`'s plan and `delay_injector.py` from calibration to the measured pass; the interactions of `sync_tape.py` | `stage` follows a variant from `recorded` to `measured`; `pass` and `at` the pass under way, which may leave the recorded path; `cursor` counts the calls seen of it |
| `FlexRequest` | `_flex_request.sh`, `gcp_launch_h100.sh` | `server` Compute Engine's answer per zone, moving at its own pace; `pc` the launcher; one action per bounded call |
| `H100Gate` | `gcp_h100_gate_retry.sh`, `run_phase.sh`'s sync, `t64_session.py`'s gate, `gcp_teardown_session.sh` | runs `FlexRequest`'s launcher inside; `work`, `results`, `bucket` what is where; the teardown's checks one by one, its re-run by hand |
| `MC...` | instances for TLC | |
| `..._proofs` | theorems | |

The operators whose comment starts with `mutant:` are wrong versions of the
definition after them.  Nothing uses them; they show what each property
catches, and `PROJECT.json` says which property that is.

History variables, in no file of the program: `taken` and `epoch`
(`ProcessSampler`: every sample stored and the block it was read in), `ran`,
`run` and `checked` of a row (`AccuracyRun`: the arguments of the run that measured it,
which run that was, and the repository as its continuity check read it),
`clockedUnder`, `real` and `unlisted` (`T31Session`), `clocked` of the workload
(`PredictionCommit`: the store's clock at the first forward, which nobody reads),
`wrote` of a prediction (`BankedOrder`: the store's clock at the write), `run`,
`eager` and `blockwise` of a row (`KernelStages`: which process, whether what ran was the fallback,
and which check), `unwatched` (`FlexRequest`: gone before what was sent could be
seen), `saw` (`H100Gate`: what the disk held when the teardown looked).

## Runs

Every run is without deadlock checking: each of these is a program that ends, or
a session that is given up.

| run | bounds | what it shows |
|---|---|---|
| `recursion` | every sequence of up to 4 operations out of seven (two mechanisms, a copy, kernels on either side of host-bound, one that must be refused), closed or not; depths 0, 1, 2, 3 and none; both sync modes | `Implements`: each step is the earliest schedule.  `QueueCountsAgree`: the source's claim that D of k-Q and the Q-th last launch agree when syncs wait.  `HostTimeAccounted`: nothing is counted twice.  A queue of 3 and 4 operations has the queue full, wrapped once and drained |
| `prediction_commit` | clocks of 4 ticks, a second of 2, skew 1, guard 1, 2 predictions, 1 replaced object | `PredictionBeforeWorkload` (K9), `HeldIsAccepted`, `ReceiptStands`.  The hold and the stamp are two readings of the clock; the analysis may compare with a local copy or not.  A second of 2 ticks is enough for a creation time to be cut; one attempt that dies and one that follows cover a half-written prediction of the same name |
| `banked_order` | 2 pairings, 6 ticks, skew 1; points of 2 sparse configurations and 4 times, floors and errors up to 2 | `TrainedOnBanked`: six ticks order two writes and two bankings with the skew on either side of each.  `DispatchPays` over every point, grid and admissible set; errors above and below each floor |
| `t31_session` | 3 runs, 1 dead runner | `OnePrediction`, `NoPredictionAfterClock`, `InputsPassed`, `PassedIsReal`.  Three runs are a session, a resume and a resume of the resume |
| `accuracy_run` | two dense cells, one block-sparse and one xattention, two scorers, two thresholds, pinned or not, every waiver, two commits, checkpoint every 2 rows, 3 runs, 1 move of the repository at any time, between a run's check and its stamp too; symmetric in commits, scorers and thresholds | `RowsSurvive`, `OneRowPerCell`, `OneRegime`, `OneCommit`, `ReturnMeasured` |
| `process_sampler` | ring of 2, 4 samples, 2 blocks, 2 starts | `SliceIsTheBlocks`, `EndReturns`, `ImplementsJudge`.  Four samples in a ring of two wrap it twice; the second start begins after a death with the lock |
| `time_arms` | 3 arms, 2 rounds asked for, 2 reruns | `CleanMeansUnthrottled`, `RowsPaired`.  Four rounds of three arms is one full rotation and the budget spent |
| `guarded_cells` | two cells that share a signature, 3 attempts of the two steps, 1 change of the code, the libraries or the link row; real and debug sessions, with any first cells staged | `KeptStands`, `EntriesOfOneCode`, `PricedFromTheseInputs`, `PassedIsWhole`.  Three attempts are step 5, a second step 5 under other code or after a death, and a step 6 that reads one of them; two cells are one that resumes beside one that does not |
| `session_blocks` | five steps, specs of three and of two blocks, one with a step missing and one with a cell twice; 3 sessions, 3 runs, 2 boots, 2 machines, 1 fix; symmetric in the machines | `OneBoot`, `NothingSkipped`, `CellsOnce`, `DiscardStands`.  Three sessions are the three blocks, or a block of two that is cut and begun again; the two wrong specs are there for `check` to refuse |
| `kernel_stages` | a compiled backend and one that is not, a short and a long length, a backward pass that is a known fault; command lines for all of it, for the short length with the long gate configurations, and for the longer ones under `--exact-only`; a limit of one variant; 3 processes, 1 move of the tree or the machine; symmetric in both | `Licensed`, `TimedCompiled`, `OneRowOneHost`.  Two lengths and a limit of one cross the limit in any of the stages; three processes are a probe, a sweep and either again |
| `h100_gate` | 2 zones, 1 round, 1 signal, 1 day more, a session of 2 steps, 1 teardown by hand; a deadline of 1 poll, 2 unreadable answers | `OneRequest`, `LeavesNothing`, `SavedOrExcused`, and `Ends` under fairness.  Two zones are a cancel that must be confirmed before the next request |
| `delay_injection` | prefills of up to 4 events from nine calls (one kernel or three, nested, empty, in place, copies that wait or not, an explicit synchronise), 2 injections, a pass that leaves out or repeats one event | `ChargedOnce`, `VariantAsPredicted`, `MadeTheCalls`.  Three kernels beside one of the same operator is the shortest stretch that can be divided wrongly; nesting needs one call of two |

## Also met

Disagreements met while modelling, and what the modules do about them.  None is a
statement about published rows.

Accuracy runs, sessions, sampler:

  - `accuracy/runner.py:138` compares whether a decode kernel was pinned, where
    lines 128-131 say the check keeps two decode kernels apart: the flag takes two,
    and a run pinned to one resumes into rows pinned to the other.  Rows on file
    were pinned one way; `accuracy_run` pins one kernel or none.
  - `accuracy/runner.py:215` says a score depends on model, backend and mask; the
    resume key (`:229`) and the checks have no model in them.  Rows on file are of
    one model; `accuracy_run` has one.
  - `accuracy/runner.py:240` says a resume into a checkpoint of another commit is
    refused, and `:265` one from a dirty tree.  The check (`:403`) and the stamp of
    the rows (`:416`) are two readings of the repository: if it moves between them,
    a run without a waiver appends rows of a commit nobody checked, or of a dirty
    tree.  `Start` and `Capture` have both readings, and `OneCommit` says what is
    left: such rows are all of that run, and no later run without a waiver adds
    to a file of two commits or to rows of a dirty tree.
  - `clock_sampling.py:42` says a block is judged on the sample just after it.
    `end` waits for one more sample stored, and the process reads before it takes
    the lock (`:553`): the sample that ends the wait may have been read before the
    block ended.
  - `t31_steps.py:989` says no cells of two code identities are mixed.  The
    step's `bare_price_cache.pkl` (`:1259`) has no identity and no attempt clears
    it: a cell run again after a fix takes the prices timed before it.  They differ
    only if the fix changed what a signature costs.
  - A rerun of step 5 that died with its runner leaves step 6 free to run over the
    host cells the dead rerun had reached; each is priced against its own entry.
  - `t31_session.py:183` goes by the last recorded status of the earlier steps.
    A rerun of one of them that died with its runner is in no manifest: the
    record before it lets a later step start, though its directory has been moved
    away.  The later step fails for want of its inputs.  `t61_session.py:1052`
    and `verify_import` go by the same record.
  - `block_drift.py:5` says that a block whose instance restarted carries
    `INTERRUPTED_DISCARD.md` and that its rows are never read.  The file is
    written by a resume on the new boot (`t61_session.py:1094`) and by nothing
    else: a block that was preempted after its rows were written and never
    resumed is collected, and so is one whose ground truth failed its stamp, as
    the rows are written first (`t61_session.py:782`).
  - A preflight is recorded as passed before it is compared with the imported
    blocks (`t61_session.py:1146`): a runner that dies between the two leaves a
    block whose machine was never compared.
  - A block's commit is taken when it begins (`t61_session.py:1240`) and not when
    it is resumed after a fix, so `verify_import` and `collect` compare the first.
  - `collect` compares spec and commit but not what the blocks imported: two
    blocks under two predictions of one pairing can be put together.
  - `run_phase.sh` syncs in its exit trap, after the exit code is fixed, so a
    failed sync is printed and the runner never learns of it, though
    `t61_session.py`'s status text has "(sync?)" for it; `manifest.json` is
    written after each step's sync.  `T31Session` and `SessionBlocks` let a step
    that passed exit non-zero anyway, so they claim nothing about failed syncs.

Cloud:

  - The gate's exit trap takes its status from the last command
    (`gcp_h100_gate_retry.sh:190`): after a signal that can be 0, and a gate that
    was cut off is torn down with a passed gate's excuse, against lines 194-199.
    `Statuses130` has both outcomes.
  - A NOT_FOUND right after an interrupted `--async` submit is reported as "gone
    (confirmed)", and `FLEX_LIVE` is cleared after the grant, so a signal between
    the grant and the exit leaves a VM (`unwatched`).
  - Ctrl-C under the retry loop also ends the `tee` the launcher writes to, and the
    exit trap can die of SIGPIPE without cancelling (`CutShort`), against
    `gcp_h100_gate_retry.sh:48`.
  - A teardown whose sync had no ssh for a moment and whose logs were then pulled
    goes by the override and deletes with no reason on record; one whose `describe`
    and `list` both fail takes the instance for gone and deletes without looking.
    `SavedOrExcused` speaks of a teardown that saw it.
  - A gate that passed is deleted with the reason that its step results "were synced
    as each step ended" (`gcp_h100_gate_retry.sh:203`), and a step passes whose sync
    failed in `run_phase.sh`'s trap.  `SavedOrExcused` takes any recorded reason.
  - The sync's missing reason is recorded even if the logs check then refuses; a
    remote session whose connection dropped goes on after the teardown's sync.

Probe, checks and sweep:

  - Rows voided by a fallback, out of memory or failed are done on a resume, in
    both stages; `Stage1CommitError` says to re-run Stage 1, whose default resume
    skips the rows of the stale commit.
  - The sweep refuses passes of a dirty tree but not its own dirty tree; its rows are
    not checked for continuity of the commit; `--auto`'s commit and the rows'
    provenance are two readings.
  - `gates.py:977` says a pass by way of an eager fallback is void.  That is
    `check_for_family`; `run_probe.py:114` sends the long gate configurations to
    `check_correctness_blockwise` (`gates.py:419`), with no guard around the call:
    there the pass of a fallback is banked as a pass and licenses Stage 2.  The
    repository calls it with `--only-backends fa3` (`t64_session.py:209`), which is
    not compiled.  `Licensed` therefore allows an eager pass of the blockwise check
    only; `TimedCompiled` holds whatever the pass was, as the sweep has a guard of
    its own.
  - A cell counts as passed if any row of it passed.  With `--only-backends` there
    may be no reference left for a check across backends.
  - `assert_exclusive` compares pids by prefix.

Delay injection and dispatcher:

  - `delay_injector.py:19` says its mapping of calls to positions is
    `host_profile.assign`'s.  That one stopped dividing evenly on 1 November 2026
    (`host_profile.py:83`); `call_positions` still divides.  Two products that issue
    one kernel and three are recorded as four positions and divided two and two: an
    injection planned inside the second is accepted and fires inside the first,
    silently.  `VariantAsPredicted` therefore asks only for uniform calls
    (`Uniform`); uneven, empty, nested calls and copies that wait beside copies
    that do not are what it leaves out.
  - "A pass that takes another path is refused" (`delay_injector.py:24`) holds of
    the calls that launch.  A pass with other synchronisations, or whose calls issue
    otherwise, is not noticed, as `MadeTheCalls` says no more than that.
  - `to_operations` drops the flagged implicit waits and `recursion_positions`
    keeps them; `_base_matches` then refuses.  Composites are always refused.  The
    tape is of a second pass, compared with the traced one by its masks only.
  - The nearest-pairing comparator applies one map of choices under every
    admissible set (`dispatcher.py:399`), so under the corrected set its choice may
    be outside the set its regret is measured against, and the regret negative.
    `DispatchPays` is of the dispatcher.

## Fairness

Two specifications assume any.

`ProcessSampler!FairSpec` has weak fairness of `Wait` and of `Slice`: `end` loops
to a deadline on the monotonic clock and acquires the lock with a timeout, so the
harness moves on by itself.  Nothing is assumed of the sampler process, and that
is the point of `EndReturns`.

`H100Gate!FairSpec` has weak fairness of the scripts' next step (every call in them
is bounded, every loop counts), of the session's steps on the VM, and of Compute
Engine's own clocks: a create call ends, `--request-valid-for-duration` ends a wait
and `--max-run-duration` ends a VM.  Nothing is assumed of zones having capacity,
of signals or of a person re-running a teardown.  `Ends` is then that nothing bills
in the end; without the clocks a launcher that is killed leaves a VM for ever.

## What is proved

TLAPS checks these for every value of the constants that satisfies the named
assumptions.  Every property the runs check is stated by one of the theorems, but
for the three at the end of this section.

`Recursion_proofs`, from `ConstantsAssumption` (operations are well-formed
records, costs natural numbers, `None` no integer).  The inductive invariant
`IndInv` is `TypeOK` and:

  - `Accepted`: what `price` let through, that is, every cost is at least 0 and
    every sync that pays by the byte has a rate.  Without it D could go back;
  - `InOrder` itself, over the operations recorded;
  - `SyncDrains`: after a waiting sync H equals D, so nothing is pending;
  - `LaunchCount`, `LaunchesDone`, `LastLaunches`: `launches` is D restricted
    to the launches, and the last of them since a sync are at the end of D.

`RecursionInOrder` and `RecursionTypes` are conjuncts.  `RecursionQueue`
(`QueueCountsAgree`) follows from the rest: either D of k-Q is one of the last
Q launches, or a sync lies between, and then both bounds are below the host's own
time.

`RecursionRefines` is `Implements`: each step of the recursion is a step of
`Pipeline`.  The two say the queue's bound differently.  `Pipeline` lets the host
issue at the first moment fewer than Q launches are unfinished; the code takes a
max with one entry of a list.  `PendingCounted` joins them: fewer than n launches
are unfinished at t exactly when the n-th last is over at t, or there is none.
From it the least time the schedule allows has a closed form, which is the code's.

`RecursionAccounts` is `HostTimeAccounted`, by `Accounted`: before each operation
the host's last return is the sum of what was spent so far.  The sums are recursive
functions.  That one exists, and what adding an entry does to it, is shown by a
least counterexample, since the library's induction rules cannot be used here.

`PredictionCommit_proofs`, from `ConstantsAssumption` and `NoneAssumption`.
`PredictionFirst` is `PredictionBeforeWorkload` for any skew, guard, second and
number of crashes.  `IndInv`: `ClocksNear` (the two clocks within the skew),
`Progress` (what exists at each point of the committer), `StoredInPast`
(creation times not after now), `StampBeforeClocked` (the workload's stamp
within the skew of the true time of its first forward).  The lemma
`WholeSecondBound` says that a time cut to its second plus one is later than
the time: this is why `created` adds one.

`ReceiptsStand` and `HeldAccepted` rest on `Grows`: until a replacement no step
changes an object that is there, so what `read_back` compared is what the store
still holds, and the sync time the hold waited for is the one the analysis reads.
`StandInv` has what the committer knows at each of its points (`LocalIsRecord`,
`StatSees`), what was stamped before it was put (`StampedBeforePut`), the receipt's
bytes and time (`ReceiptHolds`) and the hold's margin (`HeldStands`: of the stamp,
and before it of the clock, which does not go back).  A prediction such a session
held on is refused for one thing only, a local copy named to the analysis that is
not it.

`T31Session_proofs`, from no assumption.  `SessionOnePrediction` and
`SessionPredictsFirst`, for any number of runs and crashes.  `IndInv`: `RunTypes`;
`RunPastClock` (once ground
truth is in the manifest no run stands at predict or before, and it is in the
manifest before its process starts); `ClockedIsListed` (what was clocked is in
the manifest, or the manifest is torn and nothing runs); `OnePrediction`.  The
record before the run is the whole argument: with the record moved to the end
(`AppendAtEnd`) the invariant fails.  `SessionPassedReal` (`PassedIsReal`) is by
`RealInv`: a step under way is unlisted or listed as no pass, and an exit of 0 is a
pass's only.

`SessionInputsPassed` (`InputsPassed`) is what `blocked` and the entry check are for:
while a step runs, everything it rests on passed, through inputs of inputs too, in
runs that keep going past failures as in ones that stop.  The code asks each step
for its direct inputs only.  `InputsInv` says what that leaves in the manifest:
each step before the one at hand that is listed as passed has its inputs
listed as passed.  As inputs are earlier steps (`InputsAreEarlier`), those steps
are a set closed under inputs, and it holds all that the step at hand rests on;
`PassedIsReal` makes a listed pass a real one.

`GuardedCells_proofs`, from `CellsAssumption` (the cells are distinct and are
those with signatures) and `NoneAssumption`.  `GuardedOneCode` is
`EntriesOfOneCode` and
`GuardedKeptStands` is `KeptStands`, for any grid and any number of attempts,
deaths and changes.  `IndInv`: `Shapes`; `EntriesNamed` (a directory a step sees
is on disk, and its entry was measured by the code its manifest names: this is
what lets `resumable` go by the manifest); `ChildsOwn` (the child's directory is
the last made, under the code now); `IndexOfOneCode`; `KeptAsWas` (what was kept
is as it was and is older than the child's directory).  The prices are not part
of it: the price cache has no identity (Also met).

`GuardedTheseInputs` (`PricedFromTheseInputs`) and `GuardedWhole` (`PassedIsWhole`)
need more, as they compare the index in memory with the disk when the step
returns.  `WholeInv`: `OnePlace` (a directory is seen in one place, so a cell's child
touches no other cell), `FromNamed` (an entry was priced from the inputs its
manifest names), `ChildsInputs` (the child's are those of its cell), `IndexIsWhole`
(while no cell failed, the step has the entry of each cell it is past, and that cell
is whole).

`Measured_proofs`, on the accuracy runner, from `GridAssumption` (the grid's cells are distinct, each
of one of the three kinds of backend), `RunAssumption` (counts are natural, a buffer
holds at least one row) and `NoneAssumption` (`None` is no commit, scorer or
threshold).  The six theorems are `TypeOK`, `OneRowPerCell`, `OneRegime`,
`OneCommit`, `RowsSurvive` and `ReturnMeasured`, for any grid, any command lines and
any number of runs, deaths and moves of the repository, whenever they come.  The argument is of `Held`,
the file's rows and the buffer's after them: measuring adds one row to it, a death
cuts it back to the file, nothing else changes it (`Added`, `Cut`, `Same`).  `Sound`
says of `Held` what the properties say of the file, and that a row's columns tell
the command line it was measured under (`Tells`); it is kept when rows are cut off
the end.  `Goes` is what a run may rely on: what it has to do is missing, what it
was asked for is there or to be done, and every row held is of its regime and one
the commit it checked may be continued from, unless it is the run's own and carries
its stamp.  The lemma `ChecksSuffice` is the point of the
four refusals at the start: of a sound file they give a run `Goes`.

`Measured_proofs`, on delay injection, from `CallsAssumption` (calls are as the
trace's parser leaves them: what launches or copies has a chain, which
`_check_issuable` sees to).  For any calls, prefills of any length, any plan, and
passes that leave out or repeat an event:

  - `MadeTheCallsHolds` (`MadeTheCalls`) by `PassesMet`: what was observed of the pass
    so far is the calibration's calls up to the cursor, and the calibration's calls
    meet the recording.  `ObservedGrows` is what it needs of the observer: what is
    seen of a pass is what is seen of its events, joined.  `MetMerged` is the part
    about neighbours: calls that meet stretch by stretch merge to the same names.
  - `VariantAsPredictedHolds` (`VariantAsPredicted`) by `AsScheduled`: the base is the
    sequence without its markers (`Matches`), the schedule counts the plan's sites
    per call (`Planned`), and the device was given what the events so far run and
    fire (`Ran`).  Both invariants were model-checked first.  That this is the
    prediction takes three steps, for uniform calls.  `EvenShares`: dividing each
    stretch evenly gives the n-th call the n-th event's operations, although events
    of one operator merge into a stretch whose bounds no event has (`StretchShares`,
    `TurnsMeet`).  `CallsEnd`: so a site ends a call exactly when it is the last
    operation of that call's event.  `EventPredicted`, `PathPredicted`: event by
    event, what ran and fired is what `Inject` puts there.
  - `TimesChargedHolds` is `TimesCharged`, the first part of `ChargedOnce`, on any path.
    `AlignmentDivides`: whenever `align_calls` raises nothing, the shares it returns
    have each issued operation once, and there is one for each call met (by
    `AlignedStep`, one recorded call after another; `CallsDivide` says the recorded calls
    do).  `Costed` then says which times an operation is charged, so a gap or a
    launch is at the head of its share only (`OneLaunch`), a region at the first
    operation issued after it (`OneMark`, the least one, and `Assigned` left none over),
    and floors are what is left (`FloorsCounted`).  `Priced` carries this to the state
    after the null pass; `RegionsCounted` counts its regions in the recording.

An algorithm's loop is a recursive function of how far it got (`after` of
`AlignCalls`), or the library's `FlattenSeq`, and the lemmas of the module's first
part replace induction over it: `UpTo` is induction over a set of numbers, by
`HasLeast`; `JoinedSteps` and `FlattenIndex` say where each part of a joined sequence
is; `Lists` is what a filter returns.

`Instances_proofs`, from `FlexAssumption`, `StepsAssumption` and `SessionBlocks`'
`NoneAssumption`: what runs on instances that come and go.

  - `OneRequestHolds` and `LeavesNothingHolds`, for any zones, rounds, deadlines and
    signals.  `IInv` is `FlexTypes` and: `OnlyHere` (what is live is in the zone
    being tried), `FromNothing` (a zone is tried from nothing),
    `RefusedForCapacity`, `Waiting` (while polls are counted, unreadable ones count
    too, so none outlasts the grace), `CancelSees` (a request that was waited for is
    visible when it is cancelled), `KnownLive` (while a request may exist the exit
    trap knows), `Watched` (what could still be unseen has been looked for).  The
    grace below the limit of unreadable polls is what the argument needs, and
    `FlexAssumption` names it.
  - `TeardownSaves` (`SavedOrExcused`) by `SaveInv`: between its sync and its delete
    the teardown knows what became of both, and what the sync copied of what it saw
    stays in the bucket.
  - `BlocksOneBoot`, `BlocksInOrder`, `BlocksApart` and `BlocksDiscarded` are
    `OneBoot`, `NothingSkipped`, `CellsOnce` and `DiscardStands`, for any steps, any
    spec, and any number of sessions, boots, machines and fixes.  `BInv`: `AllTaken`
    (a session has taken all of the earlier blocks, and it stays passed),
    `BootsPass` (a session's boot is not after this one, and before it once the
    session is discarded), `OneBoot`, `InLoop` (the runner is in a session of this
    boot with its earlier steps passed).  The lemma `RestsOnEarlier` is what `check`'s
    order is for: a step before the prediction, or before ground truth, is the
    block's own or an earlier block's.

`OnRecord_proofs`, from `BankingAssumption` and `DispatchAssumption`: what is on record
and what may be said from it.

  - `TrainedBefore` is `TrainedOnBanked` for any pairings and skew.  `IInv`: `TypeOK`;
    `Stamped` (no event is in the future, a prediction's stamp is within the skew of
    the time it was written, and it does not name its own pairing); `Judged` (an
    accepted verdict is of a prediction that stands); the property.
  - `PredictionsPay` is `DispatchPays` for any configurations and times: if no
    prediction is off by more than e, the choice costs at most the floor and 2e over
    the best measured, and e within the floor is enough for it never to be a false
    profit.  The library's well-foundedness of the naturals gives the minimum
    (`HasLeast`), `LeastIs` the key with ties, `ChoiceIs` the choice without it.
  - `CorrectingShrinks`: Holm's step-down is within the uncorrected set.
    `RuleIsDispatcher`: the kernel-speedup rule is the dispatcher reading kernel
    times with no floor.
  - `SweepIsLicensed`, `SweepIsCompiled`, `SweepRowsOnce`.  Their invariant: `Shape`;
    `Told` (a process in which torch gave up compiling has heard of it, in whichever
    stage); `PassesEarned` (no pass on record or pending is of an eager fallback, but of the blockwise check);
    `Sweeping` (what a sweep may still time has a clean pass and no row, and the file
    is of this machine); the three properties.  The lemma `QuietIsCompiled` is the
    guard's whole point: what is called while nothing was heard runs compiled.

`Timed_proofs`, from `CapacityAssumption`, `ArmsAssumption`, `RoundsAssumption`,
`UnjudgedAssumption` and `ProcessSampler`'s `NoneAssumption`: a throttle is never
missed, from the sampler's ring to the returned rows.

  - `SamplerSlices` (`SliceIsTheBlocks`) for any ring size, any number of samples and
    blocks, and a process that dies anywhere, with the lock in its hands too.
    `SamplerInv`: `RingKept` (the ring's slots hold the last `capacity` samples,
    and while one is being stored all of them but the slot it goes to);
    `Epochs` (no sample is of a later block, the block's own come after its `n0`, and
    once it ended none comes later than the one the sampler may have had in hand).
    `SlotsApart` is the arithmetic under it: indices less than the size apart have
    slots of their own.
  - `SamplerRefines` is `ImplementsJudge`: the process implements `BlockJudge`.
    `SeenIsJudged` is its hard step: what was read of the block, at the last moment
    too, is in the stretch the block is judged on, as `end` waits for one more.
  - `ArmsTypes`, `ArmsUnthrottled` (`CleanMeansUnthrottled`) and `ArmsPaired`
    (`RowsPaired`), for any arms, any number of rounds and any budget of reruns, over
    what `BlockJudge` promises.  `ArmsInv`: `Open` (a block runs only in a round the
    budget has room for), `Sampled` (an arm has one sample of each round past, and of
    this one once it was timed), `Marked` (a throttled sample flags its round or is
    going to), `Answered` (what is returned is of the rounds as they stand).  A round
    times every arm once as its order is a permutation (`OrderPermutes`); what a row
    picks is shown round by round (`PicksAre`), by a least counterexample again.

Only model-checked:

  - `ChargedToItsCall`, the second part of `ChargedOnce`: on the recorded path a
    call's launch is charged to the call that made it.  `align_calls` goes by
    names, so for calls in general it is false: a call that shows an operator twice
    and issues once, before a call that issues and shows nothing, takes that one's
    operations and raises nothing.  It holds of the calls of the run, and what a
    prefill's calls must be like for it is no rule of the code.
  - `EndReturns` and `Ends`: liveness under fairness, out of the prover's reach.

## What is abstracted

  - Times are whole ticks, a bandwidth its inverse, densities and scores are left
    out.  A digest is the content it is of.
  - A runner's death takes the step's process with it (they share an instance).
  - One accuracy run at a time writes to a directory: they are started by hand.
    Two at once would lose rows, `checkpoint.py` takes no lock.
  - The groups of ground truth are one step.  Steps run by hand, `--dry-run` and
    what a step measures are not state of the session.
  - In `GuardedCells` the instance is one with the libraries, `over_rss_ceiling`
    one with `failed`, and a recording stands for all the files of a cell but
    its manifest and entry.  The code does not change while a step runs, and a
    child dies with its step.  One change between attempts means that a change
    and its reversal are out of reach; around a removal cut short they could
    let a cell resume without its recording, so `PassedIsWhole` does not
    promise it.
  - In `SessionBlocks` the lock file stays as it is, so every session is of its
    spec; a restart stands for the next block's instance too; `findings` of a
    directory is kept for the preflight only, the one result another block reads;
    the earlier attempts that are moved aside are dropped, and so is the clock of
    the hold.  A session that is not in blocks is not modelled.
  - The ring has 2 places where the code asks for at least 8; the arithmetic is
    in the capacity.
  - The in-process `BlockSampler` is not modelled; the sessions use the process.
  - In `KernelStages` the tree and the machine change between processes only, a
    checkpoint is one step (`AccuracyRun` has its atomicity) and a row is written at
    once (`checkpoint_every` 1); the dry run and the clock lock are left out, and
    `--skip-correctness` is a probe that stops before its checks.
  - In `BankedOrder` banking is stated by the store's clock.  Stated by another
    instance's, two instances may differ by twice the skew and one would not do.
  - In `Dispatcher` times are ticks, a regret is a difference (its sign and order are
    the ratio's), and the confidence bound is the least level it clears the margin
    at.
  - In `DelayInjection` there is one layer; the closing synchronise is left out of
    the base; the sites of a plan are any ascending choice of issued operations (the
    busy ones are the recursion's answer); payloads, the check of waits, mechanisms
    and slopes are numerical; a call's operators return together; interactions are
    compared by order and name.  The isolated replay is left out.  The times that are
    charged are the null pass's and the bare timer's, put at the same operations
    call by call.  Since 1 November 2026 predictions read the bare timer's
    (`host_profile.py:11`), which have no gap for the Python between calls; which
    route a price came by is numerical.
  - In `FlexRequest` STOPPED and TERMINATED are STOPPING, STAGING is PROVISIONING, a
    poll is a unit of time, and days pass only while a launcher reads the date.

## Plan

Done, in this order: the recursion and its schedule; the commit; the P1 session and
its guarded cells; the accuracy runner; the sampler and the timed region; sessions
in blocks; the launcher, the gate and its teardown; the probe, checks and sweep; the
order of banking and the dispatcher; delay injection.

Left, in the order of what they would add:

 1. The P4 session's planner of blocks and steps after the gate, over
    `SessionBlocks`; the session of `t61_session.py` that is not in blocks.
 2. `aws_launch_session.sh` and its teardown, over `H100Gate`'s teardown.
 3. `host_profile.py`'s and `op_sequence.py`'s chain checks and the recorder, in
    front of `CallAlignment`.
 4. The dispatcher's sums over points and its frontier.

Theorems next: a condition on a prefill's calls under which a launch is charged to
the call that made it (`ChargedToItsCall`), as weak as the chain checks of item 3
would justify; that `CallAlignment`'s two ways of finding a call's operations agree
where calls are uniform.

Not planned: what is numerical (kernels, masks, scoring, regression, bootstrap,
figures), what reads the environment once (provenance, clock control), scripts of
sessions that are over (L4 shakedowns), generated and vendored code.
