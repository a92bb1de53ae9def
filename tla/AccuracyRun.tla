----------------------------- MODULE AccuracyRun -----------------------------
(***************************************************************************)
(* Stage 3: accuracy/runner.py run_accuracy over checkpoint.py, with the   *)
(* decode check scripts/run_accuracy.py makes first.  A run checks that it *)
(* continues what the parquet holds, plans the cells the parquet lacks,    *)
(* and appends its rows a buffer at a time, by a temporary file and a      *)
(* rename.  Runs of any arm may share an output directory, one at a time;  *)
(* each may die anywhere, and the repository may move under it.            *)
(***************************************************************************)
EXTENDS Integers, Sequences, SequencesExt

CONSTANTS
    Grid,             \* build_cells: the keys [backend, example], in order
    Scorers,          \* --score-source of the block_sparse arm
    Taus,             \* --xattn-threshold, --xattn-calibration
    Pins,             \* --pin-fallback-decode-backend: kernels, or None
    Waivers,          \* {[mixed, dirty]}: --allow-mixed-commits, --allow-dirty
    Commits,          \* commits of the repository
    checkpoint_every,
    MaxRuns,          \* bound: runs started
    MaxMoves,         \* bound: times the working tree changes
    None

XATTN_SCORE_SOURCE == "xattention_inline"
DENSE_DECODE_BACKEND == "sdpa_flash"

ASSUME GridAssumption ==
    /\ \A i, j \in 1..Len(Grid) : Grid[i] = Grid[j] => i = j
    /\ \A i \in 1..Len(Grid) :
           Grid[i].backend \in {"dense", "block_sparse", "xattention"}
ASSUME RunAssumption ==
    checkpoint_every \in Nat \ {0} /\ MaxRuns \in Nat /\ MaxMoves \in Nat
\* None is an absent value of a column
ASSUME NoneAssumption ==
    /\ None \notin Commits \cup Scorers \cup Taus \cup BOOLEAN
    /\ None \notin {XATTN_SCORE_SOURCE, DENSE_DECODE_BACKEND}

VARIABLES
    rows,   \* accuracy.parquet: the rows, in order
    tmp,    \* .accuracy.parquet.tmp: the rows written, None when absent or torn
    head,   \* the repository: [git_commit, git_dirty]
    run,    \* the process: [arm, todo, buffer, checked, stamp, phase], or Idle
    runs, moves

vars == <<rows, tmp, head, run, runs, moves>>

Keys == {Grid[n] : n \in 1..Len(Grid)}
Heads == [git_commit: Commits, git_dirty: BOOLEAN]

\* What a command line asks for
Arms ==
    LET Common(b, scorers, taus) ==
            [backends: b, score_source: scorers, xattn: taus,
             pin: Pins, waiver: Waivers]
    IN  Common({{"dense"}, {"dense", "block_sparse"}}, Scorers, {None}) \cup
        Common({{"dense", "xattention"}}, {XATTN_SCORE_SOURCE}, Taus) \cup
        Common({{"dense"}}, {XATTN_SCORE_SOURCE}, {None})

Idle == [phase |-> "idle"]

RowsAt == {rows[n] : n \in 1..Len(rows)}
Values(column) == {r[column] : r \in RowsAt} \ {None}

(***************************************************************************)
(* Continuity: the resume key carries none of these fields.                *)
(***************************************************************************)
check_decode_pin_continuity(arm) ==
    rows = <<>> \/ {r.decode_pinned : r \in RowsAt} = {arm.pin # None}

\* mutant: a run of XAttention's own estimator is not compared
ScorerOfOthers(arm) ==
    \/ arm.score_source = XATTN_SCORE_SOURCE
    \/ Values("score_source") \subseteq {arm.score_source}

check_score_source_continuity(arm) ==
    Values("score_source") \subseteq {arm.score_source}

\* mutant: both have a setting, whichever it is
ThresholdAny(arm) == Values("xattn") # {} => arm.xattn # None

check_xattn_threshold_continuity(arm) ==
    Values("xattn") \subseteq {arm.xattn}

\* mutant: only the working tree's dirtiness is asked, not the rows'
CodeDirtyNow(arm, current) ==
    rows # <<>> =>
        /\ arm.waiver.dirty \/ ~current.git_dirty
        /\ \/ arm.waiver.mixed
           \/ Values("git_commit") = {current.git_commit}

check_code_continuity(arm, current) ==
    rows # <<>> =>
        /\ \/ arm.waiver.dirty
           \/ ~current.git_dirty /\ TRUE \notin Values("git_dirty")
        /\ \/ arm.waiver.mixed
           \/ Values("git_commit") = {current.git_commit}

load_done_keys == {r.key : r \in RowsAt}

(***************************************************************************)
(* A run.                                                                  *)
(***************************************************************************)
\* The places in the grid of the cells to run; a run takes them in order
plan(arm) ==
    {n \in 1..Len(Grid) :
        Grid[n].backend \in arm.backends /\ Grid[n] \notin load_done_keys}

\* The four refusals, the code's on a provenance captured for it, then the plan
Start ==
    /\ run = Idle /\ runs < MaxRuns
    /\ \E arm \in Arms :
         /\ check_decode_pin_continuity(arm)
         /\ check_code_continuity(arm, head)
         /\ check_score_source_continuity(arm)
         /\ check_xattn_threshold_continuity(arm)
         /\ run' = [arm |-> arm, todo |-> plan(arm), buffer |-> <<>>,
                    checked |-> head, stamp |-> head, phase |-> "planned"]
    /\ runs' = runs + 1
    /\ UNCHANGED <<rows, tmp, head, moves>>

\* The provenance the rows will carry is captured anew: the repository may
\* have moved since the check
Capture ==
    /\ run.phase = "planned"
    /\ run' = [run EXCEPT !.stamp = head, !.phase = "measure"]
    /\ UNCHANGED <<rows, tmp, head, runs, moves>>

Row(arm, k, stamp, checked) ==
    [key |-> k,
     score_source |-> IF k.backend = "dense" THEN None ELSE arm.score_source,
     xattn |-> IF k.backend = "xattention" THEN arm.xattn ELSE None,
     decode_backend |-> IF k.backend = "dense" \/ arm.pin = None
                        THEN DENSE_DECODE_BACKEND ELSE arm.pin,
     decode_pinned |-> arm.pin # None,
     git_commit |-> stamp.git_commit, git_dirty |-> stamp.git_dirty,
     ran |-> arm, run |-> runs, checked |-> checked]
       \* what ran, and what was checked: in no column of the file

Measure ==
    /\ run.phase = "measure"
    /\ Len(run.buffer) < checkpoint_every
    /\ \E n \in run.todo :
         /\ \A m \in run.todo : n <= m
         /\ run' = [run EXCEPT
                       !.todo = @ \ {n},
                       !.buffer = Append(@, Row(run.arm, Grid[n], run.stamp,
                                                run.checked))]
    /\ UNCHANGED <<rows, tmp, head, runs, moves>>

\* mutant: the parquet is written in place
WriteInPlace ==
    /\ run.phase = "measure" /\ run.buffer # <<>>
    /\ Len(run.buffer) >= checkpoint_every \/ run.todo = {}
    /\ tmp' = rows \o run.buffer
    /\ rows' = <<>>
    /\ run' = [run EXCEPT !.phase = "replace"]
    /\ UNCHANGED <<head, runs, moves>>

\* append_checkpoint: what the file holds and the buffer, beside the file
WriteTmp ==
    /\ run.phase = "measure" /\ run.buffer # <<>>
    /\ Len(run.buffer) >= checkpoint_every \/ run.todo = {}
    /\ tmp' = rows \o run.buffer
    /\ run' = [run EXCEPT !.phase = "replace"]
    /\ UNCHANGED <<rows, head, runs, moves>>

\* mutant: the buffer is not emptied once it is written
ReplaceKeeping ==
    /\ run.phase = "replace"
    /\ rows' = tmp /\ tmp' = None
    /\ run' = [run EXCEPT !.phase = "measure"]
    /\ UNCHANGED <<head, runs, moves>>

\* os.replace, and the buffer is empty again
Replace ==
    /\ run.phase = "replace"
    /\ rows' = tmp /\ tmp' = None
    /\ run' = [run EXCEPT !.phase = "measure", !.buffer = <<>>]
    /\ UNCHANGED <<head, runs, moves>>

Return ==
    /\ run.phase = "measure" /\ run.todo = {} /\ run.buffer = <<>>
    /\ run' = Idle
    /\ UNCHANGED <<rows, tmp, head, runs, moves>>

\* The process dies, or a cell raises: the buffer is lost, and what was
\* being written beside the file stays there, torn or whole
Die ==
    /\ run # Idle
    /\ run' = Idle
    /\ tmp' \in {tmp, None}
    /\ UNCHANGED <<rows, head, runs, moves>>

\* Somebody edits the working tree, or checks out another commit
MoveHead ==
    /\ moves < MaxMoves
    /\ head' \in Heads \ {head}
    /\ moves' = moves + 1
    /\ UNCHANGED <<rows, tmp, run, runs>>

Init ==
    /\ rows = <<>> /\ tmp = None
    /\ head \in Heads
    /\ run = Idle
    /\ runs = 0 /\ moves = 0

Next ==
    \/ Start \/ Capture \/ Measure
    \/ WriteTmp \/ Replace
    \/ Return \/ Die
    \/ MoveHead

Spec == Init /\ [][Next]_vars

(***************************************************************************)
(* Properties.                                                             *)
(***************************************************************************)
RowRecords ==
    [key: Keys, score_source: Scorers \cup {XATTN_SCORE_SOURCE, None},
     xattn: Taus \cup {None},
     decode_backend: {DENSE_DECODE_BACKEND} \cup (Pins \ {None}),
     decode_pinned: BOOLEAN, git_commit: Commits, git_dirty: BOOLEAN,
     ran: Arms, run: 1..MaxRuns, checked: Heads]

\* Every variable keeps the shape the code gives it; a buffer never outgrows
\* checkpoint_every.
TypeOK ==
    /\ rows \in Seq(RowRecords)
    /\ tmp = None \/ tmp \in Seq(RowRecords)
    /\ head \in Heads
    /\ run = Idle \/
       /\ run \in [arm: Arms, todo: SUBSET (1..Len(Grid)), buffer: Seq(RowRecords),
                   checked: Heads, stamp: Heads, phase: {"planned", "measure", "replace"}]
       /\ Len(run.buffer) <= checkpoint_every
    /\ runs \in 0..MaxRuns /\ moves \in 0..MaxMoves

\* "Either the previous checkpoint or the new one -- never a truncated file":
\* whatever dies when, the rows banked stay, in their order.
RowsSurvive == [][IsPrefix(rows, rows')]_vars

\* No cell is measured into the file twice, by one run or by a later one.
OneRowPerCell ==
    \A i, j \in 1..Len(rows) : rows[i].key = rows[j].key => i = j

\* One file, one regime: never two decode regimes, two scorers or two
\* thresholds under one set of cell names.
OneRegime ==
    \A r, s \in RowsAt :
        /\ (r.ran.pin = None) = (s.ran.pin = None)
        /\ "dense" \notin {r.key.backend, s.key.backend} =>
               r.ran.score_source = s.ran.score_source
        /\ r.key.backend = "xattention" /\ s.key.backend = "xattention" =>
               r.ran.xattn = s.ran.xattn

\* A run that returns has a row for each of its cells, measured as it asked:
\* a second arm pointed at the first arm's --out never "finds every sparse
\* cell done" and reports success.
SameRegime(a, b, k) ==
    /\ (a.pin = None) = (b.pin = None)
    /\ k.backend # "dense" => a.score_source = b.score_source
    /\ k.backend = "xattention" => a.xattn = b.xattn
Measured(arm) ==
    \A k \in {k \in Keys : k.backend \in arm.backends} :
        \E r \in RowsAt : r.key = k /\ SameRegime(r.ran, arm, k)
ReturnMeasured == [][Return => Measured(run.arm)]_vars

\* The rows of one run carry one stamp, and a run without a waiver adds only
\* to rows of the commit it checked, never to rows, or at the check from a
\* tree, with uncommitted changes.  What the repository did between the check
\* and the stamp shows in that run's rows alone, and no later run without a
\* waiver adds to a file that holds both: whatever moved when, and died when.
OneCommit ==
    \A i, j \in 1..Len(rows) : i < j =>
        IF rows[i].run = rows[j].run
        THEN /\ rows[i].git_commit = rows[j].git_commit
             /\ rows[i].git_dirty = rows[j].git_dirty
        ELSE /\ \/ rows[j].ran.waiver.mixed
                \/ rows[i].git_commit = rows[j].checked.git_commit
             /\ \/ rows[j].ran.waiver.dirty
                \/ ~(rows[i].git_dirty \/ rows[j].checked.git_dirty)
=============================================================================
