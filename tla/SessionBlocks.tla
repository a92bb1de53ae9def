--------------------------- MODULE SessionBlocks ---------------------------
(***************************************************************************)
(* A pairing's timed session in blocks: attnbench/lock/blocks.py, the      *)
(* block runner of scripts/t61_session.py, and the analysis that puts the  *)
(* blocks together again, analysis/block_drift.py collect.  Each block is  *)
(* a session directory of its own, on a boot of its own; it imports what   *)
(* it needs of the earlier blocks.  The instance can restart and the       *)
(* runner can die at any point; a block may be run again in a new          *)
(* directory, and resumed in its own from any step.                        *)
(***************************************************************************)
EXTENDS Integers, Sequences, FiniteSets

CONSTANTS
    STEPS,        \* the session's steps, in order
    BOOT_STEPS,   \* those every block runs itself
    Specs,        \* block specs a lock file may hold: [blocks, anchor]
    Machines,     \* what block_identity_problems compares
    MaxSessions, MaxRuns, MaxBoots, MaxFixes,   \* bounds
    None

Steps == {STEPS[n] : n \in 1..Len(STEPS)}
IndexOf(step) == CHOOSE n \in 1..Len(STEPS) : STEPS[n] = step
SPLIT_STEPS == {"ground_truth", "late_check", "trace_checks"}

\* The order rules of a session's steps
validate ==
    /\ \A m, n \in 1..Len(STEPS) : STEPS[m] = STEPS[n] => m = n
    /\ {"dense_select", "predict", "ground_truth", "late_check"} \subseteq Steps
    /\ IndexOf("ground_truth") = IndexOf("predict") + 1
    /\ IndexOf("late_check") > IndexOf("ground_truth")
    /\ IndexOf("dense_select") < IndexOf("predict")

\* The configs' boot steps are none of the split ones, and the preflight is one
ASSUME StepsAssumption ==
    /\ STEPS \in Seq(STRING)
    /\ validate
    /\ BOOT_STEPS \subseteq Steps \ SPLIT_STEPS /\ "preflight" \in BOOT_STEPS

ASSUME NoneAssumption ==
    /\ None \notin Nat
    /\ None \notin [findings: BOOLEAN, boot: [id: Nat, machine: Machines], rows: BOOLEAN]

VARIABLES
    lock,         \* the block spec in the lock file
    sessions,     \* the session directories, and their manifests
    boot,         \* this boot: [id, machine]
    commit,       \* the commit checked out
    run,          \* the runner: [session, at, phase], or Idle
    runs          \* runs begun

vars == <<lock, sessions, boot, commit, run, runs>>

Idle == [phase |-> "idle"]
Ids == 1..Len(sessions)

(***************************************************************************)
(* The block spec: blocks.py check.                                        *)
(***************************************************************************)
Own(block) == {block.steps[n] : n \in 1..Len(block.steps)}
Single == Steps \ (BOOT_STEPS \cup SPLIT_STEPS)
Timed(spec) ==
    {b \in 1..Len(spec.blocks) : "ground_truth" \in Own(spec.blocks[b])}
Predicting(spec) ==
    {b \in 1..Len(spec.blocks) : "predict" \in Own(spec.blocks[b])}

\* Each block's steps are the session's, in its order, and no boot step
InSessionOrder(spec) ==
    \A b \in 1..Len(spec.blocks) :
        LET steps == spec.blocks[b].steps IN
        /\ Own(spec.blocks[b]) \subseteq Steps \ BOOT_STEPS
        /\ \A m, n \in 1..Len(steps) :
               m < n => IndexOf(steps[m]) < IndexOf(steps[n])

\* mutant: no step is run twice, but one may be missing
NoneTwice(spec) ==
    \A step \in Single :
        Cardinality({b \in 1..Len(spec.blocks) : step \in Own(spec.blocks[b])}) <= 1

\* Every other step is in exactly one block, and the blocks follow its order
EachOnce(spec) ==
    /\ \A step \in Single :
           Cardinality({b \in 1..Len(spec.blocks) : step \in Own(spec.blocks[b])}) = 1
    /\ \A a, b \in 1..Len(spec.blocks) : a < b =>
           \A s \in Own(spec.blocks[a]) \cap Single, t \in Own(spec.blocks[b]) \cap Single :
               IndexOf(s) < IndexOf(t)

\* Ground truth follows the prediction, in its block and in later ones, with
\* the checks after it
GroundTruthPlaced(spec) ==
    /\ Predicting(spec) \subseteq Timed(spec)
    /\ \A p \in Predicting(spec), b \in Timed(spec) : p <= b
    /\ \A b \in 1..Len(spec.blocks) :
           Own(spec.blocks[b]) \cap SPLIT_STEPS \in
               {{}, SPLIT_STEPS \cap Steps}

\* mutant: a cell may be in two blocks
CellsNamed(spec) ==
    \A b \in 1..Len(spec.blocks) :
        (spec.blocks[b].cells # {}) <=> b \in Timed(spec)

\* A block with ground truth, and no other, names cells, and none another's
CellsApart(spec) ==
    /\ CellsNamed(spec)
    /\ \A a, b \in Timed(spec) :
           a # b => spec.blocks[a].cells \cap spec.blocks[b].cells = {}
    /\ \A b \in Timed(spec) : spec.anchor \notin spec.blocks[b].cells
    /\ Cardinality(Timed(spec)) > 1 => spec.anchor # None

check(spec) ==
    /\ spec.blocks # <<>>
    /\ InSessionOrder(spec) /\ EachOnce(spec)
    /\ Cardinality(Predicting(spec)) = 1
    /\ GroundTruthPlaced(spec) /\ CellsApart(spec)

Block(b) == lock.blocks[b]
\* run_steps: the boot steps and the block's own
Runs(b) == BOOT_STEPS \cup Own(Block(b))
\* block_plan: the cells its ground truth runs
run_cells(b) == Block(b).cells \cup ({lock.anchor} \ {None})

(***************************************************************************)
(* A block begins: block_run, verify_import, start_block.                  *)
(***************************************************************************)
NoAttempt == [findings |-> FALSE, boot |-> boot, rows |-> FALSE]

\* Earlier blocks' sessions, one of each, as --import-block gives them
Imports(b) ==
    {given \in [1..(b - 1) -> Ids] : \A e \in 1..(b - 1) : sessions[given[e]].block = e}

\* mutant: a discarded block's session may be imported
verify_steps(s) ==
    /\ sessions[s].commit = commit
    /\ \A step \in Runs(sessions[s].block) : step \in sessions[s].passed

verify_import(s) ==
    /\ ~sessions[s].discarded
    /\ sessions[s].commit = commit
    /\ \A step \in Runs(sessions[s].block) : step \in sessions[s].passed

\* What block b takes of block e
Taken(e, b) == Own(Block(e)) \ Runs(b)

\* The receipt of an earlier block comes with its results
Receipt(given) == \E e \in DOMAIN given : sessions[given[e]].receipt

NewSession(b, given) ==
    LET taken == UNION {Taken(e, b) : e \in DOMAIN given}
        From(step) == given[CHOOSE e \in DOMAIN given : step \in Taken(e, b)]
    IN  [block |-> b, boot |-> None, commit |-> commit, imports |-> given,
         taken |-> taken, receipt |-> Receipt(given), discarded |-> FALSE,
         passed |-> taken,
         dirs |-> [step \in Steps |-> IF step \in taken
                                      THEN sessions[From(step)].dirs[step] ELSE None]]

\* The manifest is written; the runner goes on with Start, or dies before it.
\* copytree raises where the directory of a step is not there.
StartBlock ==
    /\ run = Idle /\ Len(sessions) < MaxSessions
    /\ check(lock)
    /\ \E b \in 1..Len(lock.blocks) : \E given \in Imports(b) :
         /\ \A e \in 1..(b - 1) :
                /\ verify_import(given[e])
                /\ \A step \in Taken(e, b) : sessions[given[e]].dirs[step] # None
         /\ sessions' = Append(sessions, NewSession(b, given))
    /\ UNCHANGED <<lock, boot, commit, run, runs>>

(***************************************************************************)
(* A run of a block: run_session.                                          *)
(***************************************************************************)
refuse_start(s, start) ==
    \/ /\ "predict" \in s.passed \ s.taken
       /\ IndexOf(start) <= IndexOf("predict")
    \/ \E n \in 1..(IndexOf(start) - 1) :
           /\ STEPS[n] \in Runs(s.block) \cup s.taken
           /\ STEPS[n] \notin s.passed

\* mutant: only a session already marked is refused
NeverInterrupted(s) == s.discarded

\* Begun on another boot; a session that has none yet takes this one
interrupted(s) == s.boot # None /\ s.boot # boot.id

Start ==
    /\ run = Idle /\ runs < MaxRuns /\ runs' = runs + 1
    /\ \E s \in Ids : \E start \in Runs(sessions[s].block) :
         /\ ~refuse_start(sessions[s], start)
         /\ IF interrupted(sessions[s])
            THEN /\ sessions' = [sessions EXCEPT ![s].discarded = TRUE]
                 /\ UNCHANGED run
            ELSE /\ sessions' = [sessions EXCEPT
                                    ![s].boot = IF @ = None THEN boot.id ELSE @]
                 /\ run' = [session |-> s, phase |-> "loop", at |-> IndexOf(start)]
    /\ UNCHANGED <<lock, boot, commit>>

S == run.session
Here == sessions[S]
Current == STEPS[run.at]
Attempt == Here.dirs[Current]

Later == {n \in (run.at + 1)..Len(STEPS) : STEPS[n] \in Runs(Here.block)}
Following == IF Later = {} THEN Len(STEPS) + 1
             ELSE CHOOSE n \in Later : \A m \in Later : n <= m

\* hold_for_sync: there is a receipt to wait for
Synced == Here.receipt

\* The earlier attempt's directory is moved aside; ground truth holds for
\* the sync, and without a receipt it is recorded as failed
Keep ==
    /\ run.phase = "loop" /\ run.at <= Len(STEPS)
    /\ IF Current = "ground_truth" /\ ~Synced
       THEN /\ sessions' = [sessions EXCEPT ![S].dirs[Current] = None,
                                            ![S].passed = @ \ {Current}]
            /\ run' = Idle
       ELSE /\ sessions' = [sessions EXCEPT ![S].dirs[Current] = NoAttempt]
            /\ run' = [run EXCEPT !.phase = "step"]
    /\ UNCHANGED <<lock, boot, commit, runs>>

\* body_predict: refused once the session has a receipt
Predict ==
    /\ ~Here.receipt
    /\ sessions' = [sessions EXCEPT ![S].receipt = TRUE]

\* body_ground_truth: the rows are written before the stamp is checked
GroundTruth == sessions' = [sessions EXCEPT ![S].dirs[Current].rows = TRUE]

StepWrites ==
    /\ run.phase = "step"
    /\ \/ Current = "predict" /\ Predict
       \/ Current = "ground_truth" /\ GroundTruth
    /\ run' = [run EXCEPT !.phase = "wrote"]
    /\ UNCHANGED <<lock, boot, commit, runs>>

\* run_step ends with result.json, or its process dies without one; it passes
\* only with what it is there to write
StepEnds ==
    /\ run.phase \in {"step", "wrote"}
    /\ \E end \in {"passed", "failed", "killed"} :
         /\ end = "passed" /\ Current \in {"predict", "ground_truth"}
                => run.phase = "wrote"
         /\ sessions' = [sessions EXCEPT ![S].dirs[Current].findings =
                                          (Current = "preflight" /\ end # "killed")]
         /\ run' = [run EXCEPT !.phase = IF end = "passed" THEN "passed" ELSE "failed"]
    /\ UNCHANGED <<lock, boot, commit, runs>>

\* The attempt goes into the manifest; a step that passed and exits non-zero
\* (its sync failed) is recorded as failed
Record ==
    /\ run.phase \in {"passed", "failed"}
    /\ \/ /\ run.phase = "passed"
          /\ sessions' = [sessions EXCEPT ![S].passed = @ \cup {Current}]
          /\ run' = IF Current = "preflight" THEN [run EXCEPT !.phase = "identity"]
                    ELSE [run EXCEPT !.phase = "loop", !.at = Following]
       \/ /\ sessions' = [sessions EXCEPT ![S].passed = @ \ {Current}]
          /\ run' = Idle
    /\ UNCHANGED <<lock, boot, commit, runs>>

\* block_identity_problems, after the preflight is recorded as passed, on the
\* sessions this run was given as the earlier blocks
Machine(s) ==
    LET d == sessions[s].dirs["preflight"] IN
    IF d = None \/ ~d.findings THEN None ELSE d.boot.machine

Identity ==
    /\ run.phase = "identity"
    /\ \E given \in Imports(Here.block) :
         IF \A e \in DOMAIN given : Machine(given[e]) = Machine(S)
         THEN /\ run' = [run EXCEPT !.phase = "loop", !.at = Following]
              /\ UNCHANGED sessions
         ELSE /\ run' = Idle
              /\ sessions' = [sessions EXCEPT ![S].passed = @ \ {Current}]
    /\ UNCHANGED <<lock, boot, commit, runs>>

Finish ==
    /\ run.phase = "loop" /\ run.at > Len(STEPS)
    /\ run' = Idle
    /\ UNCHANGED <<lock, sessions, boot, commit, runs>>

(***************************************************************************)
(* What happens to a run.                                                  *)
(***************************************************************************)
\* The runner dies, and its step; the boot goes on
Die ==
    /\ run # Idle /\ run' = Idle
    /\ UNCHANGED <<lock, sessions, boot, commit, runs>>

\* A restart, a preemption, or another block's instance
Restart ==
    /\ boot.id < MaxBoots
    /\ \E machine \in Machines : boot' = [id |-> boot.id + 1, machine |-> machine]
    /\ run' = Idle
    /\ UNCHANGED <<lock, sessions, commit, runs>>

Fix ==
    /\ run = Idle /\ commit < MaxFixes
    /\ commit' = commit + 1
    /\ UNCHANGED <<lock, sessions, boot, run, runs>>

(***************************************************************************)
(* The analysis: block_drift.py collect, on sessions it is given.          *)
(***************************************************************************)
Kept(D) == {s \in D : ~sessions[s].discarded}

collects(D) ==
    /\ \A s, t \in Kept(D) : s # t => sessions[s].block # sessions[t].block
    /\ \A s, t \in Kept(D) : sessions[s].commit = sessions[t].commit
    /\ \A s \in Kept(D) : "ground_truth" \notin sessions[s].taken

\* The sessions whose rows it returns
WithRows(D) ==
    {s \in Kept(D) : /\ sessions[s].dirs["ground_truth"] # None
                     /\ sessions[s].dirs["ground_truth"].rows}

BlocksInit ==
    /\ lock \in Specs /\ sessions = <<>>
    /\ boot \in [id : {1}, machine : Machines] /\ commit = 0
    /\ run = Idle /\ runs = 0

BlocksNext ==
    \/ StartBlock \/ Start \/ Keep \/ StepWrites \/ StepEnds \/ Record
    \/ Identity \/ Finish
    \/ Die \/ Restart \/ Fix

BlocksSpec == BlocksInit /\ [][BlocksNext]_vars

(***************************************************************************)
(* Properties.                                                             *)
(***************************************************************************)
\* "No cell resumes across instances": what a session's own steps passed with
\* was all measured on the one boot in its manifest.
OneBoot ==
    \A s \in Ids : \A step \in Runs(sessions[s].block) :
        LET d == sessions[s].dirs[step] IN
        d # None => d.boot.id = sessions[s].boot

\* "The blocks in order run them in the session's order": nothing is
\* predicted or timed before every step it rests on has passed, in this block
\* or in one it imports.
NothingSkipped ==
    run.phase = "wrote" =>
        \A n \in 1..(run.at - 1) :
            STEPS[n] \in Single \cup BOOT_STEPS =>
                /\ STEPS[n] \in Runs(Here.block) \cup Here.taken
                /\ STEPS[n] \in Here.passed

\* "No cell is in two blocks": whatever sessions the analysis is given, a
\* cell's rows come from one of them, the anchor's from each.
CellsOnce ==
    \A D \in SUBSET Ids : collects(D) =>
        \A s, t \in WithRows(D) :
            /\ lock.anchor \in run_cells(sessions[s].block) \cup {None}
            /\ s # t => run_cells(sessions[s].block) \cap run_cells(sessions[t].block)
                            \subseteq {lock.anchor}

\* A block discarded stays as it was: nothing more runs in it, and no block
\* begun later takes anything of it.
DiscardStands ==
    [][\A s \in Ids : sessions[s].discarded =>
           /\ sessions'[s] = sessions[s]
           /\ Len(sessions') > Len(sessions) =>
                  \A e \in DOMAIN sessions'[Len(sessions')].imports :
                      sessions'[Len(sessions')].imports[e] # s]_vars
=============================================================================
