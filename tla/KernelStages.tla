---------------------------- MODULE KernelStages ----------------------------
(***************************************************************************)
(* Stages 0, 1 and 2 of the kernels: scripts/run_probe.py asks which cells *)
(* run and which of those are right, attnbench/sweep.py times the ones on  *)
(* record as right.  Each is a process that may die anywhere and be run    *)
(* again, for other cells, after the code moved or on another machine; the *)
(* tables it appends to are all that joins them.                           *)
(***************************************************************************)
EXTENDS CompileGuard

CONSTANTS
    Order,         \* [backend -> its place in instantiate()]
    SeqLen,        \* [config -> its length], the grid
    Forward, Long, \* configs of pass_kind "fwd", and those no oracle fits
    LongKeys,      \* gate_long_configs, which a run takes in when asked to
    Claims,        \* claims_support: {<<backend, config>>}
    Faults,        \* known device faults, never launched
    References,    \* the backends of family dense_exact or reference
    Asks,          \* what a command line asks for: [cells: sets of <<backend, config>>,
                   \* long: BOOLEAN, exact: BOOLEAN]
    Commits, Hosts,
    MaxRuns,       \* bound: processes started
    MaxMoves,      \* bound: changes of the working tree and of the machine
    AnyCommit      \* no commit asked for

ASSUME GridAssumption ==
    /\ \A b \in DOMAIN Order : Order[b] \in 1..Cardinality(DOMAIN Order)
    /\ \A c \in DOMAIN SeqLen : SeqLen[c] \in Nat
    /\ Faults \cap Claims = {} /\ AnyCommit \notin Commits

VARIABLES
    probed,       \* probe.parquet
    correctness,  \* correctness.parquet
    sweep,        \* sweep.parquet
    head, host,   \* the working tree, the machine
    proc,         \* the process, or Idle
    runs, moves

tables == <<probed, correctness, sweep>>
stagesVars == <<tables, head, host, proc, runs, moves, guardVars>>

Idle == [stage |-> "idle"]
Banded(table) == {<<r.backend, r.config>> : r \in table}

(***************************************************************************)
(* The probe: bands of one length, the shortest first, and in a band each  *)
(* backend; the rows of a backend's band are written together.             *)
(***************************************************************************)
Rank(a) == SeqLen[a[2]] * (Cardinality(DOMAIN Order) + 1) + Order[a[1]]

\* The cells to do next: those of the first batch, while its rows are pending
Batch ==
    {a \in proc.todo :
        /\ \A x \in proc.todo : Rank(a) <= Rank(x)
        /\ \A r \in proc.pending : Rank(<<r.backend, r.config>>) = Rank(a)}

\* checkpoint.done_keys, unless --no-resume
Done(resume, table) == IF resume THEN Banded(table) ELSE {}

StartProbe ==
    /\ proc = Idle /\ runs < MaxRuns
    /\ \E ask \in Asks, resume \in BOOLEAN :
         LET long == IF ask.long THEN LongKeys ELSE {}
             asked == ask.cells \cup {a[1] : a \in ask.cells} \X long
         IN  proc' = [stage |-> "probe", asked |-> asked, resume |-> resume, stamp |-> head,
                      long |-> long, exact |-> ask.exact,
                      todo |-> asked \ Done(resume, probed), pending |-> {}]
    /\ runs' = runs + 1
    /\ UNCHANGED <<tables, head, host, moves, guardVars>>

Did(a, row) == proc' = [proc EXCEPT !.todo = @ \ {a}, !.pending = @ \cup {row}]

\* probe: a known fault is recorded and not launched; the rest is called,
\* with no guard around it
ProbeCell ==
    /\ proc.stage = "probe"
    /\ \E a \in Batch, runsIt \in BOOLEAN :
         /\ \/ a \in Faults /\ ~runsIt /\ UNCHANGED guardVars
            \/ /\ a \notin Faults
               /\ \E eager \in SUBSET {a[1]} : Called({a[1]}, a[2], eager)
               /\ Watch({a[1]}, a[2], FALSE)
         /\ Did(a, [backend |-> a[1], config |-> a[2], supported |-> runsIt])
    /\ UNCHANGED <<tables, head, host, runs, moves>>

\* The references a check calls: other backends of this run that claim the
\* config, where no oracle fits; an early refusal leaves the rest out
Opinions(a) ==
    {b \in References \ {a[1]} :
        a[2] \in Long /\ <<b, a[2]>> \in Claims /\ \E x \in proc.asked : x[1] = b}

\* check_for_family: a pass by way of an eager fallback is void
Verdict(S, c, right) == right /\ ~FellBack(S, c)

Checked(a, passed, eager, blockwise) ==
    Did(a, [backend |-> a[1], config |-> a[2], passed |-> passed, eager |-> eager,
            blockwise |-> blockwise, git_commit |-> proc.stamp.git_commit,
            git_dirty |-> proc.stamp.git_dirty])

\* check_correctness_blockwise, of a long key: its reference is arithmetic of
\* its own, and no guard is around the call
CheckBlockwise(a, right) ==
    /\ a[2] \in proc.long
    /\ Watch({a[1]}, a[2], FALSE)
    /\ \E eager \in SUBSET ({a[1]} \cap Compiled) :
         /\ Called({a[1]}, a[2], eager)
         /\ Checked(a, right, eager # {}, TRUE)

\* --exact-only: with no oracle the cell is left out, neither called nor recorded
LeaveOut(a) ==
    /\ a[2] \notin proc.long /\ proc.exact /\ a[2] \in Long
    /\ proc' = [proc EXCEPT !.todo = @ \ {a}]
    /\ UNCHANGED guardVars

CheckFamily(a, right) ==
    /\ a[2] \notin proc.long /\ ~(proc.exact /\ a[2] \in Long)
    /\ \E refs \in SUBSET Opinions(a) :
         LET S == {a[1]} \cup refs
         IN  /\ Watch(S, a[2], TRUE)
             /\ \E eager \in SUBSET (S \cap Compiled) :
                  /\ Called(S, a[2], eager)
                  /\ Checked(a, Verdict(S, a[2], right), a[1] \in eager, FALSE)

\* stage1_check
CheckCell ==
    /\ proc.stage = "check"
    /\ \E a \in Batch :
         \/ LeaveOut(a)
         \/ \E right \in BOOLEAN : CheckBlockwise(a, right) \/ CheckFamily(a, right)
    /\ UNCHANGED <<tables, head, host, runs, moves>>

\* append_checkpoint, once the batch is through
BankBand ==
    /\ proc.stage \in {"probe", "check"} /\ proc.pending # {} /\ Batch = {}
    /\ probed' = IF proc.stage = "probe" THEN probed \cup proc.pending ELSE probed
    /\ correctness' = IF proc.stage = "check" THEN correctness \cup proc.pending ELSE correctness
    /\ proc' = [proc EXCEPT !.pending = {}]
    /\ UNCHANGED <<sweep, head, host, runs, moves, guardVars>>

\* Stage 1 goes over the forward cells on record as supported, by this probe
\* or an earlier one, and claimed
BeginChecks ==
    /\ proc.stage = "probe" /\ proc.todo = {} /\ proc.pending = {}
    /\ proc' = [proc EXCEPT
          !.stage = "check",
          !.todo = {a \in proc.asked \cap Claims \cap Banded({r \in probed : r.supported}) :
                        a[2] \in Forward} \ Done(proc.resume, correctness)]
    /\ UNCHANGED <<tables, head, host, runs, moves, guardVars>>

(***************************************************************************)
(* The sweep.                                                              *)
(***************************************************************************)
Passed == {r \in correctness : r.passed}

\* Stage1ProvenanceError: any pass of a dirty tree, whatever its commit
DirtyPasses == \E r \in Passed : r.git_dirty

\* Stage1CommitError when all of them are of other commits
AtCommit(at) == {r \in Passed : at = AnyCommit \/ r.git_commit = at}

\* mutant: no check, the host being part of the key
HostInKey == TRUE

\* check_host_continuity
SameHost == {r.host : r \in sweep} \subseteq {host}

load_done_keys == {<<r.backend, r.config>> : r \in {r \in sweep : r.host = host}}

\* plan: what is done stays, what has no pass is rejected, and without the
\* GPU to itself nothing is run
StartSweep ==
    /\ proc = Idle /\ runs < MaxRuns
    /\ SameHost /\ ~DirtyPasses
    /\ \E ask \in Asks, at \in Commits \cup {AnyCommit}, exclusive \in BOOLEAN :
         /\ Passed # {} => AtCommit(at) # {}
         /\ proc' = [stage |-> "sweep", at |-> at, host |-> host,
                todo |-> IF exclusive
                         THEN ((ask.cells \cap Claims) \ load_done_keys) \cap Banded(AtCommit(at))
                         ELSE {}]
    /\ runs' = runs + 1
    /\ UNCHANGED <<tables, head, host, moves, guardVars>>

\* mutant: measured with no guard
TimedUnguarded(a, ran) == ran

\* timing.measure: no time is reported of a process that fell back
Timed(a, ran) == ran /\ ~FellBack({a[1]}, a[2])

\* timing.measure under its guards, then append_checkpoint of the one row:
\* a failure of any kind is a row too
MeasureCell ==
    /\ proc.stage = "sweep"
    /\ \E a \in proc.todo, ran \in BOOLEAN, eager \in SUBSET Compiled :
         /\ Called({a[1]}, a[2], eager)
         /\ Watch({a[1]}, a[2], TRUE)
         /\ sweep' = sweep \cup
                {[backend |-> a[1], config |-> a[2], host |-> proc.host,
                  ok |-> Timed(a, ran), eager |-> eager # {}, at |-> proc.at, run |-> runs]}
         /\ proc' = [proc EXCEPT !.todo = @ \ {a}]
    /\ UNCHANGED <<probed, correctness, head, host, runs, moves>>

(***************************************************************************)
(* The process and its surroundings.                                       *)
(***************************************************************************)
Return ==
    /\ proc.stage \in {"check", "sweep"} /\ proc.todo = {}
    /\ proc.stage = "check" => proc.pending = {}
    /\ proc' = Idle /\ NewProcess
    /\ UNCHANGED <<tables, head, host, runs, moves>>

\* A device fault, a preemption, an exception: what is pending is lost.
\* --skip-correctness is a probe that stops before its checks
Die ==
    /\ proc # Idle
    /\ proc' = Idle /\ NewProcess
    /\ UNCHANGED <<tables, head, host, runs, moves>>

Trees == [git_commit: Commits, git_dirty: BOOLEAN]

\* Somebody edits or checks out, or the tables are taken to another machine
Move ==
    /\ proc = Idle /\ moves < MaxMoves
    /\ \/ head' \in Trees \ {head} /\ UNCHANGED host
       \/ host' \in Hosts \ {host} /\ UNCHANGED head
    /\ moves' = moves + 1
    /\ UNCHANGED <<tables, proc, runs, guardVars>>

StagesInit ==
    /\ probed = {} /\ correctness = {} /\ sweep = {}
    /\ head \in Trees /\ host \in Hosts
    /\ proc = Idle /\ runs = 0 /\ moves = 0
    /\ GuardInit

StagesNext ==
    \/ StartProbe \/ ProbeCell \/ CheckCell \/ BankBand \/ BeginChecks
    \/ StartSweep \/ MeasureCell
    \/ Return \/ Die \/ Move

StagesSpec == StagesInit /\ [][StagesNext]_stagesVars

(***************************************************************************)
(* Properties.                                                             *)
(***************************************************************************)
\* "Nothing enters Stage 2 without passing here": each timed cell has a pass
\* on record, of a clean tree, at the commit the sweep asked for (gates.py:1,
\* sweep.py:7).  A pass of an eager fallback is one of the blockwise check,
\* the only one that no guard is around.
Licensed ==
    \A r \in sweep : \E p \in Passed :
        /\ p.backend = r.backend /\ p.config = r.config
        /\ ~p.git_dirty /\ (p.eager => p.blockwise)
        /\ r.at # AnyCommit => p.git_commit = r.at

\* No time on file is of the fallback, wherever in the process torch gave up
\* compiling, and in whichever cell (compile_guard.py:38).
TimedCompiled == \A r \in sweep : r.ok => ~r.eager

\* A cell is in the sweep's file once, and the file is of one machine,
\* whichever runs died and wherever they were started again.
OneRowOneHost ==
    \A r, s \in sweep :
        /\ r.host = s.host
        /\ r.backend = s.backend /\ r.config = s.config => r = s
=============================================================================
