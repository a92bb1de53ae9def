---------------------------- MODULE GuardedCells ----------------------------
(***************************************************************************)
(* Steps 5 and 6 of the P1 session, scripts/t31_steps.py guarded_cells:    *)
(* each cell in a process of its own, in order, a cell that passed under   *)
(* the same code, machine and inputs not run again.  The step's directory  *)
(* stays in place from attempt to attempt (t31_session.py keep_attempt);   *)
(* the earlier attempt is kept beside it by hard links.  A step may die at *)
(* any point, and its child with it; the code changes between attempts.    *)
(***************************************************************************)
EXTENDS Integers, Sequences, FiniteSets

CONSTANTS
    Cells,        \* the grid's cells, in order
    Signatures,   \* the call signatures a cell prices: a cell -> a set
    MaxMoves,     \* bound: changes of the code, the libraries or the link row
    MaxAttempts,  \* bound: attempts of the two steps
    None

ASSUME CellsAssumption ==
    /\ \A m, n \in 1..Len(Cells) : Cells[m] = Cells[n] => m = n
    /\ DOMAIN Signatures = {Cells[n] : n \in 1..Len(Cells)}

VARIABLES
    session,   \* "real", or where a debug session starts
    tree,      \* cell_identity and instance_spec now: [commit, libraries, dirty]
    link,      \* which run of the link step link.parquet is from
    disk,      \* every cell directory ever made: [manifest, index]
    here,      \* the steps' directories: step, cell -> [id, names], or None
    kept,      \* the links of earlier attempts: [id, names, was]
    cache,     \* bare_price_cache.pkl: a signature -> the identity it was timed under
    last,      \* the status of step 5 in the session's manifest
    run,       \* the step's process, or Idle
    attempts, moves

vars == <<session, tree, link, disk, here, kept, cache, last, run, attempts, moves>>
outside == <<session, tree, link, moves>>

CELL_STEPS == {"host_components", "device_components"}
CellSet == DOMAIN Signatures
AllSignatures == UNION {Signatures[c] : c \in CellSet}
\* What a cell directory holds; a recording stands for the cell's own files
Files == {"manifest", "index", "recording"}

ASSUME NoneAssumption == None \notin [id: Nat, names: SUBSET Files]

Idle == [phase |-> "idle"]
debug == session # "real"
Cell == Cells[run.at]
Dir == here[run.step][Cell]

\* A debug session's donor: an earlier commit, its data staged
Donor == [commit |-> 0, libraries |-> 0, dirty |-> FALSE]

(***************************************************************************)
(* guarded_cells' look at a cell: resumable.                               *)
(***************************************************************************)
\* host_cell_index_sha256 and link_sha256; a host entry's directory is its
\* digest
Inputs(step, c) ==
    IF step = "host_components" THEN None
    ELSE [host |-> IF here["host_components"][c] # None
                      /\ "index" \in here["host_components"][c].names
                   THEN here["host_components"][c].id ELSE None,
          link |-> link]

\* The manifest and the entry, None where _read_json finds none
ReadManifest(d) == IF "manifest" \in d.names THEN disk[d.id].manifest ELSE None

\* staged_accept: the donor's cells, by their entries
Accepted(m, d) ==
    /\ debug /\ m.identity = Donor
    /\ disk[d.id].index.staged

\* mutant: any clean commit's cells resume, in any session
SameLibraries(m) ==
    ~m.identity.dirty /\ m.identity.libraries = tree.libraries

SameCode(m) == m.identity = tree /\ ~tree.dirty

\* A debug session's own cells also resume under an earlier commit
EarlierFix(m) ==
    /\ debug /\ m.identity # Donor
    /\ ~m.identity.dirty /\ m.identity.libraries = tree.libraries

\* mutant: a cell priced from other inputs resumes
AnyInputs(m, step, c) == step \in CELL_STEPS

SameInputs(m, step, c) == m.inputs = Inputs(step, c)

\* mutant: a cell that ended is taken for one that passed
Settled(m) == m.status # "running"

Passed(m) == m.status = "passed"

resumable(step, c) ==
    LET d == here[step][c]
        m == ReadManifest(d)
    IN  /\ d # None /\ m # None
        /\ Passed(m) /\ SameInputs(m, step, c)
        /\ EarlierFix(m) \/ SameCode(m) \/ Accepted(m, d)
        /\ "index" \in d.names

(***************************************************************************)
(* An attempt of a step.                                                   *)
(***************************************************************************)
\* keep_attempt, then guarded_cells up to its loop
Links(step) ==
    {[id |-> d.id, names |-> d.names, was |-> disk[d.id]] :
        d \in {here[step][c] : c \in CellSet} \ {None}}

Start ==
    /\ run = Idle /\ attempts < MaxAttempts
    /\ \E step \in CELL_STEPS :
         /\ session = "device_components" => step = session
         /\ step = "device_components" => last = "passed"
         /\ kept' = kept \cup Links(step)
         /\ run' = [step |-> step, at |-> 1, identity |-> tree, index |-> <<>>,
                    failed |-> {}, phase |-> "loop"]
    /\ attempts' = attempts + 1
    /\ UNCHANGED <<outside, disk, here, cache, last>>

Looping == run.phase = "loop" /\ run.at <= Len(Cells)

Entry == disk[Dir.id].index

Resume ==
    /\ Looping /\ resumable(run.step, Cell)
    /\ run' = [run EXCEPT !.at = @ + 1, !.index = Append(@, Entry)]
    /\ UNCHANGED <<outside, disk, here, kept, cache, last, attempts>>

\* shutil.rmtree begins: what is left if the step dies in it is in Die
Clear ==
    /\ Looping /\ ~resumable(run.step, Cell)
    /\ run' = [run EXCEPT !.phase = "clear"]
    /\ UNCHANGED <<outside, disk, here, kept, cache, last, attempts>>

Running(step, c) ==
    [manifest |-> [status |-> "running", identity |-> run.identity,
                   inputs |-> Inputs(step, c)],
     index |-> None]

\* mutant: the cell's directory is used as it is
SpawnOver ==
    /\ run.phase = "clear"
    /\ IF Dir = None
       THEN /\ disk' = Append(disk, Running(run.step, Cell))
            /\ here' = [here EXCEPT ![run.step][Cell] =
                            [id |-> Len(disk) + 1, names |-> {"manifest"}]]
       ELSE /\ disk' = [disk EXCEPT ![Dir.id] = Running(run.step, Cell)]
            /\ here' = [here EXCEPT ![run.step][Cell].names = {"manifest"}]
    /\ run' = [run EXCEPT !.phase = "child"]
    /\ UNCHANGED <<outside, kept, cache, last, attempts>>

\* The directory is made afresh, its manifest says running, the child starts
Spawn ==
    /\ run.phase = "clear"
    /\ disk' = Append(disk, Running(run.step, Cell))
    /\ here' = [here EXCEPT ![run.step][Cell] =
                    [id |-> Len(disk) + 1, names |-> {"manifest"}]]
    /\ run' = [run EXCEPT !.phase = "child"]
    /\ UNCHANGED <<outside, kept, cache, last, attempts>>

(***************************************************************************)
(* The child: host_cell or device_cell, by the code of the tree.           *)
(***************************************************************************)
\* load_prices: a signature already in the cache is not timed again
Priced(c) ==
    [g \in Signatures[c] |-> IF cache[g] # None THEN cache[g] ELSE tree]

Measured(step, c) ==
    [by |-> tree, staged |-> FALSE,
     prices |-> IF step = "host_components" THEN Priced(c) ELSE None,
     from |-> Inputs(step, c)]

\* The cell is recorded and measured; a host cell saves its prices
ChildSaves ==
    /\ run.phase = "child"
    /\ run.step = "device_components" => Inputs(run.step, Cell).host # None
    /\ here' = [here EXCEPT ![run.step][Cell].names = @ \cup {"recording"}]
    /\ cache' = IF run.step = "device_components" THEN cache
                ELSE [g \in AllSignatures |->
                          IF g \in Signatures[Cell] THEN Priced(Cell)[g]
                                                    ELSE cache[g]]
    /\ run' = [run EXCEPT !.phase = "saved"]
    /\ disk' = [disk EXCEPT ![Dir.id].index = Measured(run.step, Cell)]
    /\ UNCHANGED <<outside, kept, last, attempts>>

\* _cell_body: the entry, then cell_exit.json
ChildWrites ==
    /\ run.phase = "saved"
    /\ here' = [here EXCEPT ![run.step][Cell].names = @ \cup {"index"}]
    /\ run' = [run EXCEPT !.phase = "written"]
    /\ UNCHANGED <<outside, disk, kept, cache, last, attempts>>

\* The runner's record of the attempt: step 6 reads step 5's
Record(status) ==
    last' = IF run.step = "host_components" THEN status ELSE last

Settle(status) ==
    disk' = [disk EXCEPT ![Dir.id].manifest.status = status]

ChildPassed ==
    /\ run.phase = "written"
    /\ Settle("passed")
    /\ run' = [run EXCEPT !.phase = "loop", !.at = @ + 1,
                          !.index = Append(@, Entry)]
    /\ UNCHANGED <<outside, here, kept, cache, last, attempts>>

NextCell ==
    run' = [run EXCEPT !.phase = "loop", !.at = @ + 1, !.failed = @ \cup {Cell}]

\* It failed, or the guard killed it at the ceiling, wherever it stood (its
\* status then says over_rss_ceiling); the step stops there, or in a debug
\* session goes on
ChildFailed ==
    /\ run.phase \in {"child", "saved", "written"}
    /\ Settle("failed")
    /\ IF debug
       THEN NextCell /\ UNCHANGED last
       ELSE /\ run' = Idle
            /\ Record("failed")
    /\ UNCHANGED <<outside, here, kept, cache, attempts>>

Ended == run.phase = "loop" /\ run.at > Len(Cells)

Return ==
    /\ Ended /\ run.failed = {}
    /\ Record("passed")
    /\ run' = Idle
    /\ UNCHANGED <<outside, disk, here, kept, cache, attempts>>

\* Cells failed, or step 6's pricing gate refuses
Refuse ==
    /\ Ended
    /\ run.failed # {} \/ run.step = "device_components"
    /\ Record("failed")
    /\ run' = Idle
    /\ UNCHANGED <<outside, disk, here, kept, cache, attempts>>

\* The step dies, and its child; the runner lists the attempt as failed, or
\* dies too.  In rmtree, any of the directory's files may still be there.
Die ==
    /\ run # Idle
    /\ IF run.phase = "clear" /\ Dir # None
       THEN \E names \in SUBSET Dir.names :
                here' = [here EXCEPT ![run.step][Cell].names = names]
       ELSE UNCHANGED here
    /\ Record("failed") \/ UNCHANGED last
    /\ run' = Idle
    /\ UNCHANGED <<outside, disk, kept, cache, attempts>>

(***************************************************************************)
(* Between attempts: a fix is committed or not, or thrown away; a library  *)
(* is installed; the session is resumed from the link step.                *)
(***************************************************************************)
Fix ==
    /\ tree' \in {[tree EXCEPT !.commit = @ + 1, !.dirty = FALSE],
                  [tree EXCEPT !.libraries = @ + 1],
                  [tree EXCEPT !.dirty = TRUE],
                  [tree EXCEPT !.dirty = FALSE]} \ {tree}
    /\ UNCHANGED link

Relink == link' = link + 1 /\ UNCHANGED tree

Outside ==
    /\ run = Idle /\ moves < MaxMoves
    /\ Fix \/ Relink
    /\ moves' = moves + 1
    /\ UNCHANGED <<session, disk, here, kept, cache, last, run, attempts>>

\* A session starts empty; a debug session with a donor's first cells, and
\* the donor's prices, or with all of them at step 6 (t31_debug.py stage)
Staged(c) ==
    [manifest |-> [status |-> "passed", identity |-> Donor, inputs |-> None],
     index |-> [by |-> Donor, staged |-> TRUE,
                prices |-> [g \in Signatures[c] |-> Donor], from |-> None]]

Init ==
    /\ session \in {"real"} \cup CELL_STEPS
    /\ tree = [Donor EXCEPT !.commit = 1] /\ link = 1
    /\ last = IF session = "device_components" THEN "passed" ELSE "none"
    /\ \E n \in 0..Len(Cells) :
         LET first == {Cells[m] : m \in 1..n} IN
         /\ session = "real" => n = 0
         /\ session = "device_components" => n = Len(Cells)
         /\ disk = [m \in 1..n |-> Staged(Cells[m])]
         /\ here = [step \in CELL_STEPS |-> [c \in CellSet |->
                       IF step = "host_components" /\ c \in first
                       THEN [id |-> CHOOSE m \in 1..n : Cells[m] = c, names |-> Files]
                       ELSE None]]
         /\ cache = [g \in AllSignatures |->
                       IF \E c \in first : g \in Signatures[c] THEN Donor ELSE None]
    /\ kept = {} /\ run = Idle
    /\ attempts = 0 /\ moves = 0

Next ==
    \/ Start \/ Resume \/ Clear \/ Spawn
    \/ ChildSaves \/ ChildWrites \/ ChildPassed \/ ChildFailed
    \/ Return \/ Refuse
    \/ Die
    \/ Outside

Spec == Init /\ [][Next]_vars

(***************************************************************************)
(* Properties.                                                             *)
(***************************************************************************)
Identities == [commit: 0..(MaxMoves + 1), libraries: 0..MaxMoves, dirty: BOOLEAN]
Ids == 1..(Len(disk))
Directories == [id: Ids, names: SUBSET Files]

\* Every variable keeps the shape the steps give it; a directory has one
\* place, and the child's is the last made.
TypeOK ==
    /\ session \in {"real"} \cup CELL_STEPS /\ tree \in Identities
    /\ link \in 1..(MaxMoves + 1) /\ moves \in 0..MaxMoves
    /\ here \in [CELL_STEPS -> [CellSet -> Directories \cup {None}]]
    /\ \A n \in Ids : disk[n].manifest.status \in
           {"running", "passed", "failed"}
    /\ \A k \in kept : k.id \in Ids /\ k.names \subseteq Files
    /\ cache \in [AllSignatures -> Identities \cup {None}]
    /\ last \in {"none", "passed", "failed"}
    /\ run = Idle \/
       /\ run.step \in CELL_STEPS /\ run.at \in 1..(Len(Cells) + 1)
       /\ run.identity = tree /\ Len(run.index) + Cardinality(run.failed) = run.at - 1
       /\ run.phase \in {"loop", "clear", "child", "saved", "written"}
       /\ run.phase \in {"child", "saved", "written"} => Dir.id = Len(disk)
    /\ attempts \in 0..MaxAttempts

\* "The cells' files hard-linked, which the new attempt never rewrites (a
\* cell it runs again is removed and written afresh)": what an attempt was
\* kept with stays as it was, through every later attempt.
KeptStands ==
    \A k \in kept :
        /\ "manifest" \in k.names => disk[k.id].manifest = k.was.manifest
        /\ "index" \in k.names => disk[k.id].index = k.was.index

\* "No cells of two code identities are mixed": the entries a real session's
\* step returns were all measured by the code it ran under.
EntriesOfOneCode ==
    [][Return /\ ~debug => \A n \in 1..Len(run.index) : run.index[n].by = tree]_vars

\* "A resumed cell is one priced from the same host step": the entries step 6
\* returns were priced from the host entries and the link row now on disk.
PricedFromTheseInputs ==
    [][Return => \A n \in 1..Len(run.index) :
           run.index[n].from = Inputs(run.step, Cells[n])]_vars

\* A step that passes returns an entry of each cell, and that is the entry
\* on disk of a cell that passed: nothing a death, the guard or a
\* half-removed directory left.
PassedIsWhole ==
    [][Return => \A n \in 1..Len(Cells) :
           LET d == here[run.step][Cells[n]] IN
           /\ d # None /\ {"manifest", "index"} \subseteq d.names
           /\ disk[d.id].manifest.status = "passed"
           /\ Len(run.index) >= n /\ run.index[n] = disk[d.id].index]_vars
=============================================================================
