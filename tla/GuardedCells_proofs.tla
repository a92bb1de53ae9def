------------------------ MODULE GuardedCells_proofs ------------------------
(***************************************************************************)
(* Whatever the cells, the number of attempts, of deaths and of changes    *)
(* between them, a real session's step returns entries of one code, and    *)
(* what an attempt was kept with stays as it was.                          *)
(***************************************************************************)
EXTENDS GuardedCells, TLAPS

AnyIdentity == [commit: Nat, libraries: Nat, dirty: BOOLEAN]
AnyInput == {None} \cup [host: Nat \cup {None}, link: Nat]
Prices == {None} \cup
    UNION {[Signatures[c] -> AnyIdentity \cup {None}] : c \in CellSet}
Entries == [by: AnyIdentity, staged: BOOLEAN, prices: Prices, from: AnyInput]
Manifests == [status: {"running", "passed", "failed"}, identity: AnyIdentity,
              inputs: AnyInput]
Contents == [manifest: Manifests, index: Entries \cup {None}]
Places == [id: Nat \ {0}, names: SUBSET Files]
Children == {"child", "saved", "written"}
RunRecords == [step: CELL_STEPS, at: 1..(Len(Cells) + 1), identity: AnyIdentity,
               index: Seq(Entries), failed: SUBSET CellSet,
               phase: {"loop", "clear"} \cup Children]

\* The shape of what the argument reads
Shapes ==
    /\ tree \in AnyIdentity /\ link \in Nat
    /\ disk \in Seq(Contents)
    /\ here \in [CELL_STEPS -> [CellSet -> Places \cup {None}]]
    /\ cache \in [AllSignatures -> AnyIdentity \cup {None}]
    /\ run = Idle \/ run \in RunRecords
    /\ run \in RunRecords /\ run.phase # "loop" => run.at <= Len(Cells)

\* Every place a step sees is a directory on disk, and the entry named there
\* was measured by the code its manifest names
EntriesNamed ==
    \A step \in CELL_STEPS, c \in CellSet :
        here[step][c] # None =>
            LET d == here[step][c] IN
            /\ d.id <= Len(disk)
            /\ "index" \in d.names =>
                 /\ disk[d.id].index \in Entries
                 /\ disk[d.id].index.by = disk[d.id].manifest.identity

\* The child's directory is the last made, its manifest names the code now,
\* and so does its entry once it is measured
ChildsOwn ==
    run \in RunRecords /\ run.phase \in Children =>
        /\ Dir \in Places /\ Dir.id = Len(disk)
        /\ disk[Dir.id].manifest.identity = tree
        /\ run.phase # "child" \/ "index" \in Dir.names =>
               Entry \in Entries /\ Entry.by = tree

\* What the step has so far is of the code now
IndexOfOneCode ==
    run \in RunRecords =>
        /\ run.identity = tree
        /\ ~debug => \A n \in 1..Len(run.index) : run.index[n].by = tree

CodeInv == Shapes /\ EntriesNamed /\ ChildsOwn /\ IndexOfOneCode

\* What was kept is as it was, and is not the child's
KeptAsWas ==
    \A k \in kept :
        /\ k.id \in 1..Len(disk) /\ k.was = disk[k.id]
        /\ run \in RunRecords /\ run.phase \in Children => k.id < Len(disk)

IndInv == CodeInv /\ KeptAsWas

LEMMA InitInv == Init => IndInv
<1> SUFFICES ASSUME Init PROVE IndInv
  OBVIOUS
<1>1. PICK n \in 0..Len(Cells) :
        LET first == {Cells[m] : m \in 1..n} IN
        /\ disk = [m \in 1..n |-> Staged(Cells[m])]
        /\ here = [step \in CELL_STEPS |-> [c \in CellSet |->
                      IF step = "host_components" /\ c \in first
                      THEN [id |-> CHOOSE m \in 1..n : Cells[m] = c, names |-> Files]
                      ELSE None]]
        /\ cache = [g \in AllSignatures |->
                      IF \E c \in first : g \in Signatures[c] THEN Donor ELSE None]
  BY DEF Init
<1>2. run = Idle /\ run \notin RunRecords /\ kept = {}
  BY DEF Init, Idle, RunRecords, Children
<1>3. Donor \in AnyIdentity /\ tree \in AnyIdentity /\ link \in Nat
  BY DEF Init, Donor, AnyIdentity
<1>4. ASSUME NEW m \in 1..n
      PROVE  /\ Staged(Cells[m]) \in Contents
             /\ Staged(Cells[m]).index \in Entries
             /\ Staged(Cells[m]).index.by = Staged(Cells[m]).manifest.identity
  <2>1. Cells[m] \in CellSet
    BY CellsAssumption DEF CellSet
  <2>2. [g \in Signatures[Cells[m]] |-> Donor] \in Prices
    BY <1>3, <2>1 DEF Prices
  <2>3. Staged(Cells[m]).index \in Entries
    BY <1>3, <2>2 DEF Staged, Entries, AnyInput
  <2>4. Staged(Cells[m]).manifest \in Manifests
    BY <1>3 DEF Staged, Manifests, AnyInput
  <2> QED BY <2>3, <2>4 DEF Staged, Contents
<1>5. n \in Nat /\ disk \in Seq(Contents) /\ Len(disk) = n
  BY <1>1, <1>4, CellsAssumption
<1>6. ASSUME NEW step \in CELL_STEPS, NEW c \in CellSet, here[step][c] # None
      PROVE  /\ here[step][c] \in Places /\ here[step][c].id \in 1..n
  <2>1. \E m \in 1..n : Cells[m] = c
    BY <1>1, <1>6
  <2>2. here[step][c] = [id |-> CHOOSE m \in 1..n : Cells[m] = c, names |-> Files]
    BY <1>1, <1>6
  <2>3. PICK m \in 1..n : here[step][c] = [id |-> m, names |-> Files]
    BY <2>1, <2>2
  <2> QED BY <1>5, <2>3 DEF Places
<1>7. here \in [CELL_STEPS -> [CellSet -> Places \cup {None}]]
  <2>1. \A step \in CELL_STEPS, c \in CellSet : here[step][c] \in Places \cup {None}
    BY <1>6
  <2> DEFINE row(step) == [c \in CellSet |->
                IF step = "host_components" /\ c \in {Cells[m] : m \in 1..n}
                THEN [id |-> CHOOSE m \in 1..n : Cells[m] = c, names |-> Files]
                ELSE None]
  <2>2. here = [step \in CELL_STEPS |-> row(step)]
    BY <1>1
  <2>3. \A step \in CELL_STEPS : row(step) \in [CellSet -> Places \cup {None}]
    BY <2>1, <2>2
  <2> QED BY <2>2, <2>3
<1>8. Shapes
  <2>1. cache \in [AllSignatures -> AnyIdentity \cup {None}]
    BY <1>1, <1>3
  <2> QED BY <1>2, <1>3, <1>5, <1>7, <2>1 DEF Shapes
<1>9. EntriesNamed
  <2> SUFFICES ASSUME NEW step \in CELL_STEPS, NEW c \in CellSet,
                      here[step][c] # None
               PROVE  /\ here[step][c].id <= Len(disk)
                      /\ disk[here[step][c].id].index \in Entries
                      /\ disk[here[step][c].id].index.by =
                             disk[here[step][c].id].manifest.identity
    BY DEF EntriesNamed
  <2>1. disk[here[step][c].id] = Staged(Cells[here[step][c].id])
    BY <1>1, <1>6
  <2> QED BY <1>4, <1>5, <1>6, <2>1
<1> QED BY <1>2, <1>8, <1>9
        DEF IndInv, CodeInv, ChildsOwn, IndexOfOneCode, KeptAsWas

(***************************************************************************)
(* What the steps write.                                                   *)
(***************************************************************************)
LEMMA InputsShape ==
    ASSUME Shapes, NEW step \in CELL_STEPS, NEW c \in CellSet
    PROVE  Inputs(step, c) \in AnyInput
  BY DEF Shapes, Inputs, AnyInput, Places, CELL_STEPS

\* A measured entry is an entry, by the code now.
LEMMA MeasuredShape ==
    ASSUME Shapes, NEW step \in CELL_STEPS, NEW c \in CellSet
    PROVE  Measured(step, c) \in Entries /\ Measured(step, c).by = tree
<1>1. Signatures[c] \subseteq AllSignatures
  BY DEF AllSignatures, CellSet
<1>2. Priced(c) \in [Signatures[c] -> AnyIdentity \cup {None}]
  BY <1>1 DEF Priced, Shapes
<1>3. Priced(c) \in Prices
  BY <1>2 DEF Prices
<1>4. None \in Prices
  BY DEF Prices
<1>5. tree \in AnyIdentity
  BY DEF Shapes
<1> QED BY <1>3, <1>4, <1>5, InputsShape DEF Measured, Entries

\* The cell at hand of a step in progress is a cell of the grid.
LEMMA CellAtHand ==
    ASSUME Shapes, run \in RunRecords, run.at <= Len(Cells)
    PROVE  Cell \in CellSet /\ run.step \in CELL_STEPS /\ run.at \in 1..Len(Cells)
<1>1. run.at \in 1..Len(Cells) /\ run.step \in CELL_STEPS
  BY CellsAssumption DEF RunRecords
<1> QED BY <1>1, CellsAssumption DEF Cell, CellSet

\* A step that leaves the process idle, or in its loop or about to clear,
\* with entries of the code now, keeps what is said of the process.
LEMMA QuietRun ==
    ASSUME IndInv, UNCHANGED <<session, tree>>,
           run' = Idle \/
             /\ run' \in RunRecords /\ run'.phase \in {"loop", "clear"}
             /\ run'.phase = "clear" => run'.at <= Len(Cells)
             /\ run'.identity = tree
             /\ ~debug => \A n \in 1..Len(run'.index) : run'.index[n].by = tree
    PROVE  /\ ChildsOwn' /\ IndexOfOneCode'
           /\ run' = Idle \/ run' \in RunRecords
           /\ run' \in RunRecords /\ run'.phase # "loop" => run'.at <= Len(Cells)
           /\ ~(run' \in RunRecords /\ run'.phase \in Children)
<1>1. Idle \notin RunRecords
  BY DEF Idle, RunRecords, Children
<1>2. ~(run' \in RunRecords /\ run'.phase \in Children)
  BY <1>1 DEF Children
<1>3. ChildsOwn'
  BY <1>2 DEF ChildsOwn
<1>4. IndexOfOneCode'
  BY <1>1 DEF IndexOfOneCode, debug
<1> QED BY <1>1, <1>2, <1>3, <1>4

\* The same, where nothing on disk changes either.
LEMMA QuietInv ==
    ASSUME IndInv, UNCHANGED <<session, tree, link, disk, here, kept, cache>>,
           run' = Idle \/
             /\ run' \in RunRecords /\ run'.phase \in {"loop", "clear"}
             /\ run'.phase = "clear" => run'.at <= Len(Cells)
             /\ run'.identity = tree
             /\ ~debug => \A n \in 1..Len(run'.index) : run'.index[n].by = tree
    PROVE  IndInv'
<1>1. Shapes'
  BY QuietRun DEF IndInv, CodeInv, Shapes
<1>2. EntriesNamed'
  BY DEF IndInv, CodeInv, EntriesNamed
<1>3. KeptAsWas'
  BY QuietRun DEF IndInv, KeptAsWas
<1> QED BY <1>1, <1>2, <1>3, QuietRun DEF IndInv, CodeInv

(***************************************************************************)
(* Each action keeps the invariant.                                        *)
(***************************************************************************)
LEMMA StartInv == ASSUME IndInv, Start PROVE IndInv'
<1>1. PICK step \in CELL_STEPS :
        /\ kept' = kept \cup Links(step)
        /\ run' = [step |-> step, at |-> 1, identity |-> tree, index |-> <<>>,
                   failed |-> {}, phase |-> "loop"]
  BY DEF Start
<1>2. UNCHANGED <<session, tree, link, disk, here, cache>>
  BY DEF Start, outside
<1>3. run' \in RunRecords /\ run'.phase = "loop" /\ run'.identity = tree
      /\ Len(run'.index) = 0
  BY <1>1 DEF IndInv, CodeInv, Shapes, RunRecords
<1>4. /\ ChildsOwn' /\ IndexOfOneCode'
      /\ ~(run' \in RunRecords /\ run'.phase \in Children)
  BY <1>2, <1>3, QuietRun
<1>5. Shapes'
  BY <1>2, <1>3 DEF IndInv, CodeInv, Shapes
<1>6. EntriesNamed'
  BY <1>2 DEF IndInv, CodeInv, EntriesNamed
<1>7. ASSUME NEW k \in Links(step) PROVE k.id \in 1..Len(disk) /\ k.was = disk[k.id]
  <2>1. PICK c \in CellSet : /\ here[step][c] # None
                             /\ k.id = here[step][c].id
                             /\ k.was = disk[here[step][c].id]
    BY DEF Links
  <2>2. here[step][c] \in Places /\ here[step][c].id <= Len(disk)
    BY <2>1 DEF IndInv, CodeInv, Shapes, EntriesNamed
  <2> QED BY <2>1, <2>2 DEF Places, IndInv, CodeInv, Shapes
<1>8. KeptAsWas'
  BY <1>1, <1>2, <1>4, <1>7 DEF IndInv, KeptAsWas
<1> QED BY <1>4, <1>5, <1>6, <1>8 DEF IndInv, CodeInv

\* The entry a real session resumes was measured by the code now.
LEMMA ResumedByThisCode ==
    ASSUME IndInv, run \in RunRecords, run.at <= Len(Cells),
           resumable(run.step, Cell)
    PROVE  Entry \in Entries /\ (~debug => Entry.by = tree)
<1>1. Cell \in CellSet /\ run.step \in CELL_STEPS
  BY CellAtHand DEF IndInv, CodeInv
<1>2. Dir # None /\ "index" \in Dir.names
  BY DEF resumable, Dir
<1>3. Entry \in Entries /\ Entry.by = disk[Dir.id].manifest.identity
  BY <1>1, <1>2, SMTT(60) DEF IndInv, CodeInv, EntriesNamed, Dir, Entry
<1>4. ASSUME ~debug PROVE disk[Dir.id].manifest.identity = tree
  BY <1>4 DEF resumable, Dir, ReadManifest, EarlierFix, SameCode, Accepted
<1> QED BY <1>3, <1>4

\* An entry of the code now is added, and the loop goes on.
LEMMA NextEntry ==
    ASSUME IndInv, run \in RunRecords, run.at \in 1..Len(Cells),
           Entry \in Entries, ~debug => Entry.by = tree,
           run' = [run EXCEPT !.phase = "loop", !.at = @ + 1,
                              !.index = Append(@, Entry)]
    PROVE  /\ run' \in RunRecords /\ run'.phase = "loop" /\ run'.identity = tree
           /\ ~debug => \A n \in 1..Len(run'.index) : run'.index[n].by = tree
<1> DEFINE longer == Append(run.index, Entry)
<1>1. run.index \in Seq(Entries)
  BY DEF RunRecords
<1>2. run.identity = tree /\ (~debug => \A n \in 1..Len(run.index) : run.index[n].by = tree)
  BY DEF IndInv, CodeInv, IndexOfOneCode
<1>3. /\ longer \in Seq(Entries)
      /\ ~debug => \A n \in 1..Len(longer) : longer[n].by = tree
  BY <1>1, <1>2
<1>4. run' = [run EXCEPT !.phase = "loop", !.at = @ + 1, !.index = longer]
  OBVIOUS
<1>5. run.at + 1 \in 1..(Len(Cells) + 1)
  OBVIOUS
<1> HIDE DEF longer
<1>6. /\ run' \in RunRecords /\ run'.phase = "loop"
      /\ run'.identity = run.identity /\ run'.index = longer
  BY <1>3, <1>4, <1>5 DEF RunRecords
<1> QED BY <1>2, <1>3, <1>6

LEMMA ResumeInv == ASSUME IndInv, Resume PROVE IndInv'
<1>1. run \in RunRecords /\ run.at <= Len(Cells) /\ run.phase = "loop"
  BY DEF IndInv, CodeInv, Shapes, Resume, Looping, Idle
<1>2. run.at \in 1..Len(Cells)
  BY <1>1, CellAtHand DEF IndInv, CodeInv
<1>3. Entry \in Entries /\ (~debug => Entry.by = tree)
  BY <1>1, ResumedByThisCode DEF Resume
<1>4. run' = [run EXCEPT !.phase = "loop", !.at = @ + 1,
                         !.index = Append(@, Entry)]
  BY <1>1 DEF Resume, RunRecords
<1>5. /\ run' \in RunRecords /\ run'.phase = "loop" /\ run'.identity = tree
      /\ ~debug => \A n \in 1..Len(run'.index) : run'.index[n].by = tree
  BY <1>1, <1>2, <1>3, <1>4, NextEntry
<1> QED BY <1>5, QuietInv DEF Resume, outside

LEMMA ClearInv == ASSUME IndInv, Clear PROVE IndInv'
<1>1. run \in RunRecords /\ run.at <= Len(Cells)
  BY DEF IndInv, CodeInv, Shapes, Clear, Looping, Idle
<1>2. run' = [run EXCEPT !.phase = "clear"]
  BY DEF Clear
<1>3. /\ run' \in RunRecords /\ run'.phase = "clear" /\ run'.at = run.at
      /\ run'.identity = run.identity /\ run'.index = run.index
  BY <1>1, <1>2 DEF RunRecords
<1> QED BY <1>1, <1>3, QuietInv DEF Clear, outside, IndInv, CodeInv, IndexOfOneCode

LEMMA EndInv == ASSUME IndInv, Return \/ Refuse PROVE IndInv'
  BY QuietInv DEF Return, Refuse, outside

\* A change outside, while nothing runs.
LEMMA OutsideInv == ASSUME IndInv, Outside PROVE IndInv'
<1>1. /\ run = Idle /\ run' = Idle /\ run' \notin RunRecords
      /\ UNCHANGED <<disk, here, kept, cache>>
  BY DEF Outside, Idle, RunRecords, Children
<1>2. tree' \in AnyIdentity /\ link' \in Nat
  <2>1. CASE Fix
    <3>1. tree \in AnyIdentity
      BY DEF IndInv, CodeInv, Shapes
    <3> DEFINE next == tree.commit + 1
               newer == tree.libraries + 1
    <3>2. next \in Nat /\ newer \in Nat
      BY <3>1 DEF AnyIdentity
    <3>3. \/ tree' = [tree EXCEPT !.commit = next, !.dirty = FALSE]
          \/ tree' = [tree EXCEPT !.libraries = newer]
          \/ tree' = [tree EXCEPT !.dirty = TRUE]
          \/ tree' = [tree EXCEPT !.dirty = FALSE]
      BY <2>1 DEF Fix
    <3> HIDE DEF next, newer
    <3>4. tree' \in AnyIdentity
      BY <3>1, <3>2, <3>3 DEF AnyIdentity
    <3> QED BY <2>1, <3>4 DEF Fix, IndInv, CodeInv, Shapes
  <2>2. CASE Relink
    BY <2>2 DEF Relink, IndInv, CodeInv, Shapes
  <2> QED BY <2>1, <2>2 DEF Outside
<1>3. Shapes'
  BY <1>1, <1>2 DEF IndInv, CodeInv, Shapes
<1>4. EntriesNamed' /\ KeptAsWas'
  BY <1>1 DEF IndInv, CodeInv, EntriesNamed, KeptAsWas
<1> QED BY <1>1, <1>3, <1>4 DEF IndInv, CodeInv, ChildsOwn, IndexOfOneCode

\* Where the child stands: its cell's directory is one on disk.
LEMMA ChildsDirectory ==
    ASSUME IndInv, run.phase \in Children
    PROVE  /\ run \in RunRecords /\ Cell \in CellSet /\ run.step \in CELL_STEPS
           /\ run.at \in 1..Len(Cells)
           /\ Dir \in Places /\ Dir.id = Len(disk) /\ Dir.id \in 1..Len(disk)
           /\ Dir = here[run.step][Cell] /\ disk[Dir.id] \in Contents
           /\ disk \in Seq(Contents) /\ Len(disk) \in Nat
           /\ disk[Dir.id].manifest.identity = tree
           /\ here \in [CELL_STEPS -> [CellSet -> Places \cup {None}]]
<1>1. run \in RunRecords /\ run.at <= Len(Cells)
  BY DEF IndInv, CodeInv, Shapes, Idle, Children
<1>2. Cell \in CellSet /\ run.step \in CELL_STEPS /\ run.at \in 1..Len(Cells)
  BY <1>1, CellAtHand DEF IndInv, CodeInv
<1>3. /\ Dir \in Places /\ Dir.id = Len(disk)
      /\ disk[Dir.id].manifest.identity = tree
  BY <1>1 DEF IndInv, CodeInv, ChildsOwn
<1>4. disk \in Seq(Contents) /\ here \in [CELL_STEPS -> [CellSet -> Places \cup {None}]]
  BY DEF IndInv, CodeInv, Shapes
<1>5. Dir.id \in 1..Len(disk) /\ Len(disk) \in Nat
  BY <1>3, <1>4 DEF Places
<1>6. disk[Dir.id] \in Contents
  BY <1>4, <1>5
<1> QED BY <1>1, <1>2, <1>3, <1>4, <1>5, <1>6 DEF Dir

LEMMA SpawnInv == ASSUME IndInv, Spawn PROVE IndInv'
<1>1. run \in RunRecords /\ run.at <= Len(Cells) /\ run.phase = "clear"
  BY DEF IndInv, CodeInv, Shapes, Spawn, Idle
<1>2. Cell \in CellSet /\ run.step \in CELL_STEPS
  BY <1>1, CellAtHand DEF IndInv, CodeInv
<1>3. /\ disk \in Seq(Contents) /\ Len(disk) \in Nat
      /\ here \in [CELL_STEPS -> [CellSet -> Places \cup {None}]]
  BY DEF IndInv, CodeInv, Shapes
<1> DEFINE made == Running(run.step, Cell)
           place == [id |-> Len(disk) + 1, names |-> {"manifest"}]
<1>4. made \in Contents /\ made.manifest.identity = tree
  <2>1. run.identity = tree /\ tree \in AnyIdentity
    BY <1>1 DEF IndInv, CodeInv, IndexOfOneCode, Shapes
  <2>2. Inputs(run.step, Cell) \in AnyInput
    BY <1>2, InputsShape DEF IndInv, CodeInv
  <2> QED BY <2>1, <2>2 DEF Running, Contents, Manifests
<1>5. place \in Places
  BY <1>3 DEF Places, Files
<1>6. /\ disk' = Append(disk, made)
      /\ here' = [here EXCEPT ![run.step][Cell] = place]
      /\ run' = [run EXCEPT !.phase = "child"]
      /\ UNCHANGED <<session, tree, link, kept, cache>>
  BY DEF Spawn, outside
<1> HIDE DEF made, place
<1>7. /\ disk' \in Seq(Contents) /\ Len(disk') = Len(disk) + 1
      /\ disk'[Len(disk) + 1] = made
      /\ \A n \in 1..Len(disk) : disk'[n] = disk[n]
  BY <1>3, <1>4, <1>6
<1>8. /\ run' \in RunRecords /\ run'.phase = "child" /\ run'.at = run.at
      /\ run'.step = run.step /\ run'.identity = run.identity
      /\ run'.index = run.index
  BY <1>1, <1>6 DEF RunRecords, Children
<1>9. /\ here' \in [CELL_STEPS -> [CellSet -> Places \cup {None}]]
      /\ here'[run.step][Cell] = place
      /\ \A step \in CELL_STEPS, c \in CellSet :
            here'[step][c] = place \/ here'[step][c] = here[step][c]
  BY <1>2, <1>3, <1>5, <1>6
<1>10. Shapes'
  BY <1>1, <1>6, <1>7, <1>8, <1>9 DEF IndInv, CodeInv, Shapes
<1>11. place.id = Len(disk) + 1 /\ "index" \notin place.names
  BY DEF place
<1>12. EntriesNamed'
  <2> SUFFICES ASSUME NEW step \in CELL_STEPS, NEW c \in CellSet,
                      here'[step][c] # None
               PROVE  LET d == here'[step][c] IN
                      /\ d.id <= Len(disk')
                      /\ "index" \in d.names =>
                           /\ disk'[d.id].index \in Entries
                           /\ disk'[d.id].index.by = disk'[d.id].manifest.identity
    BY DEF EntriesNamed
  <2>1. CASE here'[step][c] = place
    BY <1>3, <1>7, <1>11, <2>1
  <2>2. CASE here'[step][c] = here[step][c]
    <3>1. here[step][c] \in Places /\ here[step][c].id \in 1..Len(disk)
      BY <1>3, <2>2 DEF IndInv, CodeInv, EntriesNamed, Places
    <3> QED BY <1>3, <1>7, <2>2, <3>1 DEF IndInv, CodeInv, EntriesNamed
  <2> QED BY <1>9, <2>1, <2>2
<1>13. ChildsOwn'
  <2>1. Dir' = place
    BY <1>8, <1>9 DEF Dir, Cell
  <2> QED BY <1>4, <1>5, <1>6, <1>7, <1>8, <1>11, <2>1 DEF ChildsOwn
<1>14. IndexOfOneCode'
  BY <1>1, <1>6, <1>8 DEF IndInv, CodeInv, IndexOfOneCode, debug
<1>15. KeptAsWas'
  BY <1>3, <1>6, <1>7 DEF IndInv, KeptAsWas
<1> QED BY <1>10, <1>12, <1>13, <1>14, <1>15 DEF IndInv, CodeInv

LEMMA DiskWrite ==
    ASSUME disk \in Seq(Contents), NEW STATE id, id \in 1..Len(disk),
           NEW STATE d, d \in Contents, disk' = [disk EXCEPT ![id] = d]
    PROVE  /\ disk' \in Seq(Contents) /\ Len(disk') = Len(disk)
           /\ disk'[id] = d
           /\ \A n \in 1..Len(disk) : n # id => disk'[n] = disk[n]
  OBVIOUS

\* What the child, or its guard, writes in its own directory breaks nothing
\* said of the others, nor of what was kept.
LEMMA OwnDirectory ==
    ASSUME IndInv, run.phase \in Children,
           NEW STATE d, d \in Contents, d.manifest.identity = tree,
           d.index = Entry \/ (d.index \in Entries /\ d.index.by = tree),
           NEW STATE p, p \in Places, p.id = Dir.id,
           "index" \in p.names => d.index \in Entries /\ d.index.by = tree,
           Len(disk') = Len(disk), disk'[Dir.id] = d,
           \A n \in 1..Len(disk) : n # Dir.id => disk'[n] = disk[n],
           here' = [here EXCEPT ![run.step][Cell] = p],
           UNCHANGED <<tree, kept>>
    PROVE  /\ here' \in [CELL_STEPS -> [CellSet -> Places \cup {None}]]
           /\ here'[run.step][Cell] = p
           /\ EntriesNamed' /\ KeptAsWas'
<1>1. /\ disk \in Seq(Contents) /\ Len(disk) \in Nat
      /\ Dir.id \in 1..Len(disk) /\ Dir.id = Len(disk)
      /\ Cell \in CellSet /\ run.step \in CELL_STEPS
      /\ here \in [CELL_STEPS -> [CellSet -> Places \cup {None}]]
      /\ run \in RunRecords
      /\ disk[Dir.id].manifest.identity = tree
  BY ChildsDirectory
<1>2. Len(disk') = Len(disk) /\ disk'[Dir.id] = d
  OBVIOUS
<1>3. /\ here' \in [CELL_STEPS -> [CellSet -> Places \cup {None}]]
      /\ here'[run.step][Cell] = p
      /\ \A step \in CELL_STEPS, c \in CellSet :
            here'[step][c] = p \/ here'[step][c] = here[step][c]
  BY <1>1, SMTT(60)
<1>4. EntriesNamed'
  <2> SUFFICES ASSUME NEW step \in CELL_STEPS, NEW c \in CellSet,
                      here'[step][c] # None
               PROVE  LET e == here'[step][c] IN
                      /\ e.id <= Len(disk')
                      /\ "index" \in e.names =>
                           /\ disk'[e.id].index \in Entries
                           /\ disk'[e.id].index.by = disk'[e.id].manifest.identity
    BY DEF EntriesNamed
  <2>1. CASE here'[step][c] = p
    <3>1. /\ p.id <= Len(disk') /\ disk'[p.id] = d
          /\ "index" \in p.names => d.index \in Entries /\ d.index.by = tree
      BY <1>1, <1>2
    <3> QED BY <2>1, <3>1
  <2>2. CASE here'[step][c] = here[step][c]
    <3> DEFINE e == here[step][c]
    <3>1. e \in Places /\ e.id \in 1..Len(disk)
      BY <1>1, <2>2 DEF IndInv, CodeInv, EntriesNamed, Places
    <3>2. "index" \in e.names =>
            /\ disk[e.id].index \in Entries
            /\ disk[e.id].index.by = disk[e.id].manifest.identity
      BY <2>2 DEF IndInv, CodeInv, EntriesNamed
    <3> HIDE DEF e
    <3>3. e.id <= Len(disk')
      BY <1>1, <1>2, <3>1
    <3>4. ASSUME "index" \in e.names
          PROVE  /\ disk'[e.id].index \in Entries
                 /\ disk'[e.id].index.by = disk'[e.id].manifest.identity
      <4>1. CASE e.id # Dir.id
        BY <1>2, <3>1, <3>2, <3>4, <4>1
      <4>2. CASE e.id = Dir.id
        <5>1. disk'[e.id] = d
          BY <1>2, <4>2
        <5>2. Entry \in Entries /\ Entry.by = tree
          BY <1>1, <3>2, <3>4, <4>2 DEF Entry
        <5> QED BY <5>1, <5>2
      <4> QED BY <4>1, <4>2
    <3> QED BY <2>2, <3>3, <3>4 DEF e
  <2> QED BY <1>3, <2>1, <2>2, SMTT(60)
<1>5. KeptAsWas'
  <2>1. \A k \in kept : /\ k.id \in 1..Len(disk) /\ k.was = disk[k.id]
                        /\ k.id < Len(disk)
    BY <1>1 DEF IndInv, KeptAsWas
  <2> QED BY <1>1, <1>2, <2>1 DEF KeptAsWas
<1> QED BY <1>3, <1>4, <1>5

\* A child that goes on: its directory and entry stay of the code now.
LEMMA ChildGoesOn ==
    ASSUME IndInv, run.phase \in Children, NEW phase \in {"saved", "written"},
           run' = [run EXCEPT !.phase = phase], UNCHANGED <<session, tree>>,
           disk' \in Seq(Contents), Len(disk') = Len(disk),
           NEW STATE d, disk'[Dir.id] = d, d.manifest.identity = tree,
           d.index \in Entries, d.index.by = tree,
           NEW STATE p, p \in Places, p.id = Dir.id, here'[run.step][Cell] = p
    PROVE  /\ run' \in RunRecords /\ run'.at <= Len(Cells)
           /\ ChildsOwn' /\ IndexOfOneCode'
<1>1. /\ run \in RunRecords /\ run.at \in 1..Len(Cells)
      /\ Dir.id = Len(disk)
  BY ChildsDirectory
<1>2. /\ run' \in RunRecords /\ run'.phase = phase /\ run'.at = run.at
      /\ run'.step = run.step /\ run'.identity = run.identity
      /\ run'.index = run.index
  BY <1>1 DEF RunRecords, Children
<1>3. Dir' = p
  BY <1>2 DEF Dir, Cell
<1>4. Entry' = d.index
  BY <1>3 DEF Entry
<1>5. ChildsOwn'
  BY <1>1, <1>2, <1>3, <1>4 DEF ChildsOwn
<1>6. IndexOfOneCode'
  BY <1>1, <1>2 DEF IndInv, CodeInv, IndexOfOneCode, debug
<1> QED BY <1>1, <1>2, <1>5, <1>6

LEMMA ChildSavesInv == ASSUME IndInv, ChildSaves PROVE IndInv'
<1>1. run.phase \in Children
  BY DEF ChildSaves, Children
<1>2. /\ run \in RunRecords /\ Cell \in CellSet /\ run.step \in CELL_STEPS
      /\ Dir \in Places /\ disk \in Seq(Contents) /\ Dir.id \in 1..Len(disk)
      /\ Dir = here[run.step][Cell] /\ disk[Dir.id] \in Contents
      /\ disk[Dir.id].manifest.identity = tree
      /\ here \in [CELL_STEPS -> [CellSet -> Places \cup {None}]]
  BY <1>1, ChildsDirectory
<1>3. Measured(run.step, Cell) \in Entries /\ Measured(run.step, Cell).by = tree
  BY <1>2, MeasuredShape DEF IndInv, CodeInv
<1> DEFINE d == [disk[Dir.id] EXCEPT !.index = Measured(run.step, Cell)]
           p == [Dir EXCEPT !.names = @ \cup {"recording"}]
<1>4. /\ d \in Contents /\ d.manifest.identity = tree
      /\ d.index \in Entries /\ d.index.by = tree
  BY <1>2, <1>3 DEF Contents
<1>5. p \in Places /\ p.id = Dir.id
  BY <1>2 DEF Places, Files
<1>6. /\ disk' = [disk EXCEPT ![Dir.id] = d]
      /\ here' = [here EXCEPT ![run.step][Cell] = p]
      /\ run' = [run EXCEPT !.phase = "saved"]
      /\ UNCHANGED <<session, tree, link, kept>>
  BY <1>2 DEF ChildSaves, outside
<1>7. cache' \in [AllSignatures -> AnyIdentity \cup {None}]
  <2>1. cache \in [AllSignatures -> AnyIdentity \cup {None}] /\ tree \in AnyIdentity
    BY DEF IndInv, CodeInv, Shapes
  <2>2. Priced(Cell) \in [Signatures[Cell] -> AnyIdentity \cup {None}]
    BY <1>2, <2>1 DEF Priced, AllSignatures, CellSet
  <2> QED BY <2>1, <2>2 DEF ChildSaves
<1> HIDE DEF d, p
<1>8. /\ disk' \in Seq(Contents) /\ Len(disk') = Len(disk) /\ disk'[Dir.id] = d
      /\ \A n \in 1..Len(disk) : n # Dir.id => disk'[n] = disk[n]
  BY <1>2, <1>4, <1>6, DiskWrite
<1>9. /\ here' \in [CELL_STEPS -> [CellSet -> Places \cup {None}]]
      /\ here'[run.step][Cell] = p
      /\ EntriesNamed' /\ KeptAsWas'
  BY <1>1, <1>4, <1>5, <1>6, <1>8, OwnDirectory
<1>10. /\ run' \in RunRecords /\ run'.at <= Len(Cells)
      /\ ChildsOwn' /\ IndexOfOneCode'
  BY <1>1, <1>4, <1>5, <1>6, <1>8, <1>9, ChildGoesOn
<1>11. Shapes'
  BY <1>6, <1>7, <1>8, <1>9, <1>10 DEF IndInv, CodeInv, Shapes
<1> QED BY <1>9, <1>10, <1>11 DEF IndInv, CodeInv

LEMMA ChildWritesInv == ASSUME IndInv, ChildWrites PROVE IndInv'
<1>1. run.phase \in Children /\ run.phase = "saved"
  BY DEF ChildWrites, Children
<1>2. /\ run \in RunRecords /\ Cell \in CellSet /\ run.step \in CELL_STEPS
      /\ Dir \in Places /\ disk \in Seq(Contents) /\ Dir.id \in 1..Len(disk)
      /\ Dir = here[run.step][Cell] /\ disk[Dir.id] \in Contents
      /\ disk[Dir.id].manifest.identity = tree
      /\ here \in [CELL_STEPS -> [CellSet -> Places \cup {None}]]
  BY <1>1, ChildsDirectory
<1>3. Entry = disk[Dir.id].index /\ Entry \in Entries /\ Entry.by = tree
  BY <1>1, <1>2 DEF IndInv, CodeInv, ChildsOwn, Entry
<1> DEFINE d == disk[Dir.id]
           p == [Dir EXCEPT !.names = @ \cup {"index"}]
<1>4. p \in Places /\ p.id = Dir.id
  BY <1>2 DEF Places, Files
<1>5. /\ here' = [here EXCEPT ![run.step][Cell] = p]
      /\ run' = [run EXCEPT !.phase = "written"]
      /\ UNCHANGED <<session, tree, link, disk, kept, cache>>
  BY <1>2 DEF ChildWrites, outside
<1>6. /\ disk' \in Seq(Contents) /\ Len(disk') = Len(disk) /\ disk'[Dir.id] = d
      /\ \A n \in 1..Len(disk) : n # Dir.id => disk'[n] = disk[n]
  BY <1>2, <1>5
<1> HIDE DEF p, d
<1>7. /\ here' \in [CELL_STEPS -> [CellSet -> Places \cup {None}]]
      /\ here'[run.step][Cell] = p
      /\ EntriesNamed' /\ KeptAsWas'
  <2>1. d \in Contents /\ d.index = Entry /\ d.manifest.identity = tree
    BY <1>2, <1>3 DEF d
  <2> QED BY <1>1, <1>3, <1>4, <1>5, <1>6, <2>1, OwnDirectory
<1>8. /\ run' \in RunRecords /\ run'.at <= Len(Cells)
      /\ ChildsOwn' /\ IndexOfOneCode'
  <2>1. d.index = Entry /\ d.manifest.identity = tree
    BY <1>2, <1>3 DEF d
  <2> QED BY <1>1, <1>3, <1>4, <1>5, <1>6, <1>7, <2>1, ChildGoesOn
<1>9. Shapes'
  BY <1>5, <1>6, <1>7, <1>8, SMTT(60) DEF IndInv, CodeInv, Shapes
<1> QED BY <1>7, <1>8, <1>9 DEF IndInv, CodeInv

\* The parent's record of a cell that ended says nothing new of its code.
LEMMA SettleKeeps ==
    ASSUME IndInv, run.phase \in Children, NEW status \in {"passed", "failed"},
           Settle(status), UNCHANGED <<tree, here, kept>>
    PROVE  /\ disk' \in Seq(Contents) /\ EntriesNamed' /\ KeptAsWas'
           /\ here' \in [CELL_STEPS -> [CellSet -> Places \cup {None}]]
<1>1. /\ run \in RunRecords /\ Cell \in CellSet /\ run.step \in CELL_STEPS
      /\ Dir \in Places /\ disk \in Seq(Contents) /\ Dir.id \in 1..Len(disk)
      /\ Dir = here[run.step][Cell] /\ disk[Dir.id] \in Contents
      /\ disk[Dir.id].manifest.identity = tree
      /\ here \in [CELL_STEPS -> [CellSet -> Places \cup {None}]]
  BY ChildsDirectory
<1> DEFINE d == [disk[Dir.id] EXCEPT !.manifest.status = status]
<1>2. d \in Contents /\ d.manifest.identity = tree /\ d.index = Entry
  BY <1>1 DEF Contents, Manifests, Entry
<1>3. disk' = [disk EXCEPT ![Dir.id] = d]
  BY <1>1 DEF Settle
<1> HIDE DEF d
<1>4. /\ disk' \in Seq(Contents) /\ Len(disk') = Len(disk) /\ disk'[Dir.id] = d
      /\ \A n \in 1..Len(disk) : n # Dir.id => disk'[n] = disk[n]
  BY <1>1, <1>2, <1>3, DiskWrite
<1>5. "index" \in Dir.names => d.index \in Entries /\ d.index.by = tree
  BY <1>1, <1>2 DEF IndInv, CodeInv, ChildsOwn
<1>6. here' = [here EXCEPT ![run.step][Cell] = Dir]
  BY <1>1
<1> QED BY <1>1, <1>2, <1>4, <1>5, <1>6, OwnDirectory

LEMMA ChildPassedInv == ASSUME IndInv, ChildPassed PROVE IndInv'
<1>1. run.phase \in Children /\ run.phase = "written"
  BY DEF ChildPassed, Children
<1>2. run \in RunRecords /\ run.at \in 1..Len(Cells)
  BY <1>1, ChildsDirectory
<1>3. Entry \in Entries /\ Entry.by = tree
  BY <1>1, <1>2 DEF IndInv, CodeInv, ChildsOwn
<1>4. /\ Settle("passed") /\ UNCHANGED <<session, tree, link, here, kept, cache>>
      /\ run' = [run EXCEPT !.phase = "loop", !.at = @ + 1,
                            !.index = Append(@, Entry)]
  BY DEF ChildPassed, outside
<1>5. /\ disk' \in Seq(Contents) /\ EntriesNamed' /\ KeptAsWas'
      /\ here' \in [CELL_STEPS -> [CellSet -> Places \cup {None}]]
  BY <1>1, <1>4, SettleKeeps
<1>6. /\ run' \in RunRecords /\ run'.phase = "loop" /\ run'.identity = tree
      /\ ~debug => \A n \in 1..Len(run'.index) : run'.index[n].by = tree
  BY <1>2, <1>3, <1>4, NextEntry
<1>7. ChildsOwn' /\ IndexOfOneCode'
  BY <1>4, <1>6, QuietRun
<1>8. Shapes'
  BY <1>4, <1>5, <1>6 DEF IndInv, CodeInv, Shapes
<1> QED BY <1>5, <1>7, <1>8 DEF IndInv, CodeInv

LEMMA ChildFailedInv == ASSUME IndInv, ChildFailed PROVE IndInv'
<1>1. run.phase \in Children
  BY DEF ChildFailed, Children
<1>2. /\ run \in RunRecords /\ run.at \in 1..Len(Cells) /\ Cell \in CellSet
  BY <1>1, ChildsDirectory
<1>3. Settle("failed") /\ UNCHANGED <<session, tree, link, here, kept, cache>>
  BY DEF ChildFailed, outside
<1>4. /\ disk' \in Seq(Contents) /\ EntriesNamed' /\ KeptAsWas'
      /\ here' \in [CELL_STEPS -> [CellSet -> Places \cup {None}]]
  BY <1>1, <1>3, SettleKeeps
<1>5. \/ run' = Idle
      \/ /\ run' \in RunRecords /\ run'.phase = "loop"
         /\ run'.identity = run.identity /\ run'.index = run.index
  <2>1. CASE run' = Idle
    BY <2>1
  <2>2. CASE NextCell
    <3>1. run.at + 1 \in 1..(Len(Cells) + 1)
      BY <1>2
    <3> QED BY <1>2, <2>2, <3>1 DEF NextCell, RunRecords
  <2> QED BY <2>1, <2>2 DEF ChildFailed
<1>6. /\ run.identity = tree
      /\ ~debug => \A n \in 1..Len(run.index) : run.index[n].by = tree
  BY <1>2 DEF IndInv, CodeInv, IndexOfOneCode
<1>7. /\ ChildsOwn' /\ IndexOfOneCode' /\ (run' = Idle \/ run' \in RunRecords)
      /\ run' \in RunRecords /\ run'.phase # "loop" => run'.at <= Len(Cells)
  BY <1>3, <1>5, <1>6, QuietRun
<1>8. Shapes'
  BY <1>3, <1>4, <1>7 DEF IndInv, CodeInv, Shapes
<1> QED BY <1>4, <1>7, <1>8 DEF IndInv, CodeInv

\* A removal cut short leaves fewer names, and nothing on disk changes.
LEMMA DieInv == ASSUME IndInv, Die PROVE IndInv'
<1>1. run' = Idle /\ UNCHANGED <<session, tree, link, disk, kept, cache>>
  BY DEF Die, outside
<1>2. CASE UNCHANGED here
  BY <1>1, <1>2, QuietInv
<1>3. ASSUME run.phase = "clear", Dir # None, NEW names \in SUBSET Dir.names,
             here' = [here EXCEPT ![run.step][Cell].names = names]
      PROVE  IndInv'
  <2>1. run \in RunRecords /\ run.at <= Len(Cells)
    BY <1>3 DEF IndInv, CodeInv, Shapes, Idle
  <2>2. Cell \in CellSet /\ run.step \in CELL_STEPS
    BY <2>1, CellAtHand DEF IndInv, CodeInv
  <2>3. here \in [CELL_STEPS -> [CellSet -> Places \cup {None}]]
    BY DEF IndInv, CodeInv, Shapes
  <2>4. Dir \in Places /\ Dir = here[run.step][Cell]
    BY <1>3, <2>2, <2>3 DEF Dir
  <2> DEFINE p == [Dir EXCEPT !.names = names]
  <2>5. p \in Places /\ p.id = Dir.id /\ p.names \subseteq Dir.names
    BY <1>3, <2>4 DEF Places
  <2>6. here' = [here EXCEPT ![run.step][Cell] = p]
    BY <1>3, <2>2, <2>3, <2>4
  <2> HIDE DEF p
  <2>7. /\ here' \in [CELL_STEPS -> [CellSet -> Places \cup {None}]]
        /\ \A step \in CELL_STEPS, c \in CellSet :
              \/ here'[step][c] = here[step][c]
              \/ here'[step][c] = p /\ here[step][c] = Dir
    BY <2>2, <2>3, <2>4, <2>5, <2>6
  <2>8. EntriesNamed'
    <3> SUFFICES ASSUME NEW step \in CELL_STEPS, NEW c \in CellSet,
                        here'[step][c] # None
                 PROVE  LET e == here'[step][c] IN
                        /\ e.id <= Len(disk)
                        /\ "index" \in e.names =>
                             /\ disk[e.id].index \in Entries
                             /\ disk[e.id].index.by = disk[e.id].manifest.identity
      BY <1>1 DEF EntriesNamed
    <3>1. CASE here'[step][c] = here[step][c]
      BY <3>1 DEF IndInv, CodeInv, EntriesNamed
    <3>2. CASE here'[step][c] = p /\ here[step][c] = Dir
      <4>1. /\ Dir.id <= Len(disk)
            /\ "index" \in Dir.names =>
                 /\ disk[Dir.id].index \in Entries
                 /\ disk[Dir.id].index.by = disk[Dir.id].manifest.identity
        BY <1>3, <3>2, SMTT(60) DEF IndInv, CodeInv, EntriesNamed
      <4> QED BY <2>5, <3>2, <4>1
    <3> QED BY <2>7, <3>1, <3>2
  <2>9. /\ ChildsOwn' /\ IndexOfOneCode'
        /\ ~(run' \in RunRecords /\ run'.phase \in Children)
        /\ run' \in RunRecords /\ run'.phase # "loop" => run'.at <= Len(Cells)
    BY <1>1, QuietRun
  <2>10. Shapes'
    BY <1>1, <2>7, <2>9 DEF IndInv, CodeInv, Shapes
  <2>11. KeptAsWas'
    BY <1>1, <2>9 DEF IndInv, KeptAsWas
  <2> QED BY <2>8, <2>9, <2>10, <2>11 DEF IndInv, CodeInv
<1> QED BY <1>2, <1>3 DEF Die

LEMMA NextInv == IndInv /\ [Next]_vars => IndInv'
<1> SUFFICES ASSUME IndInv, [Next]_vars PROVE IndInv'
  BY SMTT(60)
<1>1. CASE UNCHANGED vars
  BY <1>1 DEF vars, IndInv, CodeInv, Shapes, EntriesNamed, ChildsOwn,
              IndexOfOneCode, KeptAsWas, Dir, Cell, Entry, debug
<1>2. CASE Next
  BY <1>2, StartInv, ResumeInv, ClearInv, SpawnInv, ChildSavesInv,
     ChildWritesInv, ChildPassedInv, ChildFailedInv, EndInv, DieInv, OutsideInv
     DEF Next
<1> QED BY <1>1, <1>2

LEMMA AlwaysInv == Spec => []IndInv
  BY InitInv, NextInv, PTL DEF Spec

(***************************************************************************)
(* What follows.                                                           *)
(***************************************************************************)
\* Whatever was kept of an earlier attempt stays as it was: a cell's
\* directory is only ever written by the step that made it.
THEOREM GuardedKeptStands == Spec => []KeptStands
<1>1. IndInv => KeptStands
  BY DEF IndInv, KeptAsWas, KeptStands
<1> QED BY <1>1, AlwaysInv, PTL

\* A real session's step returns entries of the code it ran under only, for
\* any grid and any number of attempts, deaths and changes between them.
THEOREM GuardedOneCode == Spec => EntriesOfOneCode
<1>1. IndInv /\ [Next]_vars =>
        [Return /\ ~debug => \A n \in 1..Len(run.index) : run.index[n].by = tree]_vars
  <2> SUFFICES ASSUME IndInv, Return, ~debug
               PROVE  \A n \in 1..Len(run.index) : run.index[n].by = tree
    OBVIOUS
  <2>1. run \in RunRecords
    BY DEF IndInv, CodeInv, Shapes, Return, Ended, Idle
  <2> QED BY <2>1 DEF IndInv, CodeInv, IndexOfOneCode
<1> QED BY <1>1, AlwaysInv, PTL DEF Spec, EntriesOfOneCode

----------------------------------------------------------------------------
(***************************************************************************)
(* What a step returns.  A directory has one place, and its entry was      *)
(* priced from the inputs its manifest names; the cells the step is past   *)
(* are not touched again, nor is what step 6 reads of step 5.              *)
(***************************************************************************)
OnePlace ==
    \A s, t \in CELL_STEPS : \A b, c \in CellSet :
        /\ here[s][b] # None /\ here[t][c] # None
        /\ here[s][b].id = here[t][c].id
        => s = t /\ b = c

FromNamed ==
    \A step \in CELL_STEPS, c \in CellSet :
        here[step][c] # None /\ "index" \in here[step][c].names =>
            disk[here[step][c].id].index.from = disk[here[step][c].id].manifest.inputs

\* A child works for the inputs its directory was made for
ChildsInputs ==
    run \in RunRecords /\ run.phase \in Children =>
        /\ disk[Dir.id].manifest.inputs = Inputs(run.step, Cell)
        /\ "manifest" \in Dir.names
        /\ run.phase = "written" => "index" \in Dir.names
        /\ run.phase # "child" => Entry.from = Inputs(run.step, Cell)

Whole(n) ==
    LET d == here[run.step][Cells[n]] IN
    /\ d # None /\ {"manifest", "index"} \subseteq d.names
    /\ disk[d.id].manifest.status = "passed"
    /\ run.index[n] = disk[d.id].index
    /\ run.index[n].from = Inputs(run.step, Cells[n])

\* While no cell has failed, the step has an entry of each cell it is past
IndexIsWhole ==
    run \in RunRecords /\ run.failed = {} =>
        /\ Len(run.index) = run.at - 1
        /\ \A n \in 1..(run.at - 1) : Whole(n)

WholeInv == OnePlace /\ FromNamed /\ ChildsInputs /\ IndexIsWhole

LEMMA InitWhole == Init => WholeInv
<1> SUFFICES ASSUME Init PROVE WholeInv
  OBVIOUS
<1>1. PICK n \in 0..Len(Cells) :
        LET first == {Cells[m] : m \in 1..n} IN
        /\ disk = [m \in 1..n |-> Staged(Cells[m])]
        /\ here = [step \in CELL_STEPS |-> [c \in CellSet |->
                      IF step = "host_components" /\ c \in first
                      THEN [id |-> CHOOSE m \in 1..n : Cells[m] = c, names |-> Files]
                      ELSE None]]
  BY DEF Init
<1>2. run \notin RunRecords
  BY DEF Init, Idle, RunRecords, Children
<1>3. ASSUME NEW s \in CELL_STEPS, NEW c \in CellSet, here[s][c] # None
      PROVE  /\ s = "host_components" /\ here[s][c].id \in 1..n
             /\ Cells[here[s][c].id] = c
  <2>1. s = "host_components" /\ \E m \in 1..n : Cells[m] = c
    BY <1>1, <1>3
  <2>2. here[s][c] = [id |-> CHOOSE m \in 1..n : Cells[m] = c, names |-> Files]
    BY <1>1, <1>3
  <2>3. PICK m \in 1..n : /\ here[s][c] = [id |-> m, names |-> Files]
                          /\ Cells[m] = c
    BY <2>1, <2>2
  <2> QED BY <2>1, <2>3
<1>4. OnePlace
  BY <1>3 DEF OnePlace
<1>5. FromNamed
  <2> SUFFICES ASSUME NEW s \in CELL_STEPS, NEW c \in CellSet, here[s][c] # None
               PROVE  disk[here[s][c].id].index.from =
                          disk[here[s][c].id].manifest.inputs
    BY DEF FromNamed
  <2>1. disk[here[s][c].id] = Staged(Cells[here[s][c].id])
    BY <1>1, <1>3
  <2> QED BY <2>1 DEF Staged
<1> QED BY <1>2, <1>4, <1>5 DEF WholeInv, ChildsInputs, IndexIsWhole

(***************************************************************************)
(* A step writes at its own cell, in a directory that is nobody else's.    *)
(***************************************************************************)
Mine(step, c) == step = run.step /\ c = Cell

OthersApart(id) ==
    \A step \in CELL_STEPS, c \in CellSet :
        here[step][c] # None /\ ~Mine(step, c) =>
            /\ here[step][c].id # id
            /\ disk'[here[step][c].id] = disk[here[step][c].id]

\* A directory the step makes, or changes, keeps its one place.
LEMMA OwnPlace ==
    ASSUME IndInv, OnePlace, FromNamed, run \in RunRecords, run.at <= Len(Cells),
           NEW STATE p, p \in Places, OthersApart(p.id),
           here' = [here EXCEPT ![run.step][Cell] = p],
           "index" \in p.names =>
               disk'[p.id].index.from = disk'[p.id].manifest.inputs
    PROVE  OnePlace' /\ FromNamed'
<1>1. Cell \in CellSet /\ run.step \in CELL_STEPS
  BY CellAtHand DEF IndInv, CodeInv
<1>2. here \in [CELL_STEPS -> [CellSet -> Places \cup {None}]]
  BY DEF IndInv, CodeInv, Shapes
<1>3. /\ here'[run.step][Cell] = p
      /\ \A s \in CELL_STEPS, c \in CellSet :
             ~Mine(s, c) => here'[s][c] = here[s][c]
  BY <1>1, <1>2 DEF Mine
<1>4. OnePlace'
  BY <1>3, SMTT(60) DEF OnePlace, OthersApart, Mine
<1>5. FromNamed'
  <2> SUFFICES ASSUME NEW s \in CELL_STEPS, NEW c \in CellSet,
                      here'[s][c] # None, "index" \in here'[s][c].names
               PROVE  disk'[here'[s][c].id].index.from =
                          disk'[here'[s][c].id].manifest.inputs
    BY DEF FromNamed
  <2>1. CASE Mine(s, c)
    BY <1>3, <2>1 DEF Mine
  <2>2. CASE ~Mine(s, c)
    BY <1>3, <2>2 DEF OthersApart, FromNamed
  <2> QED BY <2>1, <2>2
<1> QED BY <1>4, <1>5

\* What the step has of the cells it is past stands, and what a cell is
\* priced from does too.
LEMMA OthersStand ==
    ASSUME IndInv, run \in RunRecords, run.at <= Len(Cells),
           run'.step = run.step, UNCHANGED link,
           NEW STATE p, OthersApart(p.id),
           here' = [here EXCEPT ![run.step][Cell] = p]
    PROVE  /\ \A c \in CellSet : Inputs(run.step, c)' = Inputs(run.step, c)
           /\ \A n \in 1..(run.at - 1) :
                  Whole(n) /\ run'.index[n] = run.index[n] => Whole(n)'
<1>1. Cell \in CellSet /\ run.step \in CELL_STEPS /\ run.at \in 1..Len(Cells)
  BY CellAtHand DEF IndInv, CodeInv
<1>2. here \in [CELL_STEPS -> [CellSet -> Places \cup {None}]]
  BY DEF IndInv, CodeInv, Shapes
<1>3. \A s \in CELL_STEPS, c \in CellSet : ~Mine(s, c) => here'[s][c] = here[s][c]
  BY <1>1, <1>2 DEF Mine
<1>4. ASSUME NEW c \in CellSet PROVE Inputs(run.step, c)' = Inputs(run.step, c)
  <2>1. CASE run.step = "host_components"
    BY <2>1 DEF Inputs
  <2>2. CASE run.step # "host_components"
    <3>1. here'["host_components"][c] = here["host_components"][c]
      BY <1>3, <2>2, SMTT(60) DEF Mine, CELL_STEPS
    <3> QED BY <2>2, <3>1 DEF Inputs
  <2> QED BY <2>1, <2>2
<1>5. ASSUME NEW n \in 1..(run.at - 1), Whole(n), run'.index[n] = run.index[n]
      PROVE  Whole(n)'
  <2>1. n \in 1..Len(Cells) /\ n # run.at
    BY <1>1, CellsAssumption
  <2>2. Cells[n] \in CellSet /\ Cells[n] # Cell
    BY <1>1, <2>1, CellsAssumption DEF CellSet, Cell
  <2> DEFINE d == here[run.step][Cells[n]]
  <2>3. here'[run'.step][Cells[n]] = d /\ d # None /\ disk'[d.id] = disk[d.id]
    BY <1>1, <1>3, <1>5, <2>2 DEF Mine, Whole, OthersApart
  <2>4. Inputs(run.step, Cells[n])' = Inputs(run.step, Cells[n])
    BY <1>4, <2>2
  <2> QED BY <1>5, <2>3, <2>4, SMTT(60) DEF Whole
<1> QED BY <1>4, <1>5

\* A child writes in the last directory made, and no other place is there.
LEMMA ChildApart ==
    ASSUME IndInv, OnePlace, run.phase \in Children,
           \A n \in 1..Len(disk) : n # Dir.id => disk'[n] = disk[n]
    PROVE  OthersApart(Dir.id)
<1> SUFFICES ASSUME NEW s \in CELL_STEPS, NEW c \in CellSet,
                    here[s][c] # None, ~Mine(s, c)
             PROVE  /\ here[s][c].id # Dir.id
                    /\ disk'[here[s][c].id] = disk[here[s][c].id]
  BY DEF OthersApart
<1>1. /\ Dir = here[run.step][Cell] /\ Dir # None
      /\ Cell \in CellSet /\ run.step \in CELL_STEPS
  <2>1. /\ Dir = here[run.step][Cell] /\ Dir \in Places
        /\ Cell \in CellSet /\ run.step \in CELL_STEPS
    BY ChildsDirectory
  <2> QED BY <2>1, NoneAssumption DEF Places
<1>2. here[s][c].id # Dir.id
  BY <1>1 DEF OnePlace, Mine
<1>3. here[s][c].id \in 1..Len(disk)
  BY DEF IndInv, CodeInv, Shapes, EntriesNamed, Places
<1> QED BY <1>2, <1>3

\* Where nothing on disk moves and no child runs on.
LEMMA QuietWhole ==
    ASSUME WholeInv, UNCHANGED <<disk, here>>,
           run' = Idle \/ /\ run' \in RunRecords /\ run'.phase \in {"loop", "clear"}
                          /\ IndexIsWhole'
    PROVE  WholeInv'
<1>1. Idle \notin RunRecords
  BY DEF Idle, RunRecords, Children
<1>2. OnePlace' /\ FromNamed'
  BY DEF WholeInv, OnePlace, FromNamed
<1> QED BY <1>1, <1>2 DEF WholeInv, ChildsInputs, IndexIsWhole, Children

\* A cell that passed is added, and the loop goes on.
LEMMA NextWhole ==
    ASSUME run \in RunRecords, run.at \in 1..Len(Cells), IndexIsWhole,
           Entry \in Entries,
           run' = [run EXCEPT !.phase = "loop", !.at = @ + 1,
                              !.index = Append(@, Entry)],
           \A n \in 1..(run.at - 1) :
               Whole(n) /\ run'.index[n] = run.index[n] => Whole(n)',
           here'[run.step][Cell] = Dir, Dir # None,
           {"manifest", "index"} \subseteq Dir.names,
           disk'[Dir.id].manifest.status = "passed",
           disk'[Dir.id].index = Entry,
           \A c \in CellSet : c = Cell => Entry.from = Inputs(run.step, c)'
    PROVE  IndexIsWhole'
<1> DEFINE longer == Append(run.index, Entry)
<1>1. run.index \in Seq(Entries)
  BY DEF RunRecords
<1>2. /\ Len(longer) = Len(run.index) + 1 /\ longer[Len(run.index) + 1] = Entry
      /\ \A n \in 1..Len(run.index) : longer[n] = run.index[n]
  BY <1>1
<1>3. run' = [run EXCEPT !.phase = "loop", !.at = @ + 1, !.index = longer]
  OBVIOUS
<1> HIDE DEF longer
<1>4. /\ run'.index = longer /\ run'.at = run.at + 1 /\ run'.step = run.step
      /\ run'.failed = run.failed
  BY <1>3 DEF RunRecords
<1> SUFFICES ASSUME run.failed = {}
             PROVE  /\ Len(longer) = run.at
                    /\ \A n \in 1..run.at : Whole(n)'
  BY <1>4 DEF IndexIsWhole
<1>5. Len(run.index) = run.at - 1 /\ \A n \in 1..(run.at - 1) : Whole(n)
  BY DEF IndexIsWhole
<1>6. \A n \in 1..(run.at - 1) : Whole(n)'
  BY <1>2, <1>4, <1>5, SMTT(60)
<1>7. ASSUME NEW n \in 1..run.at, n = run.at PROVE Whole(n)'
  <2>1. Cells[n] = Cell /\ Cells[n] \in CellSet
    BY <1>7, CellsAssumption DEF Cell, CellSet
  <2>2. longer[n] = Entry /\ Entry.from = Inputs(run.step, Cells[n])'
    BY <1>2, <1>5, <1>7, <2>1
  <2>3. here'[run'.step][Cells[n]] = Dir
    BY <1>4, <2>1
  <2> QED BY <1>4, <2>2, <2>3 DEF Whole
<1>8. \A n \in 1..run.at : n \in 1..(run.at - 1) \/ n = run.at
  BY SMTT(60)
<1> QED BY <1>2, <1>5, <1>6, <1>7, <1>8

\* The same entries for the same place of the loop, with nothing else moved.
LEMMA SameIndex ==
    ASSUME IndexIsWhole, run \in RunRecords,
           UNCHANGED <<disk, here, link>>, run'.step = run.step,
           run'.index = run.index, run'.failed = run.failed, run'.at = run.at
    PROVE  IndexIsWhole'
  BY DEF IndexIsWhole, Whole, Inputs

LEMMA ResumeWhole == ASSUME IndInv, WholeInv, Resume PROVE WholeInv'
<1>1. /\ run \in RunRecords /\ run.at <= Len(Cells)
      /\ resumable(run.step, Cell) /\ UNCHANGED <<disk, here, link>>
      /\ run' = [run EXCEPT !.phase = "loop", !.at = @ + 1,
                            !.index = Append(@, Entry)]
  <2>1. run \in RunRecords /\ run.at <= Len(Cells) /\ run.phase = "loop"
    BY DEF Resume, Looping, IndInv, CodeInv, Shapes, Idle
  <2> QED BY <2>1 DEF Resume, RunRecords, outside
<1>2. Cell \in CellSet /\ run.step \in CELL_STEPS /\ run.at \in 1..Len(Cells)
  BY <1>1, CellAtHand DEF IndInv, CodeInv
<1>3. Entry \in Entries
  BY <1>1, ResumedByThisCode
<1>4. /\ Dir # None /\ {"manifest", "index"} \subseteq Dir.names
      /\ disk[Dir.id].manifest.status = "passed"
      /\ disk[Dir.id].manifest.inputs = Inputs(run.step, Cell)
  BY <1>1 DEF resumable, Dir, ReadManifest, Passed, SameInputs
<1>5. Entry.from = Inputs(run.step, Cell)
  BY <1>2, <1>4 DEF WholeInv, FromNamed, Dir, Entry
<1>6. run' \in RunRecords /\ run'.phase = "loop" /\ run'.step = run.step
  <2>1. ~debug => Entry.by = tree
    BY <1>1, ResumedByThisCode
  <2>2. run' \in RunRecords /\ run'.phase = "loop"
    BY <1>1, <1>2, <1>3, <2>1, NextEntry
  <2> QED BY <1>1, <2>2 DEF RunRecords
<1>7. \A c \in CellSet : Inputs(run.step, c)' = Inputs(run.step, c)
  BY <1>1, <1>6 DEF Inputs
<1>8. IndexIsWhole'
  <2>1. \A n \in 1..(run.at - 1) :
            Whole(n) /\ run'.index[n] = run.index[n] => Whole(n)'
    BY <1>1, <1>6 DEF Whole, Inputs
  <2>2. here'[run.step][Cell] = Dir /\ disk'[Dir.id] = disk[Dir.id]
    BY <1>1 DEF Dir
  <2>3. IndexIsWhole
    BY DEF WholeInv
  <2>4. /\ disk'[Dir.id].manifest.status = "passed" /\ disk'[Dir.id].index = Entry
        /\ \A c \in CellSet : c = Cell => Entry.from = Inputs(run.step, c)'
    BY <1>4, <1>5, <1>7, <2>2 DEF Entry
  <2> QED BY <1>1, <1>2, <1>3, <1>4, <2>1, <2>2, <2>3, <2>4, NextWhole
<1> QED BY <1>1, <1>6, <1>8, QuietWhole

LEMMA SpawnWhole == ASSUME IndInv, WholeInv, Spawn PROVE WholeInv'
<1>1. run \in RunRecords /\ run.at <= Len(Cells) /\ run.phase = "clear"
  BY DEF IndInv, CodeInv, Shapes, Spawn, Idle
<1>2. Cell \in CellSet /\ run.step \in CELL_STEPS
  BY <1>1, CellAtHand DEF IndInv, CodeInv
<1>3. /\ disk \in Seq(Contents) /\ Len(disk) \in Nat
      /\ here \in [CELL_STEPS -> [CellSet -> Places \cup {None}]]
  BY DEF IndInv, CodeInv, Shapes
<1> DEFINE made == Running(run.step, Cell)
           p == [id |-> Len(disk) + 1, names |-> {"manifest"}]
<1>4. /\ disk' = Append(disk, made)
      /\ here' = [here EXCEPT ![run.step][Cell] = p]
      /\ run' = [run EXCEPT !.phase = "child"] /\ UNCHANGED link
  BY DEF Spawn, outside
<1>5. made.manifest.inputs = Inputs(run.step, Cell)
  BY DEF Running
<1>6. /\ p \in Places /\ p.id = Len(disk) + 1 /\ p.names = {"manifest"}
  BY <1>3 DEF Places, Files
<1> HIDE DEF made, p
<1>7. disk'[p.id] = made /\ \A n \in 1..Len(disk) : disk'[n] = disk[n]
  BY <1>3, <1>4, <1>6
<1>8. /\ run' \in RunRecords /\ run'.phase = "child" /\ run'.at = run.at
      /\ run'.step = run.step /\ run'.index = run.index
      /\ run'.failed = run.failed
  BY <1>1, <1>4 DEF RunRecords, Children
<1>9. OthersApart(p.id)
  <2> SUFFICES ASSUME NEW s \in CELL_STEPS, NEW c \in CellSet, here[s][c] # None
               PROVE  here[s][c].id # p.id /\ disk'[here[s][c].id] = disk[here[s][c].id]
    BY DEF OthersApart
  <2>1. here[s][c].id \in 1..Len(disk)
    BY <1>3 DEF IndInv, CodeInv, EntriesNamed, Places
  <2> QED BY <1>3, <1>6, <1>7, <2>1
<1>10. OnePlace' /\ FromNamed'
  BY <1>1, <1>4, <1>6, <1>9, OwnPlace DEF WholeInv
<1>11. /\ \A c \in CellSet : Inputs(run.step, c)' = Inputs(run.step, c)
       /\ \A n \in 1..(run.at - 1) :
              Whole(n) /\ run'.index[n] = run.index[n] => Whole(n)'
  BY <1>1, <1>4, <1>8, <1>9, OthersStand
<1>12. ChildsInputs'
  <2>1. Dir' = p /\ Cell' = Cell
    BY <1>2, <1>3, <1>4, <1>8 DEF Dir, Cell
  <2> QED BY <1>2, <1>5, <1>6, <1>7, <1>8, <1>11, <2>1 DEF ChildsInputs
<1>13. IndexIsWhole'
  BY <1>1, <1>8, <1>11 DEF WholeInv, IndexIsWhole
<1> QED BY <1>10, <1>12, <1>13 DEF WholeInv

\* A child that goes on writes for the inputs its directory was made for.
LEMMA GoesOnWhole ==
    ASSUME IndInv, WholeInv, run.phase \in Children, NEW phase \in {"saved", "written"},
           run' = [run EXCEPT !.phase = phase], UNCHANGED link,
           NEW STATE p, p \in Places, p.id = Dir.id, "manifest" \in p.names,
           phase = "written" => "index" \in p.names,
           here' = [here EXCEPT ![run.step][Cell] = p],
           disk'[Dir.id].manifest = disk[Dir.id].manifest,
           disk'[Dir.id].index.from = Inputs(run.step, Cell),
           \A n \in 1..Len(disk) : n # Dir.id => disk'[n] = disk[n]
    PROVE  WholeInv'
<1>1. /\ run \in RunRecords /\ Cell \in CellSet /\ run.step \in CELL_STEPS
      /\ run.at \in 1..Len(Cells) /\ run.at <= Len(Cells)
      /\ here \in [CELL_STEPS -> [CellSet -> Places \cup {None}]]
  BY ChildsDirectory, CellsAssumption
<1>2. /\ run' \in RunRecords /\ run'.phase = phase /\ run'.at = run.at
      /\ run'.step = run.step /\ run'.index = run.index
      /\ run'.failed = run.failed
  BY <1>1 DEF RunRecords, Children
<1>3. OthersApart(p.id)
  BY ChildApart DEF WholeInv
<1>4. disk'[p.id].manifest.inputs = Inputs(run.step, Cell)
  BY <1>1 DEF WholeInv, ChildsInputs
<1>5. OnePlace' /\ FromNamed'
  BY <1>1, <1>3, <1>4, OwnPlace DEF WholeInv
<1>6. /\ \A c \in CellSet : Inputs(run.step, c)' = Inputs(run.step, c)
      /\ \A n \in 1..(run.at - 1) :
             Whole(n) /\ run'.index[n] = run.index[n] => Whole(n)'
  BY <1>1, <1>2, <1>3, OthersStand
<1>7. ChildsInputs'
  <2>1. Dir' = p /\ Cell' = Cell
    BY <1>1, <1>2 DEF Dir, Cell
  <2>2. Inputs(run.step, Cell)' = Inputs(run.step, Cell)
    BY <1>1, <1>6, <2>1
  <2>3. Entry'.from = Inputs(run.step, Cell)
    BY <2>1 DEF Entry
  <2> QED BY <1>2, <1>4, <2>1, <2>2, <2>3 DEF ChildsInputs
<1>8. IndexIsWhole'
  BY <1>1, <1>2, <1>6 DEF WholeInv, IndexIsWhole
<1> QED BY <1>5, <1>7, <1>8 DEF WholeInv

LEMMA ChildSavesWhole == ASSUME IndInv, WholeInv, ChildSaves PROVE WholeInv'
<1>1. run.phase \in Children
  BY DEF ChildSaves, Children
<1>2. /\ run \in RunRecords /\ Cell \in CellSet /\ run.step \in CELL_STEPS
      /\ Dir \in Places /\ disk \in Seq(Contents) /\ Dir.id \in 1..Len(disk)
      /\ Dir = here[run.step][Cell] /\ disk[Dir.id] \in Contents
      /\ here \in [CELL_STEPS -> [CellSet -> Places \cup {None}]]
  BY <1>1, ChildsDirectory
<1> DEFINE d == [disk[Dir.id] EXCEPT !.index = Measured(run.step, Cell)]
           p == [Dir EXCEPT !.names = @ \cup {"recording"}]
<1>3. /\ d \in Contents /\ d.manifest = disk[Dir.id].manifest
      /\ d.index.from = Inputs(run.step, Cell)
  BY <1>2, MeasuredShape DEF Contents, Measured, IndInv, CodeInv
<1>4. p \in Places /\ p.id = Dir.id /\ "manifest" \in p.names
  BY <1>1, <1>2 DEF Places, Files, WholeInv, ChildsInputs
<1>5. /\ disk' = [disk EXCEPT ![Dir.id] = d]
      /\ here' = [here EXCEPT ![run.step][Cell] = p]
      /\ run' = [run EXCEPT !.phase = "saved"] /\ UNCHANGED link
  BY <1>2 DEF ChildSaves, outside
<1> HIDE DEF d, p
<1>6. disk'[Dir.id] = d /\ \A n \in 1..Len(disk) : n # Dir.id => disk'[n] = disk[n]
  BY <1>2, <1>3, <1>5, DiskWrite
<1> QED BY <1>1, <1>3, <1>4, <1>5, <1>6, GoesOnWhole

LEMMA ChildWritesWhole == ASSUME IndInv, WholeInv, ChildWrites PROVE WholeInv'
<1>1. run.phase \in Children /\ run.phase = "saved"
  BY DEF ChildWrites, Children
<1>2. /\ run \in RunRecords /\ Cell \in CellSet /\ run.step \in CELL_STEPS
      /\ Dir \in Places /\ Dir = here[run.step][Cell]
      /\ here \in [CELL_STEPS -> [CellSet -> Places \cup {None}]]
  BY <1>1, ChildsDirectory
<1> DEFINE p == [Dir EXCEPT !.names = @ \cup {"index"}]
<1>3. /\ p \in Places /\ p.id = Dir.id /\ "manifest" \in p.names /\ "index" \in p.names
  BY <1>1, <1>2 DEF Places, Files, WholeInv, ChildsInputs
<1>4. /\ here' = [here EXCEPT ![run.step][Cell] = p]
      /\ run' = [run EXCEPT !.phase = "written"] /\ UNCHANGED <<link, disk>>
  BY <1>2 DEF ChildWrites, outside
<1>5. disk[Dir.id].index.from = Inputs(run.step, Cell)
  BY <1>1, <1>2 DEF WholeInv, ChildsInputs, Entry
<1> HIDE DEF p
<1> QED BY <1>1, <1>3, <1>4, <1>5, GoesOnWhole

\* The parent settles a cell: its status is all that moves.
LEMMA SettleWhole ==
    ASSUME IndInv, WholeInv, run.phase \in Children,
           NEW status \in {"passed", "failed"}, Settle(status), UNCHANGED <<link, here>>
    PROVE  /\ OnePlace' /\ FromNamed'
           /\ disk'[Dir.id].manifest.status = status
           /\ disk'[Dir.id].index = Entry
           /\ here' = [here EXCEPT ![run.step][Cell] = Dir] /\ OthersApart(Dir.id)
<1>1. /\ run \in RunRecords /\ run.at \in 1..Len(Cells) /\ run.at <= Len(Cells)
      /\ Cell \in CellSet /\ run.step \in CELL_STEPS
      /\ Dir \in Places /\ disk \in Seq(Contents) /\ Dir.id \in 1..Len(disk)
      /\ Dir = here[run.step][Cell] /\ disk[Dir.id] \in Contents
      /\ here \in [CELL_STEPS -> [CellSet -> Places \cup {None}]]
  BY ChildsDirectory, CellsAssumption
<1> DEFINE d == [disk[Dir.id] EXCEPT !.manifest.status = status]
<1>2. /\ d \in Contents /\ d.index = Entry /\ d.manifest.status = status
      /\ d.manifest.inputs = disk[Dir.id].manifest.inputs
  BY <1>1 DEF Contents, Manifests, Entry
<1>3. disk' = [disk EXCEPT ![Dir.id] = d]
  BY <1>1, SMTT(60) DEF Settle
<1> HIDE DEF d
<1>4. disk'[Dir.id] = d /\ \A n \in 1..Len(disk) : n # Dir.id => disk'[n] = disk[n]
  BY <1>1, <1>2, <1>3, DiskWrite
<1>5. here' = [here EXCEPT ![run.step][Cell] = Dir]
  BY <1>1
<1>6. OthersApart(Dir.id)
  BY <1>4, ChildApart DEF WholeInv
<1>7. "index" \in Dir.names =>
          disk'[Dir.id].index.from = disk'[Dir.id].manifest.inputs
  <2>1. "index" \in Dir.names => Entry.from = disk[Dir.id].manifest.inputs
    BY <1>1, NoneAssumption, SMTT(60) DEF WholeInv, FromNamed, Entry, Places
  <2> QED BY <1>2, <1>4, <2>1
<1>8. OnePlace' /\ FromNamed'
  BY <1>1, <1>5, <1>6, <1>7, OwnPlace DEF WholeInv
<1> QED BY <1>2, <1>4, <1>5, <1>6, <1>8

LEMMA ChildPassedWhole == ASSUME IndInv, WholeInv, ChildPassed PROVE WholeInv'
<1>1. run.phase \in Children /\ run.phase = "written"
  BY DEF ChildPassed, Children
<1>2. /\ run \in RunRecords /\ run.at \in 1..Len(Cells) /\ run.at <= Len(Cells)
      /\ Cell \in CellSet /\ Dir \in Places /\ Dir = here[run.step][Cell]
  BY <1>1, ChildsDirectory, CellsAssumption
<1>3. /\ Settle("passed") /\ UNCHANGED <<link, here>>
      /\ run' = [run EXCEPT !.phase = "loop", !.at = @ + 1,
                            !.index = Append(@, Entry)]
  BY DEF ChildPassed, outside
<1>4. Entry \in Entries /\ Entry.by = tree
  BY <1>1, <1>2 DEF IndInv, CodeInv, ChildsOwn
<1>5. /\ OnePlace' /\ FromNamed'
      /\ disk'[Dir.id].manifest.status = "passed"
      /\ disk'[Dir.id].index = Entry
      /\ here' = [here EXCEPT ![run.step][Cell] = Dir] /\ OthersApart(Dir.id)
  BY <1>1, <1>3, SettleWhole
<1>6. run' \in RunRecords /\ run'.phase = "loop" /\ run'.step = run.step
  <2>1. run' \in RunRecords /\ run'.phase = "loop"
    BY <1>2, <1>3, <1>4, NextEntry
  <2> QED BY <1>2, <1>3, <2>1 DEF RunRecords
<1>7. /\ \A c \in CellSet : Inputs(run.step, c)' = Inputs(run.step, c)
      /\ \A n \in 1..(run.at - 1) :
             Whole(n) /\ run'.index[n] = run.index[n] => Whole(n)'
  BY <1>2, <1>3, <1>5, <1>6, OthersStand
<1>8. /\ {"manifest", "index"} \subseteq Dir.names
      /\ Entry.from = Inputs(run.step, Cell)
  BY <1>1, <1>2 DEF WholeInv, ChildsInputs
<1>9. /\ Dir # None /\ here'[run.step][Cell] = Dir
      /\ \A c \in CellSet : c = Cell => Entry.from = Inputs(run.step, c)'
  BY <1>2, <1>3, <1>7, <1>8, NoneAssumption DEF Places
<1>10. IndexIsWhole'
  BY <1>2, <1>3, <1>4, <1>5, <1>7, <1>8, <1>9, NextWhole DEF WholeInv
<1> QED BY <1>5, <1>6, <1>10 DEF WholeInv, ChildsInputs, Children

LEMMA ChildFailedWhole == ASSUME IndInv, WholeInv, ChildFailed PROVE WholeInv'
<1>1. run.phase \in Children
  BY DEF ChildFailed, Children
<1>2. Settle("failed") /\ UNCHANGED <<link, here>>
  BY DEF ChildFailed, outside
<1>3. OnePlace' /\ FromNamed'
  BY <1>1, <1>2, SettleWhole
<1>4. run \in RunRecords
  BY <1>1, ChildsDirectory
<1>5. CASE run' = Idle
  BY <1>3, <1>5 DEF WholeInv, ChildsInputs, IndexIsWhole, Idle, RunRecords, Children
<1>6. CASE NextCell
  <2>1. run'.phase = "loop" /\ run'.failed = run.failed \cup {Cell}
    BY <1>4, <1>6 DEF NextCell, RunRecords
  <2> QED BY <1>3, <2>1 DEF WholeInv, ChildsInputs, IndexIsWhole, Children
<1> QED BY <1>5, <1>6 DEF ChildFailed

LEMMA DieWhole == ASSUME IndInv, WholeInv, Die PROVE WholeInv'
<1>1. run' = Idle /\ UNCHANGED <<disk, link>>
  BY DEF Die, outside
<1>2. CASE UNCHANGED here
  BY <1>1, <1>2, QuietWhole
<1>3. ASSUME run.phase = "clear", Dir # None, NEW names \in SUBSET Dir.names,
             here' = [here EXCEPT ![run.step][Cell].names = names]
      PROVE  WholeInv'
  <2>1. run \in RunRecords /\ run.at <= Len(Cells)
    BY <1>3 DEF IndInv, CodeInv, Shapes, Idle
  <2>2. Cell \in CellSet /\ run.step \in CELL_STEPS
    BY <2>1, CellAtHand DEF IndInv, CodeInv
  <2>3. here \in [CELL_STEPS -> [CellSet -> Places \cup {None}]]
    BY DEF IndInv, CodeInv, Shapes
  <2>4. Dir \in Places /\ Dir = here[run.step][Cell]
    BY <1>3, <2>2, <2>3 DEF Dir
  <2> DEFINE p == [Dir EXCEPT !.names = names]
  <2>5. p \in Places /\ p.id = Dir.id /\ p.names \subseteq Dir.names
    BY <1>3, <2>4 DEF Places
  <2>6. here' = [here EXCEPT ![run.step][Cell] = p]
    BY <1>3, <2>2, <2>3, <2>4
  <2> HIDE DEF p
  <2>7. OthersApart(p.id)
    BY <1>1, <1>3, <2>2, <2>4, <2>5 DEF OthersApart, WholeInv, OnePlace, Mine
  <2>8. "index" \in p.names =>
            disk'[p.id].index.from = disk'[p.id].manifest.inputs
    BY <1>1, <1>3, <2>2, <2>4, <2>5 DEF WholeInv, FromNamed
  <2>9. OnePlace' /\ FromNamed'
    BY <2>1, <2>5, <2>6, <2>7, <2>8, OwnPlace DEF WholeInv
  <2> QED BY <1>1, <2>9
          DEF WholeInv, ChildsInputs, IndexIsWhole, Idle, RunRecords, Children
<1> QED BY <1>2, <1>3 DEF Die

LEMMA StepWhole == IndInv /\ WholeInv /\ [Next]_vars => WholeInv'
<1> SUFFICES ASSUME IndInv, WholeInv, [Next]_vars PROVE WholeInv'
  OBVIOUS
<1>1. CASE Start
  <2>1. PICK step \in CELL_STEPS :
          run' = [step |-> step, at |-> 1, identity |-> tree, index |-> <<>>,
                  failed |-> {}, phase |-> "loop"]
    BY <1>1 DEF Start
  <2>2. /\ run' \in RunRecords /\ run'.phase = "loop" /\ run'.at = 1
        /\ Len(run'.index) = 0
    BY <2>1 DEF RunRecords, IndInv, CodeInv, Shapes
  <2>3. IndexIsWhole'
    BY <2>2 DEF IndexIsWhole
  <2> QED BY <1>1, <2>2, <2>3, QuietWhole DEF Start
<1>2. CASE Clear
  <2>1. run \in RunRecords /\ run' = [run EXCEPT !.phase = "clear"]
    BY <1>2 DEF Clear, Looping, Idle, IndInv, CodeInv, Shapes
  <2>2. /\ run' \in RunRecords /\ run'.phase = "clear" /\ run'.at = run.at
        /\ run'.step = run.step /\ run'.index = run.index
        /\ run'.failed = run.failed
    BY <2>1 DEF RunRecords
  <2>3. IndexIsWhole'
    BY <1>2, <2>1, <2>2, SameIndex DEF WholeInv, Clear, outside
  <2> QED BY <1>2, <2>2, <2>3, QuietWhole DEF Clear
<1>3. CASE Return \/ Refuse \/ Outside
  BY <1>3, QuietWhole DEF Return, Refuse, Outside
<1>4. CASE UNCHANGED vars
  <2>1. UNCHANGED <<disk, here, link, run>>
    BY <1>4 DEF vars, outside
  <2>2. OnePlace' /\ FromNamed'
    BY <2>1, SMTT(60) DEF WholeInv, OnePlace, FromNamed
  <2>3. ChildsInputs'
    BY <2>1 DEF WholeInv, ChildsInputs, Dir, Cell, Entry, Inputs
  <2>4. IndexIsWhole'
    BY <2>1, SameIndex DEF WholeInv, IndexIsWhole
  <2> QED BY <2>2, <2>3, <2>4 DEF WholeInv
<1> QED BY <1>1, <1>2, <1>3, <1>4, ResumeWhole, SpawnWhole, ChildSavesWhole,
           ChildWritesWhole, ChildPassedWhole, ChildFailedWhole, DieWhole DEF Next

LEMMA AlwaysWhole == Spec => []WholeInv
  BY InitWhole, StepWhole, AlwaysInv, PTL DEF Spec

\* What a step that returns has of each cell.
LEMMA ReturnHas ==
    ASSUME IndInv, WholeInv, Return
    PROVE  Len(run.index) = Len(Cells) /\ \A n \in 1..Len(Cells) : Whole(n)
<1>1. run \in RunRecords /\ run.at > Len(Cells) /\ run.failed = {}
  BY DEF Return, Ended, Idle, IndInv, CodeInv, Shapes
<1>2. run.at = Len(Cells) + 1
  BY <1>1, CellsAssumption DEF RunRecords
<1> QED BY <1>1, <1>2, CellsAssumption DEF WholeInv, IndexIsWhole

\* What a step returns was priced from the host entries and the link row on
\* disk as it returns, in any session.
THEOREM GuardedTheseInputs == Spec => PricedFromTheseInputs
<1>1. IndInv /\ WholeInv /\ [Next]_vars =>
        [Return => \A n \in 1..Len(run.index) :
             run.index[n].from = Inputs(run.step, Cells[n])]_vars
  BY ReturnHas DEF Whole
<1> QED BY <1>1, AlwaysInv, AlwaysWhole, PTL DEF Spec, PricedFromTheseInputs

\* A step that passes returns the entry on disk of each cell, each of which
\* passed, whatever deaths, removals and guards came before.
THEOREM GuardedWhole == Spec => PassedIsWhole
<1>1. IndInv /\ WholeInv /\ [Next]_vars =>
        [Return => \A n \in 1..Len(Cells) :
           LET d == here[run.step][Cells[n]] IN
           /\ d # None /\ {"manifest", "index"} \subseteq d.names
           /\ disk[d.id].manifest.status = "passed"
           /\ Len(run.index) >= n /\ run.index[n] = disk[d.id].index]_vars
  <2> SUFFICES ASSUME IndInv, WholeInv, Return, NEW n \in 1..Len(Cells)
               PROVE  LET d == here[run.step][Cells[n]] IN
                      /\ d # None /\ {"manifest", "index"} \subseteq d.names
                      /\ disk[d.id].manifest.status = "passed"
                      /\ Len(run.index) >= n /\ run.index[n] = disk[d.id].index
    OBVIOUS
  <2> QED BY ReturnHas, CellsAssumption DEF Whole
<1> QED BY <1>1, AlwaysInv, AlwaysWhole, PTL DEF Spec, PassedIsWhole
=============================================================================
