-------------------------- MODULE T31Session_proofs --------------------------
(***************************************************************************)
(* Whatever the number of runs and of deaths, no prediction is written     *)
(* once a block has been clocked, every clocked block of the session ran   *)
(* under the prediction the session still holds, and a step runs on steps  *)
(* that passed.                                                            *)
(***************************************************************************)
EXTENDS T31Session, TLAPS

RunRecords == [mode: Modes, keep: BOOLEAN, at: 1..12, exit: {0, 1},
               phase: {"loop", "kept", "step", "clocked", "end"}]
Manifests == [mode: Modes \cup {"none", "torn"}, last: [Steps -> Statuses],
              clocked: BOOLEAN]

\* The runner and its manifest, as far as the argument reads them
RunTypes ==
    /\ run = Idle \/ run \in RunRecords
    /\ run.phase \in {"kept", "step", "clocked", "end"} => run.at <= 11
    /\ manifest \in Manifests
    /\ predictions \in Nat /\ receipt \in Nat

\* Once ground truth is in the manifest no run stands at predict or before;
\* and it is in the manifest from before its process starts
RunPastClock ==
    /\ manifest.clocked /\ run # Idle => run.at >= 8
    /\ run.phase \in {"step", "clocked"} /\ run.at = 9 => manifest.clocked
    /\ run.phase = "clocked" => run.at = 9

\* What was clocked is in the manifest, or no run can read it any more
ClockedIsListed ==
    /\ clockedUnder # {} => manifest.clocked \/ manifest = Torn
    /\ manifest = Torn => run = Idle

IndInv ==
    /\ RunTypes /\ RunPastClock /\ ClockedIsListed
    /\ OnePrediction /\ 0 \notin clockedUnder

\* The steps' names are distinct, so a name has one place.
LEMMA StepPlaces ==
    /\ Len(STEPS) = 11
    /\ \A n \in 1..11 : STEPS[n] \in Steps
    /\ \A n \in 1..11 : STEPS[n] = FIRST_CLOCKED <=> n = 9
    /\ \A n \in 1..11 : STEPS[n] = "predict" <=> n = 7
    /\ IndexOf("predict") = 7
    /\ IndexOf(REHEARSAL_LAST) = 8
<1>1. Len(STEPS) = 11
  BY DEF STEPS
<1>2. /\ STEPS[1] = "preflight" /\ STEPS[2] = "link"
      /\ STEPS[3] = "dense_select" /\ STEPS[4] = "probe"
      /\ STEPS[5] = "host_components" /\ STEPS[6] = "device_components"
      /\ STEPS[7] = "predict" /\ STEPS[8] = "hold"
      /\ STEPS[9] = "ground_truth" /\ STEPS[10] = "verify"
      /\ STEPS[11] = "postflight"
  BY DEF STEPS
<1>3. \A n \in 1..11 : n = 1 \/ n = 2 \/ n = 3 \/ n = 4 \/ n = 5 \/ n = 6
                       \/ n = 7 \/ n = 8 \/ n = 9 \/ n = 10 \/ n = 11
  OBVIOUS
<1>4. \A n \in 1..11 : STEPS[n] \in Steps
  BY <1>1 DEF Steps
<1>5. \A n \in 1..11 : STEPS[n] = FIRST_CLOCKED <=> n = 9
  BY <1>2, <1>3 DEF FIRST_CLOCKED
<1>6. \A n \in 1..11 : STEPS[n] = "predict" <=> n = 7
  BY <1>2, <1>3
<1>7. \A n \in 1..11 : STEPS[n] = "hold" <=> n = 8
  BY <1>2, <1>3
<1>8. IndexOf("predict") = 7
  BY <1>1, <1>6 DEF IndexOf
<1>9. IndexOf(REHEARSAL_LAST) = 8
  BY <1>1, <1>7 DEF IndexOf, REHEARSAL_LAST
<1> QED BY <1>1, <1>4, <1>5, <1>6, <1>8, <1>9

\* A run's last step is one of the steps.
LEMMA LastStepBound == \A mode : LastStep(mode) \in 1..11
  BY StepPlaces DEF LastStep

\* An append keeps the manifest readable, keeps what it says of the clock,
\* and sets it for an attempt of ground truth that did start.
LEMMA AppendKeeps ==
    ASSUME RunTypes, run # Idle, NEW step \in Steps, NEW status \in Statuses,
           Append1(step, status)
    PROVE  /\ manifest' \in Manifests
           /\ manifest'.clocked <=> (manifest.clocked \/
                  (step = FIRST_CLOCKED /\ status \notin NEVER_STARTED))
           /\ manifest' # Torn
<1>1. run.mode \in Modes
  BY DEF RunTypes, RunRecords
<1>2. manifest'.mode = run.mode
  BY DEF RunTypes, Manifests, RunRecords, Append1
<1>3. run.mode # "torn"
  BY <1>1 DEF Modes
<1>4. manifest' # Torn
  BY <1>2, <1>3 DEF Torn
<1>5. manifest'.clocked = (manifest.clocked \/
                  (step = FIRST_CLOCKED /\ status \notin NEVER_STARTED))
  BY DEF RunTypes, Manifests, RunRecords, Append1
<1>6. manifest' \in Manifests
  BY <1>1 DEF RunTypes, Manifests, RunRecords, Append1
<1>7. manifest'.clocked <=> (manifest.clocked \/
                  (step = FIRST_CLOCKED /\ status \notin NEVER_STARTED))
  BY <1>5, Zenon
<1> QED BY <1>4, <1>6, <1>7

LEMMA InitInv == Init => IndInv
<1> SUFFICES ASSUME Init PROVE IndInv
  OBVIOUS
<1>1. manifest \in Manifests
  BY DEF Init, Manifests, Modes, Statuses
<1>2. manifest.clocked = FALSE /\ manifest # Torn
  BY DEF Init, Torn
<1>3. RunTypes
  BY <1>1 DEF Init, RunTypes, Idle, RunRecords
<1>4. RunPastClock /\ ClockedIsListed
  BY <1>2 DEF Init, RunPastClock, ClockedIsListed, Idle
<1> QED BY <1>3, <1>4 DEF IndInv, Init, OnePrediction

(***************************************************************************)
(* Each action keeps the invariant.                                        *)
(***************************************************************************)
\* What only moves the runner, or other state, cannot break what was clocked.
LEMMA EvidenceKept ==
    ASSUME OnePrediction, 0 \notin clockedUnder, receipt \in Nat,
           predictions \in Nat,
           UNCHANGED <<receipt, predictions, clockedUnder>>
    PROVE  /\ OnePrediction' /\ (0 \notin clockedUnder)'
           /\ receipt' \in Nat /\ predictions' \in Nat
  BY DEF OnePrediction

LEMMA StartInv == ASSUME IndInv, Start PROVE IndInv'
<1>1. PICK mode \in Modes, keep \in BOOLEAN, first \in 1..Len(STEPS) :
          /\ ~Refused(mode, first)
          /\ run' = [mode |-> mode, keep |-> keep, at |-> first,
                     phase |-> "loop", exit |-> 0]
  BY DEF Start
<1>2. /\ UNCHANGED <<manifest, receipt, predictions, clockedUnder>>
      /\ manifest # Torn
  BY DEF Start, evidence
<1>3. first \in 1..11
  BY StepPlaces
<1>4. manifest.clocked => first >= 8
  BY <1>1, <1>3, StepPlaces DEF Refused, clocked_started
<1>5. RunTypes'
  BY <1>1, <1>2, <1>3 DEF IndInv, RunTypes, RunRecords
<1>6. RunPastClock'
  BY <1>1, <1>2, <1>4 DEF RunPastClock
<1>7. ClockedIsListed'
  BY <1>2 DEF IndInv, ClockedIsListed
<1> QED BY <1>2, <1>5, <1>6, <1>7, EvidenceKept DEF IndInv, RunTypes

\* An append of the step at hand, after which the runner is idle or at the
\* next step.
LEMMA AppendInv ==
    ASSUME IndInv, run # Idle, run.at <= 11, NEW status \in Statuses,
           Append1(Current, status),
           UNCHANGED <<receipt, predictions, clockedUnder>>,
           run' = Idle \/ (/\ run' \in RunRecords /\ run'.phase = "loop"
                           /\ run'.at = run.at + 1)
    PROVE  IndInv'
<1>1. run \in RunRecords /\ run.at \in 1..11 /\ Current \in Steps
  BY StepPlaces DEF IndInv, RunTypes, RunRecords, Current
<1>2. /\ manifest' \in Manifests
      /\ manifest'.clocked <=> (manifest.clocked \/
             (Current = FIRST_CLOCKED /\ status \notin NEVER_STARTED))
      /\ manifest' # Torn
  BY <1>1, AppendKeeps DEF IndInv
<1>4. RunTypes'
  BY <1>2 DEF IndInv, RunTypes, Idle
<1>5. Current = FIRST_CLOCKED => run.at = 9
  BY <1>1, StepPlaces DEF Current
<1>6. manifest'.clocked /\ run' # Idle => run'.at >= 8
  BY <1>1, <1>2, <1>5 DEF IndInv, RunPastClock
<1>7. RunPastClock'
  BY <1>6 DEF RunPastClock, Idle
<1>8. ClockedIsListed'
  <2>1. manifest # Torn
    BY DEF IndInv, ClockedIsListed
  <2> QED BY <1>2, <2>1 DEF IndInv, ClockedIsListed
<1> QED BY <1>4, <1>7, <1>8, EvidenceKept DEF IndInv, RunTypes

LEMMA CapReachedInv == ASSUME IndInv, CapReached PROVE IndInv'
<1>1. /\ run # Idle /\ run.at <= 11
      /\ Append1(Current, "not_run") /\ run' = Idle
      /\ UNCHANGED <<receipt, predictions, clockedUnder>>
  BY LastStepBound DEF CapReached, Looping, Idle, evidence, IndInv, RunTypes, RunRecords
<1> QED BY <1>1, AppendInv DEF Statuses, NEVER_STARTED

LEMMA SkipBlockedInv == ASSUME IndInv, SkipBlocked PROVE IndInv'
<1>1. /\ run # Idle /\ run.at <= 11 /\ run.phase = "loop"
      /\ Append1(Current, "blocked") /\ run' = [run EXCEPT !.at = @ + 1]
      /\ UNCHANGED <<receipt, predictions, clockedUnder>>
  BY LastStepBound DEF SkipBlocked, Looping, Idle, evidence, IndInv, RunTypes, RunRecords
<1>2. run' \in RunRecords /\ run'.phase = "loop" /\ run'.at = run.at + 1
  BY <1>1 DEF IndInv, RunTypes, RunRecords
<1> QED BY <1>1, <1>2, AppendInv DEF Statuses, NEVER_STARTED

LEMMA RecordStepInv == ASSUME IndInv, RecordStep PROVE IndInv'
<1>1. /\ run # Idle /\ run.at <= 11
      /\ Append1(Current, Status) /\ Status \in Statuses
      /\ UNCHANGED <<receipt, predictions, clockedUnder>>
  BY DEF RecordStep, Idle, evidence, IndInv, RunTypes, Status, Statuses
<1>2. run' = Idle \/ run' = [run EXCEPT !.at = @ + 1, !.phase = "loop",
                                       !.exit = 0]
  BY DEF RecordStep
<1>3. run' = Idle \/ (/\ run' \in RunRecords /\ run'.phase = "loop"
                      /\ run'.at = run.at + 1)
  <2>1. run \in RunRecords
    BY <1>1 DEF IndInv, RunTypes
  <2>2. run.at + 1 \in 1..12
    BY <1>1, <2>1 DEF RunRecords
  <2> QED BY <1>2, <2>1, <2>2 DEF RunRecords
<1> QED BY <1>1, <1>3, AppendInv

LEMMA KeepAttemptInv == ASSUME IndInv, KeepAttempt PROVE IndInv'
<1>1. /\ run.phase = "loop" /\ run.at <= LastStep(run.mode)
      /\ receipt' = IF Current = "predict" THEN 0 ELSE receipt
      /\ run' = [run EXCEPT !.phase = "kept"]
      /\ UNCHANGED <<manifest, predictions, clockedUnder>>
  BY DEF KeepAttempt, Looping
<1>2. run \in RunRecords /\ run # Idle /\ run.at \in 1..11
  BY <1>1, LastStepBound DEF IndInv, RunTypes, RunRecords, Idle
<1>3. run' \in RunRecords /\ run'.at = run.at /\ run'.phase = "kept"
  BY <1>1, <1>2 DEF RunRecords
<1>4. RunTypes'
  BY <1>1, <1>2, <1>3 DEF IndInv, RunTypes
<1>5. RunPastClock'
  BY <1>1, <1>2, <1>3 DEF IndInv, RunPastClock
<1>6. manifest # Torn
  BY <1>2 DEF IndInv, ClockedIsListed
<1>7. ClockedIsListed'
  BY <1>1, <1>6 DEF IndInv, ClockedIsListed
<1>8. clockedUnder # {} => Current # "predict"
  <2>1. clockedUnder # {} => run.at >= 8
    BY <1>2, <1>6 DEF IndInv, ClockedIsListed, RunPastClock
  <2> QED BY <1>2, <2>1, StepPlaces DEF Current
<1> QED BY <1>1, <1>4, <1>5, <1>7, <1>8 DEF IndInv, OnePrediction

LEMMA StartStepInv == ASSUME IndInv, StartStep PROVE IndInv'
<1>1. /\ run.phase = "kept" /\ run' = [run EXCEPT !.phase = "step"]
      /\ UNCHANGED <<receipt, predictions, clockedUnder>>
      /\ IF Current = FIRST_CLOCKED THEN Append1(Current, "started")
                                   ELSE UNCHANGED manifest
  BY DEF StartStep, evidence
<1>2. run \in RunRecords /\ run # Idle /\ run.at \in 1..11
  BY <1>1 DEF IndInv, RunTypes, RunRecords, Idle
<1>3. run' \in RunRecords /\ run'.at = run.at /\ run'.phase = "step"
  BY <1>1, <1>2 DEF RunRecords
<1>4. manifest # Torn
  BY <1>2 DEF IndInv, ClockedIsListed
<1>5. Current = FIRST_CLOCKED <=> run.at = 9
  BY <1>2, StepPlaces DEF Current
<1>6. /\ manifest' \in Manifests /\ manifest' # Torn
      /\ manifest'.clocked <=> (manifest.clocked \/ Current = FIRST_CLOCKED)
  <2>1. CASE Current = FIRST_CLOCKED
    <3>1. Append1(Current, "started") /\ Current \in Steps
      BY <1>1, <1>2, <2>1, StepPlaces DEF Current
    <3>2. "started" \in Statuses /\ "started" \notin NEVER_STARTED
      BY DEF Statuses, NEVER_STARTED
    <3> QED BY <1>2, <2>1, <3>1, <3>2, AppendKeeps DEF IndInv
  <2>2. CASE Current # FIRST_CLOCKED
    <3>1. manifest' = manifest
      BY <1>1, <2>2
    <3>2. manifest.clocked \in BOOLEAN
      BY DEF IndInv, RunTypes, Manifests
    <3> QED BY <1>4, <2>2, <3>1, <3>2 DEF IndInv, RunTypes
  <2> QED BY <2>1, <2>2
<1>7. RunTypes'
  BY <1>1, <1>2, <1>3, <1>6 DEF IndInv, RunTypes
<1>8. RunPastClock'
  BY <1>2, <1>3, <1>5, <1>6 DEF IndInv, RunPastClock
<1>9. ClockedIsListed'
  BY <1>1, <1>4, <1>6 DEF IndInv, ClockedIsListed
<1> QED BY <1>1, <1>7, <1>8, <1>9, EvidenceKept DEF IndInv, RunTypes

LEMMA SyncPredictionInv ==
    ASSUME IndInv, SyncPrediction PROVE IndInv' /\ clockedUnder = {}
<1>1. /\ run.phase = "step" /\ Current = "predict"
      /\ predictions' = predictions + 1 /\ receipt' = predictions + 1
      /\ UNCHANGED <<manifest, run, clockedUnder>>
  BY DEF SyncPrediction, InStep
<1>2. run \in RunRecords /\ run # Idle /\ run.at \in 1..11
  BY <1>1 DEF IndInv, RunTypes, RunRecords, Idle
<1>3. run.at = 7
  BY <1>1, <1>2, StepPlaces DEF Current
<1>4. clockedUnder = {}
  BY <1>2, <1>3 DEF IndInv, ClockedIsListed, RunPastClock
<1>5. RunTypes'
  BY <1>1, <1>2 DEF IndInv, RunTypes
<1>6. RunPastClock' /\ ClockedIsListed'
  BY <1>1 DEF IndInv, RunPastClock, ClockedIsListed
<1> QED BY <1>1, <1>4, <1>5, <1>6 DEF IndInv, OnePrediction

LEMMA ClockInv == ASSUME IndInv, Clock PROVE IndInv'
<1>1. /\ run.phase = "step" /\ Current = FIRST_CLOCKED /\ receipt # 0
      /\ clockedUnder' = clockedUnder \cup {receipt}
      /\ run' = [run EXCEPT !.phase = "clocked"]
      /\ UNCHANGED <<manifest, receipt, predictions>>
  BY DEF Clock, InStep
<1>2. run \in RunRecords /\ run # Idle /\ run.at \in 1..11
  BY <1>1 DEF IndInv, RunTypes, RunRecords, Idle
<1>3. run.at = 9
  BY <1>1, <1>2, StepPlaces DEF Current
<1>4. run' \in RunRecords /\ run'.at = 9 /\ run'.phase = "clocked"
  BY <1>1, <1>2, <1>3 DEF RunRecords
<1>5. manifest.clocked
  BY <1>1, <1>3 DEF IndInv, RunPastClock
<1>6. RunTypes'
  BY <1>1, <1>2, <1>4 DEF IndInv, RunTypes
<1>7. RunPastClock'
  BY <1>1, <1>4, <1>5 DEF RunPastClock
<1>8. manifest # Torn
  BY <1>2 DEF IndInv, ClockedIsListed
<1>9. ClockedIsListed'
  BY <1>1, <1>5, <1>8 DEF ClockedIsListed
<1>10. OnePrediction' /\ (0 \notin clockedUnder)'
  BY <1>1 DEF IndInv, OnePrediction
<1> QED BY <1>6, <1>7, <1>9, <1>10 DEF IndInv

LEMMA StepEndsInv == ASSUME IndInv, StepEnds PROVE IndInv'
<1>1. PICK exit \in {0, 1} : run' = [run EXCEPT !.phase = "end", !.exit = exit]
  BY DEF StepEnds
<1>2. /\ run.phase \in {"step", "clocked"}
      /\ UNCHANGED <<manifest, receipt, predictions, clockedUnder>>
  BY DEF StepEnds, evidence
<1>3. run \in RunRecords /\ run # Idle /\ run.at \in 1..11
  BY <1>2 DEF IndInv, RunTypes, RunRecords, Idle
<1>4. run' \in RunRecords /\ run'.at = run.at /\ run'.phase = "end"
  BY <1>1, <1>3 DEF RunRecords
<1>5. RunTypes'
  BY <1>2, <1>3, <1>4 DEF IndInv, RunTypes
<1>6. RunPastClock'
  BY <1>2, <1>3, <1>4 DEF IndInv, RunPastClock
<1>7. ClockedIsListed'
  BY <1>2, <1>3 DEF IndInv, ClockedIsListed
<1> QED BY <1>2, <1>5, <1>6, <1>7, EvidenceKept DEF IndInv, RunTypes

\* A run that ends or dies: what it leaves is read by the next, or by none.
LEMMA IdleInv ==
    ASSUME IndInv, run' = Idle, UNCHANGED manifest \/ manifest' = Torn,
           UNCHANGED <<receipt, predictions, clockedUnder>>
    PROVE  IndInv'
<1>1. Torn \in Manifests /\ Torn.clocked = FALSE
  BY DEF Torn, NoAttempts, Manifests, Statuses
<1>2. RunTypes'
  BY <1>1 DEF IndInv, RunTypes, Idle
<1>3. RunPastClock'
  BY DEF RunPastClock, Idle
<1>4. ClockedIsListed'
  BY DEF IndInv, ClockedIsListed
<1> QED BY <1>2, <1>3, <1>4, EvidenceKept DEF IndInv, RunTypes

\* Nothing the invariant reads has moved.
LEMMA QuietInv ==
    ASSUME IndInv,
           UNCHANGED <<run, manifest, receipt, predictions, clockedUnder>>
    PROVE  IndInv'
  BY DEF IndInv, RunTypes, RunPastClock, ClockedIsListed, OnePrediction

LEMMA StepInv == IndInv /\ [Next]_vars => IndInv'
<1> SUFFICES ASSUME IndInv, [Next]_vars PROVE IndInv'
  OBVIOUS
<1>1. CASE Start
  BY <1>1, StartInv
<1>2. CASE CapReached
  BY <1>2, CapReachedInv
<1>3. CASE SkipBlocked
  BY <1>3, SkipBlockedInv
<1>4. CASE KeepAttempt
  BY <1>4, KeepAttemptInv
<1>5. CASE StartStep
  BY <1>5, StartStepInv
<1>6. CASE SyncPrediction
  BY <1>6, SyncPredictionInv
<1>7. CASE Ripen
  BY <1>7, QuietInv DEF Ripen
<1>8. CASE Clock
  BY <1>8, ClockInv
<1>9. CASE Stamp
  BY <1>9, QuietInv DEF Stamp
<1>10. CASE StepEnds
  BY <1>10, StepEndsInv
<1>11. CASE RecordStep
  BY <1>11, RecordStepInv
<1>12. CASE EndRun
  BY <1>12, IdleInv DEF EndRun, evidence
<1>13. CASE Die
  BY <1>13, IdleInv DEF Die, evidence
<1>14. CASE UNCHANGED vars
  BY <1>14, QuietInv DEF vars
<1> QED BY <1>1, <1>2, <1>3, <1>4, <1>5, <1>6, <1>7, <1>8, <1>9, <1>10,
           <1>11, <1>12, <1>13, <1>14 DEF Next

(***************************************************************************)
(* The theorems.                                                           *)
(***************************************************************************)
\* The manifest, from before ground truth starts, keeps every run past the
\* prediction.
THEOREM SessionInvariant == Spec => []IndInv
<1>1. Init => IndInv
  BY InitInv
<1>2. IndInv /\ [Next]_vars => IndInv'
  BY StepInv
<1> QED BY <1>1, <1>2, PTL DEF Spec

\* Every clocked block of a session, those of dead attempts included, ran
\* under the one prediction whose receipt the session holds.
THEOREM SessionOnePrediction == Spec => []OnePrediction
<1>1. IndInv => OnePrediction
  BY DEF IndInv
<1> QED BY <1>1, SessionInvariant, PTL

\* No prediction is written after timed data exists, whatever died and
\* wherever the session was resumed from.
THEOREM SessionPredictsFirst == Spec => NoPredictionAfterClock
<1>1. ASSUME IndInv, [Next]_vars
      PROVE  [predictions' # predictions => clockedUnder = {}]_vars
  <2>1. CASE SyncPrediction
    BY <1>1, <2>1, SyncPredictionInv
  <2>2. CASE ~SyncPrediction
    <3>1. UNCHANGED predictions
      BY <1>1, <2>2 DEF Next, vars, evidence, Start, CapReached, SkipBlocked,
         KeepAttempt, StartStep, Ripen, Clock, Stamp, StepEnds, RecordStep,
         EndRun, Die
    <3> QED BY <3>1
  <2> QED BY <2>1, <2>2
<1> QED BY <1>1, SessionInvariant, PTL DEF Spec, NoPredictionAfterClock

----------------------------------------------------------------------------
(***************************************************************************)
(* What a pass in the manifest is worth.  While a step is being attempted  *)
(* it is unlisted, or it is ground truth and listed as started; an exit of *)
(* 0 is a pass's only.                                                     *)
(***************************************************************************)
Attempting == run.phase \in {"step", "clocked", "end"}

RealInv ==
    /\ PassedIsReal
    /\ Attempting => Current \in unlisted \/ last_status[Current] # "passed"
    /\ run.phase = "end" /\ run.exit = 0 => Current \in real

\* An append moves the step at hand and no other.
LEMMA AppendMovesOne ==
    ASSUME RunTypes, run \in RunRecords, run.at <= 11,
           NEW status, Append1(Current, status)
    PROVE  /\ Current \in Steps /\ last_status'[Current] = status
           /\ \A s \in Steps \ {Current} : last_status'[s] = last_status[s]
<1>1. Current \in Steps
  BY StepPlaces DEF RunRecords, Current
<1> QED BY <1>1 DEF RunTypes, Manifests, Append1, last_status

\* An append that is not a pass, by a runner that attempts nothing after it.
LEMMA NoPassReal ==
    ASSUME RunTypes, RealInv, run \in RunRecords, run.at <= 11,
           NEW status, status # "passed", Append1(Current, status),
           unlisted' = unlisted \/ unlisted' = unlisted \ {Current},
           run'.phase \notin {"step", "clocked", "end"}, UNCHANGED real
    PROVE  RealInv'
<1>1. /\ Current \in Steps /\ last_status'[Current] = status
      /\ \A s \in Steps \ {Current} : last_status'[s] = last_status[s]
  BY AppendMovesOne
<1> QED BY <1>1 DEF RealInv, PassedIsReal, Attempting

\* Where neither the lists nor the runner's attempt moves.
LEMMA QuietReal ==
    ASSUME RealInv, UNCHANGED <<manifest, real, unlisted>>,
           \/ run'.phase \in {"idle", "loop", "kept"}
           \/ Attempting /\ run'.at = run.at /\ run'.phase # "end"
           \/ run' = run
    PROVE  RealInv'
  BY DEF RealInv, PassedIsReal, Attempting, Current, last_status

LEMMA StartStepReal == ASSUME IndInv, RealInv, StartStep PROVE RealInv'
<1>1. /\ run \in RunRecords /\ run.at <= 11
      /\ run' = [run EXCEPT !.phase = "step"] /\ UNCHANGED real
  BY DEF StartStep, IndInv, RunTypes, Idle
<1>2. Current' = Current /\ run'.phase = "step"
  BY <1>1 DEF Current, RunRecords
<1>3. CASE Current = FIRST_CLOCKED
  <2>1. Append1(Current, "started") /\ UNCHANGED unlisted
    BY <1>3 DEF StartStep
  <2>2. /\ last_status'[Current] = "started"
        /\ \A s \in Steps \ {Current} : last_status'[s] = last_status[s]
    BY <1>1, <2>1, AppendMovesOne DEF IndInv
  <2> QED BY <1>1, <1>2, <2>1, <2>2 DEF RealInv, PassedIsReal, Attempting
<1>4. CASE Current # FIRST_CLOCKED
  <2>1. unlisted' = unlisted \cup {Current} /\ UNCHANGED manifest
    BY <1>4 DEF StartStep
  <2> QED BY <1>1, <1>2, <2>1 DEF RealInv, PassedIsReal, Attempting, last_status
<1> QED BY <1>3, <1>4

\* The step's end: only a pass can exit with 0, and what failed or was
\* killed is no longer real, but is not listed as passed either.
LEMMA StepEndsReal == ASSUME IndInv, RealInv, StepEnds PROVE RealInv'
<1>1. PICK result \in {"passed", "failed", "killed"}, exit \in {0, 1} :
          /\ result # "passed" => exit # 0
          /\ real' = IF result = "passed" THEN real \cup {Current}
                                          ELSE real \ {Current}
          /\ run' = [run EXCEPT !.phase = "end", !.exit = exit]
  BY DEF StepEnds
<1>2. /\ run \in RunRecords /\ Attempting /\ UNCHANGED <<manifest, unlisted>>
  BY DEF StepEnds, IndInv, RunTypes, Idle, Attempting
<1>3. Current' = Current /\ run'.phase = "end" /\ run'.exit = exit
  BY <1>1, <1>2 DEF Current, RunRecords
<1>4. PassedIsReal'
  BY <1>1, <1>2 DEF RealInv, PassedIsReal, last_status
<1>5. (Attempting => Current \in unlisted \/ last_status[Current] # "passed")'
  BY <1>2, <1>3 DEF RealInv, last_status
<1>6. run'.exit = 0 => Current' \in real'
  BY <1>1, <1>3
<1> QED BY <1>4, <1>5, <1>6 DEF RealInv

LEMMA RecordStepReal == ASSUME IndInv, RealInv, RecordStep PROVE RealInv'
<1>1. /\ run.phase = "end" /\ Append1(Current, Status)
      /\ unlisted' = unlisted \ {Current} /\ UNCHANGED real
      /\ run' = Idle \/ run' = [run EXCEPT !.at = @ + 1, !.phase = "loop",
                                           !.exit = 0]
  BY DEF RecordStep
<1>2. run \in RunRecords /\ run.at <= 11
  BY <1>1 DEF IndInv, RunTypes, Idle
<1>3. run'.phase \in {"idle", "loop"}
  <2>1. CASE run' = Idle
    BY <2>1 DEF Idle
  <2>2. CASE run' = [run EXCEPT !.at = @ + 1, !.phase = "loop", !.exit = 0]
    BY <1>2, <2>2 DEF RunRecords
  <2> QED BY <1>1, <2>1, <2>2
<1>4. CASE Status = "passed"
  <2>1. Current \in real
    BY <1>1, <1>4 DEF Status, RealInv
  <2>2. \A s \in Steps \ {Current} : last_status'[s] = last_status[s]
    BY <1>1, <1>2, AppendMovesOne DEF IndInv
  <2> QED BY <1>1, <1>3, <2>1, <2>2 DEF RealInv, PassedIsReal, Attempting
<1>5. CASE Status # "passed"
  BY <1>1, <1>2, <1>3, <1>5, NoPassReal DEF IndInv
<1> QED BY <1>4, <1>5

LEMMA StepReal == IndInv /\ RealInv /\ [Next]_vars => RealInv'
<1> SUFFICES ASSUME IndInv, RealInv, [Next]_vars PROVE RealInv'
  OBVIOUS
<1>1. CASE Start
  BY <1>1, QuietReal DEF Start
<1>2. CASE CapReached \/ SkipBlocked
  <2>1. run \in RunRecords /\ run.at <= 11 /\ run.phase = "loop"
    BY <1>2, LastStepBound DEF CapReached, SkipBlocked, Looping, Idle, IndInv,
       RunTypes, RunRecords
  <2>2. run'.phase \in {"idle", "loop"} /\ UNCHANGED <<unlisted, real>>
    BY <1>2, <2>1 DEF CapReached, SkipBlocked, Idle, RunRecords
  <2>3. Append1(Current, "not_run") \/ Append1(Current, "blocked")
    BY <1>2 DEF CapReached, SkipBlocked
  <2> QED BY <2>1, <2>2, <2>3, NoPassReal DEF IndInv
<1>3. CASE KeepAttempt
  <2>1. run \in RunRecords /\ run' = [run EXCEPT !.phase = "kept"]
    BY <1>3 DEF KeepAttempt, Looping, IndInv, RunTypes, Idle
  <2> QED BY <1>3, <2>1, QuietReal DEF KeepAttempt, RunRecords
<1>4. CASE StartStep
  BY <1>4, StartStepReal
<1>5. CASE SyncPrediction \/ Ripen \/ Stamp
  BY <1>5, QuietReal DEF SyncPrediction, Ripen, Stamp
<1>6. CASE Clock
  <2>1. run \in RunRecords /\ Attempting /\ run' = [run EXCEPT !.phase = "clocked"]
    BY <1>6 DEF Clock, InStep, IndInv, RunTypes, Idle, Attempting
  <2> QED BY <1>6, <2>1, QuietReal DEF Clock, RunRecords
<1>7. CASE StepEnds
  BY <1>7, StepEndsReal
<1>8. CASE RecordStep
  BY <1>8, RecordStepReal
<1>9. CASE EndRun
  BY <1>9, QuietReal DEF EndRun, Idle
<1>10. CASE Die
  <2>1. run' = Idle /\ UNCHANGED <<real, unlisted>>
    BY <1>10 DEF Die
  <2>2. CASE UNCHANGED manifest
    BY <2>1, <2>2, QuietReal DEF Idle
  <2>3. CASE manifest' = Torn
    BY <2>1, <2>3 DEF RealInv, PassedIsReal, Attempting, Idle, Torn, NoAttempts,
       last_status
  <2> QED BY <1>10, <2>2, <2>3 DEF Die
<1>11. CASE UNCHANGED vars
  BY <1>11, QuietReal DEF vars
<1> QED BY <1>1, <1>2, <1>3, <1>4, <1>5, <1>6, <1>7, <1>8, <1>9, <1>10, <1>11
           DEF Next

\* A step the manifest has as passed did pass in its last attempt, unless a
\* later attempt died before the manifest could list it.
THEOREM SessionPassedReal == Spec => []PassedIsReal
<1>1. Init => RealInv
  BY DEF Init, RealInv, PassedIsReal, Attempting, Idle, last_status
<1>2. RealInv => PassedIsReal
  BY DEF RealInv
<1> QED BY <1>1, <1>2, StepReal, SessionInvariant, PTL DEF Spec

----------------------------------------------------------------------------
(***************************************************************************)
(* What a step's process runs on.  Within a run, a step before the one at  *)
(* hand that passed had its inputs passed, and their statuses do not move  *)
(* any more; so the steps passed so far are closed under inputs.           *)
(***************************************************************************)
InputsInv ==
    run # Idle =>
        /\ \A n \in 1..(run.at - 1) : last_status[STEPS[n]] = "passed" =>
               \A d \in DEPENDS(STEPS[n]) : last_status[d] = "passed"
        /\ ~run.keep =>
               \A n \in 1..(run.at - 1) : last_status[STEPS[n]] = "passed"
        /\ run.phase \in {"kept", "step", "clocked", "end"} =>
               \A d \in DEPENDS(Current) : last_status[d] = "passed"

\* A step's inputs are steps before it.
LEMMA InputsAreEarlier ==
    ASSUME NEW n \in 1..11, NEW d \in DEPENDS(STEPS[n])
    PROVE  \E m \in 1..(n - 1) : d = STEPS[m]
<1> DEFINE early == {STEPS[m] : m \in 1..(n - 1)}
<1>1. n = 1 \/ n = 2 \/ n = 3 \/ n = 4 \/ n = 5 \/ n = 6 \/ n = 7 \/ n = 8
      \/ n = 9 \/ n = 10 \/ n = 11
  OBVIOUS
<1>2. /\ STEPS[1] = "preflight" /\ STEPS[2] = "link"
      /\ STEPS[3] = "dense_select" /\ STEPS[4] = "probe"
      /\ STEPS[5] = "host_components" /\ STEPS[6] = "device_components"
      /\ STEPS[7] = "predict" /\ STEPS[8] = "hold"
      /\ STEPS[9] = "ground_truth" /\ STEPS[10] = "verify"
      /\ STEPS[11] = "postflight"
  BY DEF STEPS
<1>3. CASE n = 1
  BY <1>2, <1>3 DEF DEPENDS
<1>4. CASE n = 2
  BY <1>2, <1>4 DEF DEPENDS
<1>5. CASE n = 3
  BY <1>2, <1>5 DEF DEPENDS
<1>6. CASE n = 4
  BY <1>2, <1>6 DEF DEPENDS
<1>7. CASE n = 5
  BY <1>2, <1>7 DEF DEPENDS
<1>8. CASE n = 6
  BY <1>2, <1>8 DEF DEPENDS
<1>9. CASE n = 7
  BY <1>2, <1>9 DEF DEPENDS
<1>10. CASE n = 8
  BY <1>2, <1>10 DEF DEPENDS
<1>11. CASE n = 9
  <2>1. d \in {"hold", "dense_select"}
    BY <1>2, <1>11 DEF DEPENDS
  <2> QED BY <1>2, <1>11, <2>1
<1>12. CASE n = 10
  BY <1>2, <1>12 DEF DEPENDS
<1>13. CASE n = 11
  BY <1>2, <1>13 DEF DEPENDS
<1> QED BY <1>1, <1>3, <1>4, <1>5, <1>6, <1>7, <1>8, <1>9, <1>10, <1>11,
           <1>12, <1>13

\* Two places hold two steps.
LEMMA PlacesDiffer ==
    \A m, n \in 1..11 : STEPS[m] = STEPS[n] => m = n
<1> TAKE m, n \in 1..11
<1>1. \A k \in 1..11 : k = 1 \/ k = 2 \/ k = 3 \/ k = 4 \/ k = 5 \/ k = 6
          \/ k = 7 \/ k = 8 \/ k = 9 \/ k = 10 \/ k = 11
  OBVIOUS
<1>2. \A k \in 1..11 :
          /\ STEPS[k] = "preflight" <=> k = 1
          /\ STEPS[k] = "link" <=> k = 2
          /\ STEPS[k] = "dense_select" <=> k = 3
          /\ STEPS[k] = "probe" <=> k = 4
          /\ STEPS[k] = "host_components" <=> k = 5
          /\ STEPS[k] = "device_components" <=> k = 6
          /\ STEPS[k] = "predict" <=> k = 7
          /\ STEPS[k] = "hold" <=> k = 8
          /\ STEPS[k] = "ground_truth" <=> k = 9
          /\ STEPS[k] = "verify" <=> k = 10
          /\ STEPS[k] = "postflight" <=> k = 11
  <2> TAKE k \in 1..11
  <2>1. /\ STEPS[1] = "preflight" /\ STEPS[2] = "link"
        /\ STEPS[3] = "dense_select" /\ STEPS[4] = "probe"
        /\ STEPS[5] = "host_components" /\ STEPS[6] = "device_components"
        /\ STEPS[7] = "predict" /\ STEPS[8] = "hold"
        /\ STEPS[9] = "ground_truth" /\ STEPS[10] = "verify"
        /\ STEPS[11] = "postflight"
    BY DEF STEPS
  <2> QED BY <1>1, <2>1
<1> QED BY <1>1, <1>2

\* An append of the step at hand leaves what the steps before it show, and
\* its own inputs are among them.
LEMMA AppendInputs ==
    ASSUME RunTypes, InputsInv, run \in RunRecords, run # Idle, run.at <= 11,
           NEW status, Append1(Current, status)
    PROVE  /\ \A n \in 1..(run.at - 1) :
                  last_status'[STEPS[n]] = last_status[STEPS[n]]
           /\ \A n \in 1..run.at : \A d \in DEPENDS(STEPS[n]) :
                  last_status'[d] = last_status[d]
           /\ last_status'[Current] = status
<1>1. run.at \in 1..11 /\ Current = STEPS[run.at]
  BY DEF RunRecords, Current
<1>2. /\ last_status'[Current] = status
      /\ \A s \in Steps \ {Current} : last_status'[s] = last_status[s]
  BY AppendMovesOne
<1>3. \A n \in 1..(run.at - 1) : STEPS[n] \in Steps \ {Current}
  BY <1>1, StepPlaces, PlacesDiffer
<1>4. ASSUME NEW n \in 1..run.at, NEW d \in DEPENDS(STEPS[n])
      PROVE  d \in Steps \ {Current}
  <2>1. n \in 1..11
    BY <1>1
  <2>2. PICK m \in 1..(n - 1) : d = STEPS[m]
    BY <2>1, InputsAreEarlier
  <2> QED BY <1>1, <1>3, <2>1, <2>2
<1> QED BY <1>2, <1>3, <1>4

\* An append after which the runner is idle or at the next step.
LEMMA NextInputs ==
    ASSUME RunTypes, InputsInv, run \in RunRecords, run # Idle, run.at <= 11,
           NEW status, Append1(Current, status),
           status = "passed" => run.phase = "end",
           status # "passed" => run.keep \/ run' = Idle,
           run' = Idle \/ (/\ run'.phase = "loop" /\ run'.keep = run.keep
                           /\ run'.at = run.at + 1)
    PROVE  InputsInv'
<1> SUFFICES ASSUME run' # Idle PROVE InputsInv'
  BY DEF InputsInv
<1>1. /\ run'.phase = "loop" /\ run'.keep = run.keep /\ run'.at = run.at + 1
      /\ run.at \in 1..11 /\ Current = STEPS[run.at]
  BY DEF RunRecords, Current
<1>2. /\ \A n \in 1..(run.at - 1) :
             last_status'[STEPS[n]] = last_status[STEPS[n]]
      /\ \A n \in 1..run.at : \A d \in DEPENDS(STEPS[n]) :
             last_status'[d] = last_status[d]
      /\ last_status'[Current] = status
  BY AppendInputs
<1>3. ASSUME NEW n \in 1..run.at, last_status'[STEPS[n]] = "passed",
             NEW d \in DEPENDS(STEPS[n])
      PROVE  last_status'[d] = "passed"
  <2>1. CASE n = run.at
    BY <1>1, <1>2, <1>3, <2>1 DEF InputsInv
  <2>2. CASE n # run.at
    <3>1. n \in 1..(run.at - 1)
      BY <1>1, <2>2
    <3> QED BY <1>2, <1>3, <3>1 DEF InputsInv
  <2> QED BY <2>1, <2>2
<1>4. ASSUME ~run'.keep, NEW n \in 1..run.at
      PROVE  last_status'[STEPS[n]] = "passed"
  <2>1. status = "passed"
    BY <1>1, <1>4
  <2>2. CASE n = run.at
    BY <1>1, <1>2, <2>1, <2>2
  <2>3. CASE n # run.at
    <3>1. n \in 1..(run.at - 1)
      BY <1>1, <2>3
    <3> QED BY <1>1, <1>2, <1>4, <3>1 DEF InputsInv
  <2> QED BY <2>2, <2>3
<1>5. run'.at - 1 = run.at
  BY <1>1
<1> QED BY <1>1, <1>3, <1>4, <1>5 DEF InputsInv

\* Where no status moves and the runner stays at its step.
LEMMA QuietInputs ==
    ASSUME InputsInv, UNCHANGED manifest,
           \/ run' = run \/ run' = Idle
           \/ /\ run # Idle /\ run'.at = run.at /\ run'.keep = run.keep
              /\ run.phase \in {"kept", "step", "clocked", "end"}
    PROVE  InputsInv'
  BY DEF InputsInv, Current, last_status

LEMMA StartInputs == ASSUME IndInv, Start PROVE InputsInv'
<1>1. PICK mode \in Modes, keep \in BOOLEAN, first \in 1..Len(STEPS) :
          /\ ~Refused(mode, first)
          /\ run' = [mode |-> mode, keep |-> keep, at |-> first,
                     phase |-> "loop", exit |-> 0]
  BY DEF Start
<1>2. UNCHANGED manifest /\ first \in 1..11
  BY StepPlaces DEF Start
<1>3. \A n \in 1..(first - 1) : last_status'[STEPS[n]] = "passed"
  BY <1>1, <1>2 DEF Refused, last_status
<1>4. ASSUME NEW n \in 1..(first - 1), NEW d \in DEPENDS(STEPS[n])
      PROVE  last_status'[d] = "passed"
  <2>1. n \in 1..11
    BY <1>2
  <2>2. PICK m \in 1..(n - 1) : d = STEPS[m]
    BY <2>1, InputsAreEarlier
  <2>3. m \in 1..(first - 1)
    BY <1>2, <2>2
  <2> QED BY <1>3, <2>2, <2>3
<1>5. run'.at = first /\ run'.phase = "loop"
  BY <1>1
<1> QED BY <1>3, <1>4, <1>5 DEF InputsInv

\* A step is attempted when it is not blocked, or when every step before it
\* passed.
LEMMA KeepAttemptInputs == ASSUME IndInv, InputsInv, KeepAttempt PROVE InputsInv'
<1>1. /\ run \in RunRecords /\ run # Idle /\ run.at \in 1..11
      /\ run' = [run EXCEPT !.phase = "kept"] /\ UNCHANGED manifest
      /\ ~(run.keep /\ Blocked(Current))
  BY LastStepBound DEF KeepAttempt, Looping, Idle, IndInv, RunTypes, RunRecords
<1>2. run'.at = run.at /\ run'.keep = run.keep /\ run.keep \in BOOLEAN
  BY <1>1 DEF RunRecords
<1>3. ASSUME NEW d \in DEPENDS(Current) PROVE last_status[d] = "passed"
  <2>1. CASE run.keep
    BY <1>1, <1>3, <2>1 DEF Blocked
  <2>2. CASE ~run.keep
    <3>1. PICK m \in 1..(run.at - 1) : d = STEPS[m]
      BY <1>1, <1>3, InputsAreEarlier DEF Current
    <3> QED BY <1>1, <2>2, <3>1 DEF InputsInv
  <2> QED BY <2>1, <2>2
<1>4. Current' = Current /\ last_status' = last_status
  BY <1>1, <1>2 DEF Current, last_status
<1> QED BY <1>1, <1>2, <1>3, <1>4 DEF InputsInv

LEMMA StartStepInputs == ASSUME IndInv, InputsInv, StartStep PROVE InputsInv'
<1>1. /\ run \in RunRecords /\ run # Idle /\ run.at \in 1..11
      /\ run.phase = "kept" /\ run' = [run EXCEPT !.phase = "step"]
  BY DEF StartStep, Idle, IndInv, RunTypes, RunRecords
<1>2. run'.at = run.at /\ run'.keep = run.keep /\ Current' = Current
  BY <1>1 DEF RunRecords, Current
<1>3. CASE Current = FIRST_CLOCKED
  <2>1. Append1(Current, "started")
    BY <1>3 DEF StartStep
  <2>2. /\ \A n \in 1..(run.at - 1) :
               last_status'[STEPS[n]] = last_status[STEPS[n]]
        /\ \A n \in 1..run.at : \A d \in DEPENDS(STEPS[n]) :
               last_status'[d] = last_status[d]
    BY <1>1, <2>1, AppendInputs DEF IndInv
  <2>3. run.at \in 1..run.at /\ \A n \in 1..(run.at - 1) : n \in 1..run.at
    BY <1>1
  <2> QED BY <1>1, <1>2, <2>2, <2>3 DEF InputsInv, Current
<1>4. CASE Current # FIRST_CLOCKED
  BY <1>1, <1>2, <1>4, QuietInputs DEF StartStep
<1> QED BY <1>3, <1>4

LEMMA RecordStepInputs == ASSUME IndInv, InputsInv, RecordStep PROVE InputsInv'
<1>1. /\ run \in RunRecords /\ run # Idle /\ run.at \in 1..11
      /\ run.phase = "end" /\ Append1(Current, Status)
      /\ run' = IF Status = "failed" /\ ~run.keep THEN Idle
                ELSE [run EXCEPT !.at = @ + 1, !.phase = "loop", !.exit = 0]
  BY DEF RecordStep, Idle, IndInv, RunTypes, RunRecords
<1>2. Status = "passed" \/ Status = "failed"
  BY DEF Status
<1>3. run' = Idle \/ (/\ run'.phase = "loop" /\ run'.keep = run.keep
                      /\ run'.at = run.at + 1)
  BY <1>1 DEF RunRecords
<1>4. Status # "passed" => run.keep \/ run' = Idle
  BY <1>1, <1>2
<1> QED BY <1>1, <1>3, <1>4, NextInputs DEF IndInv

LEMMA StepInputs == IndInv /\ InputsInv /\ [Next]_vars => InputsInv'
<1> SUFFICES ASSUME IndInv, InputsInv, [Next]_vars PROVE InputsInv'
  OBVIOUS
<1>1. CASE Start
  BY <1>1, StartInputs
<1>2. CASE CapReached \/ EndRun \/ Die
  BY <1>2 DEF CapReached, EndRun, Die, InputsInv
<1>3. CASE SkipBlocked
  <2>1. /\ run \in RunRecords /\ run # Idle /\ run.at <= 11 /\ run.keep
        /\ Append1(Current, "blocked") /\ run' = [run EXCEPT !.at = @ + 1]
        /\ run.phase = "loop"
    BY <1>3, LastStepBound DEF SkipBlocked, Looping, Idle, IndInv, RunTypes,
       RunRecords
  <2>2. run'.phase = "loop" /\ run'.keep = run.keep /\ run'.at = run.at + 1
    BY <2>1 DEF RunRecords
  <2> QED BY <2>1, <2>2, NextInputs DEF IndInv
<1>4. CASE KeepAttempt
  BY <1>4, KeepAttemptInputs
<1>5. CASE StartStep
  BY <1>5, StartStepInputs
<1>6. CASE SyncPrediction \/ Ripen \/ Stamp
  BY <1>6, QuietInputs DEF SyncPrediction, Ripen, Stamp
<1>7. CASE Clock \/ StepEnds
  <2>1. run \in RunRecords /\ run # Idle /\ run.phase \in {"step", "clocked"}
    BY <1>7 DEF Clock, InStep, StepEnds, Idle, IndInv, RunTypes
  <2>2. run'.at = run.at /\ run'.keep = run.keep /\ UNCHANGED manifest
    BY <1>7, <2>1 DEF Clock, StepEnds, RunRecords
  <2> QED BY <2>1, <2>2, QuietInputs
<1>8. CASE RecordStep
  BY <1>8, RecordStepInputs
<1>9. CASE UNCHANGED vars
  BY <1>9, QuietInputs DEF vars
<1> QED BY <1>1, <1>2, <1>3, <1>4, <1>5, <1>6, <1>7, <1>8, <1>9 DEF Next

\* The steps before the one at hand that are listed as passed hold its inputs
\* and are closed under inputs, so they hold all it rests on.
LEMMA InputsAreReal == IndInv /\ InputsInv /\ PassedIsReal => InputsPassed
<1> SUFFICES ASSUME IndInv, InputsInv, PassedIsReal,
                    run.phase \in {"step", "clocked", "end"},
                    NEW d \in Needs[Current]
             PROVE  d \in real \cup unlisted
  BY DEF InputsPassed
<1> DEFINE listed == {s \in Steps : /\ last_status[s] = "passed"
                                    /\ \E n \in 1..(run.at - 1) : s = STEPS[n]}
<1>1. run # Idle /\ run \in RunRecords /\ run.at \in 1..11 /\ Current \in Steps
  BY StepPlaces DEF IndInv, RunTypes, RunRecords, Idle, Current
<1>2. ASSUME NEW n \in 1..run.at, NEW e \in DEPENDS(STEPS[n]),
             last_status[e] = "passed"
      PROVE  e \in listed
  <2>1. n \in 1..11
    BY <1>1
  <2>2. PICK m \in 1..(n - 1) : e = STEPS[m]
    BY <2>1, InputsAreEarlier
  <2>3. m \in 1..(run.at - 1) /\ m \in 1..11
    BY <1>1, <2>1, <2>2
  <2>4. e \in Steps
    BY <2>2, <2>3, StepPlaces
  <2> QED BY <1>2, <2>2, <2>3, <2>4
<1>3. DEPENDS(Current) \subseteq listed
  BY <1>1, <1>2 DEF InputsInv, Current
<1>4. \A e \in listed : DEPENDS(e) \subseteq listed
  <2> SUFFICES ASSUME NEW n \in 1..(run.at - 1), last_status[STEPS[n]] = "passed",
                      NEW f \in DEPENDS(STEPS[n])
               PROVE  f \in listed
    OBVIOUS
  <2>1. last_status[f] = "passed" /\ n \in 1..run.at
    BY <1>1 DEF InputsInv
  <2> QED BY <1>2, <2>1
<1>5. listed \in SUBSET Steps
  OBVIOUS
<1>6. d \in listed
  <2> HIDE DEF listed
  <2> QED BY <1>1, <1>3, <1>4, <1>5 DEF Needs
<1> QED BY <1>6 DEF PassedIsReal

\* While a step's process runs, every step it rests on, however indirectly,
\* really passed or its last attempt died unlisted: whatever failed or was
\* blocked before it in the run, and wherever the run was resumed from.
THEOREM SessionInputsPassed == Spec => []InputsPassed
<1>1. Init => InputsInv
  BY DEF Init, InputsInv
<1> QED BY <1>1, StepInputs, InputsAreReal, SessionInvariant, SessionPassedReal,
           PTL DEF Spec
=============================================================================
