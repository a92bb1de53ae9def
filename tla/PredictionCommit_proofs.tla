---------------------- MODULE PredictionCommit_proofs ----------------------
(***************************************************************************)
(* K9 for every clock, every skew the analysis allows for, any number of   *)
(* crashes, retries and replaced objects: an accepted prediction was in    *)
(* the store before the first clocked block.                               *)
(***************************************************************************)
EXTENDS PredictionCommit, TLAPS

\* What the argument needs of the state: nothing in the store is younger
\* than the store's clock, the two clocks are near, and the workload's stamp
\* is no later than its first clocked block by more than the skew.
ClocksNear == clock - now <= Skew /\ now - clock <= Skew

StoredInPast == \A key \in Names \X Parts : Exists(key) => store[key].created <= now

StampBeforeClocked ==
    workload # None =>
        /\ workload.start # None /\ workload.clocked = None =>
               workload.start <= now + Skew
        /\ workload.clocked # None =>
               workload.start # None /\ workload.start <= workload.clocked + Skew

Committing == {"write", "write_sidecar", "put", "put_sidecar", "read_back", "stat"}

\* How far the committer has come is on disk and in the bucket
Progress ==
    LET name == prediction_filename(committed)
    IN  /\ pc \in Committing => committed \in Records
        /\ pc \in Committing \ {"write"} => path[name] \in Records
        /\ pc \in Committing \ {"write", "write_sidecar"} =>
               sidecar[name] \in Sidecars
        /\ pc \in {"put_sidecar", "read_back", "stat"} => Exists(<<name, "file">>)
        /\ pc \in {"read_back", "stat"} => Exists(<<name, "sidecar">>)

IndInv ==
    /\ TypeOK /\ ClocksNear /\ Progress /\ StoredInPast
    /\ StampBeforeClocked /\ PredictionBeforeWorkload

\* gsutil's whole seconds, plus one, are past the true creation time.
LEMMA WholeSecondBound ==
    ASSUME NEW c \in Nat
    PROVE  /\ (c \div Second) * Second + Second \in Nat
           /\ c < (c \div Second) * Second + Second
<1> DEFINE q == c \div Second
           r == c % Second
<1>1. Second \in Nat /\ Second > 0
  BY ConstantsAssumption
<1>2. q \in Nat /\ r \in 0..(Second - 1) /\ c = Second * q + r
  BY <1>1
<1> HIDE DEF q, r
<1>3. q * Second \in Nat /\ Second * q = q * Second
  BY <1>1, <1>2
<1> QED BY <1>1, <1>2, <1>3 DEF q

LEMMA CreatedBound ==
    ASSUME TypeOK, NEW name \in Names,
           Exists(<<name, "file">>), Exists(<<name, "sidecar">>)
    PROVE  /\ SyncedAt(name) \in Nat
           /\ store[<<name, "file">>].created < SyncedAt(name)
           /\ store[<<name, "sidecar">>].created < SyncedAt(name)
<1>1. ASSUME NEW p \in Parts, Exists(<<name, p>>)
      PROVE  /\ created(<<name, p>>) \in Nat
             /\ store[<<name, p>>].created \in Nat
             /\ store[<<name, p>>].created < created(<<name, p>>)
  <2>1. store[<<name, p>>] \in Objects
    BY <1>1 DEF TypeOK, Exists
  <2>2. store[<<name, p>>].created \in Nat
    BY <2>1, ConstantsAssumption DEF Objects, Time
  <2> QED BY <2>2, WholeSecondBound DEF created
<1>2. "file" \in Parts /\ "sidecar" \in Parts
  BY DEF Parts
<1> QED BY <1>1, <1>2 DEF SyncedAt, Later

\* The check of load_committed is enough by itself.
LEMMA LoadStep == IndInv /\ LoadCommitted => PredictionBeforeWorkload'
<1> SUFFICES ASSUME IndInv, LoadCommitted, loaded'.accepted, loaded' # None
             PROVE  loaded'.created < workload'.clocked
  BY DEF PredictionBeforeWorkload
<1>1. PICK name \in Names, local \in BOOLEAN :
        /\ Exists(<<name, "file">>) /\ Exists(<<name, "sidecar">>)
        /\ loaded' = [name |-> name,
                      differs |-> local /\ path[name] # store[<<name, "file">>].bytes,
                      accepted |-> /\ local => path[name] = store[<<name, "file">>].bytes
                                   /\ VerifyBytes(name) /\ InTime(name),
                      bytes |-> store[<<name, "file">>].bytes,
                      created |-> Later(store[<<name, "file">>].created,
                                        store[<<name, "sidecar">>].created)]
  BY DEF LoadCommitted
<1>2. SyncedAt(name) + Skew < workload.start
  BY <1>1 DEF InTime
<1>3. workload # None /\ workload.clocked # None /\ workload' = workload
  BY DEF LoadCommitted
<1>4. workload.start \in Nat /\ workload.clocked \in Nat /\ Skew \in Nat
      /\ workload.start <= workload.clocked + Skew
  BY <1>3, ConstantsAssumption DEF IndInv, TypeOK, Time, StampBeforeClocked
<1>5. /\ SyncedAt(name) \in Nat
      /\ store[<<name, "file">>].created < SyncedAt(name)
      /\ store[<<name, "sidecar">>].created < SyncedAt(name)
  BY <1>1, CreatedBound DEF IndInv
<1>6. loaded'.created \in {store[<<name, "file">>].created,
                           store[<<name, "sidecar">>].created}
  BY <1>1 DEF Later
<1>7. store[<<name, "file">>].created \in Nat
      /\ store[<<name, "sidecar">>].created \in Nat
  <2>1. \A p \in Parts : Exists(<<name, p>>) => store[<<name, p>>] \in Objects
    BY DEF IndInv, TypeOK, Exists
  <2> QED BY <1>1, <2>1, ConstantsAssumption DEF Parts, Objects, Time
<1> QED BY <1>2, <1>3, <1>4, <1>5, <1>6, <1>7

\* Putting an object keeps the store typed and in the past.
LEMMA PutStep ==
    ASSUME TypeOK, StoredInPast, NEW name \in Names, NEW part \in Parts,
           NEW bytes \in Records \cup Sidecars, Put(<<name, part>>, bytes)
    PROVE  /\ store' \in [Names \X Parts -> Objects \cup {None}]
           /\ \A key \in Names \X Parts :
                 store'[key] # None => store'[key].created <= now
           /\ \A key \in Names \X Parts : Exists(key) => store'[key] # None
<1> DEFINE object == [bytes |-> bytes, created |-> now]
<1>1. object \in Objects /\ now \in Nat
  BY ConstantsAssumption DEF Objects, TypeOK, Time
<1>2. store \in [Names \X Parts -> Objects \cup {None}]
  BY DEF TypeOK
<1>3. CASE Exists(<<name, part>>)
  BY <1>2, <1>3 DEF Put, StoredInPast, Exists
<1>4. CASE ~Exists(<<name, part>>)
  <2>1. store' = [store EXCEPT ![<<name, part>>] = object]
    BY <1>4 DEF Put
  <2>2. \A key \in Names \X Parts :
            store'[key] = IF key = <<name, part>> THEN object ELSE store[key]
    BY <2>1, <1>2
  <2>3. object.created <= now
    BY <1>1
  <2> HIDE DEF object
  <2>4. ASSUME NEW key \in Names \X Parts, store'[key] # None
        PROVE  store'[key].created <= now
    BY <2>2, <2>3, <2>4 DEF StoredInPast, Exists
  <2>5. store' \in [Names \X Parts -> Objects \cup {None}]
    BY <2>1, <1>1, <1>2
  <2>6. \A key \in Names \X Parts : Exists(key) => store'[key] # None
    BY <2>2, <1>4 DEF Exists
  <2> QED BY <2>4, <2>5, <2>6
<1> QED BY <1>3, <1>4

LEMMA NameOfRecord ==
    ASSUME NEW r \in Records
    PROVE  prediction_filename(r) \in Names /\ sidecar_text(r) \in Sidecars
BY DEF Records, Names, Sidecars, prediction_filename, sidecar_text

\* The committer's own steps leave the clocks, the workload and the analysis
\* alone; what is left is their effect on the directory and the bucket.
LEMMA CommitStep ==
    ASSUME IndInv, loaded = None, Commit
    PROVE  IndInv'
<1> USE DEF IndInv
<1> DEFINE name == prediction_filename(committed)
<1>1. CASE BuildRecord
  <2>1. /\ pc' = "write" /\ attempt' = attempt + 1
        /\ committed' = [id |-> attempt + 1, written_at |-> clock, follows |-> TRUE]
        /\ UNCHANGED <<now, clock, path, sidecar, store, receipt, workload,
                       loaded, overwrites>>
        /\ attempt < MaxAttempts
    BY <1>1 DEF BuildRecord, localVars, readers
  <2>2. attempt + 1 \in 0..MaxAttempts /\ attempt + 1 \in 0..(MaxAttempts + 1)
    BY <2>1, ConstantsAssumption DEF TypeOK
  <2>3. committed' \in Records
    BY <2>1, <2>2 DEF TypeOK, Records
  <2>4. TypeOK'
    BY <2>1, <2>2, <2>3 DEF TypeOK
  <2> QED BY <2>1, <2>3, <2>4 DEF ClocksNear, Progress, Committing, StoredInPast,
             StampBeforeClocked, PredictionBeforeWorkload, Exists
<1>2. ASSUME Quiet, UNCHANGED receipt, store' = store,
             committed' \in Records \cup {None},
             path' \in [Names -> Records \cup {None}],
             sidecar' \in [Names -> Sidecars \cup {None}],
             pc' \in {"idle", "write", "write_sidecar", "put", "put_sidecar",
                      "read_back", "stat", "synced", "failed"},
             Progress'
      PROVE  IndInv'
  <2>1. UNCHANGED <<now, clock, attempt, workload, loaded, overwrites, receipt,
                    store>>
    BY <1>2 DEF Quiet, readers
  <2>2. TypeOK'
    BY <1>2, <2>1 DEF TypeOK
  <2> QED BY <1>2, <2>1, <2>2 DEF ClocksNear, StoredInPast,
             StampBeforeClocked, PredictionBeforeWorkload, Exists
<1>3. CASE WriteFile
  <2>0. committed \in Records /\ name \in Names
    BY <1>3, NameOfRecord DEF WriteFile, Progress, Committing
  <2>1. CASE path[name] # None \/ sidecar[name] # None
    <3>1. Fails /\ Quiet
      BY <1>3, <2>1 DEF WriteFile
    <3>2. Progress'
      BY <3>1 DEF Fails, Progress, Committing
    <3> QED BY <1>2, <3>1, <3>2 DEF Fails, localVars, TypeOK
  <2>2. CASE ~(path[name] # None \/ sidecar[name] # None)
    <3>1. /\ path' = [path EXCEPT ![name] = committed]
          /\ pc' = "write_sidecar"
          /\ UNCHANGED <<committed, sidecar, store, receipt>>
          /\ Quiet
      BY <1>3, <2>2 DEF WriteFile
    <3>2. path' \in [Names -> Records \cup {None}] /\ path'[name] = committed
      BY <3>1, <2>0 DEF TypeOK
    <3>3. Progress'
      BY <3>1, <3>2, <2>0 DEF Progress, Committing
    <3> QED BY <1>2, <3>1, <3>2, <3>3 DEF TypeOK
  <2> QED BY <2>1, <2>2
<1>4. CASE WriteSidecar
  <2>0. /\ committed \in Records /\ path[name] \in Records
        /\ name \in Names /\ sidecar_text(committed) \in Sidecars
    BY <1>4, NameOfRecord DEF WriteSidecar, Committer, Progress, Committing
  <2>1. /\ pc' = "put"
        /\ sidecar' = [sidecar EXCEPT ![name] = sidecar_text(committed)]
        /\ UNCHANGED <<committed, path, store, receipt>>
        /\ Quiet
    BY <1>4 DEF WriteSidecar, Committer
  <2>2. /\ sidecar' \in [Names -> Sidecars \cup {None}]
        /\ sidecar'[name] = sidecar_text(committed)
    BY <2>0, <2>1 DEF TypeOK
  <2>3. Progress'
    BY <2>0, <2>1, <2>2 DEF Progress, Committing
  <2> QED BY <1>2, <2>1, <2>2, <2>3 DEF TypeOK
<1>5. ASSUME NEW part \in Parts, NEW bytes \in Records \cup Sidecars,
             committed \in Records, Put(<<name, part>>, bytes), Quiet,
             UNCHANGED <<committed, path, sidecar, receipt>>,
             pc' \in {"put_sidecar", "read_back"},
             Progress'
      PROVE  IndInv'
  <2>1. name \in Names
    BY <1>5, NameOfRecord
  <2> HIDE DEF name
  <2>2. /\ store' \in [Names \X Parts -> Objects \cup {None}]
        /\ \A key \in Names \X Parts :
              store'[key] # None => store'[key].created <= now
    BY <1>5, <2>1, PutStep
  <2>3. UNCHANGED <<now, clock, attempt, workload, loaded, overwrites>>
    BY <1>5 DEF Quiet, readers
  <2>4. TypeOK'
    BY <1>5, <2>2, <2>3 DEF TypeOK
  <2>5. StoredInPast'
    BY <2>2, <2>3 DEF StoredInPast, Exists
  <2> QED BY <1>5, <2>3, <2>4, <2>5 DEF ClocksNear, StampBeforeClocked,
             PredictionBeforeWorkload
<1>6. ASSUME NEW part \in Parts, NEW bytes \in Records \cup Sidecars,
             committed \in Records, Put(<<name, part>>, bytes)
      PROVE  /\ store'[<<name, part>>] # None
             /\ \A other \in Parts :
                    Exists(<<name, other>>) => store'[<<name, other>>] # None
  <2>1. name \in Names
    BY <1>6, NameOfRecord
  <2> HIDE DEF name
  <2>2. \A key \in Names \X Parts : Exists(key) => store'[key] # None
    BY <1>6, <2>1, PutStep
  <2>3. CASE Exists(<<name, part>>)
    BY <1>6, <2>1, <2>2, <2>3
  <2>4. CASE ~Exists(<<name, part>>)
    <3>1. [bytes |-> bytes, created |-> now] \in Objects
      BY DEF Objects, TypeOK
    <3>2. store'[<<name, part>>] = [bytes |-> bytes, created |-> now]
      BY <1>6, <2>1, <2>4 DEF Put, TypeOK
    <3> QED BY <3>1, <3>2, <2>1, <2>2, NoneAssumption
  <2> QED BY <2>3, <2>4
<1>7. CASE PutFile
  <2>1. /\ committed \in Records /\ path[name] \in Records
        /\ sidecar[name] \in Sidecars
        /\ pc' = "put_sidecar" /\ Put(<<name, "file">>, path[name]) /\ Quiet
        /\ UNCHANGED <<committed, path, sidecar, receipt>>
    BY <1>7 DEF PutFile, Committer, Progress, Committing, localVars
  <2>2. store'[<<name, "file">>] # None
    BY <1>6, <2>1 DEF Parts
  <2>3. Progress'
    BY <2>1, <2>2 DEF Progress, Committing, Exists
  <2> QED BY <1>5, <2>1, <2>3 DEF Parts
<1>8. CASE PutSidecar
  <2>1. /\ committed \in Records /\ path[name] \in Records
        /\ sidecar[name] \in Sidecars /\ Exists(<<name, "file">>)
        /\ pc' = "read_back" /\ Put(<<name, "sidecar">>, sidecar[name]) /\ Quiet
        /\ UNCHANGED <<committed, path, sidecar, receipt>>
    BY <1>8 DEF PutSidecar, Committer, Progress, Committing, localVars
  <2>2. store'[<<name, "sidecar">>] # None /\ store'[<<name, "file">>] # None
    BY <1>6, <2>1 DEF Parts
  <2>3. Progress'
    BY <2>1, <2>2 DEF Progress, Committing, Exists
  <2> QED BY <1>5, <2>1, <2>3 DEF Parts
<1>9. CASE ReadBack
  <2>1. /\ pc = "read_back" /\ pc' \in {"stat", "failed"} /\ Quiet
        /\ UNCHANGED <<committed, path, sidecar, store, receipt>>
    BY <1>9 DEF ReadBack, Fails, localVars
  <2>2. Progress'
    BY <2>1 DEF Progress, Committing, Exists
  <2> QED BY <1>2, <2>1, <2>2 DEF TypeOK
<1>10. CASE Receive
  <2>1. /\ pc' = "synced" /\ Quiet /\ committed \in Records
        /\ Exists(<<name, "file">>) /\ Exists(<<name, "sidecar">>)
        /\ UNCHANGED <<committed, path, sidecar, store>>
        /\ receipt' = [name |-> name, bytes |-> committed,
                       synced_at |-> SyncedAt(name)]
    BY <1>10 DEF Receive, Committer, Progress, Committing, localVars
  <2>2. name \in Names
    BY <2>1, NameOfRecord
  <2> HIDE DEF name
  <2>3. receipt' \in [name: Names, bytes: Records, synced_at: Nat]
    BY <2>1, <2>2, CreatedBound
  <2>4. UNCHANGED <<now, clock, attempt, workload, loaded, overwrites>>
    BY <2>1 DEF Quiet, readers
  <2>5. TypeOK'
    BY <2>1, <2>3, <2>4 DEF TypeOK
  <2>6. Progress'
    BY <2>1 DEF Progress, Committing
  <2> QED BY <2>1, <2>4, <2>5, <2>6 DEF ClocksNear, StoredInPast,
             StampBeforeClocked, PredictionBeforeWorkload, Exists
<1>11. CASE Die
  <2>1. /\ pc' = "idle" /\ committed' = None /\ Quiet
        /\ UNCHANGED <<store, receipt>>
        /\ path' \in {path, [n \in Names |-> None]}
        /\ sidecar' \in {sidecar, [n \in Names |-> None]}
    BY <1>11 DEF Die, localVars
  <2>2. /\ path' \in [Names -> Records \cup {None}]
        /\ sidecar' \in [Names -> Sidecars \cup {None}]
    BY <2>1 DEF TypeOK
  <2>3. Progress'
    BY <2>1 DEF Progress, Committing
  <2> QED BY <1>2, <2>1, <2>2, <2>3
<1> QED BY <1>1, <1>3, <1>4, <1>7, <1>8, <1>9, <1>10, <1>11 DEF Commit

\* Somebody else's upload has the time at which it was made.
LEMMA ReplaceStep ==
    ASSUME IndInv, Replace
    PROVE  IndInv'
<1> USE DEF IndInv
<1>1. PICK name \in Names, wrong \in BOOLEAN :
         /\ Exists(<<name, "file">>) /\ Exists(<<name, "sidecar">>)
         /\ LET r == [id |-> MaxAttempts + 1, written_at |-> name,
                      follows |-> ~wrong]
            IN  \/ store' = [store EXCEPT ![<<name, "file">>] =
                                 [bytes |-> r, created |-> now]]
                \/ store' = [store EXCEPT
                      ![<<name, "file">>] = [bytes |-> r, created |-> now],
                      ![<<name, "sidecar">>] =
                          [bytes |-> sidecar_text(r), created |-> now]]
  BY DEF Replace
<1> DEFINE r == [id |-> MaxAttempts + 1, written_at |-> name, follows |-> ~wrong]
           file == [bytes |-> r, created |-> now]
           side == [bytes |-> sidecar_text(r), created |-> now]
<1>2. r \in Records
  <2>1. MaxAttempts + 1 \in 0..(MaxAttempts + 1) /\ (~wrong) \in BOOLEAN
    BY ConstantsAssumption
  <2> QED BY <2>1 DEF Records, Names
<1>3. sidecar_text(r) \in Sidecars
  BY <1>2, NameOfRecord
<1>4. file \in Objects /\ side \in Objects /\ file.created = now /\ side.created = now
  BY <1>2, <1>3 DEF Objects, TypeOK
<1>5. /\ store' \in {[store EXCEPT ![<<name, "file">>] = file],
                     [store EXCEPT ![<<name, "file">>] = file,
                                   ![<<name, "sidecar">>] = side]}
  BY <1>1
<1> HIDE DEF r, file, side
<1>6. /\ store' \in [Names \X Parts -> Objects \cup {None}]
      /\ \A key \in Names \X Parts : store'[key] \in {store[key], file, side}
  BY <1>4, <1>5 DEF TypeOK
<1>7. now \in Nat /\ \A key \in Names \X Parts : Exists(key) => store'[key] # None
  <2>1. file # None /\ side # None
    BY <1>4, NoneAssumption
  <2> QED BY <1>6, <2>1, ConstantsAssumption DEF Exists, TypeOK, Time
<1>8. UNCHANGED <<now, clock, pc, attempt, committed, path, sidecar, receipt,
                  workload, loaded>>
      /\ overwrites' = overwrites + 1 /\ overwrites < MaxOverwrites
  BY DEF Replace, localVars, readers
<1>9. StoredInPast'
  BY <1>4, <1>6, <1>7, <1>8 DEF StoredInPast, Exists
<1>10. overwrites' \in 0..MaxOverwrites
  BY <1>8, ConstantsAssumption DEF TypeOK
<1>11. TypeOK'
  BY <1>6, <1>8, <1>10 DEF TypeOK
<1>12. Progress'
  <2>1. pc \in Committing => prediction_filename(committed) \in Names
    BY NameOfRecord DEF Progress
  <2> QED BY <1>7, <1>8, <2>1 DEF Progress, Committing, Exists, Parts
<1> QED BY <1>8, <1>9, <1>11, <1>12 DEF ClocksNear, StampBeforeClocked,
           PredictionBeforeWorkload

LEMMA OtherSteps ==
    ASSUME IndInv, loaded = None,
           Tick \/ ReadyToClock \/ StartWorkload \/ FirstForward \/ LoadCommitted
    PROVE  IndInv'
<1> USE DEF IndInv
<1>1. CASE Tick
  <2>1. /\ now' = now + 1 /\ now < MaxTime /\ clock' \in Near(now + 1)
        /\ UNCHANGED <<pc, attempt, committed, path, sidecar, store, receipt,
                       workload, loaded, overwrites>>
    BY <1>1 DEF Tick, localVars, readers
  <2>2. now' \in Time /\ clock' \in Time /\ now \in Nat /\ now <= now'
    BY <2>1, ConstantsAssumption DEF Time, Near, TypeOK
  <2>3. TypeOK'
    BY <2>1, <2>2 DEF TypeOK
  <2>4. ClocksNear'
    BY <2>1 DEF ClocksNear, Near
  <2>5. StoredInPast'
    <3>1. \A key \in Names \X Parts : Exists(key) => store[key].created \in Nat
      BY ConstantsAssumption DEF TypeOK, Exists, Objects, Time
    <3> QED BY <3>1, <2>1, <2>2 DEF StoredInPast, Exists
  <2>6. StampBeforeClocked'
    <3>1. workload # None /\ workload.start # None => workload.start \in Nat
      BY DEF TypeOK, Time
    <3> QED BY <3>1, <2>1, <2>2, ConstantsAssumption DEF StampBeforeClocked
  <2>7. Progress' /\ PredictionBeforeWorkload'
    BY <2>1 DEF Progress, PredictionBeforeWorkload, Exists
  <2> QED BY <2>3, <2>4, <2>5, <2>6, <2>7
<1>2. CASE StartWorkload
  <2>1. /\ workload # None /\ workload.start = None
        /\ workload' = [workload EXCEPT !.start = clock]
        /\ UNCHANGED <<now, clock, pc, attempt, committed, path, sidecar, store,
                       receipt, loaded, overwrites>>
    BY <1>2 DEF StartWorkload, localVars
  <2>2. /\ workload' \in [start: Time \cup {None}, clocked: Time \cup {None},
                          held: Names \cup {None}]
        /\ workload'.start = clock /\ workload'.clocked = None
    BY <2>1 DEF TypeOK, StampBeforeClocked
  <2>3. TypeOK'
    BY <2>1, <2>2 DEF TypeOK
  <2>4. clock <= now + Skew
    BY ConstantsAssumption DEF ClocksNear, TypeOK, Time
  <2>5. StampBeforeClocked'
    BY <2>1, <2>2, <2>4 DEF StampBeforeClocked
  <2> QED BY <2>1, <2>3, <2>5 DEF ClocksNear, Progress, StoredInPast,
             PredictionBeforeWorkload, Exists
<1>5. CASE ReadyToClock
  <2>1. /\ workload' = [start |-> None, clocked |-> None,
                        held |-> IF Ready THEN receipt.name ELSE None]
        /\ UNCHANGED <<now, clock, pc, attempt, committed, path, sidecar, store,
                       receipt, loaded, overwrites>>
    BY <1>5 DEF ReadyToClock, localVars
  <2>2. workload' \in [start: Time \cup {None}, clocked: Time \cup {None},
                       held: Names \cup {None}]
    BY <2>1 DEF TypeOK, Ready
  <2>3. TypeOK'
    BY <2>1, <2>2 DEF TypeOK
  <2>4. StampBeforeClocked'
    BY <2>1 DEF StampBeforeClocked
  <2> QED BY <2>1, <2>3, <2>4 DEF ClocksNear, Progress, StoredInPast,
             PredictionBeforeWorkload, Exists
<1>3. CASE FirstForward
  <2>1. /\ workload # None /\ workload.start # None /\ workload.clocked = None
        /\ workload' = [workload EXCEPT !.clocked = now]
        /\ UNCHANGED <<now, clock, pc, attempt, committed, path, sidecar, store,
                       receipt, loaded, overwrites>>
    BY <1>3 DEF FirstForward, localVars
  <2>2. workload' \in [start: Time \cup {None}, clocked: Time \cup {None},
                       held: Names \cup {None}]
        /\ workload'.clocked = now /\ workload'.start = workload.start
    BY <2>1 DEF TypeOK
  <2>3. TypeOK'
    BY <2>1, <2>2 DEF TypeOK
  <2>4. StampBeforeClocked'
    BY <2>1, <2>2, ConstantsAssumption DEF StampBeforeClocked, TypeOK, Time
  <2> QED BY <2>1, <2>3, <2>4 DEF ClocksNear, Progress, StoredInPast,
             PredictionBeforeWorkload, Exists
<1>4. CASE LoadCommitted
  <2>1. PICK name \in Names, local \in BOOLEAN :
        /\ Exists(<<name, "file">>) /\ Exists(<<name, "sidecar">>)
        /\ loaded' = [name |-> name,
                      differs |-> local /\ path[name] # store[<<name, "file">>].bytes,
                      accepted |-> /\ local => path[name] = store[<<name, "file">>].bytes
                                   /\ VerifyBytes(name) /\ InTime(name),
                      bytes |-> store[<<name, "file">>].bytes,
                      created |-> Later(store[<<name, "file">>].created,
                                        store[<<name, "sidecar">>].created)]
    BY <1>4 DEF LoadCommitted
  <2>2. UNCHANGED <<now, clock, pc, attempt, committed, path, sidecar, store,
                    receipt, workload, overwrites>>
    BY <1>4 DEF LoadCommitted, localVars
  <2>3. loaded' \in [name: Names, differs: BOOLEAN, accepted: BOOLEAN,
                     bytes: Records \cup Sidecars, created: Time]
    <3>1. "file" \in Parts /\ "sidecar" \in Parts
      BY DEF Parts
    <3>2. store[<<name, "file">>] \in Objects /\ store[<<name, "sidecar">>] \in Objects
      BY <2>1, <3>1 DEF TypeOK, Exists
    <3>3. loaded'.differs \in BOOLEAN /\ loaded'.accepted \in BOOLEAN
      BY <2>1
    <3> QED BY <2>1, <3>2, <3>3 DEF Objects, Later
  <2>4. TypeOK'
    BY <2>2, <2>3 DEF TypeOK
  <2>5. PredictionBeforeWorkload'
    BY <1>4, LoadStep
  <2> QED BY <2>2, <2>4, <2>5 DEF ClocksNear, Progress, StoredInPast,
             StampBeforeClocked, Exists
<1> QED BY <1>1, <1>2, <1>3, <1>4, <1>5

LEMMA InitIndInv == Init => IndInv
<1> SUFFICES ASSUME Init PROVE IndInv
  OBVIOUS
<1>1. TypeOK
  BY ConstantsAssumption DEF Init, TypeOK, Near, Time
<1>2. ClocksNear
  BY ConstantsAssumption DEF Init, ClocksNear, Near, Time
<1> QED BY <1>1, <1>2 DEF Init, IndInv, Progress, Committing, StoredInPast,
           Exists, StampBeforeClocked, PredictionBeforeWorkload

THEOREM CommitInvariant == Spec => []IndInv
<1>1. IndInv /\ [Next]_vars => IndInv'
  <2> SUFFICES ASSUME IndInv, [Next]_vars PROVE IndInv'
    OBVIOUS
  <2>1. CASE Next
    BY <2>1, CommitStep, ReplaceStep, OtherSteps DEF Next
  <2>2. CASE UNCHANGED vars
    BY <2>2 DEF vars, localVars, readers, IndInv, TypeOK, ClocksNear, Progress,
       StoredInPast, Exists, StampBeforeClocked, PredictionBeforeWorkload
  <2> QED BY <2>1, <2>2
<1> QED BY <1>1, InitIndInv, PTL DEF Spec

\* K9: an accepted prediction was in the store before the first clocked
\* block, for every skew, guard, crash and replacement.
THEOREM PredictionFirst == Spec => []PredictionBeforeWorkload
<1>1. IndInv => PredictionBeforeWorkload
  BY DEF IndInv
<1> QED BY <1>1, CommitInvariant, PTL

\* The files, objects, receipts and stamps keep their shapes.
THEOREM CommitTypes == Spec => []TypeOK
<1>1. IndInv => TypeOK
  BY DEF IndInv
<1> QED BY <1>1, CommitInvariant, PTL

----------------------------------------------------------------------------
(***************************************************************************)
(* What a receipt and a hold are worth.  Until somebody replaces an object *)
(* the bucket only grows, so what was read back stays what is there.       *)
(***************************************************************************)
Untouched == overwrites = 0
OwnName == prediction_filename(committed)

\* The directory holds what is being committed, which was stamped by now
LocalIsRecord ==
    /\ pc \in Committing =>
           committed.follows /\ committed.written_at <= now + Skew
    /\ pc \in Committing \ {"write"} => path[OwnName] = committed
    /\ pc \in Committing \ {"write", "write_sidecar"} =>
           sidecar[OwnName] = sidecar_text(committed)

StatSees ==
    pc = "stat" /\ Untouched =>
        /\ store[<<OwnName, "file">>].bytes = committed
        /\ store[<<OwnName, "sidecar">>].bytes = sidecar_text(committed)

\* What is in the bucket was stamped before it was put there
StampedBeforePut ==
    \A n \in Names : Exists(<<n, "file">>) /\ Untouched =>
        store[<<n, "file">>].bytes.written_at <= store[<<n, "file">>].created + Skew

Stored(n) == Exists(<<n, "file">>) /\ Exists(<<n, "sidecar">>)

ReceiptHolds ==
    receipt # None /\ Untouched =>
        /\ Stored(receipt.name) /\ VerifyBytes(receipt.name)
        /\ receipt.synced_at = SyncedAt(receipt.name)
        /\ ReceiptStands

\* The stamp, or what it would be
StampOrNow == IF workload.start = None THEN clock ELSE workload.start

HeldStands ==
    workload # None /\ workload.held # None /\ Untouched =>
        /\ Stored(workload.held) /\ VerifyBytes(workload.held)
        /\ SyncedAt(workload.held) + Skew < StampOrNow

StandInv ==
    /\ LocalIsRecord /\ StatSees /\ StampedBeforePut
    /\ ReceiptHolds /\ HeldStands /\ HeldIsAccepted

\* Nothing but a replacement changes an object that is there.
Grows ==
    /\ UNCHANGED overwrites
    /\ \A key \in Names \X Parts : Exists(key) => store'[key] = store[key]

LEMMA CommitGrows ==
    ASSUME IndInv, Commit \/ Tick \/ ReadyToClock \/ StartWorkload \/ FirstForward \/ LoadCommitted
    PROVE  Grows
<1>1. CASE PutFile \/ PutSidecar
  <2>1. /\ pc \in Committing /\ UNCHANGED overwrites
        /\ \E part \in Parts : \E bytes : Put(<<OwnName, part>>, bytes)
    BY <1>1 DEF PutFile, PutSidecar, Committer, Committing, Quiet, Parts, OwnName
  <2>2. OwnName \in Names
    BY <2>1, NameOfRecord DEF IndInv, Progress, OwnName
  <2> QED BY <2>1, <2>2 DEF Put, Grows, IndInv, TypeOK
<1>2. CASE Tick \/ ReadyToClock \/ StartWorkload \/ FirstForward \/ LoadCommitted
  BY <1>2 DEF Tick, ReadyToClock, StartWorkload, FirstForward, LoadCommitted, Grows
<1>3. CASE BuildRecord \/ WriteFile \/ WriteSidecar \/ ReadBack \/ Receive \/ Die
  BY <1>3 DEF BuildRecord, WriteFile, WriteSidecar, ReadBack, Receive, Die, Quiet,
     Fails, Grows
<1> QED BY <1>1, <1>2, <1>3 DEF Commit

\* Where the bucket grows, what stands in it goes on standing.
LEMMA GrowsKeeps ==
    ASSUME Grows, NEW n \in Names, Stored(n), IndInv
    PROVE  /\ Stored(n)' /\ SyncedAt(n)' = SyncedAt(n)
           /\ VerifyBytes(n)' <=> VerifyBytes(n)
           /\ store'[<<n, "file">>] = store[<<n, "file">>]
           /\ store'[<<n, "sidecar">>] = store[<<n, "sidecar">>]
<1>1. <<n, "file">> \in Names \X Parts /\ <<n, "sidecar">> \in Names \X Parts
  BY DEF Parts
<1>2. /\ store'[<<n, "file">>] = store[<<n, "file">>]
      /\ store'[<<n, "sidecar">>] = store[<<n, "sidecar">>]
  BY <1>1 DEF Grows, Stored
<1> QED BY <1>2 DEF Stored, Exists, SyncedAt, created, VerifyBytes

LEMMA LocalStep ==
    ASSUME IndInv, IndInv', StandInv, loaded = None, Next
    PROVE  LocalIsRecord'
<1> USE DEF OwnName
<1>1. CASE BuildRecord
  <2>1. clock <= now + Skew /\ now' = now
    BY <1>1, ConstantsAssumption DEF IndInv, ClocksNear, TypeOK, Time, BuildRecord
  <2> QED BY <1>1, <2>1 DEF BuildRecord, LocalIsRecord, Committing
<1>2. CASE WriteFile
  <2>1. /\ committed \in Records /\ OwnName \in Names /\ UNCHANGED now
        /\ committed.follows /\ committed.written_at <= now + Skew
    BY <1>2, NameOfRecord DEF WriteFile, IndInv, Progress, Committing, StandInv,
       LocalIsRecord, Quiet
  <2>2. CASE pc' = "failed"
    BY <2>2 DEF LocalIsRecord, Committing
  <2>3. CASE pc' # "failed"
    <3>1. /\ path' = [path EXCEPT ![OwnName] = committed] /\ pc' = "write_sidecar"
          /\ UNCHANGED committed
      BY <1>2, <2>3 DEF WriteFile, Fails
    <3> QED BY <2>1, <3>1 DEF LocalIsRecord, Committing, IndInv, TypeOK
  <2> QED BY <2>2, <2>3
<1>3. CASE WriteSidecar
  <2>1. /\ OwnName \in Names /\ UNCHANGED <<now, committed, path>> /\ pc' = "put"
        /\ sidecar' = [sidecar EXCEPT ![OwnName] = sidecar_text(committed)]
        /\ committed.follows /\ committed.written_at <= now + Skew
        /\ path[OwnName] = committed
    BY <1>3, NameOfRecord DEF WriteSidecar, Committer, IndInv, Progress, Committing,
       StandInv, LocalIsRecord, Quiet
  <2> QED BY <2>1 DEF LocalIsRecord, Committing, IndInv, TypeOK
<1>4. CASE PutFile \/ PutSidecar \/ ReadBack
  BY <1>4 DEF PutFile, PutSidecar, ReadBack, Committer, Fails, Quiet, localVars,
     StandInv, LocalIsRecord, Committing
<1>5. CASE Receive \/ Die
  BY <1>5 DEF Receive, Die, Committer, LocalIsRecord, Committing
<1>6. CASE Tick
  <2>1. now \in Nat /\ now' = now + 1
    BY <1>6 DEF Tick, IndInv, TypeOK, Time
  <2>2. pc \in Committing => committed.written_at \in Nat
    BY DEF IndInv, Progress, Records, Time
  <2> QED BY <1>6, <2>1, <2>2, ConstantsAssumption DEF Tick, localVars, StandInv,
             LocalIsRecord
<1>7. CASE Replace \/ ReadyToClock \/ StartWorkload \/ FirstForward \/ LoadCommitted
  BY <1>7 DEF Replace, ReadyToClock, StartWorkload, FirstForward, LoadCommitted, localVars,
     StandInv, LocalIsRecord
<1> QED BY <1>1, <1>2, <1>3, <1>4, <1>5, <1>6, <1>7 DEF Next, Commit

LEMMA StatStep ==
    ASSUME IndInv, StandInv, loaded = None, Next
    PROVE  StatSees'
<1> USE DEF OwnName
<1>1. CASE ReadBack
  <2>1. path[OwnName] = committed /\ sidecar[OwnName] = sidecar_text(committed)
    BY <1>1 DEF ReadBack, StandInv, LocalIsRecord, Committing
  <2> QED BY <1>1, <2>1 DEF ReadBack, Fails, StatSees
<1>2. CASE BuildRecord \/ WriteFile \/ WriteSidecar \/ PutFile \/ PutSidecar \/ Receive \/ Die
  BY <1>2 DEF BuildRecord, WriteFile, WriteSidecar, PutFile, PutSidecar, Receive,
     Die, Committer, Fails, StatSees
<1>3. CASE Tick \/ ReadyToClock \/ StartWorkload \/ FirstForward \/ LoadCommitted
  BY <1>3 DEF Tick, ReadyToClock, StartWorkload, FirstForward, LoadCommitted, StandInv, StatSees,
     Untouched
<1>4. CASE Replace
  BY <1>4 DEF Replace, IndInv, TypeOK, StatSees, Untouched
<1> QED BY <1>1, <1>2, <1>3, <1>4 DEF Next, Commit

LEMMA StampedStep ==
    ASSUME IndInv, IndInv', StandInv, loaded = None, Next
    PROVE  StampedBeforePut'
<1> SUFFICES ASSUME NEW n \in Names, Exists(<<n, "file">>)', Untouched'
             PROVE  store'[<<n, "file">>].bytes.written_at
                        <= store'[<<n, "file">>].created + Skew
  BY DEF StampedBeforePut
<1> DEFINE key == <<n, "file">>
<1>1. key \in Names \X Parts
  BY DEF Parts
<1>2. ~Replace /\ Untouched
  BY CommitGrows DEF Replace, Grows, Untouched, IndInv, TypeOK, Next
<1>3. Grows
  BY <1>2, CommitGrows DEF Next
<1>4. CASE Exists(key)
  <2>1. store'[key] = store[key]
    BY <1>1, <1>3, <1>4 DEF Grows
  <2> QED BY <2>1, <1>2, <1>4 DEF StandInv, StampedBeforePut
<1>5. CASE ~Exists(key)
  <2>1. store' # store
    BY <1>5 DEF Exists
  <2>2. PutFile \/ PutSidecar
    BY <1>2, <2>1 DEF Next, Commit, BuildRecord, WriteFile, WriteSidecar, ReadBack,
       Receive, Die, Fails, Tick, ReadyToClock, StartWorkload, FirstForward, LoadCommitted
  <2>3. PutFile /\ OwnName = n
    BY <1>1, <1>5, <2>2 DEF PutFile, PutSidecar, Put, OwnName, Exists, IndInv, TypeOK
  <2>4. /\ path[n] = committed /\ committed.written_at <= now + Skew
        /\ Put(key, path[n])
    BY <2>3 DEF PutFile, Committer, OwnName, StandInv, LocalIsRecord, Committing
  <2>5. store'[key] = [bytes |-> committed, created |-> now]
    BY <1>1, <1>5, <2>4 DEF Put, IndInv, TypeOK
  <2> QED BY <2>4, <2>5
<1> QED BY <1>4, <1>5

\* The receipt is of what the bucket was seen to hold.
LEMMA ReceiptStep ==
    ASSUME IndInv, StandInv, loaded = None, Next
    PROVE  ReceiptHolds'
<1> SUFFICES ASSUME receipt' # None, Untouched'
             PROVE  /\ Stored(receipt.name)' /\ VerifyBytes(receipt.name)'
                    /\ (receipt.synced_at = SyncedAt(receipt.name))'
                    /\ ReceiptStands'
  BY DEF ReceiptHolds
<1>1. ~Replace /\ Untouched
  BY CommitGrows DEF Replace, Grows, Untouched, IndInv, TypeOK, Next
<1>2. CASE Receive
  <2>1. /\ pc = "stat" /\ UNCHANGED <<store, committed>>
        /\ receipt' = [name |-> OwnName, bytes |-> committed,
                       synced_at |-> SyncedAt(OwnName)]
    BY <1>2 DEF Receive, Committer, OwnName
  <2>2. /\ Stored(OwnName) /\ committed \in Records /\ committed.follows
        /\ store[<<OwnName, "file">>].bytes = committed
        /\ store[<<OwnName, "sidecar">>].bytes = sidecar_text(committed)
    BY <1>1, <2>1 DEF IndInv, Progress, Committing, Stored, OwnName, StandInv,
       StatSees, LocalIsRecord
  <2>3. VerifyBytes(OwnName)
    BY <2>2 DEF VerifyBytes, sidecar_text, OwnName
  <2>4. receipt'.name = OwnName /\ receipt'.bytes = committed
        /\ receipt'.synced_at = SyncedAt(OwnName)
    BY <2>1
  <2>5. Stored(receipt.name)' /\ VerifyBytes(receipt.name)'
    BY <2>1, <2>2, <2>3, <2>4 DEF Stored, Exists, VerifyBytes
  <2>6. (receipt.synced_at = SyncedAt(receipt.name))'
    BY <2>1, <2>4 DEF SyncedAt, created
  <2>7. ReceiptStands'
    BY <2>1, <2>2, <2>4 DEF ReceiptStands
  <2> QED BY <2>5, <2>6, <2>7
<1>3. CASE ~Receive
  <2>1. receipt' = receipt
    BY <1>1, <1>3 DEF Next, Commit, BuildRecord, WriteFile, WriteSidecar, PutFile,
       PutSidecar, ReadBack, Die, Fails, Tick, ReadyToClock, StartWorkload, FirstForward,
       LoadCommitted
  <2>2. Grows
    BY <1>1, CommitGrows DEF Next
  <2>3. /\ receipt.name \in Names /\ Stored(receipt.name) /\ VerifyBytes(receipt.name)
        /\ receipt.synced_at = SyncedAt(receipt.name) /\ ReceiptStands
    BY <1>1, <2>1 DEF StandInv, ReceiptHolds, IndInv, TypeOK
  <2> DEFINE n == receipt.name
  <2>4. /\ Stored(n)' /\ SyncedAt(n)' = SyncedAt(n) /\ VerifyBytes(n)'
        /\ store'[<<n, "file">>] = store[<<n, "file">>]
        /\ store'[<<n, "sidecar">>] = store[<<n, "sidecar">>]
    BY <2>1, <2>2, <2>3, GrowsKeeps
  <2> QED BY <1>1, <2>1, <2>3, <2>4 DEF ReceiptStands, Untouched
<1> QED BY <1>2, <1>3

\* A workload that held started past the time the analysis will read.
LEMMA HeldStep ==
    ASSUME IndInv, StandInv, loaded = None, Next
    PROVE  HeldStands'
<1> SUFFICES ASSUME workload' # None, workload'.held # None, Untouched'
             PROVE  /\ Stored(workload.held)' /\ VerifyBytes(workload.held)'
                    /\ (SyncedAt(workload.held) + Skew < StampOrNow)'
  BY DEF HeldStands
<1>1. ~Replace /\ Untouched
  BY CommitGrows DEF Replace, Grows, Untouched, IndInv, TypeOK, Next
<1>2. Grows
  BY <1>1, CommitGrows DEF Next
<1>3. CASE ReadyToClock
  <2>1. /\ workload' = [start |-> None, clocked |-> None,
                        held |-> IF Ready THEN receipt.name ELSE None]
        /\ UNCHANGED <<store, clock>>
    BY <1>3 DEF ReadyToClock
  <2>2. Ready /\ workload'.held = receipt.name /\ workload'.start = None
    BY <2>1
  <2>3. /\ receipt.name \in Names /\ Stored(receipt.name) /\ VerifyBytes(receipt.name)
        /\ receipt.synced_at = SyncedAt(receipt.name) /\ receipt.synced_at \in Nat
    BY <1>1, <2>2 DEF Ready, StandInv, ReceiptHolds, IndInv, TypeOK
  <2>4. SyncedAt(receipt.name) + Skew < clock
    BY <2>2, <2>3, ConstantsAssumption DEF Ready, release_at, IndInv, TypeOK, Time
  <2>5. StampOrNow' = clock
    BY <2>1, <2>2 DEF StampOrNow
  <2> QED BY <2>1, <2>2, <2>3, <2>4, <2>5 DEF Stored, Exists, VerifyBytes, SyncedAt, created
<1>4. CASE ~ReadyToClock
  <2>1. /\ workload # None /\ workload'.held = workload.held
        /\ StampOrNow \in Int /\ StampOrNow' \in Int /\ StampOrNow <= StampOrNow'
    <3>1. CASE FirstForward
      <4>1. /\ workload # None /\ workload.start # None /\ clock' = clock
            /\ workload'.held = workload.held /\ workload'.start = workload.start
        BY <3>1 DEF FirstForward, IndInv, TypeOK
      <4> QED BY <4>1 DEF StampOrNow, IndInv, TypeOK, Time
    <3>2. CASE StartWorkload
      <4>1. /\ workload # None /\ workload.start = None /\ clock \in Int
            /\ workload'.held = workload.held /\ workload'.start = clock
        BY <3>2 DEF StartWorkload, IndInv, TypeOK, Time
      <4> QED BY <4>1, ConstantsAssumption DEF StampOrNow
    <3>3. CASE ~FirstForward /\ ~StartWorkload
      <4>1. workload' = workload
        BY <1>1, <1>4, <3>3 DEF Next, Commit, BuildRecord, WriteFile, WriteSidecar,
           PutFile, PutSidecar, ReadBack, Receive, Die, Quiet, readers, Tick,
           LoadCommitted
      <4>2. clock' = clock \/ Tick
        BY <1>1, <1>4, <3>3 DEF Next, Commit, BuildRecord, WriteFile, WriteSidecar,
           PutFile, PutSidecar, ReadBack, Receive, Die, Quiet, LoadCommitted
      <4>3. clock \in Int /\ clock' \in Int /\ clock <= clock'
        BY <4>2 DEF Tick, Near, IndInv, TypeOK, Time
      <4> QED BY <4>1, <4>3 DEF StampOrNow, IndInv, TypeOK, Time
    <3> QED BY <3>1, <3>2, <3>3
  <2>2. /\ workload.held \in Names /\ Stored(workload.held) /\ VerifyBytes(workload.held)
        /\ SyncedAt(workload.held) + Skew < StampOrNow
    BY <1>1, <2>1 DEF StandInv, HeldStands, IndInv, TypeOK
  <2> DEFINE n == workload.held
  <2>3. Stored(n)' /\ SyncedAt(n)' = SyncedAt(n) /\ VerifyBytes(n)'
    BY <1>2, <2>1, <2>2, GrowsKeeps
  <2>4. SyncedAt(n) \in Int
    BY <2>2, CreatedBound DEF Stored, IndInv
  <2>5. SyncedAt(n) + Skew < StampOrNow'
    BY <2>1, <2>2, <2>4, ConstantsAssumption
  <2> QED BY <2>1, <2>2, <2>3, <2>5
<1> QED BY <1>3, <1>4

LEMMA AcceptedStep ==
    ASSUME IndInv, StandInv, loaded = None, Next
    PROVE  HeldIsAccepted'
<1>1. CASE LoadCommitted
  <2> SUFFICES ASSUME loaded' # None, loaded'.name = workload'.held, overwrites' = 0
               PROVE  loaded'.accepted \/ loaded'.differs
    BY DEF HeldIsAccepted
  <2>1. /\ workload # None /\ UNCHANGED <<workload, overwrites>>
    BY <1>1 DEF LoadCommitted
  <2>2. PICK name \in Names, local \in BOOLEAN :
         /\ Exists(<<name, "file">>) /\ Exists(<<name, "sidecar">>)
         /\ loaded' =
              [name |-> name,
               differs |-> local /\ path[name] # store[<<name, "file">>].bytes,
               accepted |-> /\ local => path[name] = store[<<name, "file">>].bytes
                            /\ VerifyBytes(name) /\ InTime(name),
               bytes |-> store[<<name, "file">>].bytes,
               created |-> Later(store[<<name, "file">>].created,
                                 store[<<name, "sidecar">>].created)]
    BY <1>1 DEF LoadCommitted
  <2>3. name = workload.held /\ workload.held # None
    BY <2>1, <2>2, ConstantsAssumption DEF Names, Time
  <2>4. VerifyBytes(name) /\ SyncedAt(name) + Skew < workload.start
    BY <1>1, <2>1, <2>3 DEF StandInv, HeldStands, Untouched, StampOrNow, LoadCommitted,
       IndInv, StampBeforeClocked
  <2>5. store[<<name, "file">>].bytes.written_at <= SyncedAt(name) + Skew
    <3> DEFINE file == store[<<name, "file">>]
               stamp == file.bytes.written_at
    <3>1. stamp <= file.created + Skew
      BY <2>1, <2>2 DEF StandInv, StampedBeforePut, Untouched
    <3>2. file.created \in Nat /\ SyncedAt(name) \in Nat /\ file.created < SyncedAt(name)
      <4>1. file \in Objects
        BY <2>2 DEF IndInv, TypeOK, Exists, Parts
      <4> QED BY <2>2, <4>1, CreatedBound, ConstantsAssumption DEF IndInv, Objects, Time
    <3>3. stamp \in Nat
      BY <2>4, ConstantsAssumption DEF VerifyBytes, prediction_filename, Names, Time
    <3> HIDE DEF file, stamp
    <3>4. stamp <= SyncedAt(name) + Skew
      BY <3>1, <3>2, <3>3, ConstantsAssumption
    <3> QED BY <3>4 DEF file, stamp
  <2> QED BY <2>2, <2>4, <2>5 DEF InTime
<1>2. CASE ~LoadCommitted
  <2>1. loaded' = None
    BY <1>2 DEF Next, Commit, BuildRecord, WriteFile, WriteSidecar, PutFile,
       PutSidecar, ReadBack, Receive, Die, Quiet, readers, Tick, Replace,
       ReadyToClock, StartWorkload, FirstForward
  <2> QED BY <2>1 DEF HeldIsAccepted
<1> QED BY <1>1, <1>2

THEOREM StandInvariant == Spec => []StandInv
<1>1. Init => StandInv
  <2> SUFFICES ASSUME Init PROVE StandInv
    OBVIOUS
  <2>1. LocalIsRecord /\ StatSees
    BY DEF Init, LocalIsRecord, StatSees, Committing
  <2>2. StampedBeforePut
    BY DEF Init, StampedBeforePut, Exists, Parts
  <2>3. ReceiptHolds /\ HeldStands /\ HeldIsAccepted
    BY DEF Init, ReceiptHolds, HeldStands, HeldIsAccepted
  <2> QED BY <2>1, <2>2, <2>3 DEF StandInv
<1>2. IndInv /\ IndInv' /\ StandInv /\ [Next]_vars => StandInv'
  <2> SUFFICES ASSUME IndInv, IndInv', StandInv, [Next]_vars PROVE StandInv'
    OBVIOUS
  <2>1. CASE Next
    BY <2>1, LocalStep, StatStep, StampedStep, ReceiptStep, HeldStep, AcceptedStep
       DEF StandInv, Next
  <2>2. CASE UNCHANGED vars
    BY <2>2 DEF vars, localVars, readers, StandInv, LocalIsRecord, OwnName, StatSees,
       StampedBeforePut, Untouched, Exists, Stored, VerifyBytes, ReceiptHolds,
       ReceiptStands, SyncedAt, created, HeldStands, StampOrNow, HeldIsAccepted
  <2> QED BY <2>1, <2>2
<1> QED BY <1>1, <1>2, CommitInvariant, PTL DEF Spec

\* A session that held never has its own prediction refused.
THEOREM HeldAccepted == Spec => []HeldIsAccepted
<1>1. StandInv => HeldIsAccepted
  BY DEF StandInv
<1> QED BY <1>1, StandInvariant, PTL

\* A receipt stands until somebody replaces an object.
THEOREM ReceiptsStand == Spec => []ReceiptStands
<1>1. StandInv => ReceiptStands
  BY DEF StandInv, ReceiptHolds, ReceiptStands, Untouched
<1> QED BY <1>1, StandInvariant, PTL
=============================================================================
