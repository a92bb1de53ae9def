-------------------------- MODULE PredictionCommit --------------------------
(***************************************************************************)
(* attnbench/predict/commit.py and session_order.py: the prediction file   *)
(* and its sha256 sidecar are written, uploaded and read back, the timed   *)
(* workload runs, and the analysis accepts or refuses the file.  Two       *)
(* clocks: `now` is the store's, `clock` the instance's, never more than   *)
(* Skew apart.  The committer can die at any point and start again; the    *)
(* workload is another process, and may or may not have waited (hold); an  *)
(* object of the bucket may be replaced by somebody else's later upload.   *)
(***************************************************************************)
EXTENDS Integers, FiniteSets

CONSTANTS
    MaxTime,        \* bound: the last tick of either clock
    Second,         \* ticks in the second gsutil prints whole
    Skew,           \* clock_skew: how far apart the two clocks may be
    Guard,          \* SYNC_WAIT_MARGIN_S, the margin of the hold
    MaxAttempts,    \* bound: predictions the committer may begin
    MaxOverwrites,  \* bound: objects replaced by another upload
    None

ASSUME ConstantsAssumption ==
    /\ MaxTime \in Nat /\ Second \in Nat \ {0}
    /\ Skew \in Nat /\ Guard \in Nat \ {0}
    /\ MaxAttempts \in Nat /\ MaxOverwrites \in Nat
    /\ None \notin Int

VARIABLES
    now, clock,   \* the store's clock and the instance's
    pc,           \* where the committer stands
    attempt,      \* how many predictions it has begun
    committed,    \* the record being committed, None before it is built
    path, sidecar,\* the local directory: a name -> what the file holds
    store,        \* the bucket: <<name, part>> -> [bytes, created] or None
    receipt,      \* the SyncReceipt, None before the sync returned
    workload,     \* [start, clocked, held]: the timed workload, or None
    loaded,       \* load_committed's verdict, None before
    overwrites    \* objects replaced so far

vars == <<now, clock, pc, attempt, committed, path, sidecar, store, receipt,
          workload, loaded, overwrites>>
localVars == <<path, sidecar>>
readers == <<workload, loaded>>

Time == 0..MaxTime
Names == Time                  \* prediction_filename: the pairing and the stamp
Parts == {"file", "sidecar"}

\* A record: which build made it, when it says it was written, and whether
\* verify_bytes finds it canonical, clean and following from its components
Records == [id: 0..(MaxAttempts + 1), written_at: Time, follows: BOOLEAN]
Sidecars == [digest: Records, name: Names]  \* sha256 as the content itself
Objects == [bytes: Records \cup Sidecars, created: Time]

ASSUME NoneAssumption == None \notin Objects

prediction_filename(r) == r.written_at
sidecar_text(r) == [digest |-> r, name |-> prediction_filename(r)]

Later(a, b) == IF a > b THEN a ELSE b

\* mutant: the whole seconds stat prints are taken as they are
createdTruncated(key) == (store[key].created \div Second) * Second

\* GsutilStore.created: stat prints whole seconds, so one is added
created(key) == (store[key].created \div Second) * Second + Second

Exists(key) == store[key] # None
SyncedAt(name) == Later(created(<<name, "file">>), created(<<name, "sidecar">>))

(***************************************************************************)
(* Time.  The instance's clock may be corrected in either direction.       *)
(***************************************************************************)
Near(t) == {c \in Time : c - t <= Skew /\ t - c <= Skew}

Tick ==
    /\ now < MaxTime
    /\ now' = now + 1
    /\ clock' \in {c \in Near(now + 1) : c >= clock}
    /\ UNCHANGED <<pc, attempt, committed, localVars, store, receipt, readers,
                   overwrites>>

(***************************************************************************)
(* The committer: build_record, write_prediction, sync_prediction.         *)
(***************************************************************************)
Committer(from, to) == pc = from /\ pc' = to
Quiet == UNCHANGED <<now, clock, attempt, readers, overwrites>>

Fails == pc' = "failed" /\ UNCHANGED <<committed, localVars, store, receipt>>

BuildRecord ==
    /\ pc \in {"idle", "synced"} /\ attempt < MaxAttempts
    /\ pc' = "write"
    /\ attempt' = attempt + 1
    /\ committed' = [id |-> attempt + 1, written_at |-> clock, follows |-> TRUE]
    /\ UNCHANGED <<now, clock, localVars, store, receipt, readers, overwrites>>

\* write_prediction: neither file is ever overwritten
WriteFile ==
    /\ pc = "write"
    /\ LET name == prediction_filename(committed)
       IN  IF path[name] # None \/ sidecar[name] # None
           THEN Fails
           ELSE /\ path' = [path EXCEPT ![name] = committed]
                /\ pc' = "write_sidecar"
                /\ UNCHANGED <<committed, sidecar, store, receipt>>
    /\ Quiet

WriteSidecar ==
    /\ Committer("write_sidecar", "put")
    /\ sidecar' = [sidecar EXCEPT ![prediction_filename(committed)] =
                                      sidecar_text(committed)]
    /\ UNCHANGED <<committed, path, store, receipt>>
    /\ Quiet

\* GsutilStore.put, cp -n: an object already there is left alone
Put(key, bytes) ==
    IF Exists(key) THEN UNCHANGED store
    ELSE store' = [store EXCEPT ![key] = [bytes |-> bytes, created |-> now]]

PutFile ==
    /\ Committer("put", "put_sidecar")
    /\ LET name == prediction_filename(committed)
       IN  Put(<<name, "file">>, path[name])
    /\ UNCHANGED <<committed, localVars, receipt>>
    /\ Quiet

PutSidecar ==
    /\ Committer("put_sidecar", "read_back")
    /\ LET name == prediction_filename(committed)
       IN  Put(<<name, "sidecar">>, sidecar[name])
    /\ UNCHANGED <<committed, localVars, receipt>>
    /\ Quiet

\* mutant: the upload is trusted, nothing is read back
ReadBackTrusts ==
    /\ Committer("read_back", "stat")
    /\ UNCHANGED <<committed, localVars, store, receipt>>
    /\ Quiet

\* Both are read back and compared with what was written
ReadBack ==
    /\ pc = "read_back"
    /\ LET name == prediction_filename(committed)
       IN  IF /\ store[<<name, "file">>].bytes = path[name]
              /\ store[<<name, "sidecar">>].bytes = sidecar[name]
           THEN pc' = "stat" /\ UNCHANGED <<committed, localVars, store, receipt>>
           ELSE Fails
    /\ Quiet

\* The receipt: the later of the two creation times, by the store
Receive ==
    /\ Committer("stat", "synced")
    /\ LET name == prediction_filename(committed)
       IN  receipt' = [name |-> name, bytes |-> committed,
                       synced_at |-> SyncedAt(name)]
    /\ UNCHANGED <<committed, localVars, store>>
    /\ Quiet

\* A command of gsutil fails, its effect on the bucket done or not; or the
\* process dies.  Whoever runs it next begins a new prediction, in the same
\* directory or, the old one kept aside, in an empty one.
Die ==
    /\ pc \notin {"idle", "synced"}
    /\ pc' = "idle"
    /\ committed' = None
    /\ \/ UNCHANGED localVars
       \/ path' = [n \in Names |-> None] /\ sidecar' = [n \in Names |-> None]
    /\ UNCHANGED <<store, receipt>>
    /\ Quiet

(***************************************************************************)
(* Outside: another upload of the object, a new generation of it.          *)
(***************************************************************************)
Replace ==
    /\ overwrites < MaxOverwrites
    /\ overwrites' = overwrites + 1
    /\ \E name \in Names, wrong \in BOOLEAN :
         /\ Exists(<<name, "file">>) /\ Exists(<<name, "sidecar">>)
         /\ LET r == [id |-> MaxAttempts + 1, written_at |-> name,
                      follows |-> ~wrong]
            IN  \/ /\ ~wrong     \* alone, its sidecar refuses it anyway
                   /\ store' = [store EXCEPT ![<<name, "file">>] =
                                    [bytes |-> r, created |-> now]]
                \/ store' = [store EXCEPT
                      ![<<name, "file">>] = [bytes |-> r, created |-> now],
                      ![<<name, "sidecar">>] =
                          [bytes |-> sidecar_text(r), created |-> now]]
    /\ UNCHANGED <<now, clock, pc, attempt, committed, localVars, receipt,
                   readers>>

(***************************************************************************)
(* The timed workload and session_order's hold.  `start` is the stamp the  *)
(* analysis is given, the instance's; `clocked` is the same moment by the  *)
(* store's clock, which nobody reads.                                      *)
(***************************************************************************)
release_at == receipt.synced_at + Skew + Guard

\* mutant: the hold waits for the sync time itself
ReadyUnheld == receipt # None /\ clock >= receipt.synced_at

Ready == receipt # None /\ clock >= release_at

\* One reading of the instance's clock is for the hold, if there was one
ReadyToClock ==
    /\ workload = None
    /\ workload' = [start |-> None, clocked |-> None,
                    held |-> IF Ready THEN receipt.name ELSE None]
    /\ UNCHANGED <<now, clock, pc, attempt, committed, localVars, store,
                   receipt, loaded, overwrites>>

\* and another, later one is the stamp, before the first forward of any kind
StartWorkload ==
    /\ workload # None /\ workload.start = None
    /\ workload' = [workload EXCEPT !.start = clock]
    /\ UNCHANGED <<now, clock, pc, attempt, committed, localVars, store,
                   receipt, loaded, overwrites>>

FirstForward ==
    /\ workload # None /\ workload.start # None /\ workload.clocked = None
    /\ workload' = [workload EXCEPT !.clocked = now]
    /\ UNCHANGED <<now, clock, pc, attempt, committed, localVars, store,
                   receipt, loaded, overwrites>>

(***************************************************************************)
(* The analysis: verify_bytes and load_committed of one remote name.       *)
(***************************************************************************)
VerifyBytes(name) ==
    LET data == store[<<name, "file">>].bytes
        side == store[<<name, "sidecar">>].bytes
    IN  /\ side.digest = data /\ side.name = name
        /\ data.follows
        /\ prediction_filename(data) = name

InTime(name) ==
    /\ SyncedAt(name) + Skew < workload.start
    /\ store[<<name, "file">>].bytes.written_at <= SyncedAt(name) + Skew

\* `local` says that the caller names its own copy, which must be the same
LoadCommitted ==
    /\ workload # None /\ workload.clocked # None
    /\ \E name \in Names, local \in BOOLEAN :
         /\ Exists(<<name, "file">>) /\ Exists(<<name, "sidecar">>)
         /\ loaded' =
              [name |-> name,
               differs |-> local /\ path[name] # store[<<name, "file">>].bytes,
               accepted |-> /\ local => path[name] = store[<<name, "file">>].bytes
                            /\ VerifyBytes(name) /\ InTime(name),
               bytes |-> store[<<name, "file">>].bytes,
               created |-> Later(store[<<name, "file">>].created,
                                 store[<<name, "sidecar">>].created)]
    /\ UNCHANGED <<now, clock, pc, attempt, committed, localVars, store,
                   receipt, workload, overwrites>>

Init ==
    /\ now = 0 /\ clock \in Near(0)
    /\ pc = "idle" /\ attempt = 0 /\ committed = None
    /\ path = [n \in Names |-> None] /\ sidecar = [n \in Names |-> None]
    /\ store = [key \in Names \X Parts |-> None]
    /\ receipt = None /\ workload = None /\ loaded = None
    /\ overwrites = 0

Commit ==
    \/ BuildRecord \/ WriteFile \/ WriteSidecar
    \/ PutFile \/ PutSidecar \/ ReadBack \/ Receive
    \/ Die

\* The analysis is the last thing that happens
Next ==
    /\ loaded = None
    /\ \/ Tick \/ Commit \/ Replace
       \/ ReadyToClock \/ StartWorkload \/ FirstForward
       \/ LoadCommitted

Spec == Init /\ [][Next]_vars

(***************************************************************************)
(* Properties.                                                             *)
(***************************************************************************)
\* Every variable keeps the shape the code gives it.
TypeOK ==
    /\ now \in Time /\ clock \in Time /\ attempt \in 0..MaxAttempts
    /\ pc \in {"idle", "write", "write_sidecar", "put", "put_sidecar",
               "read_back", "stat", "synced", "failed"}
    /\ committed \in Records \cup {None}
    /\ path \in [Names -> Records \cup {None}]
    /\ sidecar \in [Names -> Sidecars \cup {None}]
    /\ store \in [Names \X Parts -> Objects \cup {None}]
    /\ receipt \in [name: Names, bytes: Records, synced_at: Nat] \cup {None}
    /\ workload \in [start: Time \cup {None}, clocked: Time \cup {None},
                  held: Names \cup {None}]
                        \cup {None}
    /\ loaded \in [name: Names, differs: BOOLEAN, accepted: BOOLEAN,
                   bytes: Records \cup Sidecars, created: Time] \cup {None}
    /\ overwrites \in 0..MaxOverwrites

\* K9, "the analysis refuses any prediction stamped later": whatever the
\* clocks, the crashes, the uploads and the moment the workload started, an
\* accepted prediction was in the store, file and sidecar, before the first
\* clocked block ran.
PredictionBeforeWorkload ==
    loaded # None /\ loaded.accepted => loaded.created < workload.clocked

\* A session that held never has its own prediction refused: the hold's
\* release, by the instance's clock and the receipt, is strictly past what
\* the analysis reads again from the store.  Only a local copy that is gone,
\* or another's, can be in the way.
HeldIsAccepted ==
    loaded # None /\ loaded.name = workload.held /\ overwrites = 0 =>
        loaded.accepted \/ loaded.differs

\* A receipt stands: until somebody replaces an object, the store holds the
\* record the receipt names, under a sidecar that matches it.
ReceiptStands ==
    receipt # None /\ overwrites = 0 =>
        /\ store[<<receipt.name, "file">>].bytes = receipt.bytes
        /\ store[<<receipt.name, "sidecar">>].bytes = sidecar_text(receipt.bytes)
=============================================================================
