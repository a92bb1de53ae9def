------------------------------ MODULE H100Gate ------------------------------
(***************************************************************************)
(* scripts/gcp_h100_gate_retry.sh: rounds of the launcher (FlexRequest)    *)
(* until an H100 is granted, the gate on that VM with every step synced by *)
(* scripts/run_phase.sh, and scripts/gcp_teardown_session.sh, which must   *)
(* not delete the only copy of anything.  The VM, its SSH and its clocks   *)
(* go on beside the scripts.                                               *)
(***************************************************************************)
EXTENDS FlexRequest

CONSTANTS
    MaxRounds,  \* H100_MAX_ROUNDS
    NumSteps,   \* the gate session's steps, the halt step last
    Spot,       \* H100_SPOT, and the cap buys the gate's minutes
    MaxReruns   \* bound: re-runs of the teardown by hand

ASSUME GateAssumption ==
    /\ MaxRounds \in Nat /\ NumSteps \in Nat \ {0}
    /\ Spot \in BOOLEAN /\ MaxReruns \in Nat

VARIABLES
    at,       \* where the loop, its gate or a teardown stands
    round,
    work,     \* the session on the VM: none, a step, its sync, or ended
    results,  \* steps whose results are on the VM's disk
    good,     \* no step has failed
    bucket,   \* steps whose results are in the bucket
    found,    \* the teardown's zone check found the VM
    synced,   \* BUCKET_SYNC
    logs,     \* HOME_LOGS
    saw,      \* the results on the disk at the teardown's sync
    reasons,  \* TEARDOWN_DELETE_WITHOUT_..., as the teardown was given them
    said,     \* the reasons this teardown put on record
    reruns

onVM == <<work, results, good, bucket>>
judged == <<found, synced, logs, saw, said>>
given == <<reasons, reruns>>
gateVars == <<flexVars, at, round, onVM, judged, given>>

Up == server[zone] = "RUNNING"

(***************************************************************************)
(* The rounds.                                                             *)
(***************************************************************************)
\* A launcher is a process of its own: what it held goes with it
Gone ==
    /\ waited' = 0 /\ unknown' = 0 /\ seen' = FALSE
    /\ live' = FALSE /\ why' = "none" /\ tries' = 0 /\ ret' = "done"

StartWalk(model) ==
    /\ at' = model
    /\ pc' = "zone" /\ zone' = 1 /\ code' = 0

\* Skipped while the list cannot be read or names a VM of any session
Round ==
    /\ at = "round"
    /\ round' = round + 1
    /\ \/ round' > MaxRounds /\ at' = "over" /\ UNCHANGED <<pc, zone, code>>
       \/ round' <= MaxRounds /\ UNCHANGED <<at, pc, zone, code>>
       \/ /\ round' <= MaxRounds
          /\ \A z \in Zones : server[z] \notin Visible
          /\ StartWalk("flex")
    /\ UNCHANGED <<outside, waiting, live, why, cancelling, interrupts, unwatched,
                   onVM, judged, given>>

\* The launcher's exit status decides: a VM, no capacity anywhere, or stop
WalkEnded ==
    /\ at \in {"flex", "spot"} /\ pc = "done"
    /\ Gone
    /\ \/ code = 0 /\ at' = "granted" /\ UNCHANGED <<pc, zone, code>>
       \/ code = 4 /\ at = "flex" /\ Spot /\ StartWalk("spot")
       \/ /\ code = 4 /\ ~(at = "flex" /\ Spot)
          /\ at' = "round" /\ UNCHANGED <<pc, zone, code>>
       \/ code \notin {0, 4} /\ at' = "over" /\ UNCHANGED <<pc, zone, code>>
    /\ UNCHANGED <<outside, interrupts, unwatched, round, onVM, judged, given>>

\* trap teardown EXIT
TrapInstalled ==
    /\ at = "granted"
    /\ at' = "prepare"
    /\ UNCHANGED <<flexVars, round, onVM, judged, given>>

(***************************************************************************)
(* The gate.                                                               *)
(***************************************************************************)
\* teardown(): only a gate that ended with 0 is given the excuse
TearDown(rc) ==
    /\ at' = "check"
    /\ reasons' = IF rc = 0 THEN {"logs"} ELSE {}

\* SSH, the write gate, deploy, preflight, bootstrap: any may fail
Prepare ==
    /\ at = "prepare"
    /\ \/ Up /\ at' = "gate" /\ work' = "step" /\ UNCHANGED reasons
       \/ TearDown(1) /\ UNCHANGED work
    /\ UNCHANGED <<flexVars, round, results, good, bucket, judged, reruns>>

\* t64_session.py run --gate-only: a step writes its result, passed or failed
RunStep ==
    /\ work = "step" /\ Up
    /\ results' = results + 1
    /\ good' \in {good, FALSE}
    /\ work' = "sync"
    /\ UNCHANGED <<flexVars, at, round, bucket, judged, given>>

\* rsync -r results: all of it, or what it came to before it failed
Copied(all) ==
    IF all THEN bucket' = 1..results
    ELSE \E some \in SUBSET (1..results) : bucket' = bucket \cup some

\* run_phase.sh's exit trap: its failure does not change the phase's status
SyncStep ==
    /\ work = "sync" /\ Up
    /\ \E all \in BOOLEAN : Copied(all)
    /\ work' = IF good /\ results < NumSteps THEN "step" ELSE "ended"
    /\ UNCHANGED <<flexVars, at, round, results, good, judged, given>>

GateEnded ==
    /\ at = "gate" /\ work = "ended" /\ Up
    /\ TearDown(IF good THEN 0 ELSE 1)
    /\ UNCHANGED <<flexVars, round, onVM, judged, reruns>>

\* The VM is gone or stopped under the connection
GateLost ==
    /\ at = "gate" /\ ~Up
    /\ TearDown(255)
    /\ UNCHANGED <<flexVars, round, onVM, judged, reruns>>

\* The connection drops alone: the session on the VM goes on, or dies of it
Dropped ==
    /\ at = "gate" /\ Up
    /\ TearDown(255)
    /\ \/ UNCHANGED <<work, good>>
       \/ work' = "ended" /\ good' = FALSE
    /\ UNCHANGED <<flexVars, round, results, bucket, judged, reruns>>

(***************************************************************************)
(* gcp_teardown_session.sh.                                                *)
(***************************************************************************)
\* An instance that neither call can name is taken to be gone
Check ==
    /\ at = "check"
    /\ \/ found' = TRUE /\ server[zone] \in Visible
       \/ found' = FALSE
    /\ at' = "sync" /\ said' = {}
    /\ UNCHANGED <<flexVars, round, onVM, synced, logs, saw, given>>

\* run_phase.sh --sync-only over SSH; with no answer it may still have run
Sync ==
    /\ at = "sync"
    /\ saw' = 1..results
    /\ \/ ~found /\ synced' = "no instance" /\ UNCHANGED bucket
       \/ found /\ Up /\ synced' = "synced" /\ Copied(TRUE)
       \/ found /\ Up /\ synced' \in {"failed", "no ssh"} /\ Copied(FALSE)
       \/ found /\ ~Up /\ synced' = "no ssh" /\ UNCHANGED bucket
    /\ at' = "logs"
    /\ UNCHANGED <<flexVars, round, work, results, good, found, logs, said, given>>

HomeLogs ==
    /\ at = "logs"
    /\ \/ ~found /\ logs' = "no instance"
       \/ found /\ logs' = "missing"
       \/ found /\ Up /\ logs' = "pulled"
    /\ at' = "delete"
    /\ UNCHANGED <<flexVars, round, onVM, found, synced, saw, said, given>>

\* mutant: only a sync that could not run is held against the delete
UnsyncedNoSsh == synced = "no ssh" /\ "logs" \notin reasons

\* A sync that ran and failed needs its own reason; one that could not run
\* goes with the reason given for the home logs
Unsynced == synced = "failed" \/ (synced = "no ssh" /\ "logs" \notin reasons)

\* Each reason goes on record as its check is passed; the first check that
\* has none refuses the delete
Refuse ==
    /\ at = "delete"
    /\ \/ Unsynced /\ "sync" \notin reasons /\ said' = said
       \/ /\ Unsynced => "sync" \in reasons
          /\ logs = "missing" /\ "logs" \notin reasons
          /\ said' = IF Unsynced THEN {"sync"} ELSE {}
    /\ at' = "refused"
    /\ UNCHANGED <<flexVars, round, onVM, found, synced, logs, saw, given>>

\* The call itself may fail
DeleteVM ==
    /\ at = "delete"
    /\ Unsynced => "sync" \in reasons
    /\ logs = "missing" => "logs" \in reasons
    /\ said' = (IF Unsynced THEN {"sync"} ELSE {})
               \cup (IF logs = "missing" THEN {"logs"} ELSE {})
    /\ \/ Moves(zone, Visible, "STOPPING")
       \/ UNCHANGED server
    /\ at' = "torn"
    /\ UNCHANGED <<day, pc, zone, waiting, live, why, cancelling, ending, round,
                   onVM, found, synced, logs, saw, given>>

\* By hand, with whatever reasons the operator gives
Rerun ==
    /\ at \in {"refused", "torn"} /\ reruns < MaxReruns
    /\ at' = "check" /\ reruns' = reruns + 1
    /\ reasons' \in SUBSET {"sync", "logs"}
    /\ UNCHANGED <<flexVars, round, onVM, judged>>

(***************************************************************************)
(* Ctrl-C, or a closed terminal: the signal reaches the loop, the launcher *)
(* and the pipes between them.                                             *)
(***************************************************************************)
\* The launcher's exit trap prints before it cancels, and its output pipe may
\* be gone
CutShort ==
    /\ at \in {"flex", "spot"} /\ pc = "trap" /\ live /\ code = 130
    /\ pc' = "done" /\ code' = 141 /\ unwatched' = TRUE
    /\ UNCHANGED <<outside, zone, waiting, live, why, cancelling, interrupts, at,
                   round, onVM, judged, given>>

\* $? in an exit trap that a signal set off is the status of the command that
\* ended last, often 0; the step under way is one that had not ended
Statuses130 == {0, 130}

InterruptLoop ==
    /\ interrupts < MaxInterrupts /\ interrupts' = interrupts + 1
    /\ \/ /\ at \in {"round", "granted", "check", "sync", "logs", "delete"}
          /\ at' = "over" /\ UNCHANGED reasons
       \/ /\ at \in {"prepare", "gate"}
          /\ \E rc \in Statuses130 : TearDown(rc)
    /\ UNCHANGED <<outside, pc, zone, waiting, live, why, cancelling, code,
                   unwatched, round, onVM, judged, reruns>>

(***************************************************************************)
(* The whole.                                                              *)
(***************************************************************************)
Walking == at \in {"flex", "spot"}

Launch == Walking /\ Launcher /\ UNCHANGED <<at, round, onVM, judged, given>>

InterruptLauncher ==
    Walking /\ Interrupt /\ UNCHANGED <<at, round, onVM, judged, given>>

\* Only a launcher reads the date
Cloud ==
    /\ Server \/ (Walking /\ Midnight)
    /\ UNCHANGED <<at, round, onVM, judged, given>>

Script ==
    \/ Launch \/ Round \/ WalkEnded \/ TrapInstalled
    \/ Prepare \/ GateEnded \/ GateLost
    \/ Check \/ Sync \/ HomeLogs \/ Refuse \/ DeleteVM

Init ==
    /\ FlexInit
    /\ at = "round" /\ round = 0
    /\ work = "none" /\ results = 0 /\ good = TRUE /\ bucket = {}
    /\ found = FALSE /\ synced = "none" /\ logs = "none" /\ saw = {}
    /\ reasons = {} /\ said = {} /\ reruns = 0

Next ==
    \/ Script \/ Cloud
    \/ RunStep \/ SyncStep \/ Dropped
    \/ CutShort \/ InterruptLauncher \/ InterruptLoop \/ Rerun

Spec == Init /\ [][Next]_gateVars

\* --request-valid-for-duration ends a wait and --max-run-duration a VM,
\* whatever the scripts do; a create call ends
ServerClock ==
    \E z \in Zones :
        \/ Appear(z) \/ Moves(z, {"sent"}, "accepted") \/ Moves(z, {"sent"}, "none")
        \/ Moves(z, Visible \ {"STOPPING"}, "STOPPING")
        \/ Moves(z, {"STOPPING"}, "none")

Clocks ==
    /\ ServerClock
    /\ UNCHANGED <<day, pc, zone, waiting, live, why, cancelling, ending, at, round,
                   onVM, judged, given>>

\* The Mac stays awake, the VM runs its session, Compute Engine keeps its
\* clocks; nobody re-runs anything
FairSpec ==
    Spec /\ WF_gateVars(Script) /\ WF_gateVars(RunStep \/ SyncStep) /\ WF_gateVars(Clocks)

(***************************************************************************)
(* Properties.                                                             *)
(***************************************************************************)
\* A teardown that saw the instance deletes it only when what was on its disk
\* at the last sync is in the bucket or it was given a reason to go without,
\* and a failed sync or a log left behind has its reason on record, whatever
\* failed on the way and whoever re-ran it.
SavedOrExcused ==
    [][at = "delete" /\ at' = "torn" /\ found =>
        /\ saw \subseteq bucket \/ reasons # {}
        /\ synced = "failed" => "sync" \in said'
        /\ logs = "pulled" \/ "logs" \in said']_gateVars

\* The loop comes to an end and in the end nothing bills, however the walk,
\* the gate and the teardown went: refused, cut short or never run.
Ends ==
    <>[](at \in {"over", "refused", "torn"} /\ \A z \in Zones : server[z] = "none")
=============================================================================
