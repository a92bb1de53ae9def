---------------------------- MODULE FlexRequest ----------------------------
(***************************************************************************)
(* scripts/_flex_request.sh and scripts/gcp_launch_h100.sh: a flex-start   *)
(* request for an instance is submitted without waiting, polled in bounded *)
(* calls, cancelled at a deadline, and the next zone is tried once the     *)
(* cancel is confirmed.  The server answers late, or not at all; the       *)
(* script can be interrupted at any point.                                 *)
(***************************************************************************)
EXTENDS Integers

CONSTANTS
    NumZones,      \* GCP_ZONE_FALLBACKS, tried in order
    Grace,         \* FLEX_GRACE_SECONDS, in polls
    CancelAfter,   \* GCP_CANCEL_AFTER_SECONDS, in polls
    UnknownLimit,  \* FLEX_UNKNOWN_LIMIT
    ConfirmLimit,  \* FLEX_CONFIRM_SECONDS, in looks
    LastDay,       \* LAST_GCP_LAUNCH_DATE
    MaxDay,        \* bound: days that pass
    MaxInterrupts  \* bound: Ctrl-C, SIGTERM, SIGHUP

\* The launcher refuses a deadline under 120 s; the grace is 90 s, three
\* polls, and six unreadable ones are tolerated
ASSUME FlexAssumption ==
    /\ NumZones \in Nat \ {0}
    /\ Grace \in Nat /\ CancelAfter \in Nat /\ Grace <= CancelAfter
    /\ UnknownLimit \in Nat /\ Grace < UnknownLimit /\ ConfirmLimit \in Nat
    /\ LastDay \in Nat /\ MaxDay \in Nat /\ MaxInterrupts \in Nat

Zones == 1..NumZones

VARIABLES
    server,     \* per zone, the instance of this name and its status
    day,        \* the date in India
    pc,         \* where the launcher stands
    zone,       \* the zone being tried
    waited,     \* FLEX_WAITED, in polls
    unknown,    \* unreadable polls in a row
    seen,       \* seen_live: the request was once PENDING
    live,       \* FLEX_LIVE: a request may exist
    why,        \* what ended the submit or the wait (FLEX_OUTCOME)
    tries,      \* looks of the cancel under way
    ret,        \* where the cancel returns to
    code,       \* the exit status
    interrupts,
    unwatched   \* left while a request was not visible yet, a cancel cut
                \* short, or a VM just granted left by a signal

outside == <<server, day>>
waiting == <<waited, unknown, seen>>
cancelling == <<tries, ret>>
ending == <<code, interrupts, unwatched>>
flexVars == <<outside, pc, zone, waiting, live, why, cancelling, ending>>

\* The create call under way, and the request accepted but not visible yet.
\* STOPPING stands for STOPPING, STOPPED and TERMINATED; PROVISIONING for
\* STAGING too
Unseen == {"sent", "accepted"}
Visible == {"PENDING", "PROVISIONING", "RUNNING", "STOPPING", "SUSPENDED"}
Statuses == {"none"} \cup Unseen \cup Visible

(***************************************************************************)
(* Compute Engine.  Any time passes between its steps.                     *)
(***************************************************************************)
Moves(z, from, to) ==
    /\ server[z] \in from
    /\ server' = [server EXCEPT ![z] = to]

\* An accepted request becomes visible, or ends before it does
Appear(z) == Moves(z, {"accepted"}, "PENDING") \/ Moves(z, {"accepted"}, "none")

Serve(z) ==
    \/ Moves(z, {"sent"}, "accepted") \/ Moves(z, {"sent"}, "none")
    \/ Appear(z)
    \/ Moves(z, {"PENDING"}, "PROVISIONING")
    \/ Moves(z, {"PROVISIONING"}, "RUNNING")
    \/ Moves(z, {"PENDING", "PROVISIONING", "RUNNING", "SUSPENDED"}, "STOPPING")
    \/ Moves(z, {"PENDING"}, "SUSPENDED")
    \/ Moves(z, {"PENDING", "STOPPING"}, "none")  \* the window, or deleted

Server ==
    /\ \E z \in Zones : Serve(z)
    /\ UNCHANGED <<day, pc, zone, waiting, live, why, cancelling, ending>>

Midnight ==
    /\ day < MaxDay /\ day' = day + 1
    /\ UNCHANGED <<server, pc, zone, waiting, live, why, cancelling, ending>>

\* flex_status: a call that failed or was killed says nothing
Answers(z) ==
    {"UNKNOWN"} \cup (IF server[z] \in Visible THEN {server[z]} ELSE {"NOT_FOUND"})

(***************************************************************************)
(* The launcher's loop over the zones.                                     *)
(***************************************************************************)
Exit(c) == pc' = "trap" /\ code' = c

TryNext == pc' = "zone" /\ zone' = zone + 1 /\ UNCHANGED code

\* launch_policy_check, before each submit
Submit ==
    /\ pc = "zone" /\ zone \in Zones
    /\ IF day > LastDay
       THEN Exit(1) /\ UNCHANGED <<server, live>>
       ELSE /\ server' = [server EXCEPT ![zone] = "sent"]
            /\ live' = TRUE
            /\ pc' = "submit" /\ UNCHANGED code
    /\ UNCHANGED <<day, zone, waiting, why, cancelling, interrupts, unwatched>>

NoZoneLeft ==
    /\ pc = "zone" /\ zone \notin Zones
    /\ Exit(4)
    /\ UNCHANGED <<outside, zone, waiting, live, why, cancelling, interrupts,
                   unwatched>>

\* --async returns once the request is accepted
SubmitAccepted ==
    /\ pc = "submit" /\ server[zone] # "sent"
    /\ pc' = "wait"
    /\ waited' = 0 /\ unknown' = 0 /\ seen' = FALSE
    /\ UNCHANGED <<outside, zone, live, why, cancelling, ending>>

\* Refused; or the call failed or was killed, whatever the server did
SubmitFailed ==
    /\ pc = "submit"
    /\ \/ why' = "capacity" /\ server[zone] = "none"
       \/ why' \in {"timeout", "rejected"}
    /\ pc' = "look"
    /\ unwatched' = (unwatched \/ server[zone] \in Unseen)
    /\ UNCHANGED <<outside, zone, waiting, live, cancelling, code, interrupts>>

Cancel(reason, back) ==
    /\ pc' = "delete" /\ why' = reason /\ ret' = back /\ tries' = 0

\* After a failed submit, only "not found" says that nothing exists
LookAfterSubmit ==
    /\ pc = "look"
    /\ \E status \in Answers(zone) :
         IF status = "NOT_FOUND"
         THEN live' = FALSE /\ pc' = "submitted" /\ UNCHANGED <<why, cancelling>>
         ELSE Cancel(why, "submitted") /\ UNCHANGED live
    /\ UNCHANGED <<outside, zone, waiting, ending>>

AfterFailedSubmit ==
    /\ pc = "submitted"
    /\ IF why = "capacity" THEN TryNext ELSE Exit(1) /\ UNCHANGED zone
    /\ UNCHANGED <<outside, waiting, live, why, cancelling, interrupts, unwatched>>

(***************************************************************************)
(* flex_wait.                                                              *)
(***************************************************************************)
\* What the script assumes of Compute Engine: an accepted request is visible
\* when the grace has passed
VisibleByGrace == waited >= Grace => server[zone] # "accepted"

\* The client's deadline is looked at after every poll that ends nothing
Deadline ==
    IF waited >= CancelAfter
    THEN Cancel("cancelled", "attempted") /\ UNCHANGED waited
    ELSE waited' = waited + 1 /\ UNCHANGED <<pc, why, cancelling>>

\* mutant: not found is taken as ended at once
EndedAtOnce == TRUE

\* A request once seen, or past its grace, that is not found has ended
Ended == seen \/ waited >= Grace

Polled(status) ==
    \/ /\ status \in {"RUNNING", "PROVISIONING"}
       /\ live' = FALSE /\ pc' = "granted"
       /\ UNCHANGED <<waiting, why, cancelling>>
    \/ /\ status = "PENDING"
       /\ seen' = TRUE /\ unknown' = 0
       /\ Deadline /\ UNCHANGED live
    \/ /\ status = "NOT_FOUND" /\ Ended
       /\ live' = FALSE /\ pc' = "attempted" /\ why' = "expired"
       /\ UNCHANGED <<waiting, cancelling>>
    \/ /\ status = "NOT_FOUND" /\ ~Ended
       /\ unknown' = 0 /\ Deadline /\ UNCHANGED <<seen, live>>
    \/ /\ status = "STOPPING"
       /\ Cancel("no_capacity", "attempted") /\ UNCHANGED <<waiting, live>>
    \/ /\ status = "SUSPENDED"
       /\ Cancel("failed", "attempted") /\ UNCHANGED <<waiting, live>>
    \/ /\ status = "UNKNOWN"
       /\ unknown' = unknown + 1
       /\ IF unknown' >= UnknownLimit
          THEN Cancel("unreadable", "attempted") /\ UNCHANGED waited
          ELSE Deadline
       /\ UNCHANGED <<seen, live>>

Poll ==
    /\ pc = "wait" /\ VisibleByGrace
    /\ \E status \in Answers(zone) : Polled(status)
    /\ UNCHANGED <<outside, zone, ending>>

\* An operation that ended with another error than capacity stops the loop
AfterAttempt ==
    /\ pc = "attempted"
    /\ \/ why \in {"cancelled", "no_capacity", "expired"} /\ TryNext
       \/ why \in {"expired", "failed", "unreadable"} /\ Exit(1) /\ UNCHANGED zone
    /\ UNCHANGED <<outside, waiting, live, why, cancelling, interrupts, unwatched>>

Granted ==
    /\ pc = "granted"
    /\ Exit(0)
    /\ UNCHANGED <<outside, zone, waiting, live, why, cancelling, interrupts,
                   unwatched>>

(***************************************************************************)
(* flex_cancel: delete, look, and delete again until it is gone.           *)
(***************************************************************************)
\* The call may fail; what is not visible cannot be deleted
Delete ==
    /\ pc = "delete"
    /\ \/ server[zone] \in Visible /\ server' = [server EXCEPT ![zone] = "STOPPING"]
       \/ UNCHANGED server
    /\ pc' = "confirm"
    /\ UNCHANGED <<day, zone, waiting, live, why, cancelling, ending>>

\* mutant: the delete is taken as done, whatever the look says
ConfirmAny == \E status \in Answers(zone) :
                 live' = FALSE /\ pc' = ret /\ UNCHANGED <<tries, code>>

\* mutant: looks for as long as it takes
ConfirmForever ==
    \E status \in Answers(zone) :
        IF status = "NOT_FOUND"
        THEN live' = FALSE /\ pc' = ret /\ UNCHANGED <<tries, code>>
        ELSE pc' = "delete" /\ UNCHANGED <<live, tries, code>>

Confirmed ==
    \E status \in Answers(zone) :
        \/ /\ status = "NOT_FOUND"
           /\ live' = FALSE /\ pc' = ret /\ UNCHANGED <<tries, code>>
        \/ /\ status # "NOT_FOUND" /\ tries >= ConfirmLimit
           /\ code' = 3 /\ pc' = (IF ret = "done" THEN "done" ELSE "trap")
           /\ UNCHANGED <<live, tries>>
        \/ /\ status # "NOT_FOUND" /\ tries < ConfirmLimit
           /\ tries' = tries + 1 /\ pc' = "delete"
           /\ UNCHANGED <<live, code>>

Confirm ==
    /\ pc = "confirm"
    /\ Confirmed
    /\ UNCHANGED <<outside, zone, waiting, why, ret, interrupts, unwatched>>

(***************************************************************************)
(* flex_on_exit, the EXIT trap; and the signals.                           *)
(***************************************************************************)
OnExit ==
    /\ pc = "trap"
    /\ IF live THEN Cancel(why, "done")
       ELSE pc' = "done" /\ UNCHANGED <<why, cancelling>>
    /\ UNCHANGED <<outside, zone, waiting, live, ending>>

\* Granted, and on the way out with status 0: the VM is no longer cancelled
Held == pc = "granted" \/ (pc = "trap" /\ code = 0)

\* The create call runs in the background and outlives the script; a second
\* signal cuts the trap short
Interrupt ==
    /\ pc \notin {"done", "idle"} /\ interrupts < MaxInterrupts
    /\ interrupts' = interrupts + 1
    /\ code' = 130
    /\ IF pc \in {"delete", "confirm"} /\ ret = "done"
       THEN pc' = "done" /\ unwatched' = TRUE
       ELSE /\ pc' = "trap"
            /\ unwatched' = \/ unwatched \/ Held
                            \/ live /\ server[zone] \in Unseen
    /\ UNCHANGED <<outside, zone, waiting, live, why, cancelling>>

Launcher ==
    \/ Submit \/ NoZoneLeft
    \/ SubmitAccepted \/ SubmitFailed \/ LookAfterSubmit \/ AfterFailedSubmit
    \/ Poll \/ AfterAttempt \/ Granted
    \/ Delete \/ Confirm \/ OnExit

FlexInit ==
    /\ server = [z \in Zones |-> "none"] /\ day = 0
    /\ pc = "zone" /\ zone = 1
    /\ waited = 0 /\ unknown = 0 /\ seen = FALSE
    /\ live = FALSE /\ why = "none"
    /\ tries = 0 /\ ret = "done"
    /\ code = 0 /\ interrupts = 0 /\ unwatched = FALSE

FlexNext == Server \/ Midnight \/ Launcher \/ Interrupt

FlexSpec == FlexInit /\ [][FlexNext]_flexVars

(***************************************************************************)
(* Properties.                                                             *)
(***************************************************************************)
\* "At most one request is live": whatever the server does and however late
\* it answers, no two zones ever hold a request or an instance of this run.
OneRequest ==
    \A y, z \in Zones : server[y] # "none" /\ server[z] # "none" => y = z

\* A launcher that has ended without a VM and without saying that it could
\* not confirm (status 3) leaves nothing that can bill, unless it went away
\* before the request it had sent was visible.
LeavesNothing ==
    pc = "done" /\ code \notin {0, 3} /\ ~unwatched =>
        \A z \in Zones : server[z] = "none"
=============================================================================
