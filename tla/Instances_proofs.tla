------------------------- MODULE Instances_proofs -------------------------
(***************************************************************************)
(* What outlives a rented instance and what may not: at most one request   *)
(* is live, a launcher that says so leaves nothing, and a teardown deletes *)
(* nothing unsaved; and a session in blocks, on an instance each, is the   *)
(* one session its order says.  For any number of zones, rounds, blocks,   *)
(* steps and instances, any deadlines and any interruptions.               *)
(***************************************************************************)
EXTENDS H100Gate, SessionBlocks, FiniteSetTheorems, NaturalsInduction,
        WellFoundedInduction, TLAPS

NothingLive == \A z \in Zones : server[z] = "none"
NoneUnseen == \A z \in Zones : server[z] \notin Unseen

FlexTypes ==
    /\ server \in [Zones -> Statuses]
    /\ waited \in Nat /\ unknown \in Nat
    /\ live \in BOOLEAN /\ seen \in BOOLEAN /\ unwatched \in BOOLEAN
    /\ ret \in {"submitted", "attempted", "done"}
    /\ pc \in {"zone", "submit", "look", "submitted", "wait", "attempted", "granted",
              "delete", "confirm", "trap", "done"}

\* What is live is in the zone being tried
OnlyHere == \A z \in Zones : server[z] # "none" => z = zone

\* A zone is tried, or a walk begun, from nothing
FromNothing ==
    pc \in {"zone", "attempted"} \/ code = 4 \/ at = "round" => NothingLive

\* A request refused for capacity left nothing
RefusedForCapacity ==
    /\ pc \in {"look", "submitted"} /\ why = "capacity" => NothingLive
    /\ pc \in {"delete", "confirm"} /\ ret = "submitted" /\ why = "capacity" =>
          NothingLive

\* Unreadable polls take time too, so none outlasts the grace
Waiting ==
    pc = "wait" => /\ \A z \in Zones : server[z] # "sent"
                   /\ seen => NoneUnseen
                   /\ unknown <= waited

\* A request that was waited for is visible when it is cancelled
CancelSees ==
    pc \in {"delete", "confirm"} /\ ret = "attempted" => NoneUnseen

\* While a request may exist, the exit trap knows; status 4 is a walk's end
KnownLive ==
    /\ pc \in {"submit", "look", "wait", "delete", "confirm"} => live
    /\ pc \in {"zone", "submitted", "attempted", "granted"} \/ at = "round" => ~live
    /\ code = 4 => pc \in {"trap", "done"} /\ ~live

\* Watched to the end: what could still be unseen has been looked for
Watched ==
    ~unwatched =>
        /\ pc = "look" => NoneUnseen
        /\ pc = "submitted" => NothingLive
        /\ pc \in {"delete", "confirm"} /\ ret = "submitted" => NoneUnseen
        /\ pc \in {"delete", "confirm"} /\ ret = "done" /\ code # 3 => NoneUnseen
        /\ pc = "trap" /\ live /\ code # 3 => NoneUnseen
        /\ pc = "trap" /\ ~live /\ code # 0 => NothingLive
        /\ pc = "done" /\ code \notin {0, 3} => NothingLive

IInv ==
    /\ FlexTypes /\ OnlyHere /\ FromNothing /\ RefusedForCapacity
    /\ Waiting /\ CancelSees /\ KnownLive /\ Watched

\* "Not found", when nothing is on its way, says that nothing exists.
LEMMA NotFound ==
    ASSUME FlexTypes, OnlyHere, NoneUnseen, "NOT_FOUND" \in Answers(zone)
    PROVE  NothingLive
<1>1. zone \in Zones => server[zone] \notin Visible
    BY DEF Answers, Visible
<1> QED  BY <1>1 DEF FlexTypes, OnlyHere, NoneUnseen, NothingLive, Statuses

\* A submit from nothing puts one request in the zone being tried.
LEMMA SubmitKeeps ==
    ASSUME IInv, Submit, Walking, UNCHANGED at
    PROVE  IInv'
BY FlexAssumption
   DEF Walking, IInv, FlexTypes, OnlyHere, FromNothing, RefusedForCapacity, Waiting,
       CancelSees, KnownLive, Watched, NothingLive, NoneUnseen,
       Submit, Exit, Statuses, Unseen, Visible, outside, waiting, cancelling, ending

\* The walk ends with nothing live.
LEMMA NoZoneLeftKeeps ==
    ASSUME IInv, NoZoneLeft, Walking, UNCHANGED at
    PROVE  IInv'
BY FlexAssumption
   DEF Walking, IInv, FlexTypes, OnlyHere, FromNothing, RefusedForCapacity, Waiting,
       CancelSees, KnownLive, Watched, NothingLive, NoneUnseen,
       NoZoneLeft, Exit, Statuses, Unseen, Visible, outside, waiting, cancelling, ending

\* The wait starts with a request the server has answered.
LEMMA SubmitAcceptedKeeps ==
    ASSUME IInv, SubmitAccepted, Walking, UNCHANGED at
    PROVE  IInv'
<1> USE DEF IInv
<1>1. \A z \in Zones : server[z] # "sent"
    BY DEF SubmitAccepted, OnlyHere
<1>2. /\ pc = "submit" /\ pc' = "wait" /\ at # "round" /\ at' = at
      /\ waited' = 0 /\ unknown' = 0 /\ seen' = FALSE
      /\ UNCHANGED <<server, zone, live, why, ret, code, unwatched>>
    BY DEF SubmitAccepted, Walking, outside, cancelling, ending
<1>3. FlexTypes' /\ OnlyHere'
    BY <1>2 DEF FlexTypes, OnlyHere
<1>4. Waiting'
    BY <1>1, <1>2 DEF Waiting
<1>5. FromNothing' /\ RefusedForCapacity' /\ CancelSees' /\ KnownLive' /\ Watched'
    BY <1>2 DEF FromNothing, RefusedForCapacity, CancelSees, KnownLive, Watched
<1> QED  BY <1>3, <1>4, <1>5

\* A failed submit is looked at, or is no longer watched.
LEMMA SubmitFailedKeeps ==
    ASSUME IInv, SubmitFailed, Walking, UNCHANGED at
    PROVE  IInv'
BY FlexAssumption
   DEF Walking, IInv, FlexTypes, OnlyHere, FromNothing, RefusedForCapacity, Waiting,
       CancelSees, KnownLive, Watched, NothingLive, NoneUnseen,
       SubmitFailed, Statuses, Unseen, Visible, outside, waiting, cancelling, ending

\* Not found after a failed submit.
LEMMA LookKeeps ==
    ASSUME IInv, LookAfterSubmit, Walking, UNCHANGED at
    PROVE  IInv'
BY FlexAssumption
   DEF Walking, IInv, FlexTypes, OnlyHere, FromNothing, RefusedForCapacity, Waiting,
       CancelSees, KnownLive, Watched, NothingLive, NoneUnseen,
       LookAfterSubmit, Cancel, Answers, Statuses, Unseen, Visible, outside, waiting, cancelling, ending

\* The next zone after a refusal for capacity.
LEMMA AfterFailedSubmitKeeps ==
    ASSUME IInv, AfterFailedSubmit, Walking, UNCHANGED at
    PROVE  IInv'
BY FlexAssumption
   DEF Walking, IInv, FlexTypes, OnlyHere, FromNothing, RefusedForCapacity, Waiting,
       CancelSees, KnownLive, Watched, NothingLive, NoneUnseen,
       AfterFailedSubmit, TryNext, Exit, Statuses, Unseen, Visible, outside, waiting, cancelling, ending

\* The next zone after an attempt.
LEMMA AfterAttemptKeeps ==
    ASSUME IInv, AfterAttempt, Walking, UNCHANGED at
    PROVE  IInv'
BY FlexAssumption
   DEF Walking, IInv, FlexTypes, OnlyHere, FromNothing, RefusedForCapacity, Waiting,
       CancelSees, KnownLive, Watched, NothingLive, NoneUnseen,
       AfterAttempt, TryNext, Exit, Statuses, Unseen, Visible, outside, waiting, cancelling, ending

\* A grant ends the walk.
LEMMA GrantedKeeps ==
    ASSUME IInv, Granted, Walking, UNCHANGED at
    PROVE  IInv'
BY FlexAssumption
   DEF Walking, IInv, FlexTypes, OnlyHere, FromNothing, RefusedForCapacity, Waiting,
       CancelSees, KnownLive, Watched, NothingLive, NoneUnseen,
       Granted, Exit, Statuses, Unseen, Visible, outside, waiting, cancelling, ending

\* A delete of what is visible.
LEMMA DeleteKeeps ==
    ASSUME IInv, Delete, Walking, UNCHANGED at
    PROVE  IInv'
BY FlexAssumption
   DEF Walking, IInv, FlexTypes, OnlyHere, FromNothing, RefusedForCapacity, Waiting,
       CancelSees, KnownLive, Watched, NothingLive, NoneUnseen,
       Delete, Statuses, Unseen, Visible, outside, waiting, cancelling, ending

\* A cancel confirmed, or given up.
LEMMA ConfirmKeeps ==
    ASSUME IInv, Confirm, Walking, UNCHANGED at
    PROVE  IInv'
<1> USE DEF IInv
<1>1. PICK status \in Answers(zone) :
        \/ /\ status = "NOT_FOUND"
           /\ live' = FALSE /\ pc' = ret /\ UNCHANGED <<tries, code>>
        \/ /\ status # "NOT_FOUND" /\ tries >= ConfirmLimit
           /\ code' = 3 /\ pc' = (IF ret = "done" THEN "done" ELSE "trap")
           /\ UNCHANGED <<live, tries>>
        \/ /\ status # "NOT_FOUND" /\ tries < ConfirmLimit
           /\ tries' = tries + 1 /\ pc' = "delete"
           /\ UNCHANGED <<live, code>>
    BY DEF Confirm, Confirmed
<1>2. /\ pc = "confirm" /\ at' = at /\ at # "round"
      /\ UNCHANGED <<server, day, zone, waited, unknown, seen, why, ret, interrupts,
                     unwatched>>
    BY DEF Confirm, outside, waiting, Walking
<1>3. CASE /\ status = "NOT_FOUND"
           /\ live' = FALSE /\ pc' = ret /\ UNCHANGED <<tries, code>>
    <2>1. NoneUnseen => NothingLive
        BY <1>1, <1>3, NotFound
    <2>2. FlexTypes' /\ OnlyHere' /\ Waiting' /\ CancelSees' /\ KnownLive'
        BY <1>2, <1>3 DEF FlexTypes, OnlyHere, Waiting, CancelSees, KnownLive
    <2>3. FromNothing'
        BY <1>2, <1>3, <2>1 DEF FlexTypes, FromNothing, CancelSees, KnownLive, NothingLive
    <2>4. RefusedForCapacity'
        BY <1>2, <1>3 DEF FlexTypes, RefusedForCapacity, NothingLive
    <2>5. Watched'
        BY <1>2, <1>3, <2>1 DEF FlexTypes, Watched, NothingLive, NoneUnseen
    <2> QED  BY <2>2, <2>3, <2>4, <2>5
<1>4. CASE /\ code' = 3 /\ pc' = (IF ret = "done" THEN "done" ELSE "trap")
           /\ UNCHANGED <<live, tries>>
    BY <1>2, <1>4 DEF FlexTypes, OnlyHere, FromNothing, RefusedForCapacity, Waiting,
                      CancelSees, KnownLive, Watched
<1>5. CASE pc' = "delete" /\ UNCHANGED <<live, code>>
    BY <1>2, <1>5 DEF FlexTypes, OnlyHere, FromNothing, RefusedForCapacity, Waiting,
                      CancelSees, KnownLive, Watched, NothingLive, NoneUnseen
<1> QED  BY <1>1, <1>3, <1>4, <1>5

\* The exit trap cancels what may be live.
LEMMA OnExitKeeps ==
    ASSUME IInv, OnExit, Walking, UNCHANGED at
    PROVE  IInv'
BY FlexAssumption
   DEF Walking, IInv, FlexTypes, OnlyHere, FromNothing, RefusedForCapacity, Waiting,
       CancelSees, KnownLive, Watched, NothingLive, NoneUnseen,
       OnExit, Cancel, Statuses, Unseen, Visible, outside, waiting, cancelling, ending

\* A signal, at any point of the launcher.
LEMMA InterruptKeeps ==
    ASSUME IInv, Interrupt, Walking, UNCHANGED at
    PROVE  IInv'
<1> USE DEF IInv
<1>1. /\ code' = 130 /\ at' = at /\ at # "round"
      /\ UNCHANGED <<server, zone, waited, unknown, seen, live, why, ret>>
    BY DEF Interrupt, outside, waiting, cancelling, Walking
<1>2. CASE pc \in {"delete", "confirm"} /\ ret = "done" /\ pc' = "done" /\ unwatched' = TRUE
    BY <1>1, <1>2 DEF FlexTypes, OnlyHere, FromNothing, RefusedForCapacity, Waiting,
                      CancelSees, KnownLive, Watched
<1>3. CASE /\ pc \notin {"done", "idle"} /\ ~(pc \in {"delete", "confirm"} /\ ret = "done")
           /\ pc' = "trap"
           /\ unwatched' = \/ unwatched \/ Held
                           \/ live /\ server[zone] \in Unseen
    <2>1. /\ FlexTypes' /\ OnlyHere' /\ FromNothing' /\ RefusedForCapacity'
          /\ Waiting' /\ CancelSees' /\ KnownLive'
        BY <1>1, <1>3 DEF FlexTypes, OnlyHere, FromNothing, RefusedForCapacity, Waiting,
                          CancelSees, KnownLive
    <2>2. ASSUME ~unwatched', live
          PROVE  NoneUnseen
        BY <1>3, <2>2 DEF FlexTypes, OnlyHere, NoneUnseen, Unseen
    <2>3. ASSUME ~unwatched', ~live
          PROVE  NothingLive
        BY <1>3, <2>3 DEF FlexTypes, FromNothing, KnownLive, Watched, Held
    <2>4. Watched'
        BY <1>1, <1>3, <2>2, <2>3 DEF FlexTypes, Watched, NothingLive, NoneUnseen
    <2> QED  BY <2>1, <2>4
<1> QED  BY <1>2, <1>3 DEF Interrupt

\* A poll, whatever it answers.
LEMMA PollKeeps ==
    ASSUME IInv, Poll, Walking, UNCHANGED at
    PROVE  IInv'
<1> USE FlexAssumption DEF IInv
<1>1. PICK status \in Answers(zone) : Polled(status)
    BY DEF Poll
<1>2. /\ pc = "wait" /\ VisibleByGrace /\ at' = at /\ at # "round"
      /\ UNCHANGED <<server, day, zone, code, interrupts, unwatched>>
    BY DEF Poll, outside, ending, Walking
<1>3. live /\ code # 4
    BY <1>2 DEF KnownLive
<1>4. waited >= Grace => NoneUnseen
    BY <1>2 DEF FlexTypes, VisibleByGrace, Waiting, OnlyHere, NoneUnseen, Unseen
<1>5. ASSUME Deadline, live' = live, unknown' \in Nat, seen' \in BOOLEAN,
             seen' => NoneUnseen, unknown' <= waited + 1
      PROVE  IInv'
    <2>1. CASE waited >= CancelAfter
        <3>1. NoneUnseen
            BY <1>4, <2>1 DEF FlexTypes
        <3> QED
            BY <1>2, <1>3, <1>5, <2>1, <3>1
               DEF Deadline, Cancel, FlexTypes, OnlyHere, FromNothing, RefusedForCapacity,
                   Waiting, CancelSees, KnownLive, Watched, NoneUnseen
    <2>2. CASE ~(waited >= CancelAfter)
        BY <1>2, <1>3, <1>5, <2>2
           DEF Deadline, FlexTypes, OnlyHere, FromNothing, RefusedForCapacity,
               Waiting, CancelSees, KnownLive, Watched, NoneUnseen, cancelling
    <2> QED  BY <2>1, <2>2
<1>6. ASSUME NEW reason, Cancel(reason, "attempted"), NoneUnseen, live' = live,
             unknown' \in Nat, UNCHANGED <<waited, seen>>
      PROVE  IInv'
    BY <1>2, <1>3, <1>6
       DEF Cancel, FlexTypes, OnlyHere, FromNothing, RefusedForCapacity, Waiting,
           CancelSees, KnownLive, Watched, NoneUnseen
<1>7. CASE /\ status \in {"RUNNING", "PROVISIONING"}
           /\ live' = FALSE /\ pc' = "granted"
           /\ UNCHANGED <<waiting, why, cancelling>>
    BY <1>2, <1>3, <1>7
       DEF waiting, cancelling, FlexTypes, OnlyHere, FromNothing, RefusedForCapacity,
           Waiting, CancelSees, KnownLive, Watched
<1>8. server[zone] \in Visible => NoneUnseen
    BY DEF OnlyHere, NoneUnseen, Visible, Unseen
<1>9. status \in Visible => server[zone] \in Visible
    BY DEF Answers, Visible
<1>10. CASE /\ status = "PENDING" /\ seen' = TRUE /\ unknown' = 0
            /\ Deadline /\ UNCHANGED live
    BY <1>5, <1>8, <1>9, <1>10 DEF FlexTypes, Visible
<1>11. CASE /\ status = "NOT_FOUND" /\ Ended
            /\ live' = FALSE /\ pc' = "attempted" /\ why' = "expired"
            /\ UNCHANGED <<waiting, cancelling>>
    <2>1. NothingLive
        BY <1>2, <1>4, <1>11, NotFound DEF Ended, Waiting
    <2> QED
        BY <1>2, <1>3, <1>11, <2>1
           DEF waiting, cancelling, FlexTypes, OnlyHere, FromNothing, RefusedForCapacity,
               Waiting, CancelSees, KnownLive, Watched, NothingLive
<1>12. CASE /\ status = "NOT_FOUND" /\ unknown' = 0
            /\ Deadline /\ UNCHANGED <<seen, live>>
    BY <1>2, <1>5, <1>12 DEF FlexTypes, Waiting
<1>13. CASE /\ status \in {"STOPPING", "SUSPENDED"} /\ UNCHANGED <<waiting, live>>
            /\ \E reason : Cancel(reason, "attempted")
    BY <1>6, <1>8, <1>9, <1>13 DEF waiting, FlexTypes, Visible
<1>14. CASE /\ unknown' = unknown + 1 /\ UNCHANGED <<seen, live>>
            /\ IF unknown' >= UnknownLimit
               THEN Cancel("unreadable", "attempted") /\ UNCHANGED waited
               ELSE Deadline
    <2>1. unknown' \in Nat /\ unknown' <= waited + 1 /\ seen \in BOOLEAN
          /\ (seen => NoneUnseen)
        BY <1>2, <1>14 DEF FlexTypes, Waiting
    <2>2. CASE unknown' >= UnknownLimit
        <3>1. waited >= Grace
            BY <2>1, <2>2 DEF FlexTypes
        <3> QED  BY <1>4, <1>6, <1>14, <2>1, <2>2, <3>1
    <2>3. CASE ~(unknown' >= UnknownLimit)
        BY <1>5, <1>14, <2>1, <2>3
    <2> QED  BY <2>2, <2>3
<1> QED
    BY <1>1, <1>7, <1>10, <1>11, <1>12, <1>13, <1>14 DEF Polled

\* The server makes no request of its own and hides none.
LEMMA ServerKeeps ==
    ASSUME IInv, Server, UNCHANGED at
    PROVE  IInv'
BY FlexAssumption
   DEF Walking, IInv, FlexTypes, OnlyHere, FromNothing, RefusedForCapacity, Waiting,
       CancelSees, KnownLive, Watched, NothingLive, NoneUnseen,
       Server, Serve, Moves, Appear, waiting, cancelling, ending, Statuses, Unseen, Visible

\* Every step of a launcher.
LEMMA LauncherKeeps ==
    ASSUME IInv, Launcher, Walking, UNCHANGED at
    PROVE  IInv'
BY SubmitKeeps, NoZoneLeftKeeps, SubmitAcceptedKeeps, SubmitFailedKeeps, LookKeeps,
   AfterFailedSubmitKeeps, AfterAttemptKeeps, GrantedKeeps, DeleteKeeps, ConfirmKeeps,
   OnExitKeeps, PollKeeps
   DEF Launcher

\* Steps of the gate, the session and the teardown that leave the requests be.
LEMMA OthersKeep ==
    ASSUME IInv, at' = "round" => at = "round",
           UNCHANGED <<server, pc, zone, waited, unknown, seen, live, why, ret, code,
                       unwatched>>
    PROVE  IInv'
BY DEF IInv, FlexTypes, OnlyHere, FromNothing, RefusedForCapacity,
       Waiting, CancelSees, KnownLive, Watched, NothingLive, NoneUnseen

\* A round is skipped, or begins from nothing.
LEMMA RoundKeeps ==
    ASSUME IInv, Round
    PROVE  IInv'
<1>1. CASE UNCHANGED <<pc, zone, code>>
    <2>1. at' = "round" => at = "round"
        BY DEF Round
    <2> QED  BY <1>1, <2>1, OthersKeep DEF Round, outside, waiting, cancelling
<1>2. CASE StartWalk("flex")
    BY <1>2
       DEF Round, StartWalk, outside, waiting, cancelling, IInv, FlexTypes, OnlyHere,
           FromNothing, RefusedForCapacity, Waiting, CancelSees, KnownLive, Watched,
           NothingLive
<1> QED  BY <1>1, <1>2 DEF Round

\* A launcher has ended: the next walk, if any, begins from nothing.
LEMMA WalkEndedKeeps ==
    ASSUME IInv, WalkEnded
    PROVE  IInv'
<1> USE DEF IInv
<1>1. /\ pc = "done" /\ waited' = 0 /\ unknown' = 0 /\ seen' = FALSE
      /\ live' = FALSE /\ ret' = "done"
      /\ UNCHANGED <<server, unwatched>>
    BY DEF WalkEnded, Gone, outside
<1>2. CASE at' # "round" /\ UNCHANGED <<pc, zone, code>>
    BY <1>1, <1>2
       DEF FlexTypes, OnlyHere, FromNothing, RefusedForCapacity, Waiting, CancelSees,
           KnownLive, Watched, NothingLive
<1>3. CASE code = 4 /\ at' = "round" /\ UNCHANGED <<pc, zone, code>>
    BY <1>1, <1>3
       DEF FlexTypes, OnlyHere, FromNothing, RefusedForCapacity, Waiting, CancelSees,
           KnownLive, Watched, NothingLive
<1>4. CASE code = 4 /\ StartWalk("spot")
    <2>1. NothingLive'
        BY <1>1, <1>4 DEF FromNothing, NothingLive
    <2>2. FlexTypes' /\ at' = "spot" /\ pc' = "zone" /\ code' = 0
        BY <1>1, <1>4 DEF StartWalk, FlexTypes
    <2> QED
        BY <1>1, <2>1, <2>2
           DEF OnlyHere, FromNothing, RefusedForCapacity, Waiting, CancelSees,
               KnownLive, Watched, NothingLive
<1> QED  BY <1>2, <1>3, <1>4 DEF WalkEnded

\* The teardown's delete makes nothing and hides nothing.
LEMMA DeleteVMKeeps ==
    ASSUME IInv, DeleteVM
    PROVE  IInv'
<1>1. CASE UNCHANGED server
    BY <1>1, OthersKeep DEF DeleteVM, waiting, cancelling, ending
<1>2. CASE Moves(zone, Visible, "STOPPING")
    <2>1. /\ \A z \in Zones : server'[z] \in {server[z], "STOPPING"}
          /\ \A z \in Zones : server[z] = "none" => server'[z] = "none"
        BY <1>2 DEF Moves, IInv, FlexTypes, Visible
    <2>2. server' \in [Zones -> Statuses]
        BY <1>2 DEF Moves, IInv, FlexTypes, Statuses, Visible
    <2>3. (NothingLive => NothingLive') /\ (NoneUnseen => NoneUnseen')
        BY <2>1 DEF NothingLive, NoneUnseen, Unseen
    <2> QED
        BY <2>1, <2>2, <2>3
           DEF DeleteVM, waiting, cancelling, ending, IInv, FlexTypes, OnlyHere,
               FromNothing, RefusedForCapacity, Waiting, CancelSees, KnownLive, Watched
<1> QED  BY <1>1, <1>2 DEF DeleteVM

\* The launcher killed in its exit trap is one nobody watches any more.
LEMMA CutShortKeeps ==
    ASSUME IInv, CutShort
    PROVE  IInv'
BY DEF CutShort, outside, waiting, cancelling, IInv, FlexTypes, OnlyHere, FromNothing,
       RefusedForCapacity, Waiting, CancelSees, KnownLive, Watched, NothingLive

\* Every step of the system.
LEMMA IInvInductive == IInv /\ [Next]_gateVars => IInv'
<1> SUFFICES ASSUME IInv, [Next]_gateVars PROVE IInv'
    OBVIOUS
<1> USE DEF flexVars, outside, waiting, cancelling, ending
<1>1. CASE Launch
    BY <1>1, LauncherKeeps DEF Launch
<1>2. CASE Round \/ WalkEnded
    BY <1>2, RoundKeeps, WalkEndedKeeps
<1>3. CASE TrapInstalled \/ Prepare \/ GateEnded \/ GateLost \/ Dropped
    BY <1>3, OthersKeep DEF TrapInstalled, Prepare, GateEnded, GateLost, Dropped, TearDown
<1>4. CASE Check \/ Sync \/ HomeLogs \/ Refuse \/ Rerun
    BY <1>4, OthersKeep DEF Check, Sync, HomeLogs, Refuse, Rerun
<1>5. CASE RunStep \/ SyncStep
    BY <1>5, OthersKeep DEF RunStep, SyncStep
<1>6. CASE DeleteVM \/ CutShort
    BY <1>6, DeleteVMKeeps, CutShortKeeps
<1>7. CASE Cloud
    <2>1. CASE Server
        BY <1>7, <2>1, ServerKeeps DEF Cloud
    <2>2. CASE Midnight
        BY <1>7, <2>2, OthersKeep DEF Cloud, Midnight
    <2> QED  BY <1>7, <2>1, <2>2 DEF Cloud
<1>8. CASE InterruptLauncher
    BY <1>8, InterruptKeeps DEF InterruptLauncher
<1>9. CASE InterruptLoop
    BY <1>9, OthersKeep DEF InterruptLoop, TearDown
<1>10. CASE UNCHANGED gateVars
    BY <1>10, OthersKeep DEF gateVars
<1> QED
    BY <1>1, <1>2, <1>3, <1>4, <1>5, <1>6, <1>7, <1>8, <1>9, <1>10 DEF Next, Script

\* The system starts with nothing requested.
LEMMA IInvInitially == Init => IInv
<1> SUFFICES ASSUME Init PROVE IInv
    OBVIOUS
<1>1. NothingLive /\ FlexTypes
    BY DEF Init, FlexInit, NothingLive, FlexTypes, Statuses
<1>2. pc = "zone" /\ code = 0 /\ live = FALSE /\ at = "round"
    BY DEF Init, FlexInit
<1> QED
    BY <1>1, <1>2
       DEF IInv, OnlyHere, FromNothing, RefusedForCapacity, Waiting, CancelSees,
           KnownLive, Watched, NothingLive

\* At most one request or VM of the loop is live (_flex_request.sh:20), over any
\* number of zones, rounds and signals.
THEOREM OneRequestHolds == Spec => []OneRequest
<1>1. IInv => OneRequest
    BY DEF IInv, OnlyHere, OneRequest
<1> QED  BY <1>1, IInvInitially, IInvInductive, PTL DEF Spec

\* A launcher that ends with a status other than a VM's (0) and "could not
\* confirm" (3), watched to the end, leaves nothing that bills.
THEOREM LeavesNothingHolds == Spec => []LeavesNothing
<1>1. IInv => LeavesNothing
    BY DEF IInv, FlexTypes, Watched, NothingLive, LeavesNothing
<1> QED  BY <1>1, IInvInitially, IInvInductive, PTL DEF Spec

----------------------------------------------------------------------------
(***************************************************************************)
(* The teardown.  What its sync said of the disk stays true to the delete, *)
(* though a session the connection was dropped from goes on beside it.     *)
(***************************************************************************)
Judging == at \in {"logs", "delete"}

SaveInv ==
    /\ results \in Nat
    /\ Judging => /\ saw \subseteq 1..results
                  /\ found => synced \in {"synced", "failed", "no ssh"}
                  /\ synced = "synced" => saw \subseteq bucket
    /\ at = "delete" /\ found => logs \in {"missing", "pulled"}

\* What moves neither the VM's disk nor the teardown's verdicts.
LEMMA VerdictsKept ==
    ASSUME SaveInv, UNCHANGED <<results, bucket>>,
           \/ at' \notin {"logs", "delete"}
           \/ UNCHANGED <<at, found, synced, logs, saw>>
    PROVE  SaveInv'
<1>1. results' = results /\ bucket' = bucket
  OBVIOUS
<1>2. CASE at' \notin {"logs", "delete"}
  BY <1>1, <1>2, Zenon DEF SaveInv, Judging
<1>3. CASE UNCHANGED <<at, found, synced, logs, saw>>
  <2>1. /\ at' = at /\ found' = found /\ synced' = synced
        /\ logs' = logs /\ saw' = saw
    BY <1>3
  <2> QED BY <1>1, <2>1, Zenon DEF SaveInv, Judging
<1> QED BY <1>2, <1>3

\* The session's own syncs only add to what the bucket has of the disk.
LEMMA SessionSaves == ASSUME SaveInv, RunStep \/ SyncStep PROVE SaveInv'
<1>1. UNCHANGED <<at, found, synced, logs, saw>>
  BY DEF RunStep, SyncStep, judged
<1>2. CASE RunStep
  <2>1. results' = results + 1 /\ UNCHANGED bucket
    BY <1>2 DEF RunStep
  <2>2. results \in Nat
    BY DEF SaveInv
  <2>3. results' \in Nat /\ 1..results \subseteq 1..results'
    BY <2>1, <2>2
  <2>4. saw \subseteq 1..results => saw' \subseteq 1..results'
    BY <1>1, <2>3
  <2> QED BY <1>1, <2>1, <2>3, <2>4, Zenon DEF SaveInv, Judging
<1>3. CASE SyncStep
  <2>1. /\ UNCHANGED results
        /\ bucket' = 1..results \/ \E some \in SUBSET (1..results) : bucket' = bucket \cup some
    BY <1>3 DEF SyncStep, Copied
  <2>2. saw \subseteq 1..results /\ saw \subseteq bucket => saw \subseteq bucket'
    BY <2>1
  <2> QED BY <1>1, <2>1, <2>2, Zenon DEF SaveInv, Judging
<1> QED BY <1>2, <1>3

LEMMA SyncSaves == ASSUME SaveInv, Sync PROVE SaveInv'
<1>1. /\ at' = "logs" /\ saw' = 1..results /\ UNCHANGED <<results, found>>
      /\ found => synced' \in {"synced", "failed", "no ssh"}
      /\ synced' = "synced" => bucket' = 1..results
  BY DEF Sync, Copied
<1>2. Judging' /\ at' # "delete"
  BY <1>1 DEF Judging
<1> QED BY <1>1, <1>2 DEF SaveInv

LEMMA HomeLogsSaves == ASSUME SaveInv, HomeLogs PROVE SaveInv'
<1>1. /\ at = "logs" /\ at' = "delete"
      /\ found' => logs' \in {"missing", "pulled"}
      /\ UNCHANGED <<results, bucket, found, synced, saw>>
  BY DEF HomeLogs, onVM
<1> QED BY <1>1 DEF SaveInv, Judging

LEMMA SaveStep == SaveInv /\ [Next]_gateVars => SaveInv'
<1> SUFFICES ASSUME SaveInv, [Next]_gateVars PROVE SaveInv'
  OBVIOUS
<1>1. CASE RunStep \/ SyncStep
  BY <1>1, SessionSaves
<1>2. CASE Sync
  BY <1>2, SyncSaves
<1>3. CASE HomeLogs
  BY <1>3, HomeLogsSaves
<1>4. CASE Launch \/ Cloud \/ CutShort \/ InterruptLauncher \/ UNCHANGED gateVars
  BY <1>4, VerdictsKept
     DEF Launch, Cloud, CutShort, InterruptLauncher, gateVars, onVM, judged
<1>5. CASE Round \/ WalkEnded \/ TrapInstalled
  BY <1>5, VerdictsKept DEF Round, WalkEnded, TrapInstalled, StartWalk, onVM, judged
<1>6. CASE Prepare \/ GateEnded \/ GateLost \/ Dropped \/ InterruptLoop
  BY <1>6, VerdictsKept
     DEF Prepare, GateEnded, GateLost, Dropped, InterruptLoop, TearDown, onVM, judged
<1>7. CASE Check \/ Refuse \/ DeleteVM \/ Rerun
  BY <1>7, VerdictsKept DEF Check, Refuse, DeleteVM, Rerun, onVM
<1> QED BY <1>1, <1>2, <1>3, <1>4, <1>5, <1>6, <1>7 DEF Next, Script

\* Only the delete itself tears down, with a reason for all it goes without.
LEMMA DeleteExcused ==
    ASSUME SaveInv, DeleteVM, found
    PROVE  /\ saw \subseteq bucket \/ reasons # {}
           /\ synced = "failed" => "sync" \in said'
           /\ logs = "pulled" \/ "logs" \in said'
<1>1. /\ at = "delete"
      /\ Unsynced => "sync" \in reasons
      /\ logs = "missing" => "logs" \in reasons
      /\ said' = (IF Unsynced THEN {"sync"} ELSE {})
                 \cup (IF logs = "missing" THEN {"logs"} ELSE {})
  BY DEF DeleteVM
<1>2. /\ synced \in {"synced", "failed", "no ssh"}
      /\ synced = "synced" => saw \subseteq bucket
      /\ logs \in {"missing", "pulled"}
  BY <1>1 DEF SaveInv, Judging
<1>3. saw \subseteq bucket \/ reasons # {}
  BY <1>1, <1>2 DEF Unsynced
<1>4. synced = "failed" => "sync" \in said'
  BY <1>1 DEF Unsynced
<1>5. logs = "pulled" \/ "logs" \in said'
  BY <1>1, <1>2
<1> QED BY <1>3, <1>4, <1>5

\* A VM the teardown saw is deleted only when its disk, as the last sync saw
\* it, is in the bucket, or with a reason; and what was left is on record.
THEOREM TeardownSaves == Spec => SavedOrExcused
<1>1. Init => SaveInv
  BY DEF Init, SaveInv, Judging
<1>2. ASSUME SaveInv, [Next]_gateVars
      PROVE  [at = "delete" /\ at' = "torn" /\ found =>
                 /\ saw \subseteq bucket \/ reasons # {}
                 /\ synced = "failed" => "sync" \in said'
                 /\ logs = "pulled" \/ "logs" \in said']_gateVars
  <2> SUFFICES ASSUME at = "delete", at' = "torn", found
               PROVE  /\ saw \subseteq bucket \/ reasons # {}
                      /\ synced = "failed" => "sync" \in said'
                      /\ logs = "pulled" \/ "logs" \in said'
    OBVIOUS
  <2>1. DeleteVM
    BY <1>2 DEF Next, Script, gateVars, Launch, Walking, Cloud, CutShort,
       InterruptLauncher, Round, WalkEnded, TrapInstalled, Prepare, GateEnded,
       GateLost, Dropped, InterruptLoop, TearDown, Check, Sync, HomeLogs, Refuse,
       Rerun, RunStep, SyncStep
  <2> QED BY <1>2, <2>1, DeleteExcused
<1> QED BY <1>1, <1>2, SaveStep, PTL DEF Spec, SavedOrExcused

(***************************************************************************)
(* The session in blocks.  A step a block rests on is one it ran, or one   *)
(* the spec's order puts in a block before it, all of which it imports.    *)
(***************************************************************************)
Attempts ==
    [findings: BOOLEAN, boot: [id: Nat, machine: Machines], rows: BOOLEAN]

Manifests ==
    [block: Int, boot: Nat \cup {None}, commit: Nat, imports: Seq(Nat),
     taken: SUBSET Steps, receipt: BOOLEAN, discarded: BOOLEAN,
     passed: SUBSET Steps, dirs: [Steps -> Attempts \cup {None}]]

BlockTypes ==
    /\ sessions \in Seq(Manifests)
    /\ boot \in [id: Nat, machine: Machines] /\ commit \in Nat
    /\ \A s \in Ids : sessions[s].block \in 1..Len(lock.blocks)
    /\ sessions # <<>> => check(lock)

\* What a session has of the earlier blocks, all of them, stays passed
AllTaken ==
    \A s \in Ids :
        /\ sessions[s].taken =
               UNION {Taken(e, sessions[s].block) : e \in 1..(sessions[s].block - 1)}
        /\ sessions[s].taken \subseteq sessions[s].passed

\* A session's boot is the one it began on; one discarded met a later one
BootsPass ==
    \A s \in Ids :
        /\ sessions[s].boot # None => sessions[s].boot <= boot.id
        /\ sessions[s].discarded =>
               sessions[s].boot # None /\ sessions[s].boot < boot.id

\* The runner is in a session of this boot, with all of its earlier steps
\* passed, and what it is in the middle of has a directory
InLoop ==
    run # Idle =>
        /\ run \in [session: Ids, at: 1..(Len(STEPS) + 1),
                    phase: {"loop", "step", "wrote", "passed", "failed", "identity"}]
        /\ Here.boot = boot.id /\ ~Here.discarded
        /\ run.at <= Len(STEPS) => Current \in Runs(Here.block)
        /\ \A n \in 1..(run.at - 1) :
               STEPS[n] \in Runs(Here.block) => STEPS[n] \in Here.passed
        /\ run.phase # "loop" => run.at <= Len(STEPS) /\ Attempt \in Attempts
        /\ run.phase = "wrote" => Current \in {"predict", "ground_truth"}
        /\ run.phase = "identity" => Current \in Here.passed

BInv == BlockTypes /\ AllTaken /\ BootsPass /\ OneBoot /\ InLoop

\* A step has one place in the session's order.
LEMMA StepPlaces ==
    /\ \A step \in Steps :
           IndexOf(step) \in 1..Len(STEPS) /\ STEPS[IndexOf(step)] = step
    /\ \A n \in 1..Len(STEPS) : STEPS[n] \in Steps /\ IndexOf(STEPS[n]) = n
<1>1. \A step \in Steps :
          IndexOf(step) \in 1..Len(STEPS) /\ STEPS[IndexOf(step)] = step
  <2> TAKE step \in Steps
  <2>1. \E n \in 1..Len(STEPS) : STEPS[n] = step
    BY DEF Steps
  <2> QED BY <2>1 DEF IndexOf
<1>2. \A n \in 1..Len(STEPS) : STEPS[n] \in Steps
  BY DEF Steps
<1>3. \A n \in 1..Len(STEPS) : IndexOf(STEPS[n]) = n
  BY <1>1, <1>2, StepsAssumption DEF validate
<1> QED BY <1>1, <1>2, <1>3

\* What the order of the spec is for: a step before the prediction, or before
\* the ground truth, is the block's own or is taken of an earlier block.
LEMMA RestsOnEarlier ==
    ASSUME check(lock), NEW b \in 1..Len(lock.blocks),
           NEW n \in 1..Len(STEPS), STEPS[n] \in {"predict", "ground_truth"},
           STEPS[n] \in Runs(b), NEW m \in 1..(n - 1),
           STEPS[m] \in Single \cup BOOT_STEPS
    PROVE  STEPS[m] \in Runs(b) \cup UNION {Taken(e, b) : e \in 1..(b - 1)}
<1> DEFINE spec == lock
           Places == 1..Len(lock.blocks)
           OwnOf(c) == Own(lock.blocks[c])
<1>0. n \in Nat /\ m \in Nat /\ m < n /\ m \in 1..Len(STEPS)
  <2>1. Len(STEPS) \in Nat
    BY StepsAssumption
  <2> QED BY <2>1
<1>1. CASE STEPS[m] \in BOOT_STEPS
  BY <1>1 DEF Runs
<1>2. CASE STEPS[m] \in Single
  <2>1. \E c \in Places : STEPS[m] \in OwnOf(c)
    <3> DEFINE Holding == {c \in 1..Len(lock.blocks) : STEPS[m] \in Own(lock.blocks[c])}
    <3>1. Cardinality(Holding) = 1
      BY <1>2 DEF check, EachOnce
    <3>2. Cardinality({}) = 0
      BY FS_EmptySet
    <3>3. ASSUME Holding = {} PROVE FALSE
      <4> HIDE DEF Holding
      <4> QED BY <3>1, <3>2, <3>3
    <3> QED BY <3>3
  <2>2. PICK c \in Places : STEPS[m] \in OwnOf(c)
    BY <2>1
  <2>3. \E p \in Places : "predict" \in OwnOf(p)
    <3>1. Cardinality(Predicting(lock)) = 1
      BY DEF check
    <3>2. Predicting(lock) # {}
      BY <3>1, FS_EmptySet
    <3> QED BY <3>2 DEF Predicting
  <2>4. PICK p \in Places : "predict" \in OwnOf(p)
    BY <2>3
  <2>5. "predict" \in Single /\ "predict" \in Steps /\ "ground_truth" \in Steps
    <3>1. "predict" \in Steps \ BOOT_STEPS
      BY <2>4 DEF check, InSessionOrder
    <3>2. "predict" \notin SPLIT_STEPS
      BY DEF SPLIT_STEPS
    <3> QED BY <3>1, <3>2, StepsAssumption DEF Single, validate
  <2>6. STEPS[n] \in OwnOf(b)
    <3>1. "ground_truth" \notin BOOT_STEPS
      BY StepsAssumption DEF SPLIT_STEPS
    <3> QED BY <2>5, <3>1 DEF Runs, Block, Single
  <2>7. p <= b
    <3>1. CASE STEPS[n] = "predict"
      <4>1. b \in Predicting(lock) /\ b \in Timed(lock) /\ p \in Predicting(lock)
        BY <2>4, <2>6, <3>1 DEF Predicting, check, GroundTruthPlaced
      <4> QED BY <4>1 DEF check, GroundTruthPlaced
    <3>2. CASE STEPS[n] = "ground_truth"
      <4>1. b \in Timed(lock) /\ p \in Predicting(lock)
        BY <2>4, <2>6, <3>2 DEF Predicting, Timed
      <4> QED BY <4>1 DEF check, GroundTruthPlaced
    <3> QED BY <3>1, <3>2
  <2>8. IndexOf(STEPS[m]) = m /\ m <= IndexOf("predict")
    <3>1. IndexOf(STEPS[m]) = m /\ IndexOf(STEPS[n]) = n
      BY <1>0, StepPlaces
    <3>2. IndexOf("predict") \in Nat /\ IndexOf("ground_truth") = IndexOf("predict") + 1
      <4>1. Len(STEPS) \in Nat
        BY StepsAssumption
      <4> QED BY <2>5, <4>1, StepPlaces, StepsAssumption DEF validate
    <3> QED BY <1>0, <3>1, <3>2
  <2>9. c <= p
    <3>1. ASSUME p < c PROVE IndexOf("predict") < IndexOf(STEPS[m])
      <4>1. "predict" \in Own(lock.blocks[p]) \cap Single
            /\ STEPS[m] \in Own(lock.blocks[c]) \cap Single
        BY <1>2, <2>2, <2>4, <2>5
      <4> QED BY <2>2, <2>4, <3>1, <4>1 DEF check, EachOnce
    <3>2. IndexOf("predict") \in Int
      BY <2>5, StepPlaces
    <3> QED BY <1>0, <2>8, <3>1, <3>2
  <2>10. CASE c = b
    BY <2>2, <2>10 DEF Runs, Block
  <2>11. CASE c # b
    <3>1. c \in 1..(b - 1)
      BY <2>7, <2>9, <2>11
    <3>2. STEPS[m] \in Taken(c, b) \/ STEPS[m] \in Runs(b)
      BY <2>2 DEF Taken, Block
    <3> QED BY <3>1, <3>2
  <2> QED BY <2>10, <2>11
<1> QED BY <1>1, <1>2

\* Two blocks share no cell but the anchor.
LEMMA BlocksCellsOnce == BInv => CellsOnce
<1> SUFFICES ASSUME BInv, NEW D \in SUBSET Ids, collects(D),
                    NEW s \in WithRows(D), NEW t \in WithRows(D)
             PROVE  /\ lock.anchor \in run_cells(sessions[s].block) \cup {None}
                    /\ s # t => run_cells(sessions[s].block)
                                   \cap run_cells(sessions[t].block)
                                   \subseteq {lock.anchor}
  BY DEF CellsOnce
<1>1. lock.anchor \in run_cells(sessions[s].block) \cup {None}
  BY DEF run_cells
<1>2. ASSUME s # t
      PROVE  Block(sessions[s].block).cells \cap Block(sessions[t].block).cells = {}
  <2> DEFINE a == sessions[s].block
             b == sessions[t].block
  <2>1. s \in Kept(D) /\ t \in Kept(D) /\ s \in Ids /\ t \in Ids
    BY DEF WithRows, Kept
  <2>2. a # b
    BY <1>2, <2>1 DEF collects
  <2>3. a \in 1..Len(lock.blocks) /\ b \in 1..Len(lock.blocks) /\ check(lock)
    <3>1. sessions # <<>>
      BY <2>1 DEF Ids
    <3> QED BY <2>1, <3>1 DEF BInv, BlockTypes
  <2> HIDE DEF a, b
  <2>4. a \in Timed(lock) /\ b \in Timed(lock) =>
            lock.blocks[a].cells \cap lock.blocks[b].cells = {}
    BY <2>2, <2>3 DEF check, CellsApart
  <2>5. /\ a \notin Timed(lock) => lock.blocks[a].cells = {}
        /\ b \notin Timed(lock) => lock.blocks[b].cells = {}
    BY <2>3 DEF check, CellsApart, CellsNamed
  <2>6. lock.blocks[a].cells \cap lock.blocks[b].cells = {}
    BY <2>4, <2>5
  <2> QED BY <2>6 DEF a, b, Block
<1>3. s # t => run_cells(sessions[s].block) \cap run_cells(sessions[t].block)
                   \subseteq {lock.anchor}
  BY <1>2 DEF run_cells
<1> QED BY <1>1, <1>3

\* All that the prediction and the timing rest on has passed.
LEMMA BlocksSkipNothing == BInv => NothingSkipped
<1> SUFFICES ASSUME BInv, run.phase = "wrote", NEW m \in 1..(run.at - 1),
                    STEPS[m] \in Single \cup BOOT_STEPS
             PROVE  /\ STEPS[m] \in Runs(Here.block) \cup Here.taken
                    /\ STEPS[m] \in Here.passed
  BY DEF NothingSkipped
<1>1. /\ run # Idle /\ S \in Ids /\ run.at \in 1..Len(STEPS)
      /\ Current \in Runs(Here.block) /\ Current \in {"predict", "ground_truth"}
  <2>1. run # Idle
    BY DEF Idle
  <2> QED BY <2>1 DEF BInv, InLoop, S
<1>2. check(lock) /\ Here.block \in 1..Len(lock.blocks)
  <2>1. sessions # <<>>
    BY <1>1 DEF Ids
  <2> QED BY <1>1, <2>1 DEF BInv, BlockTypes, Here
<1>3. Here.taken = UNION {Taken(e, Here.block) : e \in 1..(Here.block - 1)}
      /\ Here.taken \subseteq Here.passed
  BY <1>1 DEF BInv, AllTaken, Here
<1>4. STEPS[m] \in Runs(Here.block) \cup Here.taken
  BY <1>1, <1>2, <1>3, RestsOnEarlier DEF Current
<1>5. STEPS[m] \in Runs(Here.block) => STEPS[m] \in Here.passed
  BY <1>1 DEF BInv, InLoop
<1> QED BY <1>3, <1>4, <1>5

Untouched == UNCHANGED <<lock, boot>>

\* A step that changes one manifest, and in it neither the block, nor what it
\* took, its boot or its discarding.
LEMMA OneManifest ==
    ASSUME BInv, NEW s \in Ids, NEW m \in Manifests, Untouched, commit' \in Nat,
           sessions' = [sessions EXCEPT ![s] = m],
           m.block = sessions[s].block, m.taken = sessions[s].taken,
           m.taken \subseteq m.passed,
           m.boot # None => m.boot <= boot.id,
           m.discarded => m.boot # None /\ m.boot < boot.id,
           \A step \in Runs(m.block) :
               m.dirs[step] # None => m.dirs[step].boot.id = m.boot
    PROVE  /\ BlockTypes' /\ AllTaken' /\ BootsPass' /\ OneBoot'
           /\ Ids' = Ids /\ sessions'[s] = m
           /\ \A b : Runs(b)' = Runs(b)
<1>1. /\ sessions \in Seq(Manifests) /\ Len(sessions) \in Nat
      /\ boot \in [id: Nat, machine: Machines]
      /\ lock' = lock /\ boot' = boot
  BY DEF BInv, BlockTypes, Untouched
<1>2. sessions' \in Seq(Manifests) /\ Len(sessions') = Len(sessions)
  BY <1>1 DEF Ids
<1>3. /\ Ids' = Ids /\ sessions'[s] = m
      /\ \A x \in Ids \ {s} : sessions'[x] = sessions[x]
  BY <1>1, <1>2 DEF Ids
<1>4. \A b : Runs(b)' = Runs(b) /\ \A e : Taken(e, b)' = Taken(e, b)
  BY <1>1 DEF Runs, Taken, Block
<1>5. \A x \in Ids : sessions'[x].block = sessions[x].block
                     /\ sessions'[x].taken = sessions[x].taken
  BY <1>3
<1>6. BlockTypes'
  <2>1. sessions' # <<>> => check(lock)
    <3>1. sessions # <<>>
      BY <1>1 DEF Ids
    <3> QED BY <3>1 DEF BInv, BlockTypes
  <2> QED BY <1>1, <1>2, <1>3, <1>5, <2>1 DEF BInv, BlockTypes
<1>7. AllTaken'
  <2> SUFFICES ASSUME NEW x \in Ids
               PROVE  /\ sessions'[x].taken =
                            UNION {Taken(e, sessions[x].block) :
                                       e \in 1..(sessions[x].block - 1)}
                      /\ sessions'[x].taken \subseteq sessions'[x].passed
    BY <1>3, <1>4, <1>5 DEF AllTaken
  <2>1. /\ sessions[x].taken =
              UNION {Taken(e, sessions[x].block) : e \in 1..(sessions[x].block - 1)}
        /\ sessions[x].taken \subseteq sessions[x].passed
    BY DEF BInv, AllTaken
  <2> QED BY <1>3, <1>5, <2>1
<1>8. BootsPass'
  BY <1>1, <1>3 DEF BInv, BootsPass
<1>9. OneBoot'
  <2> SUFFICES ASSUME NEW x \in Ids, NEW step \in Runs(sessions[x].block),
                      sessions'[x].dirs[step] # None
               PROVE  sessions'[x].dirs[step].boot.id = sessions'[x].boot
    BY <1>3, <1>4, <1>5 DEF OneBoot
  <2> QED BY <1>3 DEF BInv, OneBoot
<1> QED BY <1>3, <1>4, <1>6, <1>7, <1>8, <1>9

\* A step that changes no manifest
LEMMA NoManifest ==
    ASSUME BInv, UNCHANGED <<lock, sessions>>, commit' \in Nat,
           boot' \in [id: Nat, machine: Machines], boot'.id >= boot.id
    PROVE  /\ BlockTypes' /\ AllTaken' /\ BootsPass' /\ OneBoot'
           /\ Ids' = Ids /\ \A b : Runs(b)' = Runs(b)
<1>1. /\ Ids' = Ids
      /\ \A b : Runs(b)' = Runs(b) /\ \A e : Taken(e, b)' = Taken(e, b)
  BY DEF Ids, Runs, Taken, Block
<1>2. BlockTypes'
  BY <1>1 DEF BInv, BlockTypes
<1>3. AllTaken'
  BY <1>1 DEF BInv, AllTaken
<1>4. BootsPass'
  <2>1. \A s \in Ids : sessions[s].boot \in Nat \cup {None}
    <3>1. \A s \in Ids : sessions[s] \in Manifests
      BY DEF BInv, BlockTypes, Ids
    <3> QED BY <3>1 DEF Manifests
  <2> QED BY <1>1, <2>1 DEF BInv, BootsPass, BlockTypes
<1>5. OneBoot'
  BY <1>1 DEF BInv, OneBoot
<1> QED BY <1>1, <1>2, <1>3, <1>4, <1>5

LEMMA IdleLoop == run = Idle => InLoop
  BY DEF InLoop

\* What a run under way is known to be in
LEMMA InRun ==
    ASSUME BInv, run # Idle
    PROVE  /\ S \in Ids /\ Here \in Manifests /\ run.at \in 1..(Len(STEPS) + 1)
           /\ Len(STEPS) \in Nat
           /\ Here.block \in 1..Len(lock.blocks) /\ check(lock)
           /\ Runs(Here.block) \subseteq Steps
           /\ Here.taken \subseteq Here.passed
           /\ Here.taken \cap Runs(Here.block) = {}
           /\ Here.boot = boot.id /\ boot.id \in Nat /\ ~Here.discarded
           /\ \A step \in Runs(Here.block) :
                  Here.dirs[step] # None => Here.dirs[step].boot.id = Here.boot
<1>1. S \in Ids /\ run.at \in 1..(Len(STEPS) + 1) /\ Here.boot = boot.id
      /\ ~Here.discarded /\ Len(STEPS) \in Nat
  BY StepsAssumption DEF BInv, InLoop, S
<1>2. Here \in Manifests /\ Here.block \in 1..Len(lock.blocks) /\ check(lock)
      /\ boot.id \in Nat
  <2>1. sessions # <<>> /\ Here \in Manifests
    BY <1>1 DEF Ids, BInv, BlockTypes, Here
  <2> QED BY <1>1, <2>1 DEF BInv, BlockTypes, Here
<1>3. Runs(Here.block) \subseteq Steps
  BY <1>2, StepsAssumption DEF Runs, Block, check, InSessionOrder
<1>4. Here.taken \subseteq Here.passed /\ Here.taken \cap Runs(Here.block) = {}
  <2>1. /\ Here.taken \subseteq Here.passed
        /\ Here.taken = UNION {Taken(e, Here.block) : e \in 1..(Here.block - 1)}
    BY <1>1 DEF BInv, AllTaken, Here
  <2>2. \A e : Taken(e, Here.block) \cap Runs(Here.block) = {}
    BY DEF Taken
  <2> QED BY <2>1, <2>2
<1>5. \A step \in Runs(Here.block) :
          Here.dirs[step] # None => Here.dirs[step].boot.id = Here.boot
  BY <1>1 DEF BInv, OneBoot, Here
<1> QED BY <1>1, <1>2, <1>3, <1>4, <1>5

\* The runner starts where all before has passed, and only on the session's
\* boot, which is this one or none yet.
LEMMA StartsBlock == BInv /\ Start => BInv'
<1> SUFFICES ASSUME BInv, Start PROVE BInv'
  OBVIOUS
<1>1. PICK s \in Ids : \E start \in Runs(sessions[s].block) :
        /\ ~refuse_start(sessions[s], start)
        /\ IF interrupted(sessions[s])
           THEN /\ sessions' = [sessions EXCEPT ![s].discarded = TRUE]
                /\ UNCHANGED run
           ELSE /\ sessions' = [sessions EXCEPT
                                   ![s].boot = IF @ = None THEN boot.id ELSE @]
                /\ run' = [session |-> s, phase |-> "loop", at |-> IndexOf(start)]
  BY DEF Start
<1>10. PICK start \in Runs(sessions[s].block) :
        /\ ~refuse_start(sessions[s], start)
        /\ IF interrupted(sessions[s])
           THEN /\ sessions' = [sessions EXCEPT ![s].discarded = TRUE]
                /\ UNCHANGED run
           ELSE /\ sessions' = [sessions EXCEPT
                                   ![s].boot = IF @ = None THEN boot.id ELSE @]
                /\ run' = [session |-> s, phase |-> "loop", at |-> IndexOf(start)]
  BY <1>1
<1> DEFINE m0 == sessions[s]
<1>2. /\ run = Idle /\ Untouched /\ commit' \in Nat
      /\ m0 \in Manifests /\ m0.block \in 1..Len(lock.blocks) /\ check(lock)
      /\ boot.id \in Nat
  <2>1. sessions # <<>> /\ commit' = commit
    BY DEF Start, Ids
  <2> QED BY <2>1 DEF Start, Untouched, BInv, BlockTypes, Ids
<1>3. /\ m0.taken \subseteq m0.passed
      /\ m0.boot # None => m0.boot <= boot.id
      /\ m0.discarded => m0.boot # None /\ m0.boot < boot.id
      /\ \A step \in Runs(m0.block) :
             m0.dirs[step] # None => m0.dirs[step].boot.id = m0.boot
  BY DEF BInv, AllTaken, BootsPass, OneBoot
<1> HIDE DEF m0
<1>4. CASE interrupted(m0)
  <2> DEFINE m == [m0 EXCEPT !.discarded = TRUE]
  <2>1. sessions' = [sessions EXCEPT ![s] = m] /\ run' = run
    BY <1>10, <1>4 DEF m0
  <2>2. m \in Manifests /\ m.block = m0.block /\ m.taken = m0.taken
        /\ m.passed = m0.passed /\ m.boot = m0.boot /\ m.dirs = m0.dirs
    BY <1>2 DEF Manifests
  <2>3. m0.boot # None /\ m0.boot < boot.id
    <3>1. m0.boot # None /\ m0.boot # boot.id
      BY <1>4 DEF interrupted
    <3>2. m0.boot \in Nat
      BY <1>2, <3>1 DEF Manifests
    <3> QED BY <1>2, <1>3, <3>1, <3>2
  <2> HIDE DEF m
  <2>4. BlockTypes' /\ AllTaken' /\ BootsPass' /\ OneBoot'
    BY <1>2, <1>3, <2>1, <2>2, <2>3, OneManifest DEF m0
  <2>5. InLoop'
    BY <1>2, <2>1 DEF InLoop, Idle
  <2> QED BY <2>4, <2>5 DEF BInv
<1>5. CASE ~interrupted(m0)
  <2> DEFINE m == [m0 EXCEPT !.boot = boot.id]
  <2>1. m0.boot = None \/ m0.boot = boot.id
    BY <1>5 DEF interrupted
  <2>2. sessions' = [sessions EXCEPT ![s] = m]
        /\ run' = [session |-> s, phase |-> "loop", at |-> IndexOf(start)]
    BY <1>10, <1>5, <2>1 DEF m0
  <2>3. m \in Manifests /\ m.block = m0.block /\ m.taken = m0.taken
        /\ m.passed = m0.passed /\ m.boot = boot.id /\ m.dirs = m0.dirs
        /\ m.discarded = m0.discarded
    BY <1>2 DEF Manifests
  <2>4. ~m0.discarded
    BY <1>2, <1>3, <2>1
  <2>5. \A step \in Runs(m0.block) :
            m.dirs[step] # None => m.dirs[step].boot.id = m.boot
    <3> SUFFICES ASSUME NEW step \in Runs(m0.block), m0.dirs[step] # None
                 PROVE  m0.dirs[step].boot.id = boot.id
      BY <2>3
    <3>1. m0.dirs[step].boot.id = m0.boot
      BY <1>3
    <3>2. m0.dirs[step] \in Attempts
      <4>1. step \in Steps
        BY <1>2, StepsAssumption DEF Runs, Block, check, InSessionOrder
      <4> QED BY <1>2, <4>1 DEF Manifests
    <3>3. m0.dirs[step].boot.id \in Nat
      BY <3>2 DEF Attempts
    <3> QED BY <2>1, <3>1, <3>3, NoneAssumption
  <2> HIDE DEF m
  <2>6. /\ BlockTypes' /\ AllTaken' /\ BootsPass' /\ OneBoot'
        /\ Ids' = Ids /\ sessions'[s] = m /\ \A b : Runs(b)' = Runs(b)
    <3>1. m.boot <= boot.id /\ ~m.discarded /\ m.taken \subseteq m.passed
      BY <1>2, <1>3, <2>3, <2>4
    <3> QED BY <1>2, <2>2, <2>3, <2>5, <3>1, OneManifest DEF m0
  <2>7. start \in Steps /\ IndexOf(start) \in 1..Len(STEPS)
        /\ STEPS[IndexOf(start)] = start /\ start \in Runs(m0.block)
    <3>1. start \in Steps
      BY <1>10, <1>2, StepsAssumption DEF Runs, Block, check, InSessionOrder, m0
    <3> QED BY <1>10, <3>1, StepPlaces DEF m0
  <2>8. \A n \in 1..(IndexOf(start) - 1) :
            STEPS[n] \in Runs(m0.block) => STEPS[n] \in m0.passed
    BY <1>10 DEF refuse_start, m0
  <2>9. /\ run'.session = s /\ run'.at = IndexOf(start) /\ run'.phase = "loop"
        /\ Here' = m /\ Current' = start
    BY <2>2, <2>6, <2>7 DEF Here, S, Current
  <2>10. InLoop'
    <3>1. run' \in [session: Ids', at: 1..(Len(STEPS) + 1),
                    phase: {"loop", "step", "wrote", "passed", "failed", "identity"}]
      <4>1. Len(STEPS) \in Nat
        BY StepsAssumption
      <4> QED BY <2>2, <2>6, <2>7, <4>1
    <3>2. Runs(Here.block)' = Runs(m0.block)
      BY <2>3, <2>6, <2>9
    <3> QED BY <1>2, <2>3, <2>4, <2>7, <2>8, <2>9, <3>1, <3>2
        DEF InLoop, Untouched
  <2> QED BY <2>6, <2>10 DEF BInv
<1> QED BY <1>4, <1>5 DEF m0

\* A step of the run under way: the manifest is its session's.
LEMMA RunManifest ==
    ASSUME BInv, run # Idle, NEW m \in Manifests, Untouched, commit' \in Nat,
           sessions' = [sessions EXCEPT ![S] = m],
           m.block = Here.block, m.taken = Here.taken, m.boot = Here.boot,
           m.discarded = Here.discarded, m.taken \subseteq m.passed,
           \A step \in Runs(m.block) :
               m.dirs[step] # None => m.dirs[step].boot.id = m.boot
    PROVE  /\ BlockTypes' /\ AllTaken' /\ BootsPass' /\ OneBoot'
           /\ Ids' = Ids /\ sessions'[S] = m
           /\ \A b : Runs(b)' = Runs(b)
<1>1. S \in Ids /\ m.boot <= boot.id /\ ~m.discarded
  BY InRun
<1>2. m.block = sessions[S].block /\ m.taken = sessions[S].taken
  BY DEF Here
<1> QED BY <1>1, <1>2, OneManifest

\* The run goes on with the step it is at.
LEMMA InPhase ==
    ASSUME BInv, run # Idle, run.at <= Len(STEPS),
           NEW m \in Manifests, Untouched, commit' \in Nat,
           sessions' = [sessions EXCEPT ![S] = m],
           m.block = Here.block, m.taken = Here.taken, m.boot = Here.boot,
           m.discarded = Here.discarded, Here.passed \subseteq m.passed,
           \A step \in Steps \ {Current} : m.dirs[step] = Here.dirs[step],
           m.dirs[Current] \in Attempts, m.dirs[Current].boot.id = boot.id,
           NEW phase \in {"step", "wrote", "passed", "failed", "identity"},
           run' = [run EXCEPT !.phase = phase],
           phase = "wrote" => Current \in {"predict", "ground_truth"},
           phase = "identity" => Current \in m.passed
    PROVE  BInv'
<1>1. Current \in Runs(Here.block) /\ Current \in Steps
  BY InRun DEF BInv, InLoop
<1>2. m.taken \subseteq m.passed
  BY InRun
<1>3. \A step \in Runs(m.block) :
          m.dirs[step] # None => m.dirs[step].boot.id = m.boot
  BY InRun
<1>4. /\ BlockTypes' /\ AllTaken' /\ BootsPass' /\ OneBoot'
      /\ Ids' = Ids /\ sessions'[S] = m /\ \A b : Runs(b)' = Runs(b)
  BY <1>2, <1>3, RunManifest
<1>5. run \in [session: Ids, at: 1..(Len(STEPS) + 1),
               phase: {"loop", "step", "wrote", "passed", "failed", "identity"}]
      /\ \A n \in 1..(run.at - 1) :
             STEPS[n] \in Runs(Here.block) => STEPS[n] \in Here.passed
  BY DEF BInv, InLoop
<1>6. /\ run'.session = S /\ run'.at = run.at /\ run'.phase = phase
      /\ run' \in [session: Ids', at: 1..(Len(STEPS) + 1),
                   phase: {"loop", "step", "wrote", "passed", "failed", "identity"}]
  BY <1>4, <1>5 DEF S
<1>7. Here' = m /\ Current' = Current /\ Attempt' = m.dirs[Current]
  BY <1>4, <1>6 DEF Here, S, Current, Attempt
<1>8. Runs(Here.block)' = Runs(Here.block)
  BY <1>4, <1>7
<1>9. Here'.boot = boot'.id /\ ~Here'.discarded
  BY <1>7, InRun DEF Untouched
<1>10. InLoop'
  BY <1>1, <1>5, <1>6, <1>7, <1>8, <1>9 DEF InLoop
<1> QED BY <1>4, <1>10 DEF BInv

LEMMA HasLeast ==
    ASSUME NEW T \in SUBSET Nat, T # {}
    PROVE  \E x \in T : \A y \in T : x <= y
<1> DEFINE R == {ss \in Nat \X Nat : ss[1] < ss[2]}
<1>1. IsWellFoundedOn(R, Nat)
  BY NatLessThanWellFounded DEF OpToRel
<1>2. \A x, y \in Nat : <<y, x>> \in R <=> y < x
  OBVIOUS
<1> HIDE DEF R
<1>3. PICK x \in T : \A y \in T : ~(<<y, x>> \in R)
  BY <1>1, WFMin
<1>4. ASSUME NEW y \in T
      PROVE  x <= y
  <2>1. x \in Nat /\ y \in Nat /\ ~(y < x)
    BY <1>2, <1>3
  <2> QED BY <2>1
<1> QED BY <1>4


\* The run goes on with the next of its steps: none it has is passed over.
LEMMA GoesOn ==
    ASSUME BInv, run # Idle, run.at <= Len(STEPS),
           NEW m \in Manifests, Untouched, commit' \in Nat,
           sessions' = [sessions EXCEPT ![S] = m],
           m.block = Here.block, m.taken = Here.taken, m.boot = Here.boot,
           m.discarded = Here.discarded,
           Here.passed \cup {Current} \subseteq m.passed, m.dirs = Here.dirs,
           run' = [run EXCEPT !.phase = "loop", !.at = Following]
    PROVE  BInv'
<1>1. /\ BlockTypes' /\ AllTaken' /\ BootsPass' /\ OneBoot'
      /\ Ids' = Ids /\ sessions'[S] = m /\ \A b : Runs(b)' = Runs(b)
  <2>1. m.taken \subseteq m.passed
    BY InRun
  <2>2. \A step \in Runs(m.block) :
            m.dirs[step] # None => m.dirs[step].boot.id = m.boot
    BY InRun
  <2> QED BY <2>1, <2>2, RunManifest
<1>2. run \in [session: Ids, at: 1..(Len(STEPS) + 1),
               phase: {"loop", "step", "wrote", "passed", "failed", "identity"}]
      /\ Len(STEPS) \in Nat
  BY InRun DEF BInv, InLoop
<1>3. /\ Following \in 1..(Len(STEPS) + 1) /\ run.at < Following
      /\ \A n \in (run.at + 1)..(Following - 1) : STEPS[n] \notin Runs(Here.block)
      /\ Following <= Len(STEPS) => STEPS[Following] \in Runs(Here.block)
  <2>1. CASE Later = {}
    BY <2>1, <1>2 DEF Following, Later
  <2>2. CASE Later # {}
    <3>1. Later \in SUBSET Nat
      BY <1>2 DEF Later
    <3>2. \E n \in Later : \A k \in Later : n <= k
      BY <2>2, <3>1, HasLeast
    <3>3. Following \in Later /\ \A k \in Later : Following <= k
      BY <2>2, <3>2 DEF Following
    <3>4. /\ Following \in (run.at + 1)..Len(STEPS)
          /\ STEPS[Following] \in Runs(Here.block)
      BY <3>3 DEF Later
    <3>5. ASSUME NEW n \in (run.at + 1)..(Following - 1),
                 STEPS[n] \in Runs(Here.block)
          PROVE  FALSE
      <4>1. n \in (run.at + 1)..Len(STEPS) /\ n < Following
        BY <1>2, <3>4
      <4>2. n \in Later
        BY <3>5, <4>1 DEF Later
      <4> QED BY <1>2, <3>3, <3>4, <4>1, <4>2
    <3> QED BY <1>2, <3>4, <3>5
  <2> QED BY <2>1, <2>2
<1>4. ASSUME NEW n \in 1..(Following - 1), STEPS[n] \in Runs(Here.block)
      PROVE  STEPS[n] \in m.passed
  <2>1. CASE n < run.at
    <3>1. n \in 1..(run.at - 1)
      BY <1>2, <2>1
    <3> QED BY <1>4, <3>1 DEF BInv, InLoop
  <2>2. CASE n = run.at
    BY <2>2 DEF Current
  <2>3. CASE n > run.at
    <3>1. n \in (run.at + 1)..(Following - 1)
      BY <1>2, <1>3, <2>3
    <3> QED BY <1>3, <1>4, <3>1
  <2> QED BY <1>2, <2>1, <2>2, <2>3
<1> HIDE DEF Following
<1>5. /\ run'.session = S /\ run'.at = Following /\ run'.phase = "loop"
      /\ run' \in [session: Ids', at: 1..(Len(STEPS) + 1),
                   phase: {"loop", "step", "wrote", "passed", "failed", "identity"}]
  BY <1>1, <1>2, <1>3 DEF S
<1>6. Here' = m /\ Current' = STEPS[Following]
  BY <1>1, <1>5 DEF Here, S, Current
<1>7. Runs(Here.block)' = Runs(Here.block)
  BY <1>1, <1>6
<1>8. Here'.boot = boot'.id /\ ~Here'.discarded
  BY <1>6, InRun DEF Untouched
<1>9. InLoop'
  BY <1>3, <1>4, <1>5, <1>6, <1>7, <1>8 DEF InLoop
<1> QED BY <1>1, <1>9 DEF BInv

LEMMA KeepsBlock == BInv /\ Keep => BInv'
<1> SUFFICES ASSUME BInv, Keep PROVE BInv'
  OBVIOUS
<1>1. /\ run # Idle /\ run.phase = "loop" /\ run.at <= Len(STEPS) /\ Untouched
      /\ commit' \in Nat
  BY DEF Keep, Idle, Untouched, BInv, BlockTypes
<1>2. Current \in Runs(Here.block) /\ Current \in Steps
  BY <1>1, InRun DEF BInv, InLoop
<1>3. CASE Current = "ground_truth" /\ ~Synced
  <2> DEFINE m == [Here EXCEPT !.dirs = [@ EXCEPT ![Current] = None],
                               !.passed = @ \ {Current}]
  <2>1. sessions' = [sessions EXCEPT ![S] = m] /\ run' = Idle
    BY <1>3 DEF Keep, Here
  <2>2. /\ m \in Manifests /\ m.block = Here.block /\ m.taken = Here.taken
        /\ m.passed = Here.passed \ {Current} /\ m.boot = Here.boot
        /\ m.discarded = Here.discarded
        /\ \A step \in Steps : m.dirs[step] = IF step = Current THEN None
                                              ELSE Here.dirs[step]
    BY <1>1, <1>2, InRun DEF Manifests
  <2> HIDE DEF m
  <2>3. m.taken \subseteq m.passed
    BY <1>1, <1>2, <2>2, InRun
  <2>4. \A step \in Runs(m.block) :
            m.dirs[step] # None => m.dirs[step].boot.id = m.boot
    BY <1>1, <2>2, InRun
  <2>5. BlockTypes' /\ AllTaken' /\ BootsPass' /\ OneBoot'
    BY <1>1, <2>1, <2>2, <2>3, <2>4, RunManifest
  <2> QED BY <2>1, <2>5 DEF BInv, InLoop, Idle
<1>4. CASE ~(Current = "ground_truth" /\ ~Synced)
  <2> DEFINE m == [Here EXCEPT !.dirs = [@ EXCEPT ![Current] = NoAttempt]]
  <2>1. sessions' = [sessions EXCEPT ![S] = m] /\ run' = [run EXCEPT !.phase = "step"]
    BY <1>4 DEF Keep, Here
  <2>2. NoAttempt \in Attempts /\ NoAttempt.boot = boot
    BY DEF NoAttempt, Attempts, BInv, BlockTypes
  <2>3. /\ m \in Manifests /\ m.block = Here.block /\ m.taken = Here.taken
        /\ m.passed = Here.passed /\ m.boot = Here.boot
        /\ m.discarded = Here.discarded
        /\ \A step \in Steps : m.dirs[step] = IF step = Current THEN NoAttempt
                                              ELSE Here.dirs[step]
    BY <1>1, <1>2, <2>2, InRun DEF Manifests
  <2> HIDE DEF m
  <2> QED BY <1>1, <1>2, <2>1, <2>2, <2>3, InRun, InPhase
<1> QED BY <1>3, <1>4

\* What the current step has written is of this boot.
LEMMA AttemptHere ==
    ASSUME BInv, run # Idle, run.phase # "loop"
    PROVE  /\ run.at <= Len(STEPS) /\ Current \in Steps
           /\ Current \in Runs(Here.block)
           /\ Attempt \in Attempts /\ Here.dirs[Current] = Attempt
           /\ Attempt.boot.id = boot.id
<1>1. /\ run.at <= Len(STEPS) /\ Attempt \in Attempts
      /\ Current \in Runs(Here.block)
  BY DEF BInv, InLoop
<1>2. Attempt # None
  BY <1>1, NoneAssumption DEF Attempts
<1> QED BY <1>1, <1>2, InRun DEF Attempt

LEMMA WritesBlock == BInv /\ StepWrites => BInv'
<1> SUFFICES ASSUME BInv, StepWrites PROVE BInv'
  OBVIOUS
<1>1. /\ run # Idle /\ run.phase = "step" /\ Untouched /\ commit' \in Nat
      /\ run' = [run EXCEPT !.phase = "wrote"]
  BY DEF StepWrites, Idle, Untouched, BInv, BlockTypes
<1>2. CASE Current = "predict" /\ Predict
  <2> DEFINE m == [Here EXCEPT !.receipt = TRUE]
  <2>1. sessions' = [sessions EXCEPT ![S] = m]
    BY <1>2 DEF Predict, Here
  <2>2. /\ m \in Manifests /\ m.block = Here.block /\ m.taken = Here.taken
        /\ m.passed = Here.passed /\ m.boot = Here.boot
        /\ m.discarded = Here.discarded /\ m.dirs = Here.dirs
    BY <1>1, InRun DEF Manifests
  <2> HIDE DEF m
  <2> QED BY <1>1, <1>2, <2>1, <2>2, AttemptHere, InPhase
<1>3. CASE Current = "ground_truth" /\ GroundTruth
  <2> DEFINE d == [Attempt EXCEPT !.rows = TRUE]
             m == [Here EXCEPT !.dirs = [@ EXCEPT ![Current] = d]]
  <2>1. sessions' = [sessions EXCEPT ![S] = m]
    BY <1>3 DEF GroundTruth, Here, Attempt
  <2>2. d \in Attempts /\ d.boot.id = boot.id
    BY <1>1, AttemptHere DEF Attempts
  <2> HIDE DEF d
  <2>3. /\ m \in Manifests /\ m.block = Here.block /\ m.taken = Here.taken
        /\ m.passed = Here.passed /\ m.boot = Here.boot
        /\ m.discarded = Here.discarded
        /\ \A step \in Steps : m.dirs[step] = IF step = Current THEN d
                                              ELSE Here.dirs[step]
    BY <1>1, <2>2, InRun, AttemptHere DEF Manifests
  <2> HIDE DEF m
  <2> QED BY <1>1, <1>3, <2>1, <2>2, <2>3, AttemptHere, InPhase
<1> QED BY <1>2, <1>3 DEF StepWrites

LEMMA EndsBlock == BInv /\ StepEnds => BInv'
<1> SUFFICES ASSUME BInv, StepEnds PROVE BInv'
  OBVIOUS
<1>1. /\ run # Idle /\ run.phase \in {"step", "wrote"} /\ Untouched
      /\ commit' \in Nat
  BY DEF StepEnds, Idle, Untouched, BInv, BlockTypes
<1>2. PICK findings \in BOOLEAN, phase \in {"passed", "failed"} :
        /\ sessions' = [sessions EXCEPT ![S].dirs[Current].findings = findings]
        /\ run' = [run EXCEPT !.phase = phase]
  <2>1. PICK end \in {"passed", "failed", "killed"} :
          /\ sessions' = [sessions EXCEPT ![S].dirs[Current].findings =
                              (Current = "preflight" /\ end # "killed")]
          /\ run' = [run EXCEPT !.phase = IF end = "passed" THEN "passed"
                                          ELSE "failed"]
    BY DEF StepEnds
  <2>2. (Current = "preflight" /\ end # "killed") \in BOOLEAN
    OBVIOUS
  <2> QED BY <2>1, <2>2
<1> DEFINE d == [Attempt EXCEPT !.findings = findings]
           m == [Here EXCEPT !.dirs = [@ EXCEPT ![Current] = d]]
<1>3. sessions' = [sessions EXCEPT ![S] = m]
  BY <1>2 DEF Here, Attempt
<1>4. d \in Attempts /\ d.boot.id = boot.id
  BY <1>1, AttemptHere DEF Attempts
<1> HIDE DEF d
<1>5. /\ m \in Manifests /\ m.block = Here.block /\ m.taken = Here.taken
      /\ m.passed = Here.passed /\ m.boot = Here.boot
      /\ m.discarded = Here.discarded
      /\ \A step \in Steps : m.dirs[step] = IF step = Current THEN d
                                            ELSE Here.dirs[step]
  BY <1>1, <1>4, InRun, AttemptHere DEF Manifests
<1> HIDE DEF m
<1> QED BY <1>1, <1>2, <1>3, <1>4, <1>5, AttemptHere, InPhase

\* A step recorded as failed ends the run; nothing taken is lost with it.
LEMMA FailsBlock ==
    ASSUME BInv, run # Idle, run.phase # "loop", Untouched, commit' \in Nat,
           sessions' = [sessions EXCEPT ![S].passed = @ \ {Current}], run' = Idle
    PROVE  BInv'
<1> DEFINE m == [Here EXCEPT !.passed = @ \ {Current}]
<1>1. sessions' = [sessions EXCEPT ![S] = m]
  BY DEF Here
<1>2. /\ m \in Manifests /\ m.block = Here.block /\ m.taken = Here.taken
      /\ m.passed = Here.passed \ {Current} /\ m.boot = Here.boot
      /\ m.discarded = Here.discarded /\ m.dirs = Here.dirs
  BY InRun DEF Manifests
<1> HIDE DEF m
<1>3. m.taken \subseteq m.passed
  BY <1>2, InRun, AttemptHere
<1>4. \A step \in Runs(m.block) :
          m.dirs[step] # None => m.dirs[step].boot.id = m.boot
  BY <1>2, InRun
<1>5. BlockTypes' /\ AllTaken' /\ BootsPass' /\ OneBoot'
  BY <1>1, <1>2, <1>3, <1>4, RunManifest
<1> QED BY <1>5 DEF BInv, InLoop, Idle

LEMMA RecordsBlock == BInv /\ Record => BInv'
<1> SUFFICES ASSUME BInv, Record PROVE BInv'
  OBVIOUS
<1>1. /\ run # Idle /\ run.phase \in {"passed", "failed"} /\ Untouched
      /\ commit' \in Nat
  BY DEF Record, Idle, Untouched, BInv, BlockTypes
<1>2. CASE /\ sessions' = [sessions EXCEPT ![S].passed = @ \ {Current}]
           /\ run' = Idle
  BY <1>1, <1>2, FailsBlock
<1>3. CASE /\ sessions' = [sessions EXCEPT ![S].passed = @ \cup {Current}]
           /\ run' = IF Current = "preflight" THEN [run EXCEPT !.phase = "identity"]
                     ELSE [run EXCEPT !.phase = "loop", !.at = Following]
  <2> DEFINE m == [Here EXCEPT !.passed = @ \cup {Current}]
  <2>1. sessions' = [sessions EXCEPT ![S] = m]
    BY <1>3 DEF Here
  <2>2. /\ m \in Manifests /\ m.block = Here.block /\ m.taken = Here.taken
        /\ m.passed = Here.passed \cup {Current} /\ m.boot = Here.boot
        /\ m.discarded = Here.discarded /\ m.dirs = Here.dirs
    BY <1>1, InRun, AttemptHere DEF Manifests
  <2> HIDE DEF m
  <2>3. CASE Current = "preflight"
    <3>1. run' = [run EXCEPT !.phase = "identity"]
      BY <1>3, <2>3
    <3>2. /\ run.at <= Len(STEPS) /\ m.dirs[Current] \in Attempts
          /\ m.dirs[Current].boot.id = boot.id
          /\ \A step \in Steps \ {Current} : m.dirs[step] = Here.dirs[step]
      BY <1>1, <2>2, AttemptHere
    <3>3. Here.passed \subseteq m.passed /\ Current \in m.passed
      BY <2>2
    <3> QED BY <1>1, <2>1, <2>2, <3>1, <3>2, <3>3, InPhase
  <2>4. CASE Current # "preflight"
    <3>1. run' = [run EXCEPT !.phase = "loop", !.at = Following]
      BY <1>3, <2>4
    <3>2. Here.passed \cup {Current} \subseteq m.passed
      BY <2>2
    <3> QED BY <1>1, <2>1, <2>2, <3>1, <3>2, AttemptHere, GoesOn
  <2> QED BY <2>3, <2>4
<1> QED BY <1>2, <1>3 DEF Record

LEMMA IdentifiesBlock == BInv /\ Identity => BInv'
<1> SUFFICES ASSUME BInv, Identity PROVE BInv'
  OBVIOUS
<1>1. /\ run # Idle /\ run.phase = "identity" /\ Untouched /\ commit' \in Nat
  BY DEF Identity, Idle, Untouched, BInv, BlockTypes
<1>2. CASE /\ run' = [run EXCEPT !.phase = "loop", !.at = Following]
           /\ sessions' = sessions
  <2>1. sessions' = [sessions EXCEPT ![S] = Here]
    <3>1. sessions \in Seq(Manifests) /\ S \in Ids
      BY <1>1, InRun DEF BInv, BlockTypes
    <3> QED BY <1>2, <3>1 DEF Here
  <2>2. Here.passed \cup {Current} \subseteq Here.passed
    BY <1>1 DEF BInv, InLoop
  <2> QED BY <1>1, <1>2, <2>1, <2>2, InRun, AttemptHere, GoesOn
<1>3. CASE /\ sessions' = [sessions EXCEPT ![S].passed = @ \ {Current}]
           /\ run' = Idle
  BY <1>1, <1>3, FailsBlock
<1> QED BY <1>2, <1>3 DEF Identity

\* A block that begins has run nothing, and takes what it does not run itself
\* of all the blocks before it.
LEMMA NewBlock ==
    ASSUME BInv, check(lock), NEW b \in 1..Len(lock.blocks),
           NEW prior \in Imports(b)
    PROVE  /\ NewSession(b, prior) \in Manifests
           /\ NewSession(b, prior).block = b
           /\ NewSession(b, prior).boot = None
           /\ ~NewSession(b, prior).discarded
           /\ NewSession(b, prior).imports = prior
           /\ NewSession(b, prior).taken = UNION {Taken(e, b) : e \in 1..(b - 1)}
           /\ NewSession(b, prior).passed = NewSession(b, prior).taken
           /\ \A step \in Runs(b) : NewSession(b, prior).dirs[step] = None
<1> DEFINE taken == UNION {Taken(e, b) : e \in DOMAIN prior}
           From(step) == prior[CHOOSE e \in DOMAIN prior : step \in Taken(e, b)]
           dirs == [step \in Steps |-> IF step \in taken
                                       THEN sessions[From(step)].dirs[step] ELSE None]
           receipt == Receipt(prior)
<1>1. NewSession(b, prior) =
          [block |-> b, boot |-> None, commit |-> commit, imports |-> prior,
           taken |-> taken, receipt |-> receipt, discarded |-> FALSE,
           passed |-> taken, dirs |-> dirs]
  BY DEF NewSession
<1>2. /\ prior \in [1..(b - 1) -> Ids] /\ DOMAIN prior = 1..(b - 1)
      /\ sessions \in Seq(Manifests) /\ Len(sessions) \in Nat /\ commit \in Nat
  BY DEF Imports, BInv, BlockTypes
<1>3. prior \in Seq(Nat)
  <2>1. b - 1 \in Nat /\ prior \in [1..(b - 1) -> Nat]
    BY <1>2 DEF Ids
  <2> QED BY <2>1
<1>4. \A e \in 1..(b - 1) : Taken(e, b) \subseteq Steps /\ Taken(e, b) \cap Runs(b) = {}
  <2>1. \A e \in 1..(b - 1) : e \in 1..Len(lock.blocks)
    OBVIOUS
  <2> QED BY <2>1 DEF Taken, Block, check, InSessionOrder
<1>5. taken \subseteq Steps /\ taken \cap Runs(b) = {}
  BY <1>2, <1>4
<1>6. dirs \in [Steps -> Attempts \cup {None}]
  <2>1. ASSUME NEW step \in taken, step \in Steps
        PROVE  sessions[From(step)].dirs[step] \in Attempts \cup {None}
    <3>1. \E e \in DOMAIN prior : step \in Taken(e, b)
      BY <2>1
    <3>2. From(step) \in Ids
      BY <1>2, <3>1
    <3>3. sessions[From(step)] \in Manifests
      <4> HIDE DEF From
      <4> QED BY <1>2, <3>2 DEF Ids
    <3> HIDE DEF From
    <3> QED BY <2>1, <3>3 DEF Manifests
  <2> HIDE DEF taken, From
  <2> QED BY <2>1
<1>7. receipt \in BOOLEAN
  BY DEF Receipt
<1>8. \A step \in Runs(b) : dirs[step] = None
  <2>1. Runs(b) \subseteq Steps
    BY StepsAssumption DEF Runs, Block, check, InSessionOrder
  <2> HIDE DEF taken, From
  <2> QED BY <1>5, <2>1
<1>9. taken = UNION {Taken(e, b) : e \in 1..(b - 1)}
  BY <1>2
<1> HIDE DEF taken, dirs, receipt
<1> QED BY <1>1, <1>2, <1>3, <1>5, <1>6, <1>7, <1>8, <1>9 DEF Manifests

LEMMA BeginsBlock == BInv /\ StartBlock => BInv'
<1> SUFFICES ASSUME BInv, StartBlock PROVE BInv'
  OBVIOUS
<1>0. PICK b \in 1..Len(lock.blocks) : \E prior \in Imports(b) :
        sessions' = Append(sessions, NewSession(b, prior))
  BY DEF StartBlock
<1>1. PICK prior \in Imports(b) : sessions' = Append(sessions, NewSession(b, prior))
  BY <1>0
<1> DEFINE m == NewSession(b, prior)
           L == Len(sessions)
<1>2. /\ run = Idle /\ run' = run /\ lock' = lock /\ boot' = boot
      /\ commit' = commit /\ check(lock)
      /\ sessions \in Seq(Manifests) /\ L \in Nat
  BY DEF StartBlock, BInv, BlockTypes
<1>3. /\ m \in Manifests /\ m.block = b /\ m.boot = None /\ ~m.discarded
      /\ m.taken = UNION {Taken(e, b) : e \in 1..(b - 1)} /\ m.passed = m.taken
      /\ \A step \in Runs(b) : m.dirs[step] = None
  BY <1>2, NewBlock
<1> HIDE DEF m
<1>4. /\ sessions' \in Seq(Manifests) /\ Len(sessions') = L + 1
      /\ sessions'[L + 1] = m
      /\ \A s \in Ids : sessions'[s] = sessions[s]
      /\ \A s \in Ids' : s \in Ids \/ s = L + 1
  <2>1. sessions' = Append(sessions, m)
    BY <1>1 DEF m
  <2> QED BY <1>2, <1>3, <2>1 DEF Ids
<1>5. \A c : Runs(c)' = Runs(c) /\ \A e : Taken(e, c)' = Taken(e, c)
  BY <1>2 DEF Runs, Taken, Block
<1>6. BlockTypes'
  <2>1. \A s \in Ids' : sessions'[s].block \in 1..Len(lock.blocks)
    BY <1>3, <1>4 DEF BInv, BlockTypes
  <2> QED BY <1>2, <1>4, <2>1 DEF BInv, BlockTypes
<1>7. AllTaken'
  <2> SUFFICES ASSUME NEW s \in Ids'
               PROVE  /\ sessions'[s].taken =
                            UNION {Taken(e, sessions'[s].block) :
                                       e \in 1..(sessions'[s].block - 1)}
                      /\ sessions'[s].taken \subseteq sessions'[s].passed
    BY <1>5 DEF AllTaken
  <2>1. CASE s \in Ids
    <3>1. sessions'[s] = sessions[s]
      BY <1>4, <2>1
    <3> QED BY <2>1, <3>1 DEF BInv, AllTaken
  <2>2. CASE s = L + 1
    BY <1>3, <1>4, <2>2
  <2> QED BY <1>4, <2>1, <2>2
<1>8. BootsPass'
  BY <1>2, <1>3, <1>4 DEF BInv, BootsPass
<1>9. OneBoot'
  <2> SUFFICES ASSUME NEW s \in Ids', NEW step \in Runs(sessions'[s].block),
                      sessions'[s].dirs[step] # None
               PROVE  sessions'[s].dirs[step].boot.id = sessions'[s].boot
    BY <1>5 DEF OneBoot
  <2>1. CASE s \in Ids
    BY <1>4, <2>1 DEF BInv, OneBoot
  <2>2. CASE s = L + 1
    BY <1>3, <1>4, <2>2
  <2> QED BY <1>4, <2>1, <2>2
<1>10. InLoop'
  BY <1>2 DEF InLoop, Idle
<1> QED BY <1>6, <1>7, <1>8, <1>9, <1>10 DEF BInv

\* The sessions of a pairing in blocks, whatever its steps, its spec and the
\* number of sessions, of restarts and of fixes.
THEOREM BlocksInvariant == BlocksSpec => []BInv
<1>1. BlocksInit => BInv
  <2> SUFFICES ASSUME BlocksInit PROVE BInv
    OBVIOUS
  <2>1. Ids = {} /\ sessions = <<>> /\ run = Idle
    BY DEF BlocksInit, Ids
  <2> QED BY <2>1 DEF BlocksInit, BInv, BlockTypes, AllTaken, BootsPass, OneBoot, InLoop
<1>2. BInv /\ [BlocksNext]_vars => BInv'
  <2> SUFFICES ASSUME BInv, [BlocksNext]_vars PROVE BInv'
    OBVIOUS
  <2>1. CASE StartBlock
    BY <2>1, BeginsBlock
  <2>2. CASE Start
    BY <2>2, StartsBlock
  <2>3. CASE Keep
    BY <2>3, KeepsBlock
  <2>4. CASE StepWrites
    BY <2>4, WritesBlock
  <2>5. CASE StepEnds
    BY <2>5, EndsBlock
  <2>6. CASE Record
    BY <2>6, RecordsBlock
  <2>7. CASE Identity
    BY <2>7, IdentifiesBlock
  <2>8. CASE Finish \/ Die \/ Restart \/ Fix
    <3>1. /\ UNCHANGED <<lock, sessions>> /\ run' = Idle
          /\ commit' \in Nat /\ boot' \in [id: Nat, machine: Machines]
          /\ boot'.id >= boot.id
      BY <2>8 DEF Finish, Die, Restart, Fix, Idle, BInv, BlockTypes
    <3>2. BlockTypes' /\ AllTaken' /\ BootsPass' /\ OneBoot'
      BY <3>1, NoManifest
    <3> QED BY <3>1, <3>2 DEF BInv, InLoop, Idle
  <2>9. CASE UNCHANGED vars
    <3>1. /\ UNCHANGED <<lock, sessions>> /\ run' = run
          /\ commit' \in Nat /\ boot' \in [id: Nat, machine: Machines]
          /\ boot'.id >= boot.id /\ boot' = boot
      BY <2>9 DEF vars, BInv, BlockTypes
    <3>2. /\ BlockTypes' /\ AllTaken' /\ BootsPass' /\ OneBoot'
          /\ Ids' = Ids /\ \A b : Runs(b)' = Runs(b)
      BY <3>1, NoManifest
    <3>3. InLoop'
      BY <3>1, <3>2 DEF BInv, InLoop, Here, S, Current, Attempt
    <3> QED BY <3>2, <3>3 DEF BInv
  <2> QED BY <2>1, <2>2, <2>3, <2>4, <2>5, <2>6, <2>7, <2>8, <2>9 DEF BlocksNext
<1> QED BY <1>1, <1>2, PTL DEF BlocksSpec

\* No session resumes on another boot than the one in its manifest.
THEOREM BlocksOneBoot == BlocksSpec => []OneBoot
<1>1. BInv => OneBoot
  BY DEF BInv
<1> QED BY <1>1, BlocksInvariant, PTL

\* Nothing is predicted or timed before all it rests on has passed, here or in
\* a block imported.
THEOREM BlocksInOrder == BlocksSpec => []NothingSkipped
  BY BlocksSkipNothing, BlocksInvariant, PTL

\* A cell's rows reach the analysis from one session.
THEOREM BlocksApart == BlocksSpec => []CellsOnce
  BY BlocksCellsOnce, BlocksInvariant, PTL

\* A discarded session is neither run again nor imported.
THEOREM BlocksDiscarded == BlocksSpec => DiscardStands
<1>1. BInv /\ [BlocksNext]_vars =>
          [\A s \in Ids : sessions[s].discarded =>
               /\ sessions'[s] = sessions[s]
               /\ Len(sessions') > Len(sessions) =>
                      \A e \in DOMAIN sessions'[Len(sessions')].imports :
                          sessions'[Len(sessions')].imports[e] # s]_vars
  <2> SUFFICES ASSUME BInv, BlocksNext, NEW s \in Ids, sessions[s].discarded
               PROVE  /\ sessions'[s] = sessions[s]
                      /\ Len(sessions') > Len(sessions) =>
                             \A e \in DOMAIN sessions'[Len(sessions')].imports :
                                 sessions'[Len(sessions')].imports[e] # s
    OBVIOUS
  <2>0. sessions \in Seq(Manifests) /\ Len(sessions) \in Nat
    BY DEF BInv, BlockTypes
  <2>1. CASE StartBlock
    <3>0. PICK b \in 1..Len(lock.blocks) : \E prior \in Imports(b) :
            /\ \A e \in 1..(b - 1) : verify_import(prior[e])
            /\ sessions' = Append(sessions, NewSession(b, prior))
      BY <2>1 DEF StartBlock
    <3>1. PICK prior \in Imports(b) :
            /\ \A e \in 1..(b - 1) : verify_import(prior[e])
            /\ sessions' = Append(sessions, NewSession(b, prior))
      BY <3>0
    <3>2. NewSession(b, prior).imports = prior /\ DOMAIN prior = 1..(b - 1)
      <4>1. NewSession(b, prior).imports = prior
        BY DEF NewSession
      <4> QED BY <4>1 DEF Imports
    <3>3. \A e \in 1..(b - 1) : prior[e] # s
      BY <3>1 DEF verify_import
    <3>4. sessions'[s] = sessions[s]
          /\ sessions'[Len(sessions')] = NewSession(b, prior)
      <4> DEFINE m == NewSession(b, prior)
      <4>1. sessions' = Append(sessions, m)
        BY <3>1
      <4> HIDE DEF m
      <4>2. sessions'[s] = sessions[s] /\ sessions'[Len(sessions')] = m
        BY <2>0, <4>1 DEF Ids
      <4> QED BY <4>2 DEF m
    <3> QED BY <3>2, <3>3, <3>4
  <2>2. CASE Start
    <3>1. sessions[s].boot # None /\ sessions[s].boot < boot.id
      BY DEF BInv, BootsPass
    <3>2. sessions[s].boot # boot.id /\ sessions[s].discarded = TRUE
      <4>1. sessions[s] \in Manifests
        BY <2>0 DEF Ids
      <4>2. sessions[s].boot \in Nat /\ sessions[s].discarded \in BOOLEAN
            /\ boot.id \in Nat
        BY <3>1, <4>1 DEF Manifests, BInv, BlockTypes
      <4> QED BY <3>1, <4>2
    <3>3. PICK x \in Ids :
            IF interrupted(sessions[x])
            THEN sessions' = [sessions EXCEPT ![x].discarded = TRUE]
            ELSE sessions' = [sessions EXCEPT
                                 ![x].boot = IF @ = None THEN boot.id ELSE @]
      BY <2>2 DEF Start
    <3>4. Len(sessions') = Len(sessions)
      BY <2>0, <3>3
    <3>5. sessions'[s] = sessions[s]
      <4>1. CASE x # s
        BY <2>0, <3>3, <4>1 DEF Ids
      <4>2. CASE x = s
        <5>1. interrupted(sessions[s])
          BY <3>1, <3>2 DEF interrupted
        <5>2. sessions' = [sessions EXCEPT ![s] = [sessions[s] EXCEPT !.discarded = TRUE]]
          BY <3>3, <4>2, <5>1
        <5>3. sessions[s] \in Manifests
          BY <2>0 DEF Ids
        <5>4. [sessions[s] EXCEPT !.discarded = TRUE] = sessions[s]
          BY <3>2, <5>3 DEF Manifests
        <5>5. sessions' = [sessions EXCEPT ![s] = sessions[s]]
          BY <5>2, <5>4, Zenon
        <5> QED BY <2>0, <5>5 DEF Ids
      <4> QED BY <4>1, <4>2
    <3> QED BY <2>0, <3>4, <3>5
  <2>3. CASE Keep \/ StepWrites \/ StepEnds \/ Record \/ Identity
    <3>1. run # Idle
      BY <2>3 DEF Keep, StepWrites, StepEnds, Record, Identity, Idle
    <3>2. S # s
      BY <3>1, InRun DEF Here
    <3>3. \E m : sessions' = [sessions EXCEPT ![S] = m] \/ sessions' = sessions
      BY <2>3 DEF Keep, StepWrites, Predict, GroundTruth, StepEnds, Record, Identity
    <3>4. sessions'[s] = sessions[s] /\ Len(sessions') = Len(sessions)
      BY <2>0, <3>2, <3>3 DEF Ids
    <3> QED BY <2>0, <3>4
  <2>4. CASE Finish \/ Die \/ Restart \/ Fix
    <3>1. sessions' = sessions
      BY <2>4 DEF Finish, Die, Restart, Fix
    <3> QED BY <2>0, <3>1
  <2> QED BY <2>1, <2>2, <2>3, <2>4 DEF BlocksNext
<1> QED BY <1>1, BlocksInvariant, PTL DEF BlocksSpec, DiscardStands
=============================================================================
