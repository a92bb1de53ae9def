--------------------------- MODULE ProcessSampler ---------------------------
(***************************************************************************)
(* The session's throttle detector, clock_sampling.py ProcessSampler: a    *)
(* process of its own reads the card and appends to a ring in shared       *)
(* memory, and the harness brackets each timed block with begin and end    *)
(* and judges it on what the ring then holds.  The process may fail, stall *)
(* or be killed at any step, the ring's lock in its hands included.        *)
(***************************************************************************)
EXTENDS Integers, Sequences, FiniteSets, SequencesExt

CONSTANTS
    capacity,    \* samples the ring holds
    MaxSamples,  \* bound: samples a process stores
    MaxBlocks,   \* bound: blocks begun
    MaxStarts,   \* bound: processes started
    None

ASSUME CapacityAssumption == capacity \in Nat \ {0}

\* None is no reading and no BlockClock
ASSUME NoneAssumption ==
    /\ None \notin [bits: BOOLEAN, epoch: Nat]
    /\ None \notin [block: Int, lo: Nat, samples: Seq([bits: BOOLEAN, epoch: Nat]),
                   flagged: BOOLEAN]

VARIABLES
    throttled,  \* the card: is a reason of flag_bits set
    epoch,      \* odd while a timed block runs, else even
    ring, count, lock, error,  \* the shared memory
    sampler,    \* the process: [pc, hand]
    harness,    \* the harness in the sampler's methods: [pc, n0, n1]
    verdict,    \* the last BlockClock: [block, lo, samples, flagged]
    taken,      \* the samples stored since the process started, in order
    starts

shared == <<ring, count, lock, error>>
vars == <<throttled, epoch, shared, sampler, harness, verdict, taken, starts>>

Samples == [bits: BOOLEAN, epoch: 0..(2 * MaxBlocks)]
Slots == 0..(capacity - 1)

alive == sampler.pc \notin {"off", "exited"}
failed == error \/ ~alive             \* _raise_if_failed raises

(***************************************************************************)
(* The sampler process, _sampler_main.                                     *)
(***************************************************************************)
Sampler(pc) == sampler' = [sampler EXCEPT !.pc = pc]

\* reader.read(): the state of the card now, stored later
Read ==
    /\ sampler.pc = "loop" /\ count < MaxSamples
    /\ sampler' = [pc |-> "read", hand |-> [bits |-> throttled, epoch |-> epoch]]
    /\ UNCHANGED <<throttled, epoch, shared, harness, verdict, taken, starts>>

Lock ==
    /\ sampler.pc = "read" /\ lock = "free"
    /\ lock' = "sampler"
    /\ Sampler("locked")
    /\ UNCHANGED <<throttled, epoch, ring, count, error, harness, verdict, taken, starts>>

\* ring[i * _FIELDS:(i + 1) * _FIELDS] = ...
Write ==
    /\ sampler.pc = "locked"
    /\ ring' = [ring EXCEPT ![count % capacity] = sampler.hand]
    /\ Sampler("written")
    /\ UNCHANGED <<throttled, epoch, count, lock, error, harness, verdict, taken, starts>>

Count ==
    /\ sampler.pc = "written"
    /\ count' = count + 1 /\ taken' = Append(taken, sampler.hand)
    /\ lock' = "free"
    /\ sampler' = [pc |-> "loop", hand |-> None]
    /\ UNCHANGED <<throttled, epoch, ring, error, harness, verdict, starts>>

\* The reader cannot be built or raises: the parent is told
ReaderRaises ==
    /\ sampler.pc = "loop"
    /\ error' = TRUE
    /\ Sampler("exited")
    /\ UNCHANGED <<throttled, epoch, ring, count, lock, harness, verdict, taken, starts>>

\* Killed: what it held stays held
Killed ==
    /\ alive
    /\ sampler' = [pc |-> "exited", hand |-> None]
    /\ UNCHANGED <<throttled, epoch, shared, harness, verdict, taken, starts>>

Card ==
    /\ throttled' = ~throttled
    /\ UNCHANGED <<epoch, shared, sampler, harness, verdict, taken, starts>>

(***************************************************************************)
(* The harness: start and stop.                                            *)
(***************************************************************************)
Off == [pc |-> "off", hand |-> None]
At(pc) == [pc |-> pc, n0 |-> None, n1 |-> None]

Start ==
    /\ harness.pc = "stopped" /\ starts < MaxStarts
    /\ starts' = starts + 1
    /\ ring' = [s \in Slots |-> None] /\ count' = 0
    /\ lock' = "free" /\ error' = FALSE
    /\ taken' = <<>>
    /\ sampler' = [pc |-> "loop", hand |-> None]
    /\ harness' = At("starting")
    /\ UNCHANGED <<throttled, epoch, verdict>>

\* start returns on the first sample; at its deadline the process is stopped,
\* and with a dead one start raises and leaves it
Started ==
    /\ harness.pc = "starting"
    /\ \/ /\ ~failed /\ count > 0
          /\ harness' = At("ready") /\ UNCHANGED sampler
       \/ /\ failed
          /\ harness' = At("raised") /\ UNCHANGED sampler
       \/ harness' = At("raised") /\ sampler' = Off
    /\ UNCHANGED <<throttled, epoch, shared, verdict, taken, starts>>

\* stop, outside any block: the process is joined, or killed
Stop ==
    /\ harness.pc \in {"ready", "raised"}
    /\ harness' = At("stopped")
    /\ sampler' = Off
    /\ UNCHANGED <<throttled, epoch, shared, verdict, taken, starts>>

(***************************************************************************)
(* The harness: a block.  Every ClockSamplingError leaves it at "raised".  *)
(***************************************************************************)
Raises(when) ==
    /\ when
    /\ harness' = At("raised")
    /\ UNCHANGED <<throttled, epoch, shared, sampler, verdict, taken, starts>>

\* begin, and the block's clock starts
Begin ==
    /\ harness.pc = "ready" /\ ~failed
    /\ epoch < 2 * MaxBlocks
    /\ harness' = [pc |-> "block", n0 |-> count, n1 |-> None]
    /\ epoch' = epoch + 1
    /\ UNCHANGED <<throttled, shared, sampler, verdict, taken, starts>>

BeginRaises == Raises(harness.pc = "ready" /\ failed)

\* The block raised: abort records nothing
Abort ==
    /\ harness.pc = "block"
    /\ harness' = At("ready")
    /\ epoch' = epoch + 1
    /\ UNCHANGED <<throttled, shared, sampler, verdict, taken, starts>>

\* The block's clock has stopped: end reads the count
End ==
    /\ harness.pc = "block"
    /\ harness' = [harness EXCEPT !.pc = "ending", !.n1 = count]
    /\ epoch' = epoch + 1
    /\ UNCHANGED <<throttled, shared, sampler, verdict, taken, starts>>

\* One more sample is waited for, until the process fails or the deadline
EndSampled ==
    /\ harness.pc = "ending" /\ count > harness.n1
    /\ harness' = [harness EXCEPT !.pc = "slice"]
    /\ UNCHANGED <<throttled, epoch, shared, sampler, verdict, taken, starts>>

\* mutant: only a dead process ends the wait
EndRaisesDead == Raises(harness.pc = "ending" /\ count <= harness.n1 /\ failed)

\* Failed, or no sample by the deadline
EndRaises == Raises(harness.pc = "ending" /\ count <= harness.n1)

SliceRaises ==
    Raises(harness.pc = "slice" /\ lock # "free")    \* the lock's timeout

lo == IF harness.n0 = 0 THEN 0 ELSE harness.n0 - 1

\* mutant: the sample waited for is left out
hi_at_end == harness.n1

hi == harness.n1 + 1

\* mutant: one sample more than the ring holds
OverwrittenLate == count - lo > capacity + 1

Overwritten == count - lo > capacity

SliceOverwritten ==
    Raises(harness.pc = "slice" /\ lock = "free" /\ Overwritten)

\* _slice under the lock, and the block's verdict
Judge ==
    /\ harness.pc = "slice" /\ lock = "free" /\ ~Overwritten
    /\ LET samples == [i \in 1..(hi - lo) |-> ring[(lo + i - 1) % capacity]]
       IN  verdict' = [block |-> epoch - 1, lo |-> lo, samples |-> samples,
                       flagged |-> \E i \in 1..(hi - lo) : samples[i].bits]
    /\ harness' = At("ready")
    /\ UNCHANGED <<throttled, epoch, shared, sampler, taken, starts>>

Init ==
    /\ throttled \in BOOLEAN /\ epoch = 0
    /\ ring = [s \in Slots |-> None] /\ count = 0
    /\ lock = "free" /\ error = FALSE
    /\ sampler = Off /\ harness = At("stopped")
    /\ verdict = None /\ taken = <<>> /\ starts = 0

Wait == EndSampled \/ EndRaises
Slice == SliceRaises \/ SliceOverwritten \/ Judge

Next ==
    \/ Read \/ Lock \/ Write \/ Count
    \/ ReaderRaises \/ Killed
    \/ Card
    \/ Start \/ Started \/ Stop
    \/ Begin \/ BeginRaises \/ Abort \/ End
    \/ Wait \/ Slice

Spec == Init /\ [][Next]_vars

\* end is a loop with a deadline and a lock with a timeout: once in it, the
\* harness goes on.  Nothing is asked of the sampler process.
FairSpec == Spec /\ WF_vars(Wait) /\ WF_vars(Slice)

(***************************************************************************)
(* Properties.                                                             *)
(***************************************************************************)
Judged == verdict' # verdict
BlockEpoch == IF harness.pc = "block" THEN epoch ELSE epoch - 1

\* "Refused if any was overwritten": a block is judged on the samples stored
\* at its indices, never on later ones that took their slots nor on a torn one.
SliceIsTheBlocks ==
    [][Judged => verdict'.samples =
           SubSeq(taken, verdict'.lo + 1, verdict'.lo + Len(verdict'.samples))]_vars

\* What the harness is promised (BlockJudge), this detector does: a throttle
\* the process read while the block ran flags it, also when the read was stored
\* only after the block had ended.
Promise == INSTANCE BlockJudge WITH
    Unjudged <- None,
    state <- CASE harness.pc \in {"ready", "block"} -> harness.pc
               [] harness.pc \in {"ending", "slice"} -> "ended"
               [] OTHER -> "down",
    seen <- /\ harness.pc \in {"block", "ending", "slice"}
            /\ \E i \in 1..Len(taken) : taken[i].epoch = BlockEpoch /\ taken[i].bits,
    flagged <- IF verdict = None THEN None ELSE verdict.flagged
ImplementsJudge == Promise!JudgeSpec

\* "A dead or stalled sampler stops the session instead of passing every
\* block": end comes back whatever the process does, a death with the lock
\* included.
EndReturns == harness.pc \in {"ending", "slice"} ~> harness.pc \in {"ready", "raised"}
=============================================================================
