---------------------------- MODULE Timed_proofs ----------------------------
(***************************************************************************)
(* A timed block is judged on its own samples, and the arms' rows are over *)
(* the rounds no block of which was throttled: the detector, a process     *)
(* that may die anywhere, gives time_arms what it is promised, for any     *)
(* ring, any number of blocks, processes, arms and rounds.                 *)
(***************************************************************************)
EXTENDS ProcessSampler, TimeArms, FiniteSetTheorems, NaturalsInduction,
        WellFoundedInduction, TLAPS

(***************************************************************************)
(* The ring.                                                               *)
(***************************************************************************)
\* Two indices less than the ring's size apart have slots of their own.
LEMMA SlotsApart ==
    ASSUME NEW c \in Nat \ {0}, NEW j \in Nat, NEW k \in Nat, j < k, k < j + c
    PROVE  j % c # k % c
<1> DEFINE p == j \div c
           q == k \div c
<1>1. /\ j = c * p + (j % c) /\ k = c * q + (k % c)
      /\ p \in Nat /\ q \in Nat /\ j % c \in Nat
  OBVIOUS
<1>2. ASSUME j % c = k % c PROVE FALSE
  <2> HIDE DEF p, q
  <2>1. k - j = c * q - c * p
    BY <1>1, <1>2
  <2>2. CASE q <= p
    <3>1. c * q <= c * p
      BY <1>1, <2>2
    <3> QED BY <1>1, <2>1, <3>1
  <2>3. CASE q > p
    <3>1. c * q >= c * (p + 1) /\ c * (p + 1) = c * p + c
      BY <1>1, <2>3
    <3> QED BY <1>1, <2>1, <3>1
  <2> QED BY <1>1, <2>2, <2>3
<1> QED BY <1>2

Slot(k) == k % capacity

LEMMA SlotsRing ==
    /\ \A k \in Nat : Slot(k) \in Slots
    /\ \A j, k \in Nat : j < k /\ k < j + capacity => Slot(j) # Slot(k)
<1>1. \A k \in Nat : Slot(k) \in Slots
  BY CapacityAssumption DEF Slot, Slots
<1>2. ASSUME NEW j \in Nat, NEW k \in Nat, j < k, k < j + capacity
      PROVE  Slot(j) # Slot(k)
  BY <1>2, SlotsApart, CapacityAssumption DEF Slot
<1> QED BY <1>1, <1>2

Readings == [bits: BOOLEAN, epoch: Nat]
BlockClocks == [block: Int, lo: Nat, samples: Seq(Readings), flagged: BOOLEAN]

SamplerTypes ==
    /\ throttled \in BOOLEAN /\ epoch \in Nat /\ count \in Nat
    /\ ring \in [Slots -> Readings \cup {None}]
    /\ taken \in Seq(Readings) /\ Len(taken) = count
    /\ lock \in {"free", "sampler"}
    /\ sampler \in [pc: {"off", "exited", "loop", "read", "locked", "written"},
                    hand: Readings \cup {None}]
    /\ sampler.pc \in {"read", "locked", "written"} => sampler.hand # None
    /\ harness \in [pc: {"stopped", "starting", "ready", "raised", "block", "ending", "slice"},
                    n0: Nat \cup {None}, n1: Nat \cup {None}]
    /\ verdict \in BlockClocks \cup {None}

\* The slots hold the last samples stored, all but the one being overwritten
Rest == \A k \in 0..(count - 1) : count < k + capacity => ring[Slot(k)] = taken[k + 1]
Window == \A k \in 0..(count - 1) : count <= k + capacity => ring[Slot(k)] = taken[k + 1]

\* Whenever the lock can be had, and while a sample is being stored
RingKept ==
    /\ sampler.pc \in {"locked", "written"} => lock = "sampler"
    /\ lock = "free" \/ sampler.pc = "locked" => Window
    /\ sampler.pc = "written" =>
           Rest /\ ring[Slot(count)] = sampler.hand

\* No sample is of a later block, and the block's own are those after n0 and,
\* once it ended, not past the one in the sampler's hand
Epochs ==
    /\ \A i \in 1..count : taken[i].epoch <= epoch
    /\ sampler.hand # None => sampler.hand.epoch <= epoch
    /\ harness.pc = "block" =>
           /\ harness.n0 \in 0..count
           /\ \A i \in 1..harness.n0 : taken[i].epoch < epoch
    /\ harness.pc \in {"ending", "slice"} =>
           /\ harness.n1 \in 0..count /\ harness.n0 \in 0..harness.n1
           /\ \A i \in 1..harness.n0 : taken[i].epoch < epoch - 1
           /\ \A i \in (harness.n1 + 2)..count : taken[i].epoch >= epoch
           /\ count > harness.n1 /\ sampler.hand # None => sampler.hand.epoch >= epoch
    /\ harness.pc = "slice" => count > harness.n1

SamplerInv == SamplerTypes /\ RingKept /\ Epochs

LEMMA SamplerBegins == Init => SamplerInv
<1> SUFFICES ASSUME Init PROVE SamplerInv
  OBVIOUS
<1>1. taken = <<>> /\ Len(taken) = 0 /\ count = 0
  BY DEF Init
<1>2. SamplerTypes
  BY <1>1 DEF Init, SamplerTypes, Off, At
<1>3. RingKept
  BY <1>1 DEF Init, RingKept, Window, Off, At
<1>4. Epochs
  BY <1>1 DEF Init, Epochs, Off, At
<1> QED BY <1>2, <1>3, <1>4 DEF SamplerInv

\* The sampler's own steps.
LEMMA SamplerReads == SamplerInv /\ (Read \/ Lock \/ ReaderRaises \/ Killed \/ Card) => SamplerInv'
<1> SUFFICES ASSUME SamplerInv, Read \/ Lock \/ ReaderRaises \/ Killed \/ Card
             PROVE  SamplerInv'
  OBVIOUS
<1>1. UNCHANGED <<epoch, ring, count, harness, verdict, taken>>
  BY DEF Read, Lock, ReaderRaises, Killed, Card, shared
<1>2. SamplerTypes'
  <2>1. CASE Read
    BY <1>1, <2>1, NoneAssumption DEF Read, shared, SamplerInv, SamplerTypes, Readings
  <2>2. CASE Lock
    BY <1>1, <2>2 DEF Lock, Sampler, SamplerInv, SamplerTypes
  <2>3. CASE ReaderRaises
    BY <1>1, <2>3 DEF ReaderRaises, Sampler, SamplerInv, SamplerTypes
  <2>4. CASE Killed
    BY <1>1, <2>4 DEF Killed, shared, SamplerInv, SamplerTypes
  <2>5. CASE Card
    BY <1>1, <2>5 DEF Card, shared, SamplerInv, SamplerTypes
  <2> QED BY <2>1, <2>2, <2>3, <2>4, <2>5
<1>3. RingKept'
  <2>1. Window' = Window /\ Rest' = Rest
    BY <1>1 DEF Window, Rest, Slot
  <2>2. CASE Lock
    <3>1. sampler'.pc = "locked" /\ lock' = "sampler"
      BY <2>2 DEF Lock, Sampler, SamplerInv, SamplerTypes
    <3> QED BY <2>1, <2>2, <3>1 DEF Lock, SamplerInv, RingKept
  <2>3. CASE Card
    <3>1. UNCHANGED <<sampler, lock, ring, count>>
      BY <2>3 DEF Card, shared
    <3> QED BY <2>1, <3>1 DEF SamplerInv, RingKept, Slot
  <2>4. CASE Read \/ ReaderRaises \/ Killed
    <3>1. sampler'.pc \notin {"locked", "written"} /\ lock' = lock
      BY <2>4 DEF Read, ReaderRaises, Killed, Sampler, shared, SamplerInv, SamplerTypes
    <3> QED BY <2>1, <3>1 DEF SamplerInv, RingKept
  <2> QED BY <2>2, <2>3, <2>4
<1>4. Epochs'
  <2>1. CASE Read
    BY <1>1, <2>1 DEF Read, SamplerInv, SamplerTypes, Epochs
  <2>2. CASE Lock \/ ReaderRaises \/ Killed \/ Card
    BY <1>1, <2>2 DEF Lock, ReaderRaises, Killed, Card, Sampler, SamplerInv,
                      SamplerTypes, Epochs
  <2> QED BY <2>1, <2>2
<1> QED BY <1>2, <1>3, <1>4 DEF SamplerInv

LEMMA SamplerWrites == SamplerInv /\ Write => SamplerInv'
<1> SUFFICES ASSUME SamplerInv, Write PROVE SamplerInv'
  OBVIOUS
<1>1. /\ UNCHANGED <<throttled, epoch, count, lock, harness, verdict, taken>>
      /\ ring' = [ring EXCEPT ![Slot(count)] = sampler.hand]
      /\ sampler.pc = "locked" /\ sampler' = [sampler EXCEPT !.pc = "written"]
  BY DEF Write, Sampler, Slot
<1>2. /\ sampler'.pc = "written" /\ sampler'.hand = sampler.hand
      /\ sampler.hand \in Readings /\ count \in Nat
      /\ ring \in [Slots -> Readings \cup {None}] /\ Slot(count) \in Slots
  BY <1>1, SlotsRing DEF SamplerInv, SamplerTypes
<1>3. SamplerTypes'
  BY <1>1, <1>2, NoneAssumption DEF SamplerInv, SamplerTypes, Readings
<1>4. RingKept'
  <2>1. ring'[Slot(count)] = sampler.hand /\ lock = "sampler" /\ Window
    BY <1>1, <1>2 DEF SamplerInv, RingKept
  <2>2. ASSUME NEW k \in 0..(count - 1), count < k + capacity
        PROVE  ring'[Slot(k)] = taken[k + 1]
    <3>1. k \in Nat /\ k < count
      BY <1>2
    <3>2. Slot(k) # Slot(count) /\ Slot(k) \in Slots
      BY <1>2, <2>2, <3>1, SlotsRing
    <3>3. count <= k + capacity
      BY <1>2, <2>2, CapacityAssumption
    <3>4. ring[Slot(k)] = taken[k + 1]
      BY <2>1, <2>2, <3>3 DEF Window
    <3> QED BY <1>1, <1>2, <3>2, <3>4
  <2>3. Rest'
    <3>1. \A k \in 0..(count' - 1) :
              count' < k + capacity => ring'[Slot(k)] = taken'[k + 1]
      BY <1>1, <2>2
    <3> QED BY <3>1, Zenon DEF Rest, Slot
  <2>4. (ring[Slot(count)] = sampler.hand)'
    BY <1>1, <1>2, <2>1
  <2> QED BY <1>1, <1>2, <2>1, <2>3, <2>4 DEF RingKept
<1>5. Epochs'
  BY <1>1, <1>2 DEF SamplerInv, SamplerTypes, Epochs
<1> QED BY <1>3, <1>4, <1>5 DEF SamplerInv

LEMMA SamplerCounts == SamplerInv /\ Count => SamplerInv'
<1> SUFFICES ASSUME SamplerInv, Count PROVE SamplerInv'
  OBVIOUS
<1>1. /\ UNCHANGED <<throttled, epoch, ring, harness, verdict>>
      /\ count' = count + 1 /\ taken' = Append(taken, sampler.hand) /\ lock' = "free"
      /\ sampler.pc = "written" /\ sampler' = [pc |-> "loop", hand |-> None]
  BY DEF Count
<1>2. /\ sampler.hand \in Readings /\ count \in Nat /\ taken \in Seq(Readings)
      /\ Len(taken) = count
  BY <1>1 DEF SamplerInv, SamplerTypes
<1>3. /\ taken' \in Seq(Readings) /\ Len(taken') = count + 1
      /\ \A i \in 1..count : taken'[i] = taken[i]
      /\ taken'[count + 1] = sampler.hand
  BY <1>1, <1>2
<1>4. SamplerTypes'
  BY <1>1, <1>2, <1>3 DEF SamplerInv, SamplerTypes
<1>5. RingKept'
  <2>1. Rest /\ ring[Slot(count)] = sampler.hand
    BY <1>1 DEF SamplerInv, RingKept
  <2>2. ASSUME NEW k \in 0..count, count + 1 <= k + capacity
        PROVE  ring[Slot(k)] = taken'[k + 1]
    <3>1. CASE k = count
      BY <1>3, <2>1, <3>1
    <3>2. CASE k # count
      <4>1. k \in 0..(count - 1) /\ k + 1 \in 1..count
        BY <1>2, <3>2
      <4>2. count < k + capacity
        BY <1>2, <2>2, CapacityAssumption
      <4>3. ring[Slot(k)] = taken[k + 1]
        BY <2>1, <4>1, <4>2 DEF Rest
      <4> QED BY <1>3, <4>1, <4>3
    <3> QED BY <3>1, <3>2
  <2>3. Window'
    <3>1. \A k \in 0..(count' - 1) :
              count' <= k + capacity => ring'[Slot(k)] = taken'[k + 1]
      BY <1>1, <1>2, <2>2
    <3> QED BY <3>1, Zenon DEF Window, Slot
  <2> QED BY <1>1, <2>3 DEF RingKept
<1>6. Epochs'
  <2>1. \A i \in 1..count' : i \in 1..count \/ i = count + 1
    BY <1>1, <1>2
  <2>2. sampler.hand # None /\ sampler.hand.epoch \in Nat /\ epoch \in Nat
    BY <1>1, <1>2 DEF Readings, SamplerInv, SamplerTypes
  <2>3. \A i \in 1..count' : taken'[i].epoch <= epoch'
    BY <1>1, <1>3, <2>1, <2>2 DEF SamplerInv, Epochs
  <2>4. harness.pc = "block" =>
            /\ harness.n0 \in 0..count'
            /\ \A i \in 1..harness.n0 : taken'[i].epoch < epoch
    BY <1>1, <1>2, <1>3 DEF SamplerInv, Epochs
  <2>5. ASSUME harness.pc \in {"ending", "slice"}
        PROVE  /\ harness.n1 \in 0..count' /\ harness.n0 \in 0..harness.n1
               /\ \A i \in 1..harness.n0 : taken'[i].epoch < epoch - 1
               /\ \A i \in (harness.n1 + 2)..count' : taken'[i].epoch >= epoch
               /\ count' > harness.n1
    <3>1. /\ harness.n1 \in 0..count /\ harness.n0 \in 0..harness.n1
          /\ \A i \in 1..harness.n0 : taken[i].epoch < epoch - 1
          /\ \A i \in (harness.n1 + 2)..count : taken[i].epoch >= epoch
          /\ count > harness.n1 => sampler.hand.epoch >= epoch
      BY <2>2, <2>5 DEF SamplerInv, Epochs
    <3>2. ASSUME NEW i \in (harness.n1 + 2)..count' PROVE taken'[i].epoch >= epoch
      <4>1. CASE i \in 1..count
        BY <1>2, <1>3, <3>1, <4>1
      <4>2. CASE i = count + 1
        BY <1>2, <1>3, <3>1, <4>2
      <4> QED BY <1>1, <1>2, <2>1, <3>1, <4>1, <4>2
    <3> QED BY <1>1, <1>2, <1>3, <3>1, <3>2, SMTT(60)
  <2> QED BY <1>1, <2>3, <2>4, <2>5 DEF Epochs
<1> QED BY <1>4, <1>5, <1>6 DEF SamplerInv

LEMMA EpochsKnown ==
    ASSUME SamplerInv
    PROVE  /\ epoch \in Nat /\ count \in Nat
           /\ \A i \in 1..count : taken[i].epoch \in Nat /\ taken[i].epoch <= epoch
           /\ sampler.hand # None =>
                  sampler.hand.epoch \in Nat /\ sampler.hand.epoch <= epoch
<1>1. epoch \in Nat /\ count \in Nat /\ taken \in Seq(Readings) /\ Len(taken) = count
  BY DEF SamplerInv, SamplerTypes
<1>2. \A i \in 1..count : taken[i] \in Readings
  BY <1>1
<1>3. sampler.hand # None => sampler.hand \in Readings
  BY DEF SamplerInv, SamplerTypes
<1>4. \A x \in Readings : x.epoch \in Nat
  BY DEF Readings
<1> QED BY <1>1, <1>2, <1>3, <1>4 DEF SamplerInv, Epochs

\* The harness's steps.
LEMMA HarnessStarts == SamplerInv /\ Start => SamplerInv'
<1> SUFFICES ASSUME SamplerInv, Start PROVE SamplerInv'
  OBVIOUS
<1>1. /\ UNCHANGED <<throttled, epoch, verdict>>
      /\ ring' = [s \in Slots |-> None] /\ count' = 0 /\ lock' = "free"
      /\ taken' = <<>> /\ Len(taken') = 0
      /\ sampler' = [pc |-> "loop", hand |-> None]
      /\ harness' = [pc |-> "starting", n0 |-> None, n1 |-> None]
  BY DEF Start, At
<1>2. SamplerTypes'
  BY <1>1 DEF SamplerInv, SamplerTypes
<1>3. RingKept'
  BY <1>1 DEF RingKept, Window
<1>4. Epochs'
  BY <1>1 DEF Epochs
<1> QED BY <1>2, <1>3, <1>4 DEF SamplerInv

\* A step of the harness that leaves the ring, and may end the process, keeps
\* what is said of the ring.
LEMMA RingStands ==
    ASSUME SamplerInv, UNCHANGED <<ring, count, lock, taken>>, sampler' \in {sampler, Off}
    PROVE  RingKept'
<1>1. Window' = Window /\ Rest' = Rest
  BY DEF Window, Rest, Slot
<1>2. CASE sampler' = sampler
  BY <1>1, <1>2 DEF SamplerInv, RingKept, Slot
<1>3. CASE sampler' = Off
  BY <1>1, <1>3 DEF SamplerInv, RingKept, Off
<1> QED BY <1>2, <1>3

\* Out of a block, and out of the wait for its last sample
HarnessRests ==
    /\ UNCHANGED <<throttled, ring, count, lock, verdict, taken>>
    /\ epoch' \in {epoch, epoch + 1} /\ sampler' \in {sampler, Off}
    /\ harness' \in {At("ready"), At("raised"), At("stopped")}

LEMMA HarnessLeaves == SamplerInv /\ HarnessRests => SamplerInv'
<1> SUFFICES ASSUME SamplerInv, HarnessRests PROVE SamplerInv'
  OBVIOUS
<1>1. RingKept'
  BY RingStands DEF HarnessRests
<1>2. SamplerTypes'
  <2>1. harness' \in [pc: {"stopped", "starting", "ready", "raised", "block", "ending", "slice"},
                      n0: Nat \cup {None}, n1: Nat \cup {None}]
    BY DEF HarnessRests, At
  <2>2. /\ sampler' \in [pc: {"off", "exited", "loop", "read", "locked", "written"},
                          hand: Readings \cup {None}]
        /\ sampler'.pc \in {"read", "locked", "written"} => sampler'.hand # None
    BY DEF HarnessRests, Off, SamplerInv, SamplerTypes
  <2> QED BY <2>1, <2>2 DEF HarnessRests, SamplerInv, SamplerTypes
<1>3. Epochs'
  <2>1. harness'.pc \in {"ready", "raised", "stopped"}
    BY DEF HarnessRests, At
  <2>2. sampler'.hand \in {sampler.hand, None} /\ epoch' \in {epoch, epoch + 1}
        /\ UNCHANGED <<taken, count>>
    BY DEF HarnessRests, Off, SamplerInv, SamplerTypes
  <2> QED BY <2>1, <2>2, EpochsKnown DEF Epochs
<1> QED BY <1>1, <1>2, <1>3 DEF SamplerInv

\* What Judge reads under the lock is the block's stretch of what was stored.
LEMMA JudgeReads ==
    ASSUME SamplerInv, Judge
    PROVE  /\ SamplerInv'
           /\ verdict'.lo = lo /\ Len(verdict'.samples) = hi - lo
           /\ lo \in Nat /\ hi \in Nat /\ lo < hi /\ hi <= count /\ lo <= harness.n0
           /\ \A i \in 1..(hi - lo) : verdict'.samples[i] = taken[lo + i]
           /\ verdict' \in BlockClocks
           /\ verdict'.flagged = \E i \in 1..(hi - lo) : verdict'.samples[i].bits
<1> DEFINE got == [i \in 1..(hi - lo) |-> ring[(lo + i - 1) % capacity]]
           bad == \E i \in 1..(hi - lo) : got[i].bits
<1>1. /\ UNCHANGED <<throttled, epoch, ring, count, lock, sampler, taken>>
      /\ harness' = At("ready") /\ harness.pc = "slice" /\ lock = "free" /\ ~Overwritten
      /\ verdict' = [block |-> epoch - 1, lo |-> lo, samples |-> got, flagged |-> bad]
  BY DEF Judge, shared
<1>2. /\ harness.n1 \in Nat /\ harness.n0 \in Nat /\ harness.n0 <= harness.n1
      /\ count > harness.n1 /\ count \in Nat /\ epoch \in Nat
      /\ taken \in Seq(Readings) /\ Len(taken) = count
  BY <1>1 DEF SamplerInv, SamplerTypes, Epochs
<1>3. /\ lo \in Nat /\ hi \in Nat /\ lo < hi /\ hi <= count /\ lo <= harness.n0
      /\ hi - lo \in Nat
  BY <1>2 DEF lo, hi
<1>4. ASSUME NEW i \in 1..(hi - lo)
      PROVE  got[i] = taken[lo + i] /\ got[i] \in Readings
  <2>1. lo + i - 1 \in 0..(count - 1) /\ lo + i \in 1..count /\ lo + i - 1 + 1 = lo + i
    BY <1>2, <1>3
  <2>2. count <= lo + i - 1 + capacity
    BY <1>1, <1>2, <1>3, CapacityAssumption DEF Overwritten
  <2>3. Window
    BY <1>1 DEF SamplerInv, RingKept
  <2>4. ring[Slot(lo + i - 1)] = taken[lo + i]
    <3> DEFINE k == lo + i - 1
    <3>1. k \in 0..(count - 1) /\ count <= k + capacity /\ k + 1 = lo + i
      BY <2>1, <2>2
    <3> HIDE DEF k
    <3>2. ring[Slot(k)] = taken[k + 1]
      BY <2>3, <3>1 DEF Window
    <3> QED BY <3>1, <3>2 DEF k
  <2>5. got[i] = ring[Slot(lo + i - 1)]
    BY DEF Slot
  <2>6. taken[lo + i] \in Readings
    BY <1>2, <2>1
  <2> HIDE DEF got
  <2> QED BY <2>4, <2>5, <2>6
<1>5. got \in Seq(Readings) /\ Len(got) = hi - lo
  <2>1. got \in [1..(hi - lo) -> Readings]
    BY <1>4
  <2> HIDE DEF got
  <2> QED BY <1>3, <2>1
<1> HIDE DEF got
<1>6. bad \in BOOLEAN
  OBVIOUS
<1> HIDE DEF bad
<1>7. verdict' \in BlockClocks
  BY <1>1, <1>2, <1>3, <1>5, <1>6 DEF BlockClocks
<1>8. SamplerInv'
  <2>1. RingKept'
    BY <1>1, RingStands
  <2>2. SamplerTypes'
    <3>1. harness' \in [pc: {"stopped", "starting", "ready", "raised", "block", "ending", "slice"},
                        n0: Nat \cup {None}, n1: Nat \cup {None}]
      BY <1>1 DEF At
    <3> QED BY <1>1, <1>7, <3>1 DEF SamplerInv, SamplerTypes
  <2>3. Epochs'
    BY <1>1 DEF SamplerInv, Epochs, At
  <2> QED BY <2>1, <2>2, <2>3 DEF SamplerInv
<1>9. verdict'.samples = got /\ verdict'.lo = lo /\ verdict'.flagged = bad
  BY <1>1
<1> QED BY <1>3, <1>4, <1>5, <1>7, <1>8, <1>9 DEF bad

LEMMA HarnessSteps ==
    SamplerInv /\ (Started \/ Stop \/ Begin \/ BeginRaises \/ Abort \/ End \/ Wait \/ Slice)
        => SamplerInv'
<1> SUFFICES ASSUME SamplerInv,
                    Started \/ Stop \/ Begin \/ BeginRaises \/ Abort \/ End \/ Wait \/ Slice
             PROVE  SamplerInv'
  OBVIOUS
<1>1. CASE Started \/ Stop \/ BeginRaises \/ Abort \/ EndRaises \/ SliceRaises \/ SliceOverwritten
  <2>1. HarnessRests
    BY <1>1 DEF Started, Stop, BeginRaises, Abort, EndRaises, SliceRaises, SliceOverwritten,
                Raises, shared, HarnessRests
  <2> QED BY <2>1, HarnessLeaves
<1> DEFINE Same == UNCHANGED <<throttled, ring, count, lock, taken, sampler>>
<1>2. CASE Begin
  <2>1. /\ Same /\ UNCHANGED verdict /\ epoch' = epoch + 1
        /\ harness' = [pc |-> "block", n0 |-> count, n1 |-> None]
    BY <1>2 DEF Begin, shared
  <2>2. RingKept'
    BY <2>1, RingStands
  <2>3. SamplerTypes'
    BY <2>1 DEF SamplerInv, SamplerTypes
  <2>4. Epochs'
    BY <2>1, EpochsKnown DEF Epochs
  <2> QED BY <2>2, <2>3, <2>4 DEF SamplerInv
<1>3. CASE End
  <2>1. /\ Same /\ UNCHANGED verdict /\ epoch' = epoch + 1 /\ harness.pc = "block"
        /\ harness' = [harness EXCEPT !.pc = "ending", !.n1 = count]
    BY <1>3 DEF End, shared
  <2>2. /\ harness'.pc = "ending" /\ harness'.n1 = count /\ harness'.n0 = harness.n0
    BY <2>1 DEF SamplerInv, SamplerTypes
  <2>3. RingKept'
    BY <2>1, RingStands
  <2>4. SamplerTypes'
    <3>1. harness' = [pc |-> "ending", n0 |-> harness.n0, n1 |-> count]
      BY <2>1 DEF SamplerInv, SamplerTypes
    <3> QED BY <2>1, <3>1 DEF SamplerInv, SamplerTypes
  <2>5. Epochs'
    <3>1. harness.n0 \in 0..count /\ \A i \in 1..harness.n0 : taken[i].epoch < epoch
      BY <2>1 DEF SamplerInv, Epochs
    <3> QED BY <2>1, <2>2, <3>1, EpochsKnown DEF Epochs
  <2> QED BY <2>3, <2>4, <2>5 DEF SamplerInv
<1>4. CASE EndSampled
  <2>1. /\ Same /\ UNCHANGED <<verdict, epoch>> /\ count > harness.n1
        /\ harness.pc = "ending" /\ harness' = [harness EXCEPT !.pc = "slice"]
    BY <1>4 DEF EndSampled, shared
  <2>2. harness'.pc = "slice" /\ harness'.n1 = harness.n1 /\ harness'.n0 = harness.n0
    BY <2>1 DEF SamplerInv, SamplerTypes
  <2>3. RingKept'
    BY <2>1, RingStands
  <2>4. SamplerTypes'
    BY <2>1 DEF SamplerInv, SamplerTypes
  <2>5. Epochs'
    BY <2>1, <2>2 DEF SamplerInv, Epochs
  <2> QED BY <2>3, <2>4, <2>5 DEF SamplerInv
<1>5. CASE Judge
  BY <1>5, JudgeReads
<1> QED BY <1>1, <1>2, <1>3, <1>4, <1>5 DEF Wait, Slice

THEOREM SamplerInvariant == Spec => []SamplerInv
<1>1. SamplerInv /\ [Next]_vars => SamplerInv'
  <2> SUFFICES ASSUME SamplerInv, [Next]_vars PROVE SamplerInv'
    OBVIOUS
  <2>1. CASE UNCHANGED vars
    <3>1. RingKept'
      BY <2>1, RingStands DEF vars, shared
    <3> QED BY <2>1, <3>1 DEF vars, shared, SamplerInv, SamplerTypes, Epochs
  <2> QED BY <2>1, SamplerReads, SamplerWrites, SamplerCounts, HarnessStarts, HarnessSteps
          DEF Next
<1> QED BY <1>1, SamplerBegins, PTL DEF Spec

\* A block is judged on the samples stored at its indices, whatever the ring's
\* size and wherever the process died before.
THEOREM SamplerSlices == Spec => SliceIsTheBlocks
<1>1. SamplerInv /\ [Next]_vars =>
          [Judged => verdict'.samples =
               SubSeq(taken, verdict'.lo + 1, verdict'.lo + Len(verdict'.samples))]_vars
  <2> SUFFICES ASSUME SamplerInv, [Next]_vars, Judged
               PROVE  verdict'.samples =
                          SubSeq(taken, verdict'.lo + 1, verdict'.lo + Len(verdict'.samples))
    OBVIOUS
  <2>1. Judge
    BY DEF Next, Read, Lock, Write, Count, ReaderRaises, Killed, Card, Start, Started, Stop,
           Begin, BeginRaises, Abort, End, Wait, EndSampled, EndRaises, Slice, SliceRaises,
           SliceOverwritten, Raises, Judged, vars
  <2>2. /\ verdict'.lo = lo /\ Len(verdict'.samples) = hi - lo
        /\ lo \in Nat /\ hi \in Nat /\ lo < hi /\ hi <= count
        /\ \A i \in 1..(hi - lo) : verdict'.samples[i] = taken[lo + i]
        /\ verdict'.samples \in Seq(Readings)
    BY <2>1, JudgeReads DEF BlockClocks
  <2>3. taken \in Seq(Readings) /\ Len(taken) = count
    BY DEF SamplerInv, SamplerTypes
  <2> HIDE DEF lo, hi
  <2>4. /\ SubSeq(taken, lo + 1, hi) \in Seq(Readings)
        /\ Len(SubSeq(taken, lo + 1, hi)) = hi - lo
        /\ \A i \in 1..(hi - lo) : SubSeq(taken, lo + 1, hi)[i] = taken[lo + i]
    BY <2>2, <2>3
  <2>5. lo + (hi - lo) = hi
    BY <2>2
  <2> QED BY <2>2, <2>4, <2>5
<1> QED BY <1>1, SamplerInvariant, PTL DEF Spec, SliceIsTheBlocks

(***************************************************************************)
(* The promise.                                                            *)
(***************************************************************************)
InBlock == harness.pc \in {"block", "ending", "slice"}
PState == CASE harness.pc \in {"ready", "block"} -> harness.pc
            [] harness.pc \in {"ending", "slice"} -> "ended"
            [] OTHER -> "down"
PSeen == InBlock /\ \E i \in 1..Len(taken) : taken[i].epoch = BlockEpoch /\ taken[i].bits
PFlagged == IF verdict = None THEN None ELSE verdict.flagged

LEMMA StatesAre ==
    /\ harness.pc \in {"ready", "block"} => PState = harness.pc
    /\ harness.pc \in {"ending", "slice"} => PState = "ended"
    /\ harness.pc \notin {"ready", "block", "ending", "slice"} => PState = "down"
    /\ PSeen \in BOOLEAN /\ (~InBlock => PSeen = FALSE)
  BY DEF PState, PSeen, InBlock

\* What no step of the promise sees
LEMMA PromiseStutters ==
    ASSUME PState' = PState, PSeen' = PSeen, PFlagged' = PFlagged
    PROVE  UNCHANGED Promise!judge
  BY DEF Promise!judge, PState, PSeen, PFlagged, InBlock

LEMMA PromiseMoves ==
    ASSUME PFlagged' = PFlagged
    PROVE  /\ PState = "down" /\ PState' = "ready" /\ PSeen' = PSeen => Promise!JudgeNext
           /\ PState' = "down" /\ PSeen' = FALSE => Promise!JudgeNext
           /\ PState = "ready" /\ PState' = "block" /\ PSeen' = FALSE => Promise!JudgeNext
           /\ PState = "block" /\ PState' = "ready" /\ PSeen' = FALSE => Promise!JudgeNext
           /\ PState = "block" /\ PState' = "ended" /\ PSeen' = PSeen => Promise!JudgeNext
           /\ PState \in {"block", "ended"} /\ PState' = PState /\ PSeen' = TRUE
                  => Promise!JudgeNext
  BY DEF Promise!JudgeNext, Promise!GoesUp, Promise!GoesDown, Promise!Begins, Promise!Aborts,
         Promise!Ends, Promise!Sees, PState, PSeen, PFlagged, InBlock

LEMMA PromiseJudges ==
    ASSUME PState = "ended", PState' = "ready", PFlagged' \in BOOLEAN, PSeen => PFlagged',
           PSeen' = FALSE
    PROVE  Promise!JudgeNext
  BY DEF Promise!JudgeNext, Promise!Judges, PState, PSeen, PFlagged, InBlock

\* A step of the sampler or the card, as the promise sees it: a reading stored
\* shows a throttle in the block, or nothing is seen.
LEMMA SamplerKeepsPromise ==
    ASSUME SamplerInv, Read \/ Lock \/ Write \/ Count \/ ReaderRaises \/ Killed \/ Card
    PROVE  [Promise!JudgeNext]_(Promise!judge)
<1>1. UNCHANGED <<epoch, harness, verdict>>
  BY DEF Read, Lock, Write, Count, ReaderRaises, Killed, Card, shared
<1>2. PState' = PState /\ PFlagged' = PFlagged
  BY <1>1 DEF PState, PFlagged
<1>3. CASE ~Count
  <2>1. taken' = taken
    BY <1>3 DEF Read, Lock, Write, ReaderRaises, Killed, Card
  <2>2. PSeen' = PSeen
    BY <1>1, <2>1 DEF PSeen, InBlock, BlockEpoch
  <2> QED BY <1>2, <2>2, PromiseStutters
<1>4. CASE Count
  <2>1. CASE PSeen' = PSeen
    BY <1>2, <2>1, PromiseStutters
  <2>2. CASE PSeen' # PSeen
    <3>1. InBlock
      <4>1. ASSUME ~InBlock PROVE PSeen = FALSE /\ PSeen' = FALSE
        BY <1>1, <4>1 DEF PSeen, InBlock
      <4> QED BY <2>2, <4>1
    <3>2. ~PSeen
      <4> SUFFICES ASSUME PSeen PROVE PSeen'
        BY <2>2 DEF PSeen
      <4>1. taken \in Seq(Readings) /\ taken' = Append(taken, sampler.hand)
        BY <1>4 DEF Count, SamplerInv, SamplerTypes
      <4>2. PICK i \in 1..Len(taken) : taken[i].epoch = BlockEpoch /\ taken[i].bits
        BY DEF PSeen
      <4>3. i \in 1..Len(taken') /\ taken'[i] = taken[i] /\ BlockEpoch' = BlockEpoch
        <5>1. i \in 1..Len(taken') /\ taken'[i] = taken[i]
          BY <4>1
        <5> QED BY <1>1, <5>1 DEF BlockEpoch
      <4> QED BY <1>1, <3>1, <4>2, <4>3 DEF PSeen, InBlock
    <3>3. PSeen' = TRUE
      BY <2>2, <3>2 DEF PSeen
    <3>4. PState \in {"block", "ended"}
      BY <3>1, StatesAre DEF InBlock
    <3> QED BY <1>2, <3>3, <3>4, PromiseMoves
  <2> QED BY <2>1, <2>2
<1> QED BY <1>3, <1>4

\* What is read of the block, read at last too late to be stored before it
\* ended, is in the stretch it is judged on.
LEMMA SeenIsJudged ==
    ASSUME SamplerInv, Judge, PSeen
    PROVE  verdict'.flagged
<1>1. PICK i \in 1..count : taken[i].epoch = epoch - 1 /\ taken[i].bits
  <2>1. harness.pc = "slice" /\ Len(taken) = count
    BY DEF Judge, SamplerInv, SamplerTypes
  <2> QED BY <2>1 DEF PSeen, BlockEpoch
<1>2. /\ harness.n1 \in 0..count /\ harness.n0 \in 0..harness.n1
      /\ \A j \in 1..harness.n0 : taken[j].epoch < epoch - 1
      /\ \A j \in (harness.n1 + 2)..count : taken[j].epoch >= epoch
  BY DEF Judge, SamplerInv, Epochs
<1>3. epoch \in Nat /\ count \in Nat
  BY EpochsKnown
<1>4. ~(i <= harness.n0) /\ ~(i >= harness.n1 + 2)
  <2>1. taken[i].epoch = epoch - 1
    BY <1>1
  <2>2. ~(epoch - 1 < epoch - 1) /\ ~(epoch - 1 >= epoch)
    BY <1>3
  <2> QED BY <1>2, <1>3, <2>1, <2>2
<1>5. /\ lo \in Nat /\ lo <= harness.n0
      /\ \A j \in 1..(hi - lo) : verdict'.samples[j] = taken[lo + j]
      /\ verdict'.flagged = \E j \in 1..(hi - lo) : verdict'.samples[j].bits
  BY JudgeReads
<1>6. i - lo \in 1..(hi - lo) /\ lo + (i - lo) = i
  BY <1>2, <1>3, <1>4, <1>5 DEF hi
<1> QED BY <1>1, <1>5, <1>6

LEMMA HarnessKeepsPromise ==
    ASSUME SamplerInv,
           Start \/ Started \/ Stop \/ Begin \/ BeginRaises \/ Abort \/ End \/ Wait \/ Slice
    PROVE  [Promise!JudgeNext]_(Promise!judge)
<1>1. /\ harness'.pc \in {"ready", "block"} => PState' = harness'.pc
      /\ harness'.pc \in {"ending", "slice"} => PState' = "ended"
      /\ harness'.pc \notin {"ready", "block", "ending", "slice"} => PState' = "down"
      /\ harness'.pc \notin {"block", "ending", "slice"} => PSeen' = FALSE
  BY DEF PState, PSeen, InBlock
<1>2. UNCHANGED verdict => PFlagged' = PFlagged
  BY DEF PFlagged
<1>3. CASE Stop \/ BeginRaises \/ EndRaises \/ SliceRaises \/ SliceOverwritten
  <2>1. harness'.pc \in {"stopped", "raised"} /\ UNCHANGED verdict
    BY <1>3 DEF Stop, BeginRaises, EndRaises, SliceRaises, SliceOverwritten, Raises, At
  <2> QED BY <1>1, <1>2, <2>1, PromiseMoves
<1>4. CASE Start
  <2>1. harness.pc = "stopped" /\ harness'.pc = "starting" /\ UNCHANGED verdict
    BY <1>4 DEF Start, At
  <2>2. PState' = PState /\ PSeen' = PSeen
    BY <1>1, <2>1, StatesAre DEF InBlock
  <2> QED BY <1>2, <2>1, <2>2, PromiseStutters
<1>5. CASE Started
  <2>1. harness.pc = "starting" /\ harness'.pc \in {"ready", "raised"} /\ UNCHANGED verdict
    BY <1>5 DEF Started, At
  <2>2. PState = "down" /\ PSeen = FALSE /\ PSeen' = FALSE /\ PState' \in {"ready", "down"}
    BY <1>1, <2>1, StatesAre DEF InBlock
  <2> QED BY <1>2, <2>1, <2>2, PromiseMoves
<1>6. CASE Begin
  <2>1. /\ harness.pc = "ready" /\ harness'.pc = "block"
        /\ UNCHANGED <<verdict, taken>> /\ epoch' = epoch + 1
    BY <1>6 DEF Begin
  <2>2. PState = "ready" /\ PState' = "block"
    BY <1>1, <2>1, StatesAre
  <2>3. PSeen' = FALSE
    <3>1. BlockEpoch' = epoch + 1 /\ Len(taken) = count
      BY <2>1 DEF BlockEpoch, SamplerInv, SamplerTypes
    <3>2. ~\E i \in 1..Len(taken') : taken'[i].epoch = BlockEpoch' /\ taken'[i].bits
      BY <2>1, <3>1, EpochsKnown
    <3> QED BY <3>2 DEF PSeen
  <2> QED BY <1>2, <2>1, <2>2, <2>3, PromiseMoves
<1>7. CASE Abort
  <2>1. harness.pc = "block" /\ harness'.pc = "ready" /\ UNCHANGED verdict
    BY <1>7 DEF Abort, At
  <2>2. PState = "block" /\ PState' = "ready" /\ PSeen' = FALSE
    BY <1>1, <2>1, StatesAre
  <2> QED BY <1>2, <2>1, <2>2, PromiseMoves
<1>8. CASE End
  <2>1. /\ harness.pc = "block" /\ harness'.pc = "ending"
        /\ UNCHANGED <<verdict, taken>> /\ epoch' = epoch + 1
    BY <1>8 DEF End, SamplerInv, SamplerTypes
  <2>2. PState = "block" /\ PState' = "ended"
    BY <1>1, <2>1, StatesAre
  <2>3. PSeen' = PSeen
    <3>1. BlockEpoch' = BlockEpoch
      BY <2>1, EpochsKnown DEF BlockEpoch
    <3> QED BY <2>1, <3>1 DEF PSeen, InBlock
  <2> QED BY <1>2, <2>1, <2>2, <2>3, PromiseMoves
<1>9. CASE EndSampled
  <2>1. /\ harness.pc = "ending" /\ harness'.pc = "slice"
        /\ UNCHANGED <<verdict, taken, epoch>>
    BY <1>9 DEF EndSampled, SamplerInv, SamplerTypes
  <2>2. PState' = PState
    BY <1>1, <2>1, StatesAre
  <2>3. PSeen' = PSeen
    BY <2>1 DEF PSeen, InBlock, BlockEpoch
  <2> QED BY <1>2, <2>1, <2>2, <2>3, PromiseStutters
<1>10. CASE Judge
  <2>1. harness.pc = "slice" /\ harness'.pc = "ready"
    BY <1>10 DEF Judge, At
  <2>2. PState = "ended" /\ PState' = "ready" /\ PSeen' = FALSE
    BY <1>1, <2>1, StatesAre
  <2>3. verdict' \in BlockClocks
    BY <1>10, JudgeReads
  <2>4. PFlagged' = verdict'.flagged
    BY <2>3, NoneAssumption DEF PFlagged, BlockClocks, Readings
  <2>5. PFlagged' \in BOOLEAN
    BY <2>3, <2>4 DEF BlockClocks
  <2>6. PSeen => PFlagged'
    BY <1>10, <2>4, SeenIsJudged
  <2> QED BY <2>2, <2>5, <2>6, PromiseJudges
<1> QED BY <1>3, <1>4, <1>5, <1>6, <1>7, <1>8, <1>9, <1>10 DEF Wait, Slice

\* The detector does what the timed region is promised: no block in which a
\* throttle was read is judged clean, for any ring and whatever dies when.
THEOREM SamplerRefines == Spec => ImplementsJudge
<1>1. Init => Promise!JudgeInit
  BY DEF Init, At, Promise!JudgeInit
<1>2. SamplerInv /\ [Next]_vars => [Promise!JudgeNext]_(Promise!judge)
  <2> SUFFICES ASSUME SamplerInv, [Next]_vars
               PROVE  [Promise!JudgeNext]_(Promise!judge)
    OBVIOUS
  <2>1. CASE UNCHANGED vars
    <3>1. UNCHANGED <<harness, epoch, taken, verdict>>
      BY <2>1 DEF vars
    <3>2. PState' = PState /\ PFlagged' = PFlagged
      BY <3>1 DEF PState, PFlagged
    <3>3. PSeen' = PSeen
      BY <3>1 DEF PSeen, InBlock, BlockEpoch
    <3> QED BY <3>2, <3>3, PromiseStutters
  <2> QED BY <2>1, SamplerKeepsPromise, HarnessKeepsPromise DEF Next
<1> QED BY <1>1, <1>2, SamplerInvariant, PTL DEF Spec, ImplementsJudge, Promise!JudgeSpec

(***************************************************************************)
(* The rounds.                                                             *)
(***************************************************************************)
\* A round times every arm once, whatever its number.
LEMMA OrderPermutes ==
    ASSUME NEW n \in Nat
    PROVE  /\ Len(Arms) \in Nat \ {0}
           /\ \A i \in 1..Len(Arms) : order(n)[i] \in Names
           /\ \A i, j \in 1..Len(Arms) : order(n)[i] = order(n)[j] => i = j
           /\ \A a \in Names : \E i \in 1..Len(Arms) : order(n)[i] = a
<1> DEFINE L == Len(Arms)
           k == n % L
<1>1. Arms \in Seq(STRING) /\ L \in Nat /\ L # 0
  BY ArmsAssumption
<1>2. k \in 0..(L - 1)
  BY <1>1
<1>3. order(n) = SubSeq(Arms, k + 1, L) \o SubSeq(Arms, 1, k)
  BY DEF order
<1>4. \A i, j \in 1..L : Arms[i] = Arms[j] => i = j
  BY ArmsAssumption
<1>5. Names = {Arms[i] : i \in 1..L}
  BY <1>1 DEF Names, ToSet
<1> HIDE DEF k
<1>6. \A i \in 1..L : order(n)[i] = Arms[IF i <= L - k THEN k + i ELSE i - (L - k)]
  BY <1>1, <1>2, <1>3
<1> HIDE DEF L
<1>7. \A i \in 1..L : (IF i <= L - k THEN k + i ELSE i - (L - k)) \in 1..L
  BY <1>1, <1>2
<1>8. \A i \in 1..L : order(n)[i] \in Names
  BY <1>5, <1>6, <1>7
<1>9. ASSUME NEW i \in 1..L, NEW j \in 1..L, order(n)[i] = order(n)[j] PROVE i = j
  <2>1. (IF i <= L - k THEN k + i ELSE i - (L - k)) = (IF j <= L - k THEN k + j ELSE j - (L - k))
    BY <1>4, <1>6, <1>7, <1>9
  <2> QED BY <1>1, <1>2, <2>1
<1>10. ASSUME NEW a \in Names PROVE \E i \in 1..L : order(n)[i] = a
  <2>1. PICK j \in 1..L : Arms[j] = a
    BY <1>5
  <2> DEFINE i == IF j > k THEN j - k ELSE j + (L - k)
  <2>2. i \in 1..L /\ (IF i <= L - k THEN k + i ELSE i - (L - k)) = j
    BY <1>1, <1>2
  <2> HIDE DEF i
  <2> QED BY <1>6, <2>1, <2>2
<1> QED BY <1>1, <1>8, <1>9, <1>10 DEF L

(***************************************************************************)
(* The rows.                                                               *)
(***************************************************************************)
\* A set of naturals has a least member.
LEMMA HasLeast ==
    ASSUME NEW T \in SUBSET Nat, T # {}
    PROVE  \E x \in T : \A y \in T : x <= y
<1> DEFINE R == {ss \in Nat \X Nat : ss[1] < ss[2]}
<1>1. IsWellFoundedOn(R, Nat)
  BY NatLessThanWellFounded DEF OpToRel
<1>2. \A x, y \in Nat : <<y, x>> \in R <=> y < x
  OBVIOUS
<1> HIDE DEF R
<1>3. PICK x \in T : \A y \in T : ~(<<y, x>> \in R)
  BY <1>1, WFMin
<1>4. ASSUME NEW y \in T
      PROVE  x <= y
  <2>1. x \in Nat /\ y \in Nat /\ ~(y < x)
    BY <1>2, <1>3
  <2> QED BY <2>1
<1> QED BY <1>4

\* p holds what CleanSamples picks of the first 0, 1, ... n of s.
Picks(s, F, n, p) ==
    p = [m \in 0..n |-> IF m = 0 THEN <<>>
                        ELSE IF s[m].round \in F THEN p[m - 1]
                        ELSE Append(p[m - 1], s[m])]

LEMMA PicksExist ==
    ASSUME NEW s, NEW F, NEW n \in Nat
    PROVE  \E p : Picks(s, F, n, p)
<1> DEFINE Bad == {k \in Nat : ~\E p : Picks(s, F, k, p)}
           Next1(q, m) == IF s[m].round \in F THEN q ELSE Append(q, s[m])
<1> SUFFICES ASSUME Bad # {} PROVE FALSE
  OBVIOUS
<1>1. PICK k \in Bad : \A x \in Bad : k <= x
  BY HasLeast
<1>2. CASE k = 0
  <2> DEFINE p == [m \in 0..0 |-> <<>>]
  <2>1. \A m \in 0..0 : m = 0
    OBVIOUS
  <2>2. p = [m \in 0..0 |-> IF m = 0 THEN <<>>
                            ELSE IF s[m].round \in F THEN p[m - 1]
                            ELSE Append(p[m - 1], s[m])]
    BY <2>1
  <2> QED BY <1>1, <1>2, <2>2 DEF Picks
<1>3. CASE k # 0
  <2>1. k - 1 \in Nat /\ k - 1 \notin Bad
    BY <1>1, <1>3
  <2>2. PICK p : Picks(s, F, k - 1, p)
    BY <2>1
  <2> DEFINE u == [m \in 0..k |-> IF m < k THEN p[m] ELSE Next1(p[k - 1], k)]
  <2> HIDE DEF Next1
  <2>3. \A m \in 0..k : u[m] = IF m = 0 THEN <<>> ELSE Next1(u[m - 1], m)
    <3> TAKE m \in 0..k
    <3>1. CASE m = k
      <4>1. u[m] = Next1(p[k - 1], k) /\ k - 1 \in 0..k /\ k - 1 < k
        BY <3>1, <1>3, <1>1
      <4> QED BY <4>1, <3>1, <1>3
    <3>2. CASE m # k /\ m # 0
      <4>1. m \in 0..(k - 1) /\ m < k /\ m - 1 \in 0..k /\ m - 1 < k
        BY <3>2, <1>1
      <4>2. u[m] = p[m] /\ u[m - 1] = p[m - 1]
        BY <4>1
      <4>3. p[m] = Next1(p[m - 1], m)
        BY <4>1, <2>2, <3>2 DEF Picks, Next1
      <4> QED BY <4>2, <4>3, <3>2
    <3>3. CASE m # k /\ m = 0
      <4>1. 0 \in 0..(k - 1) /\ m < k
        BY <3>3, <1>1, <1>3
      <4>2. p[0] = <<>>
        BY <4>1, <2>2 DEF Picks
      <4> QED BY <4>1, <4>2, <3>3
    <3> QED BY <3>1, <3>2, <3>3
  <2>4. u = [m \in 0..k |-> IF m = 0 THEN <<>> ELSE Next1(u[m - 1], m)]
    BY <2>3
  <2> HIDE DEF u
  <2> QED BY <2>4, <1>1 DEF Picks, Next1
<1> QED BY <1>2, <1>3

LEMMA CleanSamplesAre ==
    ASSUME NEW a, Len(samples[a]) \in Nat
    PROVE  \E p : /\ Picks(samples[a], Flagged, Len(samples[a]), p)
                  /\ CleanSamples(a) = p[Len(samples[a])]
<1> DEFINE p == CHOOSE p : p = [n \in 0..Len(samples[a]) |->
                              IF n = 0 THEN <<>>
                              ELSE IF samples[a][n].round \in Flagged THEN p[n - 1]
                              ELSE Append(p[n - 1], samples[a][n])]
<1>1. CleanSamples(a) = p[Len(samples[a])]
  BY DEF CleanSamples
<1>2. Picks(samples[a], Flagged, Len(samples[a]), p)
  <2>1. \E q : Picks(samples[a], Flagged, Len(samples[a]), q)
    BY PicksExist
  <2>2. \E q : q = [n \in 0..Len(samples[a]) |->
                    IF n = 0 THEN <<>>
                    ELSE IF samples[a][n].round \in Flagged THEN q[n - 1]
                    ELSE Append(q[n - 1], samples[a][n])]
    BY <2>1, Zenon DEF Picks
  <2> HIDE <2>1
  <2>3. p = [n \in 0..Len(samples[a]) |->
                IF n = 0 THEN <<>>
                ELSE IF samples[a][n].round \in Flagged THEN p[n - 1]
                ELSE Append(p[n - 1], samples[a][n])]
    BY <2>2, Zenon
  <2> QED BY <2>3, Zenon DEF Picks
<1> QED BY <1>1, <1>2

LEMMA AppendIs ==
    ASSUME NEW T, NEW q \in Seq(T), NEW x \in T, NEW w, w = Append(q, x)
    PROVE  /\ w \in Seq(T) /\ Len(q) \in Nat /\ Len(w) = Len(q) + 1
           /\ \A i \in 1..Len(q) : w[i] = q[i]
           /\ w[Len(w)] = x
           /\ {w[i] : i \in 1..Len(w)} = {q[i] : i \in 1..Len(q)} \cup {x}
<1>1. /\ w \in Seq(T) /\ Len(q) \in Nat /\ Len(w) = Len(q) + 1
      /\ \A i \in 1..Len(q) : w[i] = q[i]
      /\ w[Len(q) + 1] = x
  OBVIOUS
<1>2. 1..Len(w) = (1..Len(q)) \cup {Len(q) + 1}
  BY <1>1
<1> QED BY <1>1, <1>2

\* got is what is left of s, one sample to a round, without the rounds of F.
Left(T, s, F, got) ==
    /\ got \in Seq(T)
    /\ Len(got) = Len(s) - Cardinality(F \cap (1..Len(s)))
    /\ {got[i] : i \in 1..Len(got)} = {s[n] : n \in (1..Len(s)) \ F}

\* What is picked of samples one to a round is the unflagged ones, all of them.
LEMMA PicksAre ==
    ASSUME NEW T, NEW s \in Seq(T), NEW F, NEW p, Picks(s, F, Len(s), p),
           \A n \in 1..Len(s) : s[n].round = n,
           NEW got, got = p[Len(s)]
    PROVE  Left(T, s, F, got)
<1> DEFINE N == Len(s)
           Good(m) == /\ p[m] \in Seq(T)
                      /\ Len(p[m]) = m - Cardinality(F \cap (1..m))
                      /\ {p[m][i] : i \in 1..Len(p[m])} = {s[n] : n \in (1..m) \ F}
           Bad == {m \in 0..N : ~Good(m)}
<1>1. N \in Nat
  OBVIOUS
<1>2. ASSUME Bad # {} PROVE FALSE
  <2>1. PICK m \in Bad : \A x \in Bad : m <= x
    <3>1. Bad \in SUBSET Nat
      BY <1>1
    <3> HIDE DEF Bad
    <3> QED BY <1>2, <3>1, HasLeast
  <2>2. m \in 0..N /\ ~Good(m)
    BY <2>1
  <2>3. CASE m = 0
    <3>1. p[0] = <<>>
      BY <1>1 DEF Picks
    <3>2. 1..0 = {} /\ F \cap {} = {} /\ Cardinality({}) = 0
      BY FS_EmptySet
    <3>3. <<>> \in Seq(T) /\ Len(<<>>) = 0
      OBVIOUS
    <3>4. {p[0][i] : i \in 1..Len(p[0])} = {s[n] : n \in (1..0) \ F}
      BY <3>1, <3>2, <3>3
    <3>5. Len(p[0]) = 0 - Cardinality(F \cap (1..0))
      BY <3>1, <3>2, <3>3
    <3> QED BY <2>2, <2>3, <3>1, <3>3, <3>4, <3>5
  <2>4. CASE m # 0
    <3> DEFINE k == m - 1
               q == p[k]
    <3>1. m \in 1..N /\ k \in 0..N /\ k \in Nat /\ m = k + 1 /\ ~(m <= k)
      BY <1>1, <2>2, <2>4
    <3>2. Good(k)
      <4>1. k \notin Bad
        BY <2>1, <3>1
      <4> HIDE DEF Good
      <4> QED BY <3>1, <4>1
    <3>3. p[m] = IF m \in F THEN q ELSE Append(q, s[m])
      <4>1. p[m] = IF m = 0 THEN <<>> ELSE IF s[m].round \in F THEN p[m - 1]
                   ELSE Append(p[m - 1], s[m])
        BY <2>2 DEF Picks
      <4> QED BY <2>4, <3>1, <4>1
    <3>4. s[m] \in T
      BY <3>1
    <3>5. 1..m = (1..k) \cup {m} /\ m \notin 1..k
      BY <3>1
    <3>6. /\ q \in Seq(T) /\ Len(q) = k - Cardinality(F \cap (1..k))
          /\ {q[i] : i \in 1..Len(q)} = {s[n] : n \in (1..k) \ F}
      BY <3>2
    <3>7. IsFiniteSet(F \cap (1..k)) /\ Cardinality(F \cap (1..k)) \in Nat
      <4>1. IsFiniteSet(1..k)
        BY <3>1, FS_Interval
      <4>2. IsFiniteSet(F \cap (1..k))
        BY <4>1, FS_Intersection
      <4> QED BY <4>2, FS_CardinalityType
    <3> HIDE DEF q, k
    <3>8. CASE m \in F
      <4>1. F \cap (1..m) = (F \cap (1..k)) \cup {m} /\ m \notin F \cap (1..k)
        BY <3>5, <3>8
      <4>2. Cardinality(F \cap (1..m)) = Cardinality(F \cap (1..k)) + 1
        BY <3>7, <4>1, FS_AddElement
      <4>3. (1..m) \ F = (1..k) \ F
        BY <3>5, <3>8
      <4>4. p[m] = q
        BY <3>3, <3>8
      <4>5. Len(p[m]) = m - Cardinality(F \cap (1..m))
        BY <3>1, <3>6, <3>7, <4>2, <4>4
      <4> QED BY <2>2, <3>6, <4>3, <4>4, <4>5
    <3>9. CASE m \notin F
      <4>1. F \cap (1..m) = F \cap (1..k) /\ (1..m) \ F = ((1..k) \ F) \cup {m}
        BY <3>5, <3>9
      <4>2. p[m] = Append(q, s[m])
        BY <3>3, <3>9
      <4>3. /\ p[m] \in Seq(T) /\ Len(p[m]) = Len(q) + 1
            /\ {p[m][i] : i \in 1..Len(p[m])} = {q[i] : i \in 1..Len(q)} \cup {s[m]}
        <5> DEFINE w == p[m]
                   x == s[m]
        <5>1. w = Append(q, x) /\ x \in T /\ q \in Seq(T)
          BY <3>4, <3>6, <4>2
        <5> HIDE DEF w, x
        <5>2. /\ w \in Seq(T) /\ Len(w) = Len(q) + 1
              /\ {w[i] : i \in 1..Len(w)} = {q[i] : i \in 1..Len(q)} \cup {x}
          BY <5>1, AppendIs
        <5> QED BY <5>2 DEF w, x
      <4>4. Len(p[m]) = m - Cardinality(F \cap (1..m))
        <5>1. Cardinality(F \cap (1..m)) = Cardinality(F \cap (1..k))
          BY <4>1
        <5> QED BY <3>1, <3>6, <3>7, <4>3, <5>1
      <4>6. {s[n] : n \in (1..m) \ F} = {s[n] : n \in (1..k) \ F} \cup {s[m]}
        BY <4>1
      <4> QED BY <2>2, <3>6, <4>3, <4>4, <4>6
    <3> QED BY <3>8, <3>9
  <2> QED BY <2>3, <2>4
<1>3. Good(N)
  <2> HIDE DEF Good
  <2> QED BY <1>1, <1>2
<1>4. /\ p[N] \in Seq(T)
      /\ Len(p[N]) = N - Cardinality(F \cap (1..N))
      /\ {p[N][i] : i \in 1..Len(p[N])} = {s[n] : n \in (1..N) \ F}
  BY <1>3
<1> QED BY <1>4 DEF Left

(***************************************************************************)
(* The rounds as they run.                                                 *)
(***************************************************************************)
\* Has this round timed the arm
Had(a) == \E i \in 1..at : order(r)[i] = a

\* A round is under way only where the budget has room for it
Open ==
    /\ phase = "warmup" => at = 0
    /\ phase = "rounds" /\ (at > 0 \/ state \in {"block", "ended"}) => More

\* An arm has a sample of every round, this one's once it was timed
Sampled ==
    phase # "raised" => \A a \in Names :
        /\ Len(samples[a]) = IF Had(a) THEN r + 1 ELSE r
        /\ \A n \in 1..Len(samples[a]) : samples[a][n].round = n

\* A throttled sample flags its round, or is going to
Marked ==
    phase # "raised" => \A a \in Names : \A n \in 1..Len(samples[a]) :
        samples[a][n].throttled => IF n <= r THEN rounds[n] = TRUE ELSE clocks[a] = TRUE

\* What is returned is of the rounds as they stand
Answered ==
    phase = "done" =>
        /\ at = 0
        /\ result = [complete |-> clean = reps, clean_rounds |-> clean,
                     rows |-> [a \in Names |-> CleanSamples(a)]]

ArmsInv == TypeOK /\ Open /\ Sampled /\ Marked /\ Answered

LEMMA FlagsCounted ==
    ASSUME TypeOK
    PROVE  /\ r \in Nat /\ Flagged \subseteq 1..r /\ IsFiniteSet(Flagged)
           /\ Cardinality(Flagged) \in 0..r /\ clean \in 0..r
<1>1. r \in Nat
  BY DEF TypeOK, r
<1>2. Flagged \in SUBSET (1..r)
  BY DEF Flagged, r
<1>3. IsFiniteSet(1..r) /\ Cardinality(1..r) = r
  BY <1>1, FS_Interval
<1>4. IsFiniteSet(Flagged) /\ Cardinality(Flagged) <= r
  BY <1>2, <1>3, FS_Subset
<1>5. Cardinality(Flagged) \in Nat
  BY <1>4, FS_CardinalityType
<1> QED BY <1>1, <1>2, <1>4, <1>5 DEF clean, r

LEMMA ArmsBegin == ArmsInit => ArmsInv
<1> SUFFICES ASSUME ArmsInit PROVE ArmsInv
  OBVIOUS
<1>1. rounds = <<>> /\ Len(rounds) = 0 /\ r = 0 /\ at = 0 /\ phase = "warmup"
      /\ \A a \in Names : samples[a] = <<>> /\ Len(samples[a]) = 0
  BY DEF ArmsInit, r
<1>2. TypeOK
  <2>1. reps + max_rerun_rounds >= 0 /\ Len(Arms) \in Nat
    BY ArmsAssumption, RoundsAssumption
  <2>2. samples \in [Names -> Seq(SampleRecords)] /\ rounds \in Seq(BOOLEAN)
    BY DEF ArmsInit
  <2>3. at \in 0..Len(Arms) /\ Len(rounds) <= reps + max_rerun_rounds
    BY <1>1, <2>1
  <2>4. clocks \in [Names -> BOOLEAN \cup {Unjudged}] /\ first_started \in BOOLEAN
    BY DEF ArmsInit
  <2>5. /\ state = "down" /\ seen \in BOOLEAN /\ flagged = Unjudged
        /\ phase = "warmup" /\ result = Unjudged
    BY DEF ArmsInit, JudgeInit
  <2> QED BY <2>2, <2>3, <2>4, <2>5 DEF TypeOK
<1>3. Sampled
  <2>1. \A a \in Names : ~Had(a)
    BY <1>1 DEF Had
  <2> QED BY <1>1, <2>1 DEF Sampled
<1>4. Open /\ Marked /\ Answered
  BY <1>1 DEF ArmsInit, JudgeInit, Open, Marked, Answered
<1> QED BY <1>2, <1>3, <1>4 DEF ArmsInv

\* What is said of the samples stands while no sample is taken and no round ends.
LEMMA SamplesStand ==
    ASSUME ArmsInv, UNCHANGED <<at, clocks, rounds, samples>>,
           phase' # "raised" => phase # "raised"
    PROVE  Sampled' /\ Marked' /\ clean' = clean /\ r' = r /\ (More' <=> More)
<1>1. /\ r' = r /\ Flagged' = Flagged /\ clean' = clean /\ \A a : CleanSamples(a)' = CleanSamples(a)
  BY DEF r, Flagged, clean, CleanSamples
<1>2. \A n : order(n)' = order(n)
  BY DEF order
<1>3. \A a \in Names : Had(a)' = Had(a)
  BY <1>1, <1>2 DEF Had
<1> QED BY <1>1, <1>3 DEF ArmsInv, Sampled, Marked, More

LEMMA ArmsTurn ==
    ArmsInv /\ (Warmup \/ BlockBegins \/ BlockEnds \/ BlockRaises \/ Refuses \/ Detector)
        => ArmsInv'
<1> SUFFICES ASSUME ArmsInv,
                    Warmup \/ BlockBegins \/ BlockEnds \/ BlockRaises \/ Refuses \/ Detector
             PROVE  ArmsInv'
  OBVIOUS
<1>1. /\ UNCHANGED <<at, clocks, rounds, samples, result>>
      /\ phase' # "raised" => phase # "raised"
  BY DEF Warmup, BlockBegins, BlockEnds, BlockRaises, Refuses, Detector, timing
<1>2. Sampled' /\ Marked' /\ clean' = clean /\ r' = r /\ (More' <=> More)
  BY <1>1, SamplesStand
<1>3. /\ state' \in {"down", "ready", "block", "ended"} /\ seen' \in BOOLEAN
      /\ flagged' \in BOOLEAN \cup {Unjudged}
  BY DEF Warmup, BlockBegins, BlockEnds, BlockRaises, Refuses, Detector, judge, Begins, Ends,
         Aborts, GoesDown, GoesUp, Sees, ArmsInv, TypeOK
<1>4. state' \in {"block", "ended"} => phase' = "rounds" /\ at < Len(Arms) /\ More
  BY DEF Warmup, BlockBegins, BlockEnds, BlockRaises, Refuses, Detector, timing, judge, Begins,
         Ends, Aborts, GoesDown, GoesUp, Sees, ArmsInv, TypeOK, Open
<1>5. /\ phase' \in {"warmup", "rounds", "done", "raised"}
      /\ phase' = "done" <=> phase = "done"
      /\ phase' = "warmup" => phase = "warmup"
      /\ phase' = "rounds" => phase = "rounds" \/ phase = "warmup"
      /\ first_started' \in BOOLEAN
  BY DEF Warmup, BlockBegins, BlockEnds, BlockRaises, Refuses, Detector, timing, ArmsInv, TypeOK
<1>6. TypeOK'
  BY <1>1, <1>3, <1>4, <1>5 DEF ArmsInv, TypeOK
<1>7. Open'
  BY <1>1, <1>2, <1>4, <1>5 DEF ArmsInv, Open
<1>8. Answered'
  <2>1. \A a : CleanSamples(a)' = CleanSamples(a)
    BY <1>1 DEF CleanSamples, Flagged
  <2> QED BY <1>1, <1>2, <1>5, <2>1 DEF ArmsInv, Answered
<1> QED BY <1>2, <1>6, <1>7, <1>8 DEF ArmsInv

\* The arm judged had no sample of this round yet.
LEMMA ArmsJudge == ArmsInv /\ BlockJudged => ArmsInv'
<1> SUFFICES ASSUME ArmsInv, BlockJudged PROVE ArmsInv'
  OBVIOUS
<1> DEFINE new == [round |-> r + 1, throttled |-> seen]
<1>1. /\ phase = "rounds" /\ state = "ended" /\ state' = "ready"
      /\ flagged' \in BOOLEAN /\ (seen => flagged') /\ seen' = FALSE /\ seen \in BOOLEAN
      /\ samples' = [samples EXCEPT ![Arm] = Append(@, new)]
      /\ clocks' = [clocks EXCEPT ![Arm] = flagged']
      /\ at' = at + 1 /\ UNCHANGED <<phase, first_started, rounds, result>>
  BY DEF BlockJudged, Judges, ArmsInv, TypeOK
<1>2. /\ at \in Nat /\ at < Len(Arms) /\ More /\ Len(Arms) \in Nat /\ result = Unjudged
  BY <1>1, OrderPermutes DEF ArmsInv, TypeOK, Open
<1>3. r \in Nat /\ r = Len(rounds) /\ r < reps + max_rerun_rounds
      /\ reps \in Nat /\ max_rerun_rounds \in Nat
  BY <1>2, FlagsCounted, RoundsAssumption DEF More, ArmsInv, r
<1>4. Arm \in Names /\ ~Had(Arm)
  <2>1. Arm = order(r)[at + 1] /\ at + 1 \in 1..Len(Arms)
    BY <1>2 DEF Arm
  <2>2. Arm \in Names
    BY <1>3, <2>1, OrderPermutes
  <2>3. ASSUME NEW i \in 1..at, order(r)[i] = Arm PROVE FALSE
    <3>1. i \in 1..Len(Arms) /\ i # at + 1
      BY <1>2
    <3>2. \A x, y \in 1..Len(Arms) : order(r)[x] = order(r)[y] => x = y
      BY <1>3, OrderPermutes
    <3> QED BY <2>1, <2>3, <3>1, <3>2
  <2> QED BY <2>2, <2>3 DEF Had
<1>5. new \in SampleRecords /\ new.round = r + 1 /\ new.throttled = seen
  BY <1>1, <1>3 DEF SampleRecords
<1> HIDE DEF new
<1> DEFINE was == samples[Arm]
           is == samples'[Arm]
<1>6. samples \in [Names -> Seq(SampleRecords)] /\ clocks \in [Names -> BOOLEAN \cup {Unjudged}]
  BY DEF ArmsInv, TypeOK
<1>7. /\ was \in Seq(SampleRecords) /\ Len(was) = r /\ is = Append(was, new)
      /\ \A n \in 1..r : was[n].round = n
      /\ \A n \in 1..r : was[n].throttled => rounds[n] = TRUE
  BY <1>1, <1>3, <1>4, <1>6 DEF ArmsInv, Sampled, Marked
<1>8. /\ \A a \in Names : a # Arm => samples'[a] = samples[a] /\ clocks'[a] = clocks[a]
      /\ clocks'[Arm] = flagged'
      /\ clocks' \in [Names -> BOOLEAN \cup {Unjudged}]
  BY <1>1, <1>4, <1>6
<1> HIDE DEF was, is
<1>9. /\ is \in Seq(SampleRecords) /\ Len(is) = r + 1 /\ is[r + 1] = new
      /\ \A n \in 1..r : is[n] = was[n]
      /\ \A n \in 1..(r + 1) : n \in 1..r \/ n = r + 1
  BY <1>3, <1>5, <1>7
<1>10. r' = r /\ clean' = clean /\ order(r)' = order(r)
  BY <1>1 DEF r, clean, Flagged, order
<1>11. \A a \in Names : Had(a)' <=> (Had(a) \/ a = Arm)
  <2>1. \A i \in 1..at' : i \in 1..at \/ i = at + 1
    BY <1>1, <1>2
  <2>2. at + 1 \in 1..at' /\ 1..at \subseteq 1..at'
    BY <1>1, <1>2
  <2> QED BY <1>10, <2>1, <2>2 DEF Had, Arm
<1>12. TypeOK'
  <2>1. samples' \in [Names -> Seq(SampleRecords)]
    BY <1>1, <1>6, <1>8, <1>9 DEF is
  <2>2. at' \in 0..Len(Arms)
    BY <1>1, <1>2
  <2> QED BY <1>1, <1>8, <2>1, <2>2 DEF ArmsInv, TypeOK
<1>13. Open'
  BY <1>1, <1>2, <1>10 DEF Open, More
<1>14. Sampled'
  <2>1. ASSUME NEW a \in Names
        PROVE  /\ Len(samples'[a]) = IF Had(a)' THEN r' + 1 ELSE r'
               /\ \A n \in 1..Len(samples'[a]) : samples'[a][n].round = n
    <3>1. CASE a = Arm
      BY <1>3, <1>5, <1>7, <1>9, <1>10, <1>11, <3>1 DEF is
    <3>2. CASE a # Arm
      BY <1>1, <1>8, <1>10, <1>11, <3>2 DEF ArmsInv, Sampled
    <3> QED BY <3>1, <3>2
  <2> QED BY <2>1 DEF Sampled
<1>15. Marked'
  <2>1. ASSUME NEW a \in Names, NEW n \in 1..Len(samples'[a]), samples'[a][n].throttled
        PROVE  IF n <= r' THEN rounds'[n] = TRUE ELSE clocks'[a] = TRUE
    <3>1. CASE a = Arm
      <4>1. samples'[a] = is /\ n \in 1..(r + 1)
        BY <1>9, <2>1, <3>1 DEF is
      <4>2. CASE n \in 1..r
        <5>1. was[n].throttled
          BY <1>9, <2>1, <4>1, <4>2
        <5>2. n <= r'
          BY <1>3, <1>10, <4>2
        <5> QED BY <1>1, <1>7, <4>2, <5>1, <5>2
      <4>3. CASE n = r + 1
        <5>1. seen
          BY <1>5, <1>9, <2>1, <4>1, <4>3
        <5>2. ~(n <= r') /\ clocks'[a] = TRUE
          BY <1>1, <1>3, <1>8, <1>10, <3>1, <4>3, <5>1
        <5> QED BY <5>2
      <4> QED BY <1>9, <4>1, <4>2, <4>3
    <3>2. CASE a # Arm
      BY <1>1, <1>8, <1>10, <2>1, <3>2 DEF ArmsInv, Marked
    <3> QED BY <3>1, <3>2
  <2> QED BY <2>1 DEF Marked
<1>16. Answered'
  BY <1>1 DEF Answered
<1> QED BY <1>12, <1>13, <1>14, <1>15, <1>16 DEF ArmsInv

\* Every arm was timed in a round that ends, and a throttle in any flags it.
LEMMA ArmsEndRound == ArmsInv /\ RoundEnds => ArmsInv'
<1> SUFFICES ASSUME ArmsInv, RoundEnds PROVE ArmsInv'
  OBVIOUS
<1>1. PICK drifted \in BOOLEAN : rounds' = Append(rounds, Flags(drifted))
  BY DEF RoundEnds
<1> DEFINE flag == Flags(drifted)
<1>2. /\ phase = "rounds" /\ at = Len(Arms) /\ at' = 0
      /\ clocks' = [a \in Names |-> Unjudged]
      /\ UNCHANGED <<state, seen, flagged, phase, first_started, samples, result>>
  BY DEF RoundEnds, judge
<1>3. flag \in BOOLEAN /\ \A a \in Names : clocks[a] = TRUE => flag = TRUE
  BY DEF Flags
<1> HIDE DEF flag
<1>4. /\ r \in Nat /\ r = Len(rounds) /\ rounds \in Seq(BOOLEAN)
      /\ Len(Arms) \in Nat \ {0} /\ reps \in Nat /\ max_rerun_rounds \in Nat
  BY FlagsCounted, OrderPermutes, RoundsAssumption DEF ArmsInv, TypeOK, r
<1>5. More /\ r < reps + max_rerun_rounds /\ state \notin {"block", "ended"}
  BY <1>2, <1>4 DEF ArmsInv, TypeOK, Open, More
<1>6. /\ rounds' \in Seq(BOOLEAN) /\ Len(rounds') = r + 1 /\ r' = r + 1
      /\ \A n \in 1..r : rounds'[n] = rounds[n]
      /\ rounds'[r + 1] = flag
  <2>1. rounds' = Append(rounds, flag)
    BY <1>1 DEF flag
  <2>2. /\ rounds' \in Seq(BOOLEAN) /\ Len(rounds') = r + 1
        /\ \A n \in 1..r : rounds'[n] = rounds[n]
        /\ rounds'[r + 1] = flag
    BY <1>3, <1>4, <2>1
  <2> QED BY <2>2 DEF r
<1>7. \A a \in Names : Had(a)
  BY <1>2, <1>4, OrderPermutes DEF Had
<1>8. \A a \in Names : ~Had(a)'
  BY <1>2 DEF Had
<1>9. \A a \in Names : Len(samples[a]) = r + 1
                       /\ \A n \in 1..(r + 1) : samples[a][n].round = n
  BY <1>2, <1>7 DEF ArmsInv, Sampled
<1>10. TypeOK'
  <2>1. Len(rounds') <= reps + max_rerun_rounds /\ at' \in 0..Len(Arms)
    BY <1>2, <1>4, <1>5, <1>6
  <2>2. clocks' \in [Names -> BOOLEAN \cup {Unjudged}]
    BY <1>2
  <2> QED BY <1>2, <1>5, <1>6, <2>1, <2>2 DEF ArmsInv, TypeOK
<1>11. Open'
  BY <1>2, <1>5 DEF Open
<1>12. Sampled'
  BY <1>2, <1>6, <1>8, <1>9 DEF Sampled
<1>13. Marked'
  <2>1. ASSUME NEW a \in Names, NEW n \in 1..(r + 1), samples[a][n].throttled
        PROVE  n <= r' /\ rounds'[n] = TRUE
    <3>1. IF n <= r THEN rounds[n] = TRUE ELSE clocks[a] = TRUE
      BY <1>2, <1>9, <2>1 DEF ArmsInv, Marked
    <3> QED BY <1>3, <1>4, <1>6, <3>1
  <2> QED BY <1>2, <1>9, <2>1 DEF Marked
<1>14. Answered'
  BY <1>2 DEF Answered
<1> QED BY <1>10, <1>11, <1>12, <1>13, <1>14 DEF ArmsInv

\* A row is the arm's samples of the unflagged rounds, one of each.
LEMMA RowsAre ==
    ASSUME ArmsInv, phase # "raised", at = 0, NEW a \in Names
    PROVE  /\ CleanSamples(a) \in Seq(SampleRecords)
           /\ Len(CleanSamples(a)) = clean
           /\ {CleanSamples(a)[n] : n \in 1..Len(CleanSamples(a))} =
                  {samples[a][n] : n \in (1..r) \ Flagged}
           /\ {CleanSamples(a)[n].round : n \in 1..Len(CleanSamples(a))} =
                  1..Len(rounds) \ Flagged
<1> DEFINE s == samples[a]
           row == CleanSamples(a)
<1>1. s \in Seq(SampleRecords) /\ Len(s) = r /\ \A n \in 1..r : s[n].round = n
  <2>1. ~Had(a)
    BY DEF Had
  <2> QED BY <2>1 DEF ArmsInv, TypeOK, Sampled
<1>2. Flagged \cap (1..r) = Flagged /\ r \in Nat
  BY FlagsCounted DEF ArmsInv
<1>3. PICK p : Picks(s, Flagged, Len(s), p) /\ row = p[Len(s)]
  BY <1>1, <1>2, CleanSamplesAre
<1> HIDE DEF s, row
<1>4. /\ row \in Seq(SampleRecords)
      /\ Len(row) = Len(s) - Cardinality(Flagged \cap (1..Len(s)))
      /\ {row[n] : n \in 1..Len(row)} = {s[n] : n \in (1..Len(s)) \ Flagged}
  <2>1. \A n \in 1..Len(s) : s[n].round = n
    BY <1>1
  <2>2. Left(SampleRecords, s, Flagged, row)
    BY <1>1, <1>3, <2>1, PicksAre
  <2> QED BY <2>2 DEF Left
<1>5. Len(row) = clean
  BY <1>1, <1>2, <1>4 DEF clean, r
<1>6. {row[n].round : n \in 1..Len(row)} = {x.round : x \in {row[n] : n \in 1..Len(row)}}
  OBVIOUS
<1>7. {x.round : x \in {s[n] : n \in (1..r) \ Flagged}} = (1..r) \ Flagged
  BY <1>1
<1>8. {row[n].round : n \in 1..Len(row)} = (1..r) \ Flagged
  BY <1>1, <1>4, <1>6, <1>7
<1> QED BY <1>1, <1>4, <1>5, <1>8 DEF s, row, r

LEMMA ArmsReturn == ArmsInv /\ Return => ArmsInv'
<1> SUFFICES ASSUME ArmsInv, Return PROVE ArmsInv'
  OBVIOUS
<1> DEFINE rows == [a \in Names |-> CleanSamples(a)]
           answer == [complete |-> clean = reps, clean_rounds |-> clean, rows |-> rows]
<1>1. /\ phase = "rounds" /\ phase' = "done" /\ at = 0 /\ ~More /\ result' = answer
      /\ UNCHANGED <<state, seen, flagged, first_started, at, clocks, rounds, samples>>
  BY DEF Return, judge
<1>2. Sampled' /\ Marked' /\ clean' = clean /\ r' = r
  BY <1>1, SamplesStand
<1>3. rows \in [Names -> Seq(SampleRecords)]
  BY <1>1, RowsAre
<1>4. clean \in Nat /\ (clean = reps) \in BOOLEAN
  BY FlagsCounted DEF ArmsInv
<1>5. result' # Unjudged
  <2> HIDE DEF rows
  <2>1. answer \in [complete: BOOLEAN, clean_rounds: Nat, rows: [Names -> Seq(SampleRecords)]]
    BY <1>3, <1>4
  <2> QED BY <1>1, <2>1, UnjudgedAssumption
<1>6. TypeOK'
  <2>1. state \notin {"block", "ended"}
    BY <1>1 DEF ArmsInv, Open
  <2> HIDE DEF answer
  <2> QED BY <1>1, <1>5, <2>1 DEF ArmsInv, TypeOK
<1>7. Open'
  BY <1>1 DEF Open
<1>8. Answered'
  <2>1. \A a : CleanSamples(a)' = CleanSamples(a)
    BY <1>1 DEF CleanSamples, Flagged
  <2> QED BY <1>1, <1>2, <2>1 DEF Answered
<1> QED BY <1>2, <1>6, <1>7, <1>8 DEF ArmsInv

\* The rounds of time_arms, for any arms, any number of rounds asked for and
\* of reruns allowed.
THEOREM ArmsInvariant == ArmsSpec => []ArmsInv
<1>1. ArmsInv /\ [ArmsNext]_armsVars => ArmsInv'
  <2> SUFFICES ASSUME ArmsInv, [ArmsNext]_armsVars PROVE ArmsInv'
    OBVIOUS
  <2>1. CASE UNCHANGED armsVars
    <3>1. /\ UNCHANGED <<state, seen, flagged, phase, first_started, at, clocks, rounds,
                         samples, result>>
      BY <2>1 DEF armsVars, timing, judge
    <3>2. Sampled' /\ Marked' /\ clean' = clean /\ r' = r /\ (More' <=> More)
      BY <3>1, SamplesStand
    <3>3. \A a : CleanSamples(a)' = CleanSamples(a)
      BY <3>1 DEF CleanSamples, Flagged
    <3> QED BY <3>1, <3>2, <3>3 DEF ArmsInv, TypeOK, Open, Answered
  <2> QED BY <2>1, ArmsTurn, ArmsJudge, ArmsEndRound, ArmsReturn DEF ArmsNext
<1> QED BY <1>1, ArmsBegin, PTL DEF ArmsSpec

\* Types, and that a block is open only in a round and no round over budget.
THEOREM ArmsTypes == ArmsSpec => []TypeOK
<1>1. ArmsInv => TypeOK
  BY DEF ArmsInv
<1> QED BY <1>1, ArmsInvariant, PTL

\* No sample of any row is from a round with a throttle in any arm's block.
THEOREM ArmsUnthrottled == ArmsSpec => []CleanMeansUnthrottled
<1>1. ArmsInv => CleanMeansUnthrottled
  <2> SUFFICES ASSUME ArmsInv, Returned, NEW a \in Names, NEW b \in Names,
                      NEW n \in 1..Len(result.rows[a]), NEW s \in ToSet(samples[b]),
                      s.round = result.rows[a][n].round, s.throttled
               PROVE  FALSE
    BY DEF CleanMeansUnthrottled
  <2>1. at = 0 /\ phase = "done" /\ result.rows[a] = CleanSamples(a)
    BY DEF Returned, ArmsInv, Answered
  <2>2. {CleanSamples(a)[i].round : i \in 1..Len(CleanSamples(a))} = 1..Len(rounds) \ Flagged
    BY <2>1, RowsAre
  <2>3. s.round \in 1..Len(rounds) /\ s.round \notin Flagged
    BY <2>1, <2>2
  <2>4. PICK m \in 1..Len(samples[b]) : s = samples[b][m]
    BY DEF ToSet, ArmsInv, TypeOK
  <2>5. m = s.round /\ m <= r
    <3>1. samples[b][m].round = m
      BY <2>1 DEF ArmsInv, Sampled
    <3> QED BY <2>3, <2>4, <3>1 DEF r
  <2>6. rounds[m] = TRUE
    BY <2>1, <2>4, <2>5 DEF ArmsInv, Marked
  <2> QED BY <2>3, <2>5, <2>6 DEF Flagged
<1> QED BY <1>1, ArmsInvariant, PTL

\* Every arm's row is of the same rounds, one sample of each.
THEOREM ArmsPaired == ArmsSpec => []RowsPaired
<1>1. ArmsInv => RowsPaired
  <2> SUFFICES ASSUME ArmsInv, Returned, NEW a \in Names
               PROVE  /\ Len(result.rows[a]) = result.clean_rounds
                      /\ {result.rows[a][n].round : n \in 1..Len(result.rows[a])} =
                             1..Len(rounds) \ Flagged
    BY DEF RowsPaired
  <2>1. /\ at = 0 /\ phase = "done" /\ result.rows[a] = CleanSamples(a)
        /\ result.clean_rounds = clean
    BY DEF Returned, ArmsInv, Answered
  <2> QED BY <2>1, RowsAre
<1> QED BY <1>1, ArmsInvariant, PTL
=============================================================================
