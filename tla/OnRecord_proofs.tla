-------------------------- MODULE OnRecord_proofs --------------------------
(***************************************************************************)
(* What is on record was earned before it.  A committed prediction: what   *)
(* it was fitted on was banked before it, for any number of pairings and   *)
(* any skew, and its dispatch choices are worth what they say, for any     *)
(* configurations, times, floor and error.  The sweep's file: what passed, *)
(* compiled and once, for any grid, any backends, any limit of the         *)
(* compiler and any number of processes killed anywhere.                   *)
(***************************************************************************)
EXTENDS BankedOrder, Dispatcher, KernelStages, FiniteSetTheorems, TLAPS

\* A stamp is within the skew of the moment it stands for, and no event is in
\* the future
Stamped ==
    \A p \in Pairings :
        /\ banked[p] # None => banked[p] <= now
        /\ prediction[p] # None =>
               /\ prediction[p].wrote <= now
               /\ prediction[p].written_at - prediction[p].wrote <= Skew
               /\ prediction[p].wrote - prediction[p].written_at <= Skew
               /\ p \notin prediction[p].named

Judged == \A p \in Pairings : loaded[p] = TRUE => prediction[p] # None

IInv == TypeOK /\ Stamped /\ Judged /\ TrainedOnBanked

THEOREM BankedTypes == Spec => []TypeOK
<1> USE BankingAssumption
<1>1. Init => TypeOK
  BY DEF Init, TypeOK, Time
<1>2. TypeOK /\ [Next]_vars => TypeOK'
  <2> SUFFICES ASSUME TypeOK, [Next]_vars PROVE TypeOK'
    OBVIOUS
  <2>1. CASE Tick
    BY <2>1 DEF Tick, TypeOK, Time
  <2>2. ASSUME NEW p \in Pairings, WritePrediction(p) PROVE TypeOK'
    <3>1. PICK named \in SUBSET (timed \ {p}), w \in (now - Skew)..(now + Skew) :
            prediction' = [prediction EXCEPT ![p] =
                [named |-> named, written_at |-> w, wrote |-> now]]
      BY <2>2 DEF WritePrediction
    <3>2. w \in Stamps /\ named \subseteq Pairings /\ now \in Time
      BY DEF TypeOK, Time, Stamps
    <3> QED BY <2>2, <3>1, <3>2 DEF WritePrediction, TypeOK
  <2>3. ASSUME NEW p \in Pairings, TimeIt(p) PROVE TypeOK'
    BY <2>3 DEF TimeIt, TypeOK
  <2>4. ASSUME NEW p \in Pairings, Bank(p) PROVE TypeOK'
    BY <2>4 DEF Bank, TypeOK
  <2>5. ASSUME NEW p \in Pairings, LoadCommitted(p) PROVE TypeOK'
    <3>1. loaded' \in [Pairings -> BOOLEAN \cup {None}]
      BY <2>5, Zenon DEF LoadCommitted, TypeOK, NamedWereBanked, OwnIsLater, OthersAreLater
    <3> QED BY <2>5, <3>1 DEF LoadCommitted, TypeOK
  <2>6. CASE UNCHANGED vars
    BY <2>6 DEF vars, TypeOK
  <2> QED BY <2>1, <2>2, <2>3, <2>4, <2>5, <2>6 DEF Next
<1> QED BY <1>1, <1>2, PTL DEF Spec

\* The analysis's three comparisons, whatever the two clocks are apart: the
\* named pairings are those banked before the write.
LEMMA ChecksSuffice ==
    ASSUME IInv, NEW p \in Pairings, prediction[p] # None,
           NamedWereBanked(prediction[p]), OwnIsLater(p, prediction[p]),
           OthersAreLater(p, prediction[p])
    PROVE  prediction[p].named =
               {q \in Pairings : banked[q] # None /\ banked[q] < prediction[p].wrote}
<1> USE BankingAssumption
<1> DEFINE cp == prediction[p]
<1>1. /\ cp.wrote \in Int /\ cp.written_at \in Int /\ cp.named \subseteq Pairings
      /\ cp.written_at - cp.wrote <= Skew /\ cp.wrote - cp.written_at <= Skew
      /\ p \notin cp.named
  BY DEF IInv, TypeOK, Stamped, Time, Stamps
<1>2. ASSUME NEW q \in cp.named PROVE banked[q] # None /\ banked[q] < cp.wrote
  <2>1. q \in Pairings /\ banked[q] # None /\ banked[q] + Skew < cp.written_at
    BY <1>1, <1>2 DEF NamedWereBanked, banked_at
  <2>2. banked[q] \in Int
    BY <2>1 DEF IInv, TypeOK, Time
  <2> QED BY <1>1, <2>1, <2>2
<1>3. ASSUME NEW q \in Pairings, banked[q] # None, banked[q] < cp.wrote PROVE q \in cp.named
  <2> SUFFICES ASSUME q \notin cp.named PROVE FALSE
    OBVIOUS
  <2>1. banked[q] \in Int
    BY <1>3 DEF IInv, TypeOK, Time
  <2>2. banked[q] - Skew > cp.written_at
    BY <1>3 DEF OwnIsLater, OthersAreLater, banked_at
  <2> QED BY <1>1, <1>3, <2>1, <2>2
<1> QED BY <1>1, <1>2, <1>3

THEOREM TrainedBefore == Spec => []TrainedOnBanked
<1> USE BankingAssumption
<1>1. Init => Stamped /\ Judged /\ TrainedOnBanked
  BY DEF Init, Stamped, Judged, TrainedOnBanked
<1>2. IInv /\ TypeOK' /\ [Next]_vars => IInv'
  <2> SUFFICES ASSUME IInv, TypeOK', [Next]_vars PROVE IInv'
    OBVIOUS
  <2> USE DEF IInv
  <2>1. CASE Tick
    BY <2>1 DEF Tick, TypeOK, Time, Stamped, Judged, TrainedOnBanked
  <2>2. ASSUME NEW p \in Pairings, WritePrediction(p) PROVE IInv'
    <3>1. PICK named \in SUBSET (timed \ {p}), w \in (now - Skew)..(now + Skew) :
            prediction' = [prediction EXCEPT ![p] =
                [named |-> named, written_at |-> w, wrote |-> now]]
      BY <2>2 DEF WritePrediction
    <3>2. prediction'[p] = [named |-> named, written_at |-> w, wrote |-> now]
      BY <3>1 DEF TypeOK
    <3>3. \A q \in Pairings \ {p} : prediction'[q] = prediction[q]
      BY <3>1 DEF TypeOK
    <3>4. UNCHANGED <<now, banked, loaded>> /\ loaded[p] # TRUE
      BY <2>2 DEF WritePrediction, Judged
    <3>5. Stamped'
      BY <3>2, <3>3, <3>4 DEF Stamped, TypeOK, Time
    <3> QED BY <3>3, <3>4, <3>5 DEF Judged, TrainedOnBanked
  <2>3. ASSUME NEW p \in Pairings, TimeIt(p) PROVE IInv'
    BY <2>3 DEF TimeIt, Stamped, Judged, TrainedOnBanked
  <2>4. ASSUME NEW p \in Pairings, Bank(p) PROVE IInv'
    <3>1. banked[p] = None /\ UNCHANGED <<now, prediction, loaded>>
      BY <2>4 DEF Bank
    <3>2. banked'[p] = now /\ \A q \in Pairings \ {p} : banked'[q] = banked[q]
      BY <2>4 DEF Bank, TypeOK
    <3>3. now \in Int /\ now # None
      <4>1. now \in Int
        BY DEF TypeOK, Time
      <4> QED BY <4>1
    <3>4. Stamped'
      BY <3>1, <3>2, <3>3 DEF Stamped
    <3>5. ASSUME NEW q \in Pairings, loaded[q] = TRUE
          PROVE  /\ p \notin prediction[q].named
                 /\ ~(now < prediction[q].wrote)
      <4>1. p \notin prediction[q].named
        BY <3>1, <3>5 DEF TrainedOnBanked
      <4>2. prediction[q].wrote <= now /\ prediction[q].wrote \in Int
        BY <3>5 DEF Judged, Stamped, TypeOK, Time
      <4> QED BY <4>1, <4>2, <3>3
    <3>6. TrainedOnBanked'
      BY <3>1, <3>2, <3>5 DEF TrainedOnBanked
    <3> QED BY <3>1, <3>4, <3>6 DEF Judged
  <2>5. ASSUME NEW p \in Pairings, LoadCommitted(p) PROVE IInv'
    <3>1. UNCHANGED <<now, banked, prediction>> /\ prediction[p] # None
      BY <2>5 DEF LoadCommitted
    <3>2. \A q \in Pairings \ {p} : loaded'[q] = loaded[q]
      BY <2>5 DEF LoadCommitted, TypeOK
    <3>3. loaded'[p] = (NamedWereBanked(prediction[p]) /\ OwnIsLater(p, prediction[p])
                            /\ OthersAreLater(p, prediction[p]))
      BY <2>5, Zenon DEF LoadCommitted, TypeOK
    <3>4. loaded'[p] = TRUE => prediction[p].named =
              {q \in Pairings : banked[q] # None /\ banked[q] < prediction[p].wrote}
      BY <3>1, <3>3, ChecksSuffice, Zenon
    <3>5. TrainedOnBanked'
      BY <3>1, <3>2, <3>4 DEF TrainedOnBanked
    <3> QED BY <3>1, <3>2, <3>5 DEF Judged, Stamped
  <2>6. CASE UNCHANGED vars
    BY <2>6 DEF vars, Stamped, Judged, TrainedOnBanked
  <2> QED BY <2>1, <2>2, <2>3, <2>4, <2>5, <2>6 DEF Next
<1> QED BY <1>1, <1>2, BankedTypes, PTL DEF Spec, IInv

----------------------------------------------------------------------------
\* A set of naturals has a least member.
LEMMA HasLeast ==
    ASSUME NEW S \in SUBSET Nat, S # {}
    PROVE  \E x \in S : \A y \in S : x <= y
<1> DEFINE R == {ss \in Nat \X Nat : ss[1] < ss[2]}
<1>1. IsWellFoundedOn(R, Nat)
  BY NatLessThanWellFounded DEF OpToRel
<1>2. \A x, y \in Nat : <<y, x>> \in R <=> y < x
  OBVIOUS
<1> HIDE DEF R
<1>3. PICK x \in S : \A y \in S : ~(<<y, x>> \in R)
  BY <1>1, WFMin
<1>4. ASSUME NEW y \in S
      PROVE  x <= y
  <2>1. x \in Nat /\ y \in Nat /\ ~(y < x)
    BY <1>2, <1>3
  <2> QED BY <2>1
<1> QED BY <1>4

\* Least is what its name says: the key (f, config) has one least place.
LEMMA LeastIs ==
    ASSUME NEW S \in SUBSET Nat, S # {}, NEW f, \A c \in S : f[c] \in Nat
    PROVE  /\ Least(S, f) \in S
           /\ \A d \in S : f[Least(S, f)] < f[d] \/ (f[Least(S, f)] = f[d] /\ Least(S, f) <= d)
           /\ \A d \in S : f[Least(S, f)] <= f[d]
<1> DEFINE V == {f[c] : c \in S}
<1>1. PICK v \in V : \A w \in V : v <= w
  <2>1. V \in SUBSET Nat /\ V # {}
    OBVIOUS
  <2> HIDE DEF V
  <2> QED BY <2>1, HasLeast
<1> DEFINE T == {c \in S : f[c] = v}
<1>2. PICK x \in T : \A y \in T : x <= y
  <2>1. T \in SUBSET Nat /\ T # {}
    BY <1>1
  <2> HIDE DEF T
  <2> QED BY <2>1, HasLeast
<1>3. x \in S /\ \A d \in S : f[x] < f[d] \/ (f[x] = f[d] /\ x <= d)
  <2>1. x \in S /\ f[x] = v
    BY <1>2
  <2>2. ASSUME NEW d \in S
        PROVE  f[x] < f[d] \/ (f[x] = f[d] /\ x <= d)
    <3>1. v <= f[d] /\ v \in Nat /\ f[d] \in Nat
      BY <1>1, <2>1
    <3>2. f[d] = v => x <= d
      BY <1>2
    <3> QED BY <2>1, <3>1, <3>2
  <2> QED BY <2>1, <2>2
<1> DEFINE l == Least(S, f)
<1>4. l \in S /\ \A d \in S : f[l] < f[d] \/ (f[l] = f[d] /\ l <= d)
  BY <1>3 DEF Least
<1> HIDE DEF l
<1>5. \A d \in S : f[l] <= f[d]
  BY <1>4
<1> QED BY <1>4, <1>5 DEF l

\* What the choice is, without the minimum: dense, and no admissible
\* configuration is predicted to beat it by more than the floor, or the
\* least predicted of those that do.
LEMMA ChoiceIs ==
    ASSUME DispatchAssumption, NEW p \in Points, NEW adm \in SUBSET Sparse, NEW floor \in Nat
    PROVE  LET chosen == dispatcher(p, adm, floor)
               f == p.predicted
           IN  \/ /\ chosen = Dense
                  /\ \A c \in Admissible(p, adm) : f[Dense] - f[c] <= floor
               \/ /\ chosen \in Admissible(p, adm)
                  /\ f[Dense] - f[chosen] > floor
                  /\ \A c \in Admissible(p, adm) : f[chosen] <= f[c]
<1> DEFINE A == Admissible(p, adm)
           f == p.predicted
           best == Least(A, f)
<1>1. A \in SUBSET Nat /\ f[Dense] \in Nat /\ \A c \in A : f[c] \in Nat
  BY DEF Points, Admissible, DispatchAssumption, Configs
<1>2. CASE A = {}
  BY <1>2 DEF dispatcher
<1>3. CASE A # {}
  <2>1. best \in A /\ \A d \in A : f[best] <= f[d]
    <3> HIDE DEF A, f
    <3> QED BY <1>1, <1>3, LeastIs
  <2>2. dispatcher(p, adm, floor) = IF f[Dense] - f[best] > floor THEN best ELSE Dense
    BY <1>3 DEF dispatcher
  <2> HIDE DEF A, f, best
  <2>3. CASE f[Dense] - f[best] > floor
    BY <2>1, <2>2, <2>3 DEF A, f
  <2>4. CASE ~(f[Dense] - f[best] > floor)
    <3>1. \A c \in A : f[Dense] - f[c] <= floor
      BY <1>1, <2>1, <2>4
    <3> QED BY <2>2, <2>4, <3>1 DEF A, f
  <2> QED BY <2>3, <2>4
<1> QED BY <1>2, <1>3

\* If no prediction at a point is further off than e, the choice costs at
\* most the floor and 2e over the best measured; and with a floor no smaller
\* than e it is never a sparse one that dense beat by more than the floor.
THEOREM PredictionsPay == ASSUME DispatchAssumption PROVE DispatchPays
<1> SUFFICES ASSUME point \in Points, NEW m \in Grids, NEW adm \in SUBSET Sparse,
                    NEW floor \in Floors, NEW e \in Errors,
                    Near(point, m, e), Scored(dispatcher(point, adm, floor), m)
             PROVE  LET chosen == dispatcher(point, adm, floor)
                    IN  /\ regret(point, chosen, m, adm) \in 0..(floor + 2 * e)
                        /\ e <= floor =>
                             choice_outcome(point, chosen, m, adm, floor) # "false_profitable"
  BY DEF DispatchPays
<1> DEFINE A == Admissible(point, adm)
           f == point.predicted
           chosen == dispatcher(point, adm, floor)
           R == (A \cup {Dense}) \cap DOMAIN m
<1>1. floor \in Nat /\ e \in Nat
  BY DEF DispatchAssumption
<1>2. DOMAIN m \subseteq Configs /\ DOMAIN m \subseteq Nat /\ \A c \in DOMAIN m : m[c] \in Nat
  <2>1. PICK have \in SUBSET Configs : m \in [have -> Times]
    BY DEF Grids
  <2>2. DOMAIN m = have /\ \A c \in have : m[c] \in Times
    BY <2>1
  <2>3. Configs \subseteq Nat /\ Times \subseteq Nat
    BY DEF DispatchAssumption, Configs, Dense
  <2> QED BY <2>2, <2>3
<1>3. \A c \in DOMAIN m : f[c] \in Nat /\ f[c] >= m[c] - e /\ f[c] <= m[c] + e
  <2>1. \A c \in DOMAIN m : f[c] \in Nat
    BY <1>2 DEF Points, DispatchAssumption
  <2> QED BY <1>1, <1>2, <2>1 DEF Near
<1>4. Dense \in DOMAIN m /\ chosen \in DOMAIN m
  BY DEF Scored
<1>5. \/ chosen = Dense /\ \A c \in A : f[Dense] - f[c] <= floor
      \/ chosen \in A /\ f[Dense] - f[chosen] > floor /\ \A c \in A : f[chosen] <= f[c]
  BY <1>1, ChoiceIs
<1>6. chosen \in R
  BY <1>4, <1>5
<1> HIDE DEF A, f, chosen
<1>7. \A c \in R : m[chosen] - m[c] <= floor + 2 * e
  <2> SUFFICES ASSUME NEW c \in R
               PROVE  m[chosen] - m[c] <= floor + 2 * e
    OBVIOUS
  <2>1. c \in DOMAIN m /\ (c \in A \/ c = Dense)
    OBVIOUS
  <2>2. f[chosen] - f[c] <= floor
    BY <1>1, <1>3, <1>4, <1>5, <2>1
  <2> QED BY <1>1, <1>2, <1>3, <1>4, <2>1, <2>2
<1> DEFINE best == best_measured_choice(point, m, adm)
<1>8. best \in R /\ \A c \in R : m[best] <= m[c]
  <2>1. R \in SUBSET Nat /\ R # {} /\ \A c \in R : m[c] \in Nat
    BY <1>2, <1>6
  <2>2. best = Least(R, m)
    BY DEF best_measured_choice, A
  <2> HIDE DEF R, best
  <2> QED BY <2>1, <2>2, LeastIs
<1> HIDE DEF best
<1>9. regret(point, chosen, m, adm) \in 0..(floor + 2 * e)
  <2>1. regret(point, chosen, m, adm) = m[chosen] - m[best]
    BY DEF regret, best
  <2>2. m[chosen] \in Nat /\ m[best] \in Nat /\ m[best] <= m[chosen]
    BY <1>2, <1>6, <1>8
  <2>3. m[chosen] - m[best] <= floor + 2 * e
    BY <1>7, <1>8
  <2> QED BY <1>1, <2>1, <2>2, <2>3
<1>10. ASSUME e <= floor
       PROVE  choice_outcome(point, chosen, m, adm, floor) # "false_profitable"
  <2>1. chosen # Dense => ~(m[Dense] - m[chosen] < -floor)
    BY <1>1, <1>2, <1>3, <1>4, <1>5, <1>10
  <2> QED BY <2>1 DEF choice_outcome
<1> QED BY <1>9, <1>10 DEF chosen

\* The kernel-speedup rule is the dispatcher, reading kernel times and with
\* no floor: the comparison of H6 is of what they read.
THEOREM RuleIsDispatcher == ASSUME DispatchAssumption PROVE RuleReadsKernels
<1> SUFFICES ASSUME NEW p \in Points, NEW adm \in SUBSET Sparse
             PROVE  kernel_speedup_rule(p, adm, p.predicted) = dispatcher(p, adm, 0)
  BY DEF RuleReadsKernels
<1> DEFINE A == Admissible(p, adm)
           f == p.predicted
           wins == {c \in A : f[c] < f[Dense]}
<1>1. A \in SUBSET Nat /\ f[Dense] \in Nat /\ \A c \in A : f[c] \in Nat
  BY DEF Points, Admissible, DispatchAssumption, Configs
<1>2. kernel_speedup_rule(p, adm, f) = IF wins = {} THEN Dense ELSE Least(wins, f)
  BY DEF kernel_speedup_rule
<1>3. dispatcher(p, adm, 0) = IF A # {} /\ f[Dense] - f[Least(A, f)] > 0 THEN Least(A, f) ELSE Dense
  BY DEF dispatcher
<1> HIDE DEF A, f
<1>4. CASE wins = {}
  <2>1. A # {} => Least(A, f) \in A
    BY <1>1, LeastIs
  <2>2. \A c \in A : ~(f[c] < f[Dense])
    BY <1>4
  <2>3. A # {} => f[Least(A, f)] \in Nat /\ ~(f[Least(A, f)] < f[Dense])
    BY <1>1, <2>1, <2>2
  <2> QED BY <1>1, <1>2, <1>3, <1>4, <2>3 DEF f
<1>5. CASE wins # {}
  <2> DEFINE x == Least(A, f)
             y == Least(wins, f)
  <2>1. x \in A /\ \A d \in A : f[x] < f[d] \/ (f[x] = f[d] /\ x <= d)
    BY <1>1, <1>5, LeastIs
  <2>2. y \in wins /\ \A d \in wins : f[y] < f[d] \/ (f[y] = f[d] /\ y <= d)
    <3>1. wins \in SUBSET Nat /\ \A c \in wins : f[c] \in Nat
      BY <1>1
    <3> HIDE DEF wins
    <3> QED BY <1>5, <3>1, LeastIs
  <2> HIDE DEF x, y
  <2>3. x \in wins
    BY <1>1, <2>1, <2>2
  <2>4. x = y
    BY <1>1, <2>1, <2>2, <2>3
  <2>5. f[Dense] - f[x] > 0
    BY <1>1, <2>3
  <2> QED BY <1>2, <1>3, <1>5, <2>1, <2>4, <2>5 DEF x, y, f
<1> QED BY <1>4, <1>5

\* Correcting for the family only takes configurations away.
THEOREM CorrectingShrinks == ASSUME DispatchAssumption PROVE HolmShrinks
<1> SUFFICES ASSUME NEW family \in SUBSET Sparse, NEW p \in [Sparse -> Times],
                    NEW alpha \in Times, IsFiniteSet(family),
                    NEW c \in holm(family, p, alpha)
             PROVE  p[c] <= alpha
  BY DEF HolmShrinks, uncorrected, holm
<1> DEFINE left == Left(family, p, c)
<1>1. c \in family /\ p[c] * left <= alpha
  BY DEF holm
<1>2. p[c] \in Nat /\ alpha \in Nat /\ c \in Nat
  BY <1>1 DEF DispatchAssumption
<1>3. left \in Nat \ {0}
  <2> DEFINE L == {d \in family : ~Ranked(p, d, c)}
  <2>1. c \in L
    BY <1>1, <1>2 DEF Ranked
  <2>2. IsFiniteSet(L)
    BY FS_Subset
  <2>3. Cardinality(L) \in Nat /\ Cardinality(L) # 0
    BY <2>1, <2>2, FS_CardinalityType, FS_EmptySet
  <2> QED BY <2>3 DEF Left
<1> HIDE DEF left
<1>4. p[c] <= p[c] * left
  BY <1>2, <1>3
<1>5. p[c] * left \in Nat
  BY <1>2, <1>3
<1> QED BY <1>1, <1>2, <1>4, <1>5

----------------------------------------------------------------------------
\* A process's record by its stage
Shape ==
    /\ proc.stage \in {"idle", "probe", "check", "sweep"}
    /\ proc.stage \in {"probe", "check"} =>
          proc = [stage |-> proc.stage, asked |-> proc.asked, resume |-> proc.resume,
                  stamp |-> proc.stamp, long |-> proc.long, exact |-> proc.exact,
                  todo |-> proc.todo, pending |-> proc.pending]
    /\ proc.stage = "sweep" =>
          proc = [stage |-> "sweep", at |-> proc.at, host |-> proc.host, todo |-> proc.todo]

\* A process that gave up compiling has heard of it
Told == reasons \in BOOLEAN /\ (stopped # {} => reasons)

Earned(rows) == \A r \in rows : r.passed /\ r.eager => r.blockwise

\* No pass on record or about to be is of an eager fallback, but those of the
\* check with no guard
PassesEarned ==
    /\ Earned(correctness)
    /\ proc.stage = "check" => Earned(proc.pending)

\* What a sweep under way may still time has a clean pass and no row yet,
\* and the file is of this machine
Sweeping ==
    proc.stage = "sweep" =>
        /\ \A r \in Passed : ~r.git_dirty
        /\ proc.todo \subseteq Banded(AtCommit(proc.at))
        /\ \A r \in sweep : r.host = proc.host /\ <<r.backend, r.config>> \notin proc.todo

StagesInv ==
    /\ Shape /\ Told /\ PassesEarned /\ Sweeping
    /\ Licensed /\ TimedCompiled /\ OneRowOneHost

----------------------------------------------------------------------------
\* What is called while no kernel has fallen back, and torch says nothing,
\* runs compiled (compile_guard.guard).
LEMMA QuietIsCompiled ==
    ASSUME Told, NEW S, NEW c, NEW eager, Called(S, c, eager), ~FellBack(S, c)
    PROVE  eager = {}
<1>1. stopped = {} /\ Uncompiled(S, c) = {}
  BY DEF Told, FellBack, Announced
<1> QED BY <1>1 DEF Called

\* Torch's message is heard in the process it is said in, in a guarded
\* region or outside.
LEMMA CallsTell ==
    ASSUME Told, NEW S, NEW c, NEW eager, NEW guarded,
           Called(S, c, eager), Watch(S, c, guarded)
    PROVE  Told'
<1>1. reasons' = (reasons \/ Announced(S, c))
  BY DEF Watch, Heard
<1>2. stopped' # {} => reasons \/ Announced(S, c)
  BY DEF Called, Told, Announced
<1> QED BY <1>1, <1>2 DEF Told

\* The rows a process writes and the tables it leaves alone.
LEMMA TablesStand ==
    ASSUME StagesInv, UNCHANGED <<correctness, sweep>>
    PROVE  Earned(correctness') /\ Licensed' /\ TimedCompiled' /\ OneRowOneHost'
BY DEF StagesInv, PassesEarned, Earned, Licensed, Passed, TimedCompiled, OneRowOneHost

LEMMA StagesStart == StagesInit => StagesInv
<1> SUFFICES ASSUME StagesInit
             PROVE  StagesInv
  OBVIOUS
<1>1. Shape /\ proc.stage = "idle"
  BY DEF StagesInit, Shape, Idle
<1>2. Told
  BY DEF StagesInit, GuardInit, Told
<1>3. correctness = {} /\ sweep = {}
  BY DEF StagesInit
<1>4. Earned(correctness) /\ Licensed /\ TimedCompiled /\ OneRowOneHost
  BY <1>3 DEF Earned, Licensed, TimedCompiled, OneRowOneHost
<1> QED BY <1>1, <1>2, <1>4 DEF StagesInv, PassesEarned, Sweeping

----------------------------------------------------------------------------
LEMMA ProbeStep ==
    ASSUME StagesInv, StartProbe \/ ProbeCell \/ BeginChecks
    PROVE  StagesInv'
<1>1. UNCHANGED <<correctness, sweep>> /\ proc'.stage \in {"probe", "check"} /\ Shape'
  <2>1. CASE StartProbe
    BY <2>1 DEF StartProbe, tables, Shape
  <2>2. CASE ProbeCell
    <3>1. PICK a \in Batch, runsIt \in BOOLEAN :
            Did(a, [backend |-> a[1], config |-> a[2], supported |-> runsIt])
      BY <2>2 DEF ProbeCell
    <3>2. proc.stage = "probe" /\ UNCHANGED <<correctness, sweep>>
      BY <2>2 DEF ProbeCell, tables
    <3> QED BY <3>1, <3>2 DEF Did, StagesInv, Shape
  <2>3. CASE BeginChecks
    BY <2>3 DEF BeginChecks, tables, StagesInv, Shape
  <2> QED BY <2>1, <2>2, <2>3
<1>2. Earned(correctness') /\ Licensed' /\ TimedCompiled' /\ OneRowOneHost'
  BY <1>1, TablesStand
<1>3. Sweeping'
  BY <1>1 DEF Sweeping
<1>4. Told'
  <2>1. CASE StartProbe \/ BeginChecks
    BY <2>1 DEF StartProbe, BeginChecks, guardVars, StagesInv, Told
  <2>2. CASE ProbeCell
    <3>1. CASE UNCHANGED guardVars
      BY <3>1 DEF guardVars, StagesInv, Told
    <3>2. CASE ~UNCHANGED guardVars
      <4>1. \E a \in Batch : \E eager \in SUBSET {a[1]} :
               Called({a[1]}, a[2], eager) /\ Watch({a[1]}, a[2], FALSE)
        BY <2>2, <3>2 DEF ProbeCell
      <4> QED BY <4>1, CallsTell DEF StagesInv
    <3> QED BY <3>1, <3>2
  <2> QED BY <2>1, <2>2
<1>5. proc'.stage = "check" => Earned(proc'.pending)
  <2>1. CASE StartProbe
    BY <2>1 DEF StartProbe
  <2>2. CASE ProbeCell
    BY <2>2 DEF ProbeCell, Did, StagesInv, Shape
  <2>3. CASE BeginChecks
    BY <2>3 DEF BeginChecks, StagesInv, Shape, Earned
  <2> QED BY <2>1, <2>2, <2>3
<1> QED BY <1>1, <1>2, <1>3, <1>4, <1>5 DEF StagesInv, PassesEarned

\* What any of the checks adds to a batch, if it is earned.
LEMMA RowIsEarned ==
    ASSUME StagesInv, proc.stage = "check", UNCHANGED <<correctness, sweep>>, Told',
           NEW a, NEW passed, NEW eager, NEW blockwise, Checked(a, passed, eager, blockwise),
           ~(passed /\ eager) \/ blockwise = TRUE
    PROVE  StagesInv'
<1> DEFINE row == [backend |-> a[1], config |-> a[2], passed |-> passed, eager |-> eager,
                   blockwise |-> blockwise, git_commit |-> proc.stamp.git_commit,
                   git_dirty |-> proc.stamp.git_dirty]
<1>1. proc' = [proc EXCEPT !.todo = @ \ {a}, !.pending = @ \cup {row}]
  BY DEF Checked, Did
<1>2. row.passed /\ row.eager => row.blockwise
  OBVIOUS
<1> HIDE DEF row
<1>3. Shape' /\ proc'.stage = "check" /\ proc'.pending = proc.pending \cup {row}
  BY <1>1 DEF StagesInv, Shape
<1>4. Earned(proc'.pending)
  BY <1>2, <1>3 DEF StagesInv, PassesEarned, Earned
<1>5. Earned(correctness') /\ Licensed' /\ TimedCompiled' /\ OneRowOneHost'
  BY TablesStand
<1> QED BY <1>3, <1>4, <1>5 DEF StagesInv, PassesEarned, Sweeping

LEMMA CheckStep ==
    ASSUME StagesInv, CheckCell
    PROVE  StagesInv'
<1>1. PICK a \in Batch :
        \/ LeaveOut(a)
        \/ \E right \in BOOLEAN : CheckBlockwise(a, right) \/ CheckFamily(a, right)
  BY DEF CheckCell
<1>2. UNCHANGED <<correctness, sweep>> /\ proc.stage = "check"
  BY DEF CheckCell, tables
<1>3. CASE LeaveOut(a)
  <2>1. proc' = [proc EXCEPT !.todo = @ \ {a}] /\ UNCHANGED guardVars
    BY <1>3 DEF LeaveOut
  <2>2. Shape' /\ proc'.stage = "check" /\ proc'.pending = proc.pending
    BY <1>2, <2>1 DEF StagesInv, Shape
  <2>3. Told' /\ Earned(proc'.pending)
    BY <1>2, <2>1, <2>2 DEF guardVars, StagesInv, Told, PassesEarned
  <2>4. Earned(correctness') /\ Licensed' /\ TimedCompiled' /\ OneRowOneHost'
    BY <1>2, TablesStand
  <2> QED BY <2>2, <2>3, <2>4 DEF StagesInv, PassesEarned, Sweeping
<1>4. ASSUME NEW right \in BOOLEAN, CheckBlockwise(a, right)
      PROVE  StagesInv'
  <2>1. PICK eager \in SUBSET ({a[1]} \cap Compiled) :
          /\ Watch({a[1]}, a[2], FALSE) /\ Called({a[1]}, a[2], eager)
          /\ Checked(a, right, eager # {}, TRUE)
    BY <1>4 DEF CheckBlockwise
  <2>2. Told'
    BY <2>1, CallsTell DEF StagesInv
  <2> QED BY <1>2, <2>1, <2>2, RowIsEarned
<1>5. ASSUME NEW right \in BOOLEAN, CheckFamily(a, right)
      PROVE  StagesInv'
  <2>1. PICK refs \in SUBSET Opinions(a) :
          /\ Watch({a[1]} \cup refs, a[2], TRUE)
          /\ \E eager \in SUBSET (({a[1]} \cup refs) \cap Compiled) :
                /\ Called({a[1]} \cup refs, a[2], eager)
                /\ Checked(a, Verdict({a[1]} \cup refs, a[2], right), a[1] \in eager, FALSE)
    BY <1>5 DEF CheckFamily
  <2> DEFINE S == {a[1]} \cup refs
  <2>2. PICK eager \in SUBSET (S \cap Compiled) :
          /\ Called(S, a[2], eager)
          /\ Checked(a, Verdict(S, a[2], right), a[1] \in eager, FALSE)
    BY <2>1
  <2>3. Told'
    BY <2>1, <2>2, CallsTell DEF StagesInv
  <2> DEFINE passed == Verdict(S, a[2], right)
             own == a[1] \in eager
  <2>4. passed => eager = {}
    BY <2>2, QuietIsCompiled DEF Verdict, StagesInv
  <2>5. Checked(a, passed, own, FALSE) /\ ~(passed /\ own)
    BY <2>2, <2>4
  <2> HIDE DEF passed, own
  <2> QED BY <1>2, <2>3, <2>5, RowIsEarned
<1> QED BY <1>1, <1>3, <1>4, <1>5

\* Passes are only added, so what was licensed stays so.
LEMMA BankStep ==
    ASSUME StagesInv, BankBand
    PROVE  StagesInv'
<1>1. /\ proc.stage \in {"probe", "check"} /\ proc' = [proc EXCEPT !.pending = {}]
      /\ UNCHANGED <<sweep, guardVars>>
      /\ correctness' = IF proc.stage = "check" THEN correctness \cup proc.pending
                        ELSE correctness
  BY DEF BankBand
<1>2. Shape' /\ proc'.stage = proc.stage /\ proc'.pending = {}
  BY <1>1 DEF StagesInv, Shape
<1>3. Told'
  BY <1>1 DEF guardVars, StagesInv, Told
<1>4. Earned(correctness')
  BY <1>1 DEF StagesInv, PassesEarned, Earned
<1>5. Licensed'
  BY <1>1 DEF StagesInv, Licensed, Passed
<1>6. TimedCompiled' /\ OneRowOneHost'
  BY <1>1 DEF StagesInv, TimedCompiled, OneRowOneHost
<1> QED BY <1>1, <1>2, <1>3, <1>4, <1>5, <1>6 DEF StagesInv, PassesEarned, Earned, Sweeping

LEMMA SweepStarts ==
    ASSUME StagesInv, StartSweep
    PROVE  StagesInv'
<1>1. PICK ask \in Asks, at \in Commits \cup {AnyCommit}, exclusive \in BOOLEAN :
        proc' = [stage |-> "sweep", at |-> at, host |-> host,
                 todo |-> IF exclusive
                          THEN ((ask.cells \cap Claims) \ load_done_keys) \cap Banded(AtCommit(at))
                          ELSE {}]
  BY DEF StartSweep
<1>2. UNCHANGED <<tables, guardVars>> /\ SameHost /\ ~DirtyPasses
  BY DEF StartSweep
<1>3. Shape' /\ proc'.stage = "sweep" /\ proc'.at = at /\ proc'.host = host
  BY <1>1 DEF Shape
<1>4. /\ proc'.todo \subseteq Banded(AtCommit(at))
      /\ \A k \in load_done_keys : k \notin proc'.todo
  BY <1>1
<1>5. \A r \in sweep : r.host = host /\ <<r.backend, r.config>> \in load_done_keys
  BY <1>2 DEF SameHost, load_done_keys
<1>6. Passed' = Passed /\ Banded(AtCommit(at))' = Banded(AtCommit(at))
  BY <1>2 DEF tables, Passed, Banded, AtCommit
<1>7. Sweeping'
  BY <1>2, <1>3, <1>4, <1>5, <1>6 DEF Sweeping, DirtyPasses, tables, Banded, AtCommit, Passed
<1>8. Earned(correctness') /\ Licensed' /\ TimedCompiled' /\ OneRowOneHost' /\ Told'
  BY <1>2, TablesStand DEF tables, guardVars, StagesInv, Told
<1> QED BY <1>3, <1>7, <1>8 DEF StagesInv, PassesEarned

LEMMA SweepStep ==
    ASSUME StagesInv, MeasureCell
    PROVE  StagesInv'
<1>1. PICK a \in proc.todo, ran \in BOOLEAN, eager \in SUBSET Compiled :
        /\ Called({a[1]}, a[2], eager)
        /\ Watch({a[1]}, a[2], TRUE)
        /\ sweep' = sweep \cup
              {[backend |-> a[1], config |-> a[2], host |-> proc.host, ok |-> Timed(a, ran),
                eager |-> eager # {}, at |-> proc.at, run |-> runs]}
        /\ proc' = [proc EXCEPT !.todo = @ \ {a}]
  BY DEF MeasureCell
<1> DEFINE row == [backend |-> a[1], config |-> a[2], host |-> proc.host,
                   ok |-> Timed(a, ran), eager |-> eager # {}, at |-> proc.at, run |-> runs]
<1>2. proc.stage = "sweep" /\ correctness' = correctness /\ sweep' = sweep \cup {row}
  BY <1>1 DEF MeasureCell
<1>3. /\ row.backend = a[1] /\ row.config = a[2] /\ row.host = proc.host
      /\ row.at = proc.at /\ row.eager = (eager # {}) /\ row.ok = Timed(a, ran)
  OBVIOUS
<1> HIDE DEF row
<1>4. PICK p \in AtCommit(proc.at) : a = <<p.backend, p.config>>
  BY <1>1, <1>2 DEF StagesInv, Sweeping, Banded
<1>5. /\ p \in Passed /\ ~p.git_dirty /\ (p.eager => p.blockwise)
      /\ p.backend = row.backend /\ p.config = row.config
      /\ row.at # AnyCommit => p.git_commit = row.at
  BY <1>2, <1>3, <1>4 DEF AtCommit, Passed, StagesInv, Sweeping, PassesEarned, Earned
<1>6. Licensed'
  BY <1>2, <1>5 DEF Licensed, Passed, StagesInv
<1>7. row.ok => ~row.eager
  <2>1. Timed(a, ran) => eager = {}
    BY <1>1, QuietIsCompiled DEF Timed, StagesInv
  <2> QED BY <2>1, <1>3
<1>8. TimedCompiled'
  BY <1>2, <1>7 DEF TimedCompiled, StagesInv
<1>9. \A r \in sweep : /\ r.host = row.host
                       /\ ~(r.backend = row.backend /\ r.config = row.config)
  BY <1>1, <1>2, <1>3, <1>4 DEF StagesInv, Sweeping
<1>10. OneRowOneHost'
  BY <1>2, <1>9 DEF OneRowOneHost, StagesInv
<1>11. Shape' /\ proc'.stage = "sweep" /\ proc'.at = proc.at /\ proc'.host = proc.host
       /\ proc'.todo = proc.todo \ {a}
  BY <1>1, <1>2 DEF StagesInv, Shape
<1>12. <<row.backend, row.config>> = a
  BY <1>3, <1>4
<1>13. Sweeping'
  BY <1>2, <1>3, <1>11, <1>12 DEF StagesInv, Sweeping, Passed, Banded, AtCommit
<1>14. Told'
  BY <1>1, CallsTell DEF StagesInv
<1> QED BY <1>2, <1>6, <1>8, <1>10, <1>11, <1>13, <1>14 DEF StagesInv, PassesEarned

LEMMA ProcessStep ==
    ASSUME StagesInv, Return \/ Die \/ Move \/ UNCHANGED stagesVars
    PROVE  StagesInv'
<1>1. UNCHANGED <<correctness, sweep>>
  BY DEF Return, Die, Move, stagesVars, tables
<1>2. Earned(correctness') /\ Licensed' /\ TimedCompiled' /\ OneRowOneHost'
  BY <1>1, TablesStand
<1>3. CASE Return \/ Die
  <2>1. proc' = Idle /\ Told'
    BY <1>3 DEF Return, Die, NewProcess, Told
  <2> QED BY <1>2, <2>1 DEF StagesInv, Shape, Idle, PassesEarned, Sweeping
<1>4. CASE Move \/ UNCHANGED stagesVars
  <2>1. proc' = proc /\ UNCHANGED <<guardVars, correctness, sweep>>
    BY <1>4 DEF Move, stagesVars, tables
  <2> QED BY <1>2, <2>1 DEF StagesInv, Shape, Told, guardVars, PassesEarned, Earned, Sweeping,
                            Passed, Banded, AtCommit
<1> QED BY <1>3, <1>4

LEMMA StagesStep == StagesInv /\ [StagesNext]_stagesVars => StagesInv'
BY ProbeStep, CheckStep, BankStep, SweepStarts, SweepStep, ProcessStep DEF StagesNext

\* Whatever was probed, checked and timed, in whichever processes: each timed
\* cell has a clean pass on record, and it is an eager fallback's only where the
\* check was the blockwise one.
THEOREM SweepIsLicensed == StagesSpec => []Licensed
<1>1. StagesInv => Licensed
  BY DEF StagesInv
<1> QED BY StagesStart, StagesStep, <1>1, PTL DEF StagesSpec

\* No time in the sweep's file is of an eager fallback.
THEOREM SweepIsCompiled == StagesSpec => []TimedCompiled
<1>1. StagesInv => TimedCompiled
  BY DEF StagesInv
<1> QED BY StagesStart, StagesStep, <1>1, PTL DEF StagesSpec

\* The sweep's file is of one machine and has a cell once.
THEOREM SweepRowsOnce == StagesSpec => []OneRowOneHost
<1>1. StagesInv => OneRowOneHost
  BY DEF StagesInv
<1> QED BY StagesStart, StagesStep, <1>1, PTL DEF StagesSpec
=============================================================================
