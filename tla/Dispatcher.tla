----------------------------- MODULE Dispatcher -----------------------------
(***************************************************************************)
(* predict/dispatcher.py: which configuration to deploy at a point (a      *)
(* model, a length, a batch) given its predicted times, what its           *)
(* comparators would choose, and how a choice is scored on the measured    *)
(* grid; lock/holm.py, which narrows the set it chooses from.  A           *)
(* configuration is its place in the order of (arm, density), and a time   *)
(* is a whole number of ticks.                                             *)
(***************************************************************************)
EXTENDS Integers, FiniteSets

CONSTANTS
    Sparse,   \* the sparse configurations
    Times,
    Floors,   \* resolution floors
    Errors    \* how far off the predictions of a point are, at most

Dense == 0
Configs == Sparse \cup {Dense}

VARIABLE point  \* the PointInputs dispatched; nothing here changes it

ASSUME DispatchAssumption ==
    /\ Sparse \subseteq Nat \ {Dense} /\ Times \subseteq Nat
    /\ Floors \subseteq Nat /\ Errors \subseteq Nat

\* PointInputs: its one dense cell, and the sparse ones that exist there
Points == [sparse: SUBSET Sparse, predicted: [Configs -> Times]]

\* The measured grid of a point: what was measured there
Grids == UNION {[have -> Times] : have \in SUBSET Configs}

\* min with key (f, config)
Least(S, f) == CHOOSE c \in S : \A d \in S : f[c] < f[d] \/ (f[c] = f[d] /\ c <= d)

Admissible(p, adm) == p.sparse \cap adm

\* mutant: the shortest prediction, whatever the floor
DispatcherNoFloor(p, adm, floor) == Least(Admissible(p, adm) \cup {Dense}, p.predicted)

dispatcher(p, adm, floor) ==
    LET best == Least(Admissible(p, adm), p.predicted)
    IN  IF Admissible(p, adm) # {} /\ p.predicted[Dense] - p.predicted[best] > floor
        THEN best ELSE Dense

\* The smallest kernel time has the best kernel speedup
kernel_speedup_rule(p, adm, kernel) ==
    LET wins == {c \in Admissible(p, adm) : kernel[c] < kernel[Dense]}
    IN  IF wins = {} THEN Dense ELSE Least(wins, kernel)

(***************************************************************************)
(* Scoring.                                                                *)
(***************************************************************************)
best_measured_choice(p, m, adm) == Least((Admissible(p, adm) \cup {Dense}) \cap DOMAIN m, m)

choice_outcome(p, chosen, m, adm, floor) ==
    LET lead == m[Dense] - m[chosen]
        gaps == {m[Dense] - m[c] : c \in Admissible(p, adm) \cap DOMAIN m}
    IN  CASE chosen # Dense /\ lead < -floor -> "false_profitable"
          [] chosen # Dense /\ lead > floor -> "correct"
          [] chosen # Dense -> "not_interpreted"
          [] chosen = Dense /\ \E g \in gaps : g > floor -> "missed_profitable"
          [] chosen = Dense /\ \A g \in gaps : g <= 0 -> "correct"
          [] OTHER -> "not_interpreted"

\* score_policy lists any other point with a reason, and does not score it
Scored(chosen, m) == {Dense, chosen} \subseteq DOMAIN m

regret(p, chosen, m, adm) == m[chosen] - m[best_measured_choice(p, m, adm)]

(***************************************************************************)
(* holm_admissible.  p is the least level a configuration's bound clears   *)
(* the margin at, in some unit, and the bound rises with the level.        *)
(***************************************************************************)
uncorrected(family, p, alpha) == {c \in family : p[c] <= alpha}

Ranked(p, d, c) == p[d] < p[c] \/ (p[d] = p[c] /\ d < c)

\* How many are left from c on, which divides alpha at c's step
Left(family, p, c) == Cardinality({d \in family : ~Ranked(p, d, c)})

holm(family, p, alpha) ==
    {c \in family : \A d \in family :
        d = c \/ Ranked(p, d, c) => p[d] * Left(family, p, d) <= alpha}

(***************************************************************************)
(* Properties.                                                             *)
(***************************************************************************)
Near(p, m, e) == \A c \in DOMAIN m : p.predicted[c] \in (m[c] - e)..(m[c] + e)

\* What the predictions must be good for: if none of what was measured at a
\* point is predicted further off than e, the dispatcher's choice costs at
\* most the floor and 2e over the best that was measured; and the floor need
\* only be as large as e, not twice it, for the choice never to be a sparse
\* one that dense beat by more than the floor (dispatcher.py:50, :209).
DispatchPays ==
    point \in Points =>
        \A m \in Grids, adm \in SUBSET Sparse, floor \in Floors, e \in Errors :
            LET chosen == dispatcher(point, adm, floor)
            IN  Near(point, m, e) /\ Scored(chosen, m) =>
                    /\ regret(point, chosen, m, adm) \in 0..(floor + 2 * e)
                    /\ e <= floor =>
                         choice_outcome(point, chosen, m, adm, floor) # "false_profitable"

\* "Correcting shrinks the admissible set" (holm.py:5).
HolmShrinks ==
    \A family \in SUBSET Sparse, p \in [Sparse -> Times], alpha \in Times :
        IsFiniteSet(family) => holm(family, p, alpha) \subseteq uncorrected(family, p, alpha)

\* The comparator is the dispatcher, told kernel times and no floor: what
\* sets them apart in H6 is what they read and nothing else, ties included.
RuleReadsKernels ==
    \A p \in Points, adm \in SUBSET Sparse :
        kernel_speedup_rule(p, adm, p.predicted) = dispatcher(p, adm, 0)
=============================================================================
