----------------------------- MODULE BankedOrder -----------------------------
(***************************************************************************)
(* What a committed prediction may have learned from, commit.py's last     *)
(* check.  Pairings are predicted, timed and banked in sessions of their   *)
(* own, in any order.  A prediction names the pairings its baselines were  *)
(* fitted on; the analysis is told when each pairing was banked and        *)
(* accepts the prediction only if it names those banked before it was      *)
(* written.  Banking is stated by the store's clock, `now`; the write is   *)
(* stamped by an instance's, which may be Skew away from it.               *)
(***************************************************************************)
EXTENDS Integers

CONSTANTS
    Pairings,
    MaxTime,   \* bound: the last tick
    Skew,      \* clock_skew
    None

ASSUME BankingAssumption ==
    MaxTime \in Nat /\ Skew \in Nat /\ None \notin Int /\ None \notin BOOLEAN

VARIABLES
    now,
    timed,       \* pairings whose ground-truth rows exist, here or in the store
    banked,      \* when each was banked, None before
    prediction,  \* [pairing -> [named, written_at, wrote]]; wrote is in no file
    loaded       \* what load_committed said of it: TRUE, FALSE, None

vars == <<now, timed, banked, prediction, loaded>>

Time == 0..MaxTime
Stamps == -Skew..(MaxTime + Skew)

Tick ==
    /\ now < MaxTime
    /\ now' = now + 1
    /\ UNCHANGED <<timed, banked, prediction, loaded>>

\* committed_training_set: each pairing named has rows, and the target is not
\* named; _check_trained: the baselines were fitted on exactly these.  Whether
\* they are banked nobody asks here
WritePrediction(p) ==
    /\ prediction[p] = None
    /\ \E named \in SUBSET (timed \ {p}), written_at \in (now - Skew)..(now + Skew) :
           prediction' = [prediction EXCEPT ![p] =
               [named |-> named, written_at |-> written_at, wrote |-> now]]
    /\ UNCHANGED <<now, timed, banked, loaded>>

TimeIt(p) ==
    /\ timed' = timed \cup {p}
    /\ UNCHANGED <<now, banked, prediction, loaded>>

Bank(p) ==
    /\ p \in timed /\ banked[p] = None
    /\ banked' = [banked EXCEPT ![p] = now]
    /\ UNCHANGED <<now, timed, prediction, loaded>>

(***************************************************************************)
(* load_committed, from banked_at on.                                      *)
(***************************************************************************)
banked_at == {p \in Pairings : banked[p] # None}

\* mutant: the skew is not allowed for
NamedNoSkew(cp) ==
    \A p \in cp.named : p \in banked_at /\ banked[p] < cp.written_at

NamedWereBanked(cp) ==
    \A p \in cp.named : p \in banked_at /\ banked[p] + Skew < cp.written_at

OwnIsLater(pairing, cp) ==
    pairing \in banked_at => banked[pairing] - Skew > cp.written_at

\* Neither left out, nor too near the write to be ordered
OthersAreLater(pairing, cp) ==
    \A p \in banked_at \ (cp.named \cup {pairing}) : banked[p] - Skew > cp.written_at

LoadCommitted(p) ==
    /\ p \in timed /\ prediction[p] # None /\ loaded[p] = None
    /\ LET cp == prediction[p]
       IN  loaded' = [loaded EXCEPT ![p] =
               NamedWereBanked(cp) /\ OwnIsLater(p, cp) /\ OthersAreLater(p, cp)]
    /\ UNCHANGED <<now, timed, banked, prediction>>

Init ==
    /\ now = 0 /\ timed = {}
    /\ banked = [p \in Pairings |-> None]
    /\ prediction = [p \in Pairings |-> None]
    /\ loaded = [p \in Pairings |-> None]

Next ==
    \/ Tick
    \/ \E p \in Pairings :
           WritePrediction(p) \/ TimeIt(p) \/ Bank(p) \/ LoadCommitted(p)

Spec == Init /\ [][Next]_vars

(***************************************************************************)
(* Properties.                                                             *)
(***************************************************************************)
TypeOK ==
    /\ now \in Time /\ timed \subseteq Pairings
    /\ banked \in [Pairings -> Time \cup {None}]
    /\ prediction \in [Pairings ->
           [named : SUBSET Pairings, written_at : Stamps, wrote : Time] \cup {None}]
    /\ loaded \in [Pairings -> BOOLEAN \cup {None}]

\* "The training set is every pairing banked before the prediction": an
\* accepted prediction was fitted on the pairings that were banked, by one
\* true clock, before it was written, on all of them and on no other, its own
\* among the others; and so it stays whatever is banked after it was accepted.
TrainedOnBanked ==
    \A p \in Pairings : loaded[p] = TRUE =>
        prediction[p].named =
            {q \in Pairings : banked[q] # None /\ banked[q] < prediction[p].wrote}
=============================================================================
