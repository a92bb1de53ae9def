--------------------------- MODULE Measured_proofs ---------------------------
(***************************************************************************)
(* What was measured is what was asked for.  A timed variant is the one    *)
(* the recursion predicts, and every time of a null pass is charged once,  *)
(* for any prefill, any calls, any plan, whatever path its passes take; a  *)
(* row of the accuracy runner was measured as its columns say, for any     *)
(* grid, any command lines, any runs, deaths and moves of the repository.  *)
(***************************************************************************)
EXTENDS AccuracyRun, DelayInjection, FiniteSetTheorems, SequenceTheorems,
        NaturalsInduction, WellFoundedInduction, TLAPS

(***************************************************************************)
(* Sequences joined.                                                       *)
(***************************************************************************)
\* A set of naturals has a least member.
LEMMA HasLeast ==
    ASSUME NEW T \in SUBSET Nat, T # {}
    PROVE  \E x \in T : \A y \in T : x <= y
<1> DEFINE R == {ss \in Nat \X Nat : ss[1] < ss[2]}
<1>1. IsWellFoundedOn(R, Nat)
  BY NatLessThanWellFounded DEF OpToRel
<1>2. \A x, y \in Nat : <<y, x>> \in R <=> y < x
  OBVIOUS
<1> HIDE DEF R
<1>3. PICK x \in T : \A y \in T : ~(<<y, x>> \in R)
  BY <1>1, WFMin
<1>4. ASSUME NEW y \in T
      PROVE  x <= y
  <2>1. x \in Nat /\ y \in Nat /\ ~(y < x)
    BY <1>2, <1>3
  <2> QED BY <2>1
<1> QED BY <1>4

\* A set that has 0, and each number up to N if the one before, has 0 to N.
LEMMA UpTo ==
    ASSUME NEW N \in Nat, NEW T, 0 \in T,
           \A n \in 1..N : n - 1 \in T => n \in T
    PROVE  \A n \in 0..N : n \in T
<1> DEFINE Bad == {n \in 0..N : n \notin T}
<1> SUFFICES ASSUME Bad # {} PROVE FALSE
  OBVIOUS
<1>0. Bad \in SUBSET Nat
  OBVIOUS
<1> HIDE DEF Bad
<1>1. PICK x \in Bad : \A y \in Bad : x <= y
  BY <1>0, HasLeast
<1> USE DEF Bad
<1>2. x \in 1..N /\ x - 1 \in 0..N /\ x - 1 \notin Bad
  BY <1>1
<1> QED BY <1>1, <1>2

\* f holds what the first 1, 2, ... n of ss make joined.
Joining(ss, n, f) ==
    f = [i \in 1..n |-> IF i = 1 THEN ss[i] ELSE f[i - 1] \o ss[i]]

LEMMA JoiningExists ==
    ASSUME NEW ss, NEW N \in Nat
    PROVE  \E f : Joining(ss, N, f)
<1> DEFINE T == {n \in 0..N : \E f : Joining(ss, n, f)}
<1>1. 0 \in T
  <2> DEFINE f == [i \in 1..0 |-> <<>>]
  <2>1. f = [i \in 1..0 |-> IF i = 1 THEN ss[i] ELSE f[i - 1] \o ss[i]]
    OBVIOUS
  <2> HIDE DEF f
  <2>2. Joining(ss, 0, f)
    BY <2>1 DEF Joining
  <2> QED BY <2>2
<1>2. ASSUME NEW n \in 1..N, n - 1 \in T
      PROVE  n \in T
  <2>1. PICK f : Joining(ss, n - 1, f)
    BY <1>2
  <2> DEFINE new == IF n = 1 THEN ss[n] ELSE f[n - 1] \o ss[n]
             g == [i \in 1..n |-> IF i = n THEN new ELSE f[i]]
  <2>2. ASSUME NEW i \in 1..n
        PROVE  g[i] = IF i = 1 THEN ss[i] ELSE g[i - 1] \o ss[i]
    <3>1. CASE i = n
      <4>1. g[i] = new
        BY <3>1
      <4>2. i # 1 => g[i - 1] = f[n - 1]
        BY <3>1
      <4> QED BY <4>1, <4>2, <3>1
    <3>2. CASE i # n
      <4>1. i \in 1..(n - 1) /\ g[i] = f[i] /\ (i # 1 => g[i - 1] = f[i - 1])
        BY <3>2
      <4>2. f[i] = IF i = 1 THEN ss[i] ELSE f[i - 1] \o ss[i]
        BY <4>1, <2>1 DEF Joining
      <4> QED BY <4>1, <4>2
    <3> QED BY <3>1, <3>2
  <2>3. g = [i \in 1..n |-> g[i]]
    OBVIOUS
  <2> HIDE DEF g
  <2>4. g = [i \in 1..n |-> IF i = 1 THEN ss[i] ELSE g[i - 1] \o ss[i]]
    BY <2>2, <2>3
  <2>5. Joining(ss, n, g)
    BY <2>4 DEF Joining
  <2> QED BY <2>5
<1> HIDE DEF T
<1>3. N \in T
  BY <1>1, <1>2, UpTo
<1> QED BY <1>3 DEF T

\* Two such functions agree as far as their sequences do.
LEMMA JoiningAgrees ==
    ASSUME NEW ss, NEW tt, NEW m \in Nat, NEW n \in 0..m, NEW f, NEW g,
           Joining(ss, m, f), Joining(tt, n, g), \A i \in 1..n : tt[i] = ss[i]
    PROVE  \A i \in 1..n : g[i] = f[i]
<1> DEFINE T == {k \in 0..n : k = 0 \/ g[k] = f[k]}
<1>1. 0 \in T
  OBVIOUS
<1>2. ASSUME NEW k \in 1..n, k - 1 \in T
      PROVE  k \in T
  <2>1. k \in 1..m /\ (k # 1 => k - 1 # 0)
    OBVIOUS
  <2>2. /\ \A i \in 1..m : f[i] = IF i = 1 THEN ss[i] ELSE f[i - 1] \o ss[i]
        /\ \A i \in 1..n : g[i] = IF i = 1 THEN tt[i] ELSE g[i - 1] \o tt[i]
    BY Zenon DEF Joining
  <2> QED BY <1>2, <2>1, <2>2
<1> HIDE DEF T
<1>3. \A k \in 0..n : k \in T
  BY <1>1, <1>2, UpTo
<1> QED BY <1>3 DEF T

LEMMA FlattenIs ==
    ASSUME NEW S, NEW ss \in Seq(S), Len(ss) # 0
    PROVE  \E f : Joining(ss, Len(ss), f) /\ FlattenSeq(ss) = f[Len(ss)]
<1> DEFINE f == CHOOSE f : f = [i \in 1..Len(ss) |->
                                   IF i = 1 THEN ss[i] ELSE f[i - 1] \o ss[i]]
<1>1. FlattenSeq(ss) = f[Len(ss)]
  BY DEF FlattenSeq
<1>2. \E g : Joining(ss, Len(ss), g)
  BY JoiningExists, LenProperties
<1>3. \E g : g = [i \in 1..Len(ss) |-> IF i = 1 THEN ss[i] ELSE g[i - 1] \o ss[i]]
  BY <1>2 DEF Joining
<1>4. f = [i \in 1..Len(ss) |-> IF i = 1 THEN ss[i] ELSE f[i - 1] \o ss[i]]
  BY <1>3
<1> HIDE DEF f
<1>5. Joining(ss, Len(ss), f)
  BY <1>4 DEF Joining
<1> QED BY <1>1, <1>5

\* The first n of ss joined.
Joined(ss, n) == FlattenSeq(SubSeq(ss, 1, n))

LEMMA JoinedSteps ==
    ASSUME NEW S, NEW ss \in Seq(Seq(S))
    PROVE  /\ Joined(ss, 0) = <<>>
           /\ \A n \in 1..Len(ss) : Joined(ss, n) = Joined(ss, n - 1) \o ss[n]
           /\ \A n \in 0..Len(ss) : Joined(ss, n) \in Seq(S)
           /\ FlattenSeq(ss) = Joined(ss, Len(ss))
<1> DEFINE N == Len(ss)
<1>1. /\ N \in Nat /\ SubSeq(ss, 1, N) = ss
      /\ \A i \in 1..N : ss[i] \in Seq(S)
  BY LenProperties, SubSeqFull, ElementOfSeq
<1>2. Joined(ss, 0) = <<>>
  <2>1. SubSeq(ss, 1, 0) = <<>>
    BY SubSeqEmpty
  <2> QED BY <2>1 DEF Joined, FlattenSeq
<1>3. PICK f : Joining(ss, N, f)
  BY <1>1, JoiningExists
<1>4. \A i \in 1..N : f[i] = IF i = 1 THEN ss[i] ELSE f[i - 1] \o ss[i]
  BY <1>3, Zenon DEF Joining
<1>5. ASSUME NEW n \in 1..N
      PROVE  Joined(ss, n) = f[n]
  <2> DEFINE tt == SubSeq(ss, 1, n)
  <2>1. /\ tt \in Seq(Seq(S)) /\ Len(tt) = n /\ Len(tt) # 0
        /\ n \in 0..N /\ n \in 1..n /\ \A i \in 1..n : tt[i] = ss[i]
    BY <1>1
  <2> HIDE DEF tt, N
  <2>2. PICK g : Joining(tt, Len(tt), g) /\ FlattenSeq(tt) = g[Len(tt)]
    BY <2>1, FlattenIs, Zenon
  <2>3. Joining(tt, n, g) /\ FlattenSeq(tt) = g[n]
    BY <2>1, <2>2, Zenon
  <2>4. \A i \in 1..n : g[i] = f[i]
    <3>1. /\ N \in Nat /\ Joining(ss, N, f) /\ Joining(tt, n, g)
          /\ n \in 0..N /\ \A i \in 1..n : tt[i] = ss[i]
      BY <1>1, <1>3, <2>1, <2>3
    <3> HIDE DEF Joining
    <3> QED BY <3>1, JoiningAgrees, SMTT(60)
  <2> QED BY <2>1, <2>3, <2>4, Zenon DEF Joined, tt
<1> HIDE DEF N
<1>6. \A n \in 1..N : Joined(ss, n) = Joined(ss, n - 1) \o ss[n]
  <2> SUFFICES ASSUME NEW n \in 1..N
               PROVE  Joined(ss, n) = Joined(ss, n - 1) \o ss[n]
    OBVIOUS
  <2>1. CASE n = 1
    <3>1. <<>> \o ss[1] = ss[1] /\ n - 1 = 0
      BY <2>1, <1>1, ConcatEmptySeq
    <3>2. Joined(ss, n) = ss[1]
      BY <1>4, <1>5, <2>1
    <3> QED BY <1>2, <2>1, <3>1, <3>2, Zenon
  <2>2. CASE n # 1
    <3>1. n - 1 \in 1..N
      BY <1>1, <2>2
    <3> QED BY <1>4, <1>5, <2>2, <3>1
  <2> QED BY <2>1, <2>2
<1>7. \A n \in 0..N : Joined(ss, n) \in Seq(S)
  <2> DEFINE T == {n \in 0..N : Joined(ss, n) \in Seq(S)}
  <2>1. 0 \in T
    <3>1. 0 \in 0..N /\ <<>> \in Seq(S)
      BY <1>1, EmptySeq
    <3> QED BY <1>2, <3>1, Zenon
  <2>2. ASSUME NEW n \in 1..N, n - 1 \in T
        PROVE  n \in T
    <3>1. n \in 0..N
      BY <1>1
    <3>2. Joined(ss, n - 1) \in Seq(S) /\ ss[n] \in Seq(S)
      BY <1>1, <2>2
    <3>3. Joined(ss, n - 1) \o ss[n] \in Seq(S)
      BY <3>2, ConcatProperties, Zenon
    <3> QED BY <1>6, <3>1, <3>3, Zenon
  <2> HIDE DEF T
  <2>3. \A n \in 0..N : n \in T
    BY <1>1, <2>1, <2>2, UpTo
  <2> QED BY <2>3 DEF T
<1>8. FlattenSeq(ss) = Joined(ss, N)
  BY <1>1 DEF Joined
<1> QED BY <1>2, <1>6, <1>7, <1>8 DEF N

\* Where the n-th of ss ends in all of them joined, and what is there.
End(ss, n) == Len(Joined(ss, n))

LEMMA FlattenIndex ==
    ASSUME NEW S, NEW ss \in Seq(Seq(S))
    PROVE  /\ FlattenSeq(ss) \in Seq(S)
           /\ \A n \in 0..Len(ss) : End(ss, n) \in Nat
           /\ End(ss, 0) = 0 /\ End(ss, Len(ss)) = Len(FlattenSeq(ss))
           /\ \A n \in 1..Len(ss) : /\ End(ss, n) = End(ss, n - 1) + Len(ss[n])
                                    /\ Len(ss[n]) \in Nat
           /\ \A n \in 0..Len(ss) : End(ss, n) <= Len(FlattenSeq(ss))
           /\ \A n \in 1..Len(ss) : \A k \in 1..Len(ss[n]) :
                  FlattenSeq(ss)[End(ss, n - 1) + k] = ss[n][k]
           /\ \A p \in 1..Len(FlattenSeq(ss)) :
                  \E n \in 1..Len(ss) : \E k \in 1..Len(ss[n]) : p = End(ss, n - 1) + k
<1> DEFINE N == Len(ss)
           J(n) == Joined(ss, n)
<1>1. /\ J(0) = <<>> /\ FlattenSeq(ss) = J(N)
      /\ \A n \in 1..N : J(n) = J(n - 1) \o ss[n]
      /\ \A n \in 0..N : J(n) \in Seq(S)
  BY JoinedSteps
<1>2. N \in Nat /\ \A n \in 1..N : ss[n] \in Seq(S) /\ Len(ss[n]) \in Nat
  BY LenProperties, ElementOfSeq
<1> HIDE DEF N
<1>3. ASSUME NEW n \in 1..N
      PROVE  /\ n - 1 \in 0..N /\ Len(J(n - 1)) \in Nat
             /\ Len(J(n)) = Len(J(n - 1)) + Len(ss[n])
             /\ \A k \in 1..(Len(J(n - 1)) + Len(ss[n])) :
                    J(n)[k] = IF k <= Len(J(n - 1)) THEN J(n - 1)[k]
                              ELSE ss[n][k - Len(J(n - 1))]
  <2>1. n - 1 \in 0..N /\ n \in 0..N
    BY <1>2
  <2>2. J(n - 1) \in Seq(S) /\ J(n) = J(n - 1) \o ss[n] /\ ss[n] \in Seq(S)
    BY <1>1, <1>2, <2>1, Zenon
  <2> HIDE DEF J
  <2> DEFINE a == J(n - 1)
             b == ss[n]
  <2>3. a \in Seq(S) /\ b \in Seq(S) /\ J(n) = a \o b
    BY <2>2
  <2> HIDE DEF a, b
  <2>4. /\ Len(a) \in Nat /\ Len(a \o b) = Len(a) + Len(b)
        /\ \A k \in 1..(Len(a) + Len(b)) :
               (a \o b)[k] = IF k <= Len(a) THEN a[k] ELSE b[k - Len(a)]
    BY <2>3, ConcatProperties, LenProperties
  <2>5. /\ Len(a) \in Nat /\ Len(J(n)) = Len(a) + Len(b)
        /\ \A k \in 1..(Len(a) + Len(b)) :
               J(n)[k] = IF k <= Len(a) THEN a[k] ELSE b[k - Len(a)]
    BY <2>3, <2>4, Zenon
  <2> QED BY <2>1, <2>5 DEF a, b
<1>4. \A n \in 0..N : Len(J(n)) \in Nat
  BY <1>1, LenProperties
<1> HIDE DEF J
\* the first n joined are a prefix of all, and each place is in one of them
<1> DEFINE Good(n) ==
               \A m \in 0..n :
                   /\ Len(J(m)) <= Len(J(n))
                   /\ \A k \in 1..Len(J(m)) : J(n)[k] = J(m)[k]
           Covered(n) ==
               \A p \in 1..Len(J(n)) :
                   \E m \in 1..n : \E k \in 1..Len(ss[m]) : p = Len(J(m - 1)) + k
           T == {n \in 0..N : Good(n) /\ Covered(n)}
<1>5. 0 \in T
  <2>1. Len(J(0)) = 0
    BY <1>1
  <2> QED BY <2>1, <1>2
<1>6. ASSUME NEW n \in 1..N, n - 1 \in T
      PROVE  n \in T
  <2>1. n - 1 \in 0..N /\ n \in 0..N /\ n \in 1..n
    BY <1>2
  <2> DEFINE l == Len(J(n - 1))
  <2>2. /\ l \in Nat /\ Len(ss[n]) \in Nat
        /\ Len(J(n)) = l + Len(ss[n])
        /\ \A k \in 1..(l + Len(ss[n])) :
               J(n)[k] = IF k <= l THEN J(n - 1)[k] ELSE ss[n][k - l]
    BY <1>2, <1>3, <2>1, Zenon
  <2>3. Good(n)
    <3> SUFFICES ASSUME NEW m \in 0..n
                 PROVE  /\ Len(J(m)) <= Len(J(n))
                        /\ \A k \in 1..Len(J(m)) : J(n)[k] = J(m)[k]
      OBVIOUS
    <3>1. CASE m = n
      BY <3>1, <2>2
    <3>2. CASE m # n
      <4>1. m \in 0..(n - 1) /\ m \in 0..N
        BY <3>2, <2>1, <1>2
      <4>2. /\ Len(J(m)) <= l /\ Len(J(m)) \in Nat
            /\ \A k \in 1..Len(J(m)) : J(n - 1)[k] = J(m)[k]
        BY <1>4, <1>6, <4>1
      <4> HIDE DEF l
      <4>3. Len(J(m)) <= Len(J(n))
        BY <4>2, <2>2
      <4>4. ASSUME NEW k \in 1..Len(J(m))
            PROVE  J(n)[k] = J(m)[k]
        <5>1. k \in 1..(l + Len(ss[n])) /\ k <= l
          BY <4>2, <2>2
        <5> QED BY <5>1, <4>2, <2>2
      <4> QED BY <4>3, <4>4
    <3> QED BY <3>1, <3>2
  <2>4. Covered(n)
    <3> SUFFICES ASSUME NEW p \in 1..Len(J(n))
                 PROVE  \E m \in 1..n : \E k \in 1..Len(ss[m]) : p = Len(J(m - 1)) + k
      OBVIOUS
    <3>1. CASE p <= l
      <4>1. p \in 1..Len(J(n - 1)) /\ Covered(n - 1)
        BY <1>6, <2>2, <3>1
      <4>2. PICK m \in 1..(n - 1) : \E k \in 1..Len(ss[m]) : p = Len(J(m - 1)) + k
        BY <4>1
      <4>3. m \in 1..n
        BY <1>2
      <4> QED BY <4>2, <4>3, Zenon
    <3>2. CASE p > l
      <4> HIDE DEF l
      <4>1. p - l \in 1..Len(ss[n]) /\ p = l + (p - l)
        BY <2>2, <3>2
      <4> QED BY <4>1, <2>1, Zenon DEF l
    <3> QED BY <3>1, <3>2, <2>2
  <2> QED BY <2>1, <2>3, <2>4
<1> HIDE DEF T
<1>7. N \in T
  <2>1. N \in 0..N
    BY <1>2
  <2>2. \A n \in 0..N : n \in T
    BY <1>2, <1>5, <1>6, UpTo, Zenon
  <2> QED BY <2>1, <2>2
<1>8. Good(N) /\ Covered(N)
  BY <1>7 DEF T
<1> HIDE DEF Good, Covered
<1>9. ASSUME NEW n \in 1..N, NEW k \in 1..Len(ss[n])
      PROVE  J(N)[Len(J(n - 1)) + k] = ss[n][k]
  <2> DEFINE l == Len(J(n - 1))
  <2>1. /\ l \in Nat /\ Len(ss[n]) \in Nat /\ Len(J(n)) = l + Len(ss[n])
        /\ \A x \in 1..(l + Len(ss[n])) :
               J(n)[x] = IF x <= l THEN J(n - 1)[x] ELSE ss[n][x - l]
    BY <1>2, <1>3, Zenon
  <2> HIDE DEF l
  <2>2. /\ l + k \in 1..(l + Len(ss[n])) /\ l + k \in 1..Len(J(n))
        /\ ~(l + k <= l) /\ (l + k) - l = k /\ n \in 0..N
    BY <1>2, <2>1
  <2>3. J(n)[l + k] = ss[n][k]
    BY <2>1, <2>2
  <2>4. J(N)[l + k] = J(n)[l + k]
    BY <1>8, <2>2 DEF Good
  <2> QED BY <2>3, <2>4 DEF l
<1>10. \A n \in 0..N : Len(J(n)) <= Len(J(N))
  BY <1>2, <1>8 DEF Good
<1>11. \A n \in 0..N : End(ss, n) = Len(J(n))
  BY DEF End, J
<1>12. Len(J(0)) = 0 /\ FlattenSeq(ss) \in Seq(S)
  BY <1>1, <1>2
<1>13. \A n \in 1..N : n - 1 \in 0..N
  BY <1>2
<1> QED
  <2>0. \A n \in 1..N : n \in 0..N
    BY <1>2
  <2>1. \A p \in 1..Len(J(N)) :
            \E n \in 1..N : \E k \in 1..Len(ss[n]) : p = End(ss, n - 1) + k
    BY <1>8, <1>11, <1>13 DEF Covered
  <2>2. \A n \in 1..N : \A k \in 1..Len(ss[n]) : J(N)[End(ss, n - 1) + k] = ss[n][k]
    BY <1>9, <1>11, <1>13
  <2>3. \A n \in 1..N : End(ss, n) = End(ss, n - 1) + Len(ss[n])
    BY <1>3, <1>11, <1>13, <1>2, <2>0, Zenon
  <2> QED BY <1>1, <1>2, <1>4, <1>10, <1>11, <1>12, <2>1, <2>2, <2>3 DEF N

(***************************************************************************)
(* What is kept of a sequence.                                             *)
(***************************************************************************)
\* e counts the members of K up to each place.
Counts(e, K, N) ==
    /\ e \in [0..N -> Nat] /\ e[0] = 0
    /\ \A n \in 1..N : e[n] = IF n \in K THEN e[n - 1] + 1 ELSE e[n - 1]

LEMMA CountsGrow ==
    ASSUME NEW N \in Nat, NEW K, NEW e, Counts(e, K, N)
    PROVE  /\ \A m \in 0..N : \A n \in m..N : e[m] <= e[n]
           /\ \A m \in 0..N : \A n \in (m + 1)..N : n \in K => e[m] < e[n]
<1>1. /\ \A n \in 0..N : e[n] \in Nat
      /\ \A n \in 1..N : e[n] = IF n \in K THEN e[n - 1] + 1 ELSE e[n - 1]
  BY DEF Counts
<1>2. ASSUME NEW m \in 0..N
      PROVE  \A n \in m..N : e[m] <= e[n]
  <2> DEFINE T == {n \in 0..N : n >= m => e[m] <= e[n]}
  <2>1. 0 \in T
    BY <1>1
  <2>2. ASSUME NEW n \in 1..N, n - 1 \in T
        PROVE  n \in T
    <3>1. n - 1 \in 0..N /\ e[n] \in Nat /\ e[n - 1] \in Nat /\ e[n - 1] <= e[n]
      BY <1>1
    <3>2. CASE n > m
      BY <3>1, <3>2, <1>1, <2>2
    <3>3. CASE n = m
      BY <3>1, <3>3
    <3>4. CASE n < m
      BY <3>4
    <3> QED BY <3>2, <3>3, <3>4
  <2> HIDE DEF T
  <2>3. \A n \in 0..N : n \in T
    BY <2>1, <2>2, UpTo
  <2> QED BY <2>3 DEF T
<1>3. ASSUME NEW m \in 0..N, NEW n \in (m + 1)..N, n \in K
      PROVE  e[m] < e[n]
  <2>1. n \in 1..N /\ n - 1 \in m..N /\ n - 1 \in 0..N
    OBVIOUS
  <2>2. e[m] <= e[n - 1] /\ e[n] = e[n - 1] + 1 /\ e[m] \in Nat /\ e[n - 1] \in Nat
    BY <1>1, <1>2, <1>3, <2>1
  <2> QED BY <2>2
<1> QED BY <1>2, <1>3

LEMMA CountsOnce ==
    ASSUME NEW N \in Nat, NEW K, NEW e, NEW f, Counts(e, K, N), Counts(f, K, N)
    PROVE  \A n \in 0..N : e[n] = f[n]
<1> DEFINE T == {n \in 0..N : e[n] = f[n]}
<1>1. 0 \in T
  BY DEF Counts
<1>2. ASSUME NEW n \in 1..N, n - 1 \in T
      PROVE  n \in T
  <2>1. /\ e[n] = IF n \in K THEN e[n - 1] + 1 ELSE e[n - 1]
        /\ f[n] = IF n \in K THEN f[n - 1] + 1 ELSE f[n - 1]
    BY Zenon DEF Counts
  <2>2. n \in 0..N /\ e[n - 1] = f[n - 1]
    BY <1>2
  <2>3. e[n] = f[n]
    <3>1. CASE n \in K
      BY <3>1, <2>1, <2>2, Zenon
    <3>2. CASE n \notin K
      BY <3>2, <2>1, <2>2, Zenon
    <3> QED BY <3>1, <3>2
  <2> QED BY <2>2, <2>3
<1> HIDE DEF T
<1>3. \A n \in 0..N : n \in T
  BY <1>1, <1>2, UpTo
<1> QED BY <1>3 DEF T

\* Those of seq's N elements that are in K's places, as e counts them.
Counted(kept, seq, K, N, e) ==
    /\ Counts(e, K, N) /\ Len(kept) = e[N]
    /\ \A n \in 1..N : n \in K => kept[e[n]] = seq[n]
    /\ \A p \in 1..Len(kept) : \E n \in 1..N : n \in K /\ p = e[n]

LEMMA KeptCounts ==
    ASSUME NEW S, NEW seq \in Seq(S), NEW K
    PROVE  Kept(seq, K) \in Seq(S) /\ \E e : Counted(Kept(seq, K), seq, K, Len(seq), e)
<1> DEFINE N == Len(seq)
           ss == [n \in DOMAIN seq |-> IF n \in K THEN <<seq[n]>> ELSE <<>>]
           e == [n \in 0..N |-> End(ss, n)]
<1>1. N \in Nat /\ DOMAIN seq = 1..N /\ \A n \in 1..N : seq[n] \in S
  BY LenProperties, ElementOfSeq
<1>2. /\ ss \in Seq(Seq(S)) /\ Len(ss) = N
      /\ \A n \in 1..N : ss[n] = IF n \in K THEN <<seq[n]>> ELSE <<>>
  <2>1. \A n \in 1..N : (IF n \in K THEN <<seq[n]>> ELSE <<>>) \in Seq(S)
    BY <1>1
  <2>2. ss = [n \in 1..N |-> IF n \in K THEN <<seq[n]>> ELSE <<>>]
    BY <1>1
  <2>3. ss \in [1..N -> Seq(S)]
    BY <2>1, <2>2, Zenon
  <2> HIDE DEF N, ss
  <2> QED BY <1>1, <2>2, <2>3
<1>3. Kept(seq, K) = FlattenSeq(ss)
  BY DEF Kept
<1> HIDE DEF ss, N
<1> DEFINE F == FlattenSeq(ss)
<1>4. /\ F \in Seq(S)
      /\ \A n \in 0..N : End(ss, n) \in Nat
      /\ End(ss, 0) = 0 /\ End(ss, N) = Len(F)
      /\ \A n \in 1..N : End(ss, n) = End(ss, n - 1) + Len(ss[n])
      /\ \A n \in 1..N : \A k \in 1..Len(ss[n]) : F[End(ss, n - 1) + k] = ss[n][k]
      /\ \A p \in 1..Len(F) :
             \E n \in 1..N : \E k \in 1..Len(ss[n]) : p = End(ss, n - 1) + k
  <2> HIDE DEF F
  <2>1. /\ F \in Seq(S)
        /\ \A n \in 0..Len(ss) : End(ss, n) \in Nat
        /\ End(ss, 0) = 0 /\ End(ss, Len(ss)) = Len(F)
        /\ \A n \in 1..Len(ss) : End(ss, n) = End(ss, n - 1) + Len(ss[n])
        /\ \A n \in 1..Len(ss) : \A k \in 1..Len(ss[n]) : F[End(ss, n - 1) + k] = ss[n][k]
        /\ \A p \in 1..Len(F) :
               \E n \in 1..Len(ss) : \E k \in 1..Len(ss[n]) : p = End(ss, n - 1) + k
    BY <1>2, FlattenIndex, Zenon DEF F
  <2> QED BY <1>2, <2>1, Zenon
<1> HIDE DEF F
<1>5. \A n \in 1..N : /\ n \in K => Len(ss[n]) = 1 /\ ss[n][1] = seq[n]
                      /\ n \notin K => Len(ss[n]) = 0
  BY <1>2
<1>6. \A n \in 1..N : n - 1 \in 0..N /\ n \in 0..N
  BY <1>1
<1>7. \A n \in 0..N : e[n] = End(ss, n)
  OBVIOUS
<1>8. e \in [0..N -> Nat]
  BY <1>4
<1> HIDE DEF e
<1>9. Counts(e, K, N)
  <2>1. 0 \in 0..N
    BY <1>1
  <2>2. ASSUME NEW n \in 1..N
        PROVE  e[n] = IF n \in K THEN e[n - 1] + 1 ELSE e[n - 1]
    <3>1. /\ e[n] = e[n - 1] + Len(ss[n]) /\ e[n - 1] \in Nat
          /\ n \in K => Len(ss[n]) = 1
          /\ n \notin K => Len(ss[n]) = 0
      BY <1>4, <1>5, <1>6, <1>7
    <3>2. CASE n \in K
      BY <3>1, <3>2
    <3>3. CASE n \notin K
      BY <3>1, <3>3
    <3> QED BY <3>2, <3>3
  <2> QED BY <1>4, <1>7, <1>8, <2>1, <2>2 DEF Counts
<1>10. ASSUME NEW n \in 1..N, n \in K
       PROVE  F[e[n]] = seq[n]
  <2>1. Len(ss[n]) = 1 /\ ss[n][1] = seq[n] /\ n - 1 \in 0..N /\ n \in 0..N
    BY <1>5, <1>6, <1>10
  <2>2. 1 \in 1..Len(ss[n])
    BY <2>1
  <2>3. e[n] = End(ss, n - 1) + 1
    BY <1>4, <1>7, <2>1
  <2>4. F[End(ss, n - 1) + 1] = ss[n][1]
    BY <1>4, <2>2
  <2> QED BY <2>1, <2>3, <2>4
<1>11. ASSUME NEW p \in 1..Len(F)
       PROVE  \E n \in 1..N : n \in K /\ p = e[n]
  <2>1. PICK n \in 1..N : \E k \in 1..Len(ss[n]) : p = End(ss, n - 1) + k
    BY <1>4
  <2>2. PICK k \in 1..Len(ss[n]) : p = End(ss, n - 1) + k
    BY <2>1
  <2>3. n \in K /\ Len(ss[n]) = 1 /\ k = 1
    <3>1. CASE n \in K
      <4>1. Len(ss[n]) = 1
        BY <1>5, <3>1
      <4> QED BY <3>1, <4>1
    <3>2. CASE n \notin K
      <4>1. Len(ss[n]) = 0
        BY <1>5, <3>2
      <4> QED BY <4>1
    <3> QED BY <3>1, <3>2
  <2>4. p = e[n]
    BY <1>4, <1>6, <1>7, <2>2, <2>3
  <2> QED BY <2>3, <2>4
<1>12. Len(F) = e[N]
  BY <1>1, <1>4, <1>7
<1>13. Counted(F, seq, K, N, e)
  BY <1>9, <1>10, <1>11, <1>12 DEF Counted
<1> QED BY <1>3, <1>4, <1>13 DEF F, N

\* P lists K in order.
Lists(P, K) ==
    /\ P \in Seq(K)
    /\ \A a \in 1..Len(P) : \A b \in (a + 1)..Len(P) : P[a] < P[b]
    /\ \A p \in K : \E a \in 1..Len(P) : P[a] = p

\* What is kept of seq is seq at its places, and its places list K.
LEMMA KeptAtPlaces ==
    ASSUME NEW S, NEW seq \in Seq(S), NEW K \in SUBSET (1..Len(seq))
    PROVE  /\ Lists(Places(seq, K), K)
           /\ Kept(seq, K) \in Seq(S) /\ Len(Kept(seq, K)) = Len(Places(seq, K))
           /\ \A a \in 1..Len(Places(seq, K)) : Kept(seq, K)[a] = seq[Places(seq, K)[a]]
<1> DEFINE N == Len(seq)
           ids == [n \in DOMAIN seq |-> n]
           P == Kept(ids, K)
           Q == Kept(seq, K)
<1>1. N \in Nat /\ DOMAIN seq = 1..N
  BY LenProperties
<1>2. ids \in Seq(1..N) /\ Len(ids) = N /\ \A n \in 1..N : ids[n] = n
  BY <1>1
<1>3. Places(seq, K) = P
  BY DEF Places
<1> HIDE DEF ids, N
<1>4. PICK e : /\ Counts(e, K, N) /\ P \in Seq(1..N) /\ Len(P) = e[N]
               /\ \A n \in 1..N : n \in K => P[e[n]] = n
               /\ \A p \in 1..Len(P) : \E n \in 1..N : n \in K /\ p = e[n]
  <2>1. P \in Seq(1..N) /\ \E e : Counted(P, ids, K, Len(ids), e)
    BY <1>2, KeptCounts, Zenon
  <2>2. PICK e : Counted(P, ids, K, N, e)
    BY <1>2, <2>1
  <2> QED BY <1>2, <2>1, <2>2 DEF Counted
<1>5. PICK f : /\ Counts(f, K, N) /\ Q \in Seq(S) /\ Len(Q) = f[N]
               /\ \A n \in 1..N : n \in K => Q[f[n]] = seq[n]
  <2>1. Q \in Seq(S) /\ \E x : Counted(Q, seq, K, N, x)
    BY KeptCounts, Zenon DEF N
  <2> QED BY <2>1 DEF Counted
<1> HIDE DEF P, Q
<1>6. \A n \in 0..N : e[n] = f[n]
  BY <1>1, <1>4, <1>5, CountsOnce
<1>7. /\ \A m \in 0..N : \A n \in m..N : e[m] <= e[n]
      /\ \A m \in 0..N : \A n \in (m + 1)..N : n \in K => e[m] < e[n]
      /\ \A n \in 0..N : e[n] \in Nat
      /\ e[0] = 0
  BY <1>1, <1>4, CountsGrow DEF Counts
<1>8. /\ N \in 0..N /\ 0 \in 0..N
      /\ \A n \in 1..N : n \in 0..N /\ n \in (0 + 1)..N /\ N \in n..N
      /\ \A k \in K : k \in 1..N
  BY <1>1 DEF N
<1>9. \A a \in 1..Len(P) : P[a] \in K
  BY <1>4
<1>10. P \in Seq(K)
  <2>1. Len(P) \in Nat /\ P = [a \in 1..Len(P) |-> P[a]]
    BY <1>4, LenProperties
  <2> QED BY <1>9, <2>1
<1>11. ASSUME NEW a \in 1..Len(P), NEW b \in (a + 1)..Len(P)
       PROVE  P[a] < P[b]
  <2>1. Len(P) \in Nat
    BY <1>4, LenProperties
  <2>2. b \in 1..Len(P)
    BY <2>1
  <2>3. PICK m \in 1..N : m \in K /\ a = e[m]
    BY <1>4
  <2>4. PICK n \in 1..N : n \in K /\ b = e[n]
    BY <1>4, <2>2
  <2>5. P[a] = m /\ P[b] = n
    BY <1>4, <2>3, <2>4
  <2>6. ~(n <= m)
    <3> SUFFICES ASSUME n <= m PROVE FALSE
      OBVIOUS
    <3>1. m \in n..N /\ n \in 0..N
      BY <1>1
    <3>2. e[n] <= e[m]
      BY <1>7, <3>1
    <3> QED BY <2>1, <2>3, <2>4, <3>2
  <2> QED BY <1>1, <2>5, <2>6
<1>12. ASSUME NEW p \in K
       PROVE  \E a \in 1..Len(P) : P[a] = p
  <2>1. p \in 1..N
    BY <1>8
  <2>2. e[0] < e[p] /\ e[p] <= e[N] /\ e[p] \in Nat /\ e[N] \in Nat
    BY <1>7, <1>8, <2>1
  <2>3. e[p] \in 1..Len(P)
    BY <1>4, <1>7, <2>2
  <2> QED BY <1>4, <2>1, <2>3
<1>13. Len(Q) = Len(P)
  BY <1>4, <1>5, <1>6, <1>8
<1>14. ASSUME NEW a \in 1..Len(P)
       PROVE  Q[a] = seq[P[a]]
  <2>1. PICK m \in 1..N : m \in K /\ a = e[m]
    BY <1>4
  <2>2. P[a] = m /\ Q[e[m]] = seq[m]
    BY <1>4, <1>5, <1>6, <1>8, <2>1
  <2> QED BY <2>1, <2>2
<1>15. Lists(P, K)
  BY <1>10, <1>11, <1>12 DEF Lists
<1> QED BY <1>3, <1>5, <1>13, <1>14, <1>15 DEF Q, N

(***************************************************************************)
(* Operations, and the calls a pass makes.                                 *)
(***************************************************************************)
Events == Calls \cup {HostCompute}
Apis == [api: {"launch", "copy", "wait"}, chain: Seq(STRING)]
Ops == [kind: {"host", "kernel", "copy", "sync"}, chain: Seq(STRING), call: Nat]

LEMMA EventTypes ==
    ASSUME NEW e \in Events
    PROVE  /\ e.kind \in {"call", "host"} /\ (e.kind = "host" => e = HostCompute)
           /\ e.shows \in Seq(STRING) /\ e.issues \in Seq(Apis)
           /\ e.kind = "host" => e.shows = <<>> /\ e.issues = <<>>
           /\ \A k \in DOMAIN e.issues :
                  e.issues[k].api \in {"launch", "copy"} => e.issues[k].chain # <<>>
<1>1. CASE e = HostCompute
  BY <1>1, EmptySeq DEF HostCompute
<1>2. CASE e \in Calls
  BY <1>2, CallsAssumption DEF Apis
<1> QED BY <1>1, <1>2 DEF Events

LEMMA OpsOfTypes ==
    ASSUME NEW e \in Events, NEW i \in Nat
    PROVE  /\ OpsOf(e, i) \in Seq(Ops)
           /\ \A k \in 1..Len(OpsOf(e, i)) :
                  LET op == OpsOf(e, i)[k]
                  IN /\ op.call = i /\ (op.kind = "host" <=> e.kind = "host")
                     /\ IsIssue(op) => op.chain # <<>>
<1>1. CASE e.kind = "host"
  <2> DEFINE op == [kind |-> "host", chain |-> <<>>, call |-> i]
  <2>1. OpsOf(e, i) = <<op>>
    BY <1>1 DEF OpsOf
  <2>2. op \in Ops
    BY EmptySeq DEF Ops
  <2>3. op.call = i /\ op.kind = "host" /\ ~IsIssue(op)
    BY DEF IsIssue
  <2> HIDE DEF op
  <2> QED BY <1>1, <2>1, <2>2, <2>3
<1>2. CASE e.kind # "host"
  <2> DEFINE kind(k) == IF Joins(e.issues, k + 1) THEN "sync" ELSE Kind(e.issues[k].api)
             K == {k \in DOMAIN e.issues : ~Joins(e.issues, k)}
             all == [k \in DOMAIN e.issues |->
                        [kind |-> kind(k), chain |-> e.issues[k].chain, call |-> i]]
             Mine == {all[k] : k \in DOMAIN e.issues}
  <2>1. OpsOf(e, i) = Kept(all, K)
    BY <1>2, Zenon DEF OpsOf
  <2>2. /\ e.issues \in Seq(Apis) /\ Len(e.issues) \in Nat
        /\ DOMAIN e.issues = 1..Len(e.issues)
        /\ \A k \in DOMAIN e.issues : e.issues[k] \in Apis
        /\ \A k \in DOMAIN e.issues :
               e.issues[k].api \in {"launch", "copy"} => e.issues[k].chain # <<>>
    BY EventTypes, LenProperties, ElementOfSeq
  <2>3. ASSUME NEW k \in DOMAIN e.issues
        PROVE  /\ all[k] \in Ops /\ all[k].call = i /\ all[k].kind # "host"
               /\ IsIssue(all[k]) => all[k].chain # <<>>
    <3>1. /\ all[k] = [kind |-> kind(k), chain |-> e.issues[k].chain, call |-> i]
          /\ e.issues[k].chain \in Seq(STRING)
          /\ e.issues[k].api \in {"launch", "copy", "wait"}
      BY <2>2 DEF Apis
    <3>2. /\ kind(k) \in {"kernel", "copy", "sync"}
          /\ kind(k) \in {"kernel", "copy"} => e.issues[k].api \in {"launch", "copy"}
      BY <3>1 DEF Kind
    <3> HIDE DEF kind, all
    <3> QED BY <2>2, <3>1, <3>2 DEF Ops, IsIssue
  <2>4. all \in Seq(Mine) /\ Len(all) = Len(e.issues)
    BY <2>2
  <2> HIDE DEF all, Mine, kind
  <2>5. Kept(all, K) \in Seq(Mine)
    BY <2>4, KeptCounts
  <2>6. \A op \in Mine : /\ op \in Ops /\ op.call = i /\ op.kind # "host"
                         /\ IsIssue(op) => op.chain # <<>>
    BY <2>3 DEF Mine
  <2>7. OpsOf(e, i) \in Seq(Mine)
    BY <2>1, <2>5, Zenon
  <2>8. OpsOf(e, i) \in Seq(Ops)
    <3>1. Mine \subseteq Ops
      BY <2>6
    <3> QED BY <2>7, <3>1, SeqMonotonic
  <2>9. \A k \in 1..Len(OpsOf(e, i)) : OpsOf(e, i)[k] \in Mine
    BY <2>7, ElementOfSeq
  <2> QED BY <1>2, <2>6, <2>8, <2>9
<1> QED BY <1>1, <1>2

\* The recorded sequence is its events' operations one after another.
LEMMA RecordedTypes ==
    ASSUME NEW path \in Seq(Events)
    PROVE  /\ [i \in DOMAIN path |-> OpsOf(path[i], i)] \in Seq(Seq(Ops))
           /\ Len([i \in DOMAIN path |-> OpsOf(path[i], i)]) = Len(path)
           /\ Recorded(path) \in Seq(Ops)
           /\ \A p \in IssuedAt(Recorded(path)) : Recorded(path)[p].chain # <<>>
<1> DEFINE ss == [i \in DOMAIN path |-> OpsOf(path[i], i)]
           seq == Recorded(path)
<1>1. DOMAIN path = 1..Len(path) /\ Len(path) \in Nat /\ \A i \in 1..Len(path) : path[i] \in Events
  BY LenProperties, ElementOfSeq
<1>2. \A i \in 1..Len(path) : i \in Nat /\ ss[i] = OpsOf(path[i], i)
  BY <1>1
<1>3. \A i \in 1..Len(path) :
          /\ ss[i] \in Seq(Ops)
          /\ \A k \in 1..Len(ss[i]) : IsIssue(ss[i][k]) => ss[i][k].chain # <<>>
  BY <1>1, <1>2, OpsOfTypes
<1>4. ss \in Seq(Seq(Ops)) /\ Len(ss) = Len(path)
  <2>1. ss = [i \in 1..Len(path) |-> ss[i]]
    BY <1>1
  <2> HIDE DEF ss
  <2> QED BY <1>1, <1>3, <2>1
<1>5. seq = FlattenSeq(ss)
  BY DEF Recorded
<1> HIDE DEF ss, seq
<1>6. /\ seq \in Seq(Ops)
      /\ \A n \in 1..Len(ss) : \A k \in 1..Len(ss[n]) : seq[End(ss, n - 1) + k] = ss[n][k]
      /\ \A p \in 1..Len(seq) :
             \E n \in 1..Len(ss) : \E k \in 1..Len(ss[n]) : p = End(ss, n - 1) + k
  BY <1>4, <1>5, FlattenIndex
<1>7. ASSUME NEW p \in IssuedAt(seq)
      PROVE  seq[p].chain # <<>>
  <2>1. p \in 1..Len(seq) /\ IsIssue(seq[p])
    BY <1>6, LenProperties DEF IssuedAt
  <2>2. PICK n \in 1..Len(ss) : \E k \in 1..Len(ss[n]) : p = End(ss, n - 1) + k
    BY <1>6, <2>1
  <2>3. PICK k \in 1..Len(ss[n]) : p = End(ss, n - 1) + k
    BY <2>2
  <2>4. seq[p] = ss[n][k]
    BY <1>6, <2>3
  <2> QED BY <1>3, <1>4, <2>1, <2>4
<1> QED BY <1>4, <1>6, <1>7 DEF ss, seq

LEMMA IssuedLists ==
    ASSUME NEW seq \in Seq(Ops), \A p \in IssuedAt(seq) : seq[p].chain # <<>>
    PROVE  /\ Lists(Issued(seq), IssuedAt(seq)) /\ IssuedAt(seq) \subseteq 1..Len(seq)
           /\ OpNames(seq) \in Seq(STRING) /\ Len(OpNames(seq)) = Len(Issued(seq))
           /\ \A m \in 1..Len(Issued(seq)) : OpNames(seq)[m] = AtenOp(seq[Issued(seq)[m]])
           /\ Names(seq) \subseteq STRING
<1> DEFINE I == Issued(seq)
<1>1. IssuedAt(seq) \in SUBSET (1..Len(seq))
  BY LenProperties DEF IssuedAt
<1>2. Lists(I, IssuedAt(seq))
  BY <1>1, KeptAtPlaces DEF Issued
<1>3. I \in Seq(IssuedAt(seq)) /\ Len(I) \in Nat /\ DOMAIN I = 1..Len(I)
  BY <1>2, LenProperties DEF Lists
<1>4. \A p \in IssuedAt(seq) : AtenOp(seq[p]) \in STRING
  <2> SUFFICES ASSUME NEW p \in IssuedAt(seq) PROVE AtenOp(seq[p]) \in STRING
    OBVIOUS
  <2>0. seq[p] \in Ops
    BY <1>1, ElementOfSeq
  <2>1. seq[p].chain \in Seq(STRING) /\ seq[p].chain # <<>>
    BY <2>0 DEF Ops
  <2>2. Len(seq[p].chain) \in 1..Len(seq[p].chain)
    BY <2>1, EmptySeq
  <2> QED BY <2>1, <2>2, ElementOfSeq DEF AtenOp, Last
<1>5. OpNames(seq) = [m \in 1..Len(I) |-> AtenOp(seq[I[m]])]
  BY <1>3 DEF OpNames
<1>6. \A m \in 1..Len(I) : I[m] \in IssuedAt(seq)
  BY <1>3, ElementOfSeq
<1> HIDE DEF I
<1>7. OpNames(seq) \in Seq(STRING) /\ Len(OpNames(seq)) = Len(I)
  BY <1>3, <1>4, <1>5, <1>6
<1> QED BY <1>1, <1>2, <1>4, <1>5, <1>7 DEF I, Names

LEMMA ShownTypes ==
    ASSUME NEW path \in Seq(Events), NEW names
    PROVE  /\ \A i \in 1..Len(path) : Shown(path[i], names) \in Seq(STRING)
           /\ [i \in DOMAIN path |-> Shown(path[i], names)] \in Seq(Seq(STRING))
           /\ Len([i \in DOMAIN path |-> Shown(path[i], names)]) = Len(path)
<1> DEFINE ss == [i \in DOMAIN path |-> Shown(path[i], names)]
<1>1. DOMAIN path = 1..Len(path) /\ Len(path) \in Nat /\ \A i \in 1..Len(path) : path[i] \in Events
  BY LenProperties, ElementOfSeq
<1>2. ASSUME NEW i \in 1..Len(path)
      PROVE  Shown(path[i], names) \in Seq(STRING)
  <2>1. path[i].shows \in Seq(STRING)
    BY <1>1, EventTypes
  <2> QED BY <2>1, KeptCounts DEF Shown
<1>3. ss = [i \in 1..Len(path) |-> Shown(path[i], names)]
  BY <1>1
<1>4. ss \in Seq(Seq(STRING)) /\ Len(ss) = Len(path)
  <2> HIDE DEF ss
  <2> QED BY <1>1, <1>2, <1>3
<1> QED BY <1>2, <1>4

\* What the observer reports of a pass so far grows by what the event shows.
LEMMA ObservedGrows ==
    ASSUME NEW path \in Seq(Events), NEW names
    PROVE  /\ Observed(SubSeq(path, 1, 0), names) = <<>>
           /\ \A n \in 0..Len(path) : Observed(SubSeq(path, 1, n), names) \in Seq(STRING)
           /\ \A n \in 1..Len(path) :
                  Observed(SubSeq(path, 1, n), names)
                      = Observed(SubSeq(path, 1, n - 1), names) \o Shown(path[n], names)
           /\ Observed(SubSeq(path, 1, Len(path)), names) = Observed(path, names)
           /\ \A n \in 0..Len(path) :
                  Len(Observed(SubSeq(path, 1, n), names))
                      = End([i \in DOMAIN path |-> Shown(path[i], names)], n)
<1> DEFINE ss == [i \in DOMAIN path |-> Shown(path[i], names)]
           N == Len(path)
<1>1. ss \in Seq(Seq(STRING)) /\ Len(ss) = N
  BY ShownTypes
<1>2. DOMAIN path = 1..N /\ N \in Nat /\ SubSeq(path, 1, N) = path
  BY LenProperties, SubSeqFull
<1>3. ASSUME NEW n \in 0..N
      PROVE  Observed(SubSeq(path, 1, n), names) = Joined(ss, n)
  <2> DEFINE part == SubSeq(path, 1, n)
  <2>1. DOMAIN part = 1..n /\ \A i \in 1..n : part[i] = path[i]
    BY <1>2
  <2>2. \A i \in 1..n : ss[i] = Shown(path[i], names)
    BY <1>2
  <2>3. SubSeq(ss, 1, n) = [i \in 1..n |-> ss[i]]
    BY <1>1, <1>2
  <2> HIDE DEF part, ss
  <2>4. [i \in DOMAIN part |-> Shown(part[i], names)] = [i \in 1..n |-> ss[i]]
    BY <2>1, <2>2
  <2> QED BY <2>3, <2>4 DEF Observed, Joined, part
<1>4. \A n \in 1..N : ss[n] = Shown(path[n], names)
  BY <1>2
<1> HIDE DEF ss, N
<1>5. /\ Joined(ss, 0) = <<>>
      /\ \A n \in 1..N : Joined(ss, n) = Joined(ss, n - 1) \o ss[n]
      /\ \A n \in 0..N : Joined(ss, n) \in Seq(STRING)
  BY <1>1, JoinedSteps
<1>6. 0 \in 0..N /\ \A n \in 1..N : n \in 0..N /\ n - 1 \in 0..N
  BY <1>2
<1>7. \A n \in 0..N : Len(Observed(SubSeq(path, 1, n), names)) = End(ss, n)
  BY <1>3 DEF End
<1> QED BY <1>2, <1>3, <1>4, <1>5, <1>6, <1>7 DEF N, ss

\* A sequence's stretches, from its turns.
StretchesOf(x, P) ==
    /\ Lists(P, Turns(x)) /\ Len(P) \in Nat /\ Turns(x) \in SUBSET (1..Len(x))
    /\ Len(Stretches(x)) = Len(P) /\ DOMAIN Stretches(x) = 1..Len(P)
    /\ \A r \in 1..Len(P) :
          /\ Stretches(x)[r].first = P[r]
          /\ Stretches(x)[r].last = IF r < Len(P) THEN P[r + 1] - 1 ELSE Len(x)

LEMMA StretchesAre ==
    ASSUME NEW x \in Seq(STRING)
    PROVE  /\ StretchesOf(x, Places(x, Turns(x)))
           /\ Kept(x, Turns(x)) \in Seq(STRING)
           /\ Len(Kept(x, Turns(x))) = Len(Places(x, Turns(x)))
           /\ \A a \in 1..Len(Places(x, Turns(x))) :
                  Kept(x, Turns(x))[a] = x[Places(x, Turns(x))[a]]
<1> DEFINE P == Places(x, Turns(x))
<1>1. Turns(x) \in SUBSET (1..Len(x))
  BY LenProperties DEF Turns
<1>2. /\ Lists(P, Turns(x)) /\ Kept(x, Turns(x)) \in Seq(STRING)
      /\ Len(Kept(x, Turns(x))) = Len(P)
      /\ \A a \in 1..Len(P) : Kept(x, Turns(x))[a] = x[P[a]]
  BY <1>1, KeptAtPlaces
<1>3. P \in Seq(Turns(x)) /\ Len(P) \in Nat /\ DOMAIN P = 1..Len(P)
  BY <1>2, LenProperties DEF Lists
<1> DEFINE st(r) == [first |-> P[r],
                     last |-> IF r < Len(P) THEN P[r + 1] - 1 ELSE Len(x)]
<1>4. Stretches(x) = [r \in 1..Len(P) |-> st(r)]
  BY <1>3 DEF Stretches
<1>5. \A r \in 1..Len(P) : /\ st(r).first = P[r]
                           /\ st(r).last = IF r < Len(P) THEN P[r + 1] - 1 ELSE Len(x)
  OBVIOUS
<1> HIDE DEF st, P
<1>6. Len(Stretches(x)) = Len(P) /\ DOMAIN Stretches(x) = 1..Len(P)
  BY <1>3, <1>4
<1>7. StretchesOf(x, P)
  BY <1>1, <1>2, <1>3, <1>4, <1>5, <1>6 DEF StretchesOf
<1> QED BY <1>2, <1>7 DEF P

\* Names met stretch by stretch are the same between equal neighbours.
LEMMA MetMerged ==
    ASSUME NEW seq \in Seq(Ops), \A p \in IssuedAt(seq) : seq[p].chain # <<>>,
           NEW met \in Seq(STRING), CallsMeet(seq, met)
    PROVE  Kept(met, Turns(met)) = Kept(OpNames(seq), Turns(OpNames(seq)))
<1> DEFINE names == OpNames(seq)
<1>1. names \in Seq(STRING)
  BY IssuedLists
<1>2. CallsMeet(seq, met) <=>
          /\ Len(Stretches(names)) = Len(Stretches(met))
          /\ \A r \in DOMAIN Stretches(met) :
                /\ names[Stretches(names)[r].first] = met[Stretches(met)[r].first]
                /\ Size(Stretches(names)[r]) % Size(Stretches(met)[r]) = 0
  BY DEF CallsMeet
<1> HIDE DEF names
<1>3. ASSUME NEW x \in Seq(STRING)
      PROVE  LET P == Places(x, Turns(x))
             IN /\ Kept(x, Turns(x)) \in Seq(STRING) /\ Len(Kept(x, Turns(x))) = Len(P)
                /\ Len(P) \in Nat
                /\ \A a \in 1..Len(P) : Kept(x, Turns(x))[a] = x[P[a]]
                /\ Len(Stretches(x)) = Len(P) /\ DOMAIN Stretches(x) = 1..Len(P)
                /\ \A r \in 1..Len(P) : Stretches(x)[r].first = P[r]
  BY StretchesAre DEF StretchesOf
<1>4. /\ Len(Kept(met, Turns(met))) = Len(Kept(names, Turns(names)))
      /\ \A a \in 1..Len(Kept(met, Turns(met))) :
             Kept(met, Turns(met))[a] = Kept(names, Turns(names))[a]
  BY <1>1, <1>2, <1>3
<1> QED BY <1>1, <1>3, <1>4, SeqEqual DEF names

(***************************************************************************)
(* What a pass that finished has made.                                     *)
(***************************************************************************)
LEMMA DetoursTypes ==
    ASSUME NEW path \in Seq(Events), NEW way \in Detours(path)
    PROVE  way \in Seq(Events)
<1>1. Len(path) \in Nat /\ DOMAIN path = 1..Len(path) /\ \A i \in 1..Len(path) : path[i] \in Events
  BY LenProperties, ElementOfSeq
<1>2. ASSUME NEW i \in 1..Len(path)
      PROVE  /\ SubSeq(path, 1, i - 1) \in Seq(Events) /\ SubSeq(path, i + 1, Len(path)) \in Seq(Events)
             /\ SubSeq(path, i, Len(path)) \in Seq(Events) /\ <<path[i]>> \in Seq(Events)
  BY <1>1
<1>3. ASSUME NEW i \in 1..Len(path)
      PROVE  RemoveAt(path, i) \in Seq(Events) /\ InsertAt(path, i, path[i]) \in Seq(Events)
  <2> DEFINE a == SubSeq(path, 1, i - 1)
             b == SubSeq(path, i, Len(path))
             c == SubSeq(path, i + 1, Len(path))
             d == <<path[i]>>
  <2>1. RemoveAt(path, i) = a \o c /\ InsertAt(path, i, path[i]) = a \o d \o b
    BY DEF RemoveAt, InsertAt
  <2>2. a \in Seq(Events) /\ b \in Seq(Events) /\ c \in Seq(Events) /\ d \in Seq(Events)
    BY <1>2
  <2> HIDE DEF a, b, c, d
  <2>3. a \o c \in Seq(Events) /\ a \o d \in Seq(Events)
    BY <2>2, ConcatProperties
  <2>4. a \o d \o b \in Seq(Events)
    BY <2>2, <2>3, ConcatProperties
  <2> QED BY <2>1, <2>3, <2>4
<1> QED BY <1>1, <1>3 DEF Detours

Calibrated == {"calibrated", "scheduled", "running", "measured"}
Under == {"running", "measured"}

\* The recording, the calibration's calls and the pass under way are passes of
\* the prefill, and the cursor counts the calls seen of the pass's events.
PassesMet ==
    /\ recorded \in Seq(Events) /\ sequence = Recorded(recorded)
    /\ stage \in Calibrated =>
          calls \in Seq(STRING) /\ CallsMeet(sequence, calls) /\ launching = Names(sequence)
    /\ stage \in Under =>
          /\ pass \in Seq(Events) /\ at \in 1..(Len(pass) + 1) /\ cursor \in 0..Len(calls)
          /\ Observed(SubSeq(pass, 1, at - 1), launching) = SubSeq(calls, 1, cursor)
    /\ stage = "measured" => at = Len(pass) + 1 /\ Finished

LEMMA PassesMetInit == InjectionInit => PassesMet
<1> SUFFICES ASSUME InjectionInit PROVE PassesMet
  OBVIOUS
<1>1. PICK n \in 1..MaxEvents : recorded \in [1..n -> Events]
  BY DEF InjectionInit, Paths, Events
<1>2. recorded \in Seq(Events)
  <2>1. n \in Nat
    BY <1>1
  <2> QED BY <1>1, <2>1
<1> QED BY <1>2 DEF InjectionInit, PassesMet, Calibrated, Under

LEMMA PassesMetStep == PassesMet /\ [InjectionNext]_injectionVars => PassesMet'
<1> SUFFICES ASSUME PassesMet, [InjectionNext]_injectionVars PROVE PassesMet'
  OBVIOUS
<1> USE DEF PassesMet, Calibrated, Under
<1>1. CASE Refuse
  BY <1>1 DEF Refuse
<1>2. CASE Price
  BY <1>1, <1>2 DEF Price
<1>3. CASE Calibrate
  <2>1. PICK path \in Detours(recorded) :
            LET seen == Observed(path, Names(sequence))
            IN IF CallsMeet(sequence, seen)
               THEN /\ stage' = "calibrated" /\ launching' = Names(sequence) /\ calls' = seen
                    /\ UNCHANGED <<recorded, sequence>>
               ELSE Refuse
    BY <1>3 DEF Calibrate
  <2>2. path \in Seq(Events)
    BY DetoursTypes
  <2>3. Observed(path, Names(sequence)) \in Seq(STRING)
    <3>1. Len(path) \in 0..Len(path)
      BY <2>2, LenProperties
    <3> QED BY <2>2, <3>1, ObservedGrows
  <2> QED BY <1>1, <2>1, <2>3
<1>4. CASE Schedule
  BY <1>1, <1>4 DEF Schedule
<1>5. CASE Begin
  <2>1. PICK path \in Detours(recorded) : pass' = path
    BY <1>5 DEF Begin
  <2>2. pass' \in Seq(Events)
    BY <2>1, DetoursTypes
  <2>3. Observed(SubSeq(pass', 1, 1 - 1), launching) = SubSeq(calls, 1, 0)
    <3>1. SubSeq(calls, 1, 0) = <<>> /\ 1 - 1 = 0
      BY SubSeqEmpty
    <3> QED BY <2>2, <3>1, ObservedGrows
  <2>4. Len(calls) \in Nat /\ Len(pass') \in Nat
    BY <1>5, <2>2, LenProperties DEF Begin
  <2> QED BY <1>5, <2>2, <2>3, <2>4 DEF Begin
<1>6. CASE Event
  <2> DEFINE seen == Shown(pass[at], launching)
  <2>1. CASE cursor + Len(seen) <= Len(calls)
             /\ SubSeq(calls, cursor + 1, cursor + Len(seen)) = seen
    <3>1. /\ stage = "running" /\ at <= Len(pass) /\ at' = at + 1 /\ cursor' = cursor + Len(seen)
          /\ UNCHANGED <<stage, recorded, sequence, launching, calls, pass>>
      BY <1>6, <2>1 DEF Event
    <3>2. Len(pass) \in Nat /\ Len(calls) \in Nat
      BY <3>1, LenProperties
    <3>3. at \in 1..Len(pass) /\ at' - 1 = at /\ at' \in 1..(Len(pass) + 1)
      BY <3>1, <3>2, SMTT(60)
    <3>4. seen \in Seq(STRING) /\ Len(seen) \in Nat
      BY <3>1, <3>3, ShownTypes, LenProperties
    <3>5. Observed(SubSeq(pass, 1, at), launching)
              = Observed(SubSeq(pass, 1, at - 1), launching) \o seen
      BY <3>1, <3>3, ObservedGrows
    <3> HIDE DEF seen
    <3>6. cursor' \in 0..Len(calls) /\ 1 \in 1..(Len(calls) + 1)
          /\ cursor \in (1 - 1)..Len(calls) /\ cursor' \in cursor..Len(calls)
      BY <2>1, <3>1, <3>2, <3>4, SMTT(60)
    <3>7. SubSeq(calls, 1, cursor) \o SubSeq(calls, cursor + 1, cursor') = SubSeq(calls, 1, cursor')
      BY <3>1, <3>6, ConcatAdjacentSubSeq
    <3>8. Observed(SubSeq(pass, 1, at), launching) = SubSeq(calls, 1, cursor')
      BY <2>1, <3>1, <3>5, <3>7
    <3> QED BY <3>1, <3>3, <3>6, <3>8
  <2>2. CASE ~(cursor + Len(seen) <= Len(calls)
               /\ SubSeq(calls, cursor + 1, cursor + Len(seen)) = seen)
    BY <1>1, <1>6, <2>2 DEF Event
  <2> QED BY <2>1, <2>2
<1>7. CASE Finish
  BY <1>1, <1>7 DEF Finish, Finished
<1>8. CASE UNCHANGED injectionVars
  BY <1>8 DEF injectionVars, Finished
<1> QED BY <1>2, <1>3, <1>4, <1>5, <1>6, <1>7, <1>8 DEF InjectionNext

\* A pass that finished made the calibration's calls, and between equal
\* neighbours the recording's, and performed every injection
\* (delay_injector.py:22-24), however the passes went.
THEOREM MadeTheCallsHolds == InjectionSpec => []MadeTheCalls
<1>1. PassesMet => MadeTheCalls
  <2> SUFFICES ASSUME PassesMet, stage = "measured"
               PROVE  /\ Observed(pass, launching) = calls
                      /\ LET met == Observed(pass, launching)
                             names == OpNames(sequence)
                         IN Kept(met, Turns(met)) = Kept(names, Turns(names))
                      /\ Times(executed, Injected) = Len(sites)
    BY DEF MadeTheCalls
  <2>1. /\ recorded \in Seq(Events) /\ sequence = Recorded(recorded)
        /\ calls \in Seq(STRING) /\ CallsMeet(sequence, calls)
        /\ pass \in Seq(Events) /\ at = Len(pass) + 1 /\ Finished
        /\ Observed(SubSeq(pass, 1, at - 1), launching) = SubSeq(calls, 1, cursor)
    BY DEF PassesMet, Calibrated, Under
  <2>2. at - 1 = Len(pass) /\ cursor = Len(calls)
    BY <2>1, LenProperties DEF Finished
  <2>3. Observed(pass, launching) = calls
    BY <2>1, <2>2, ObservedGrows, SubSeqFull
  <2>4. Kept(calls, Turns(calls)) = Kept(OpNames(sequence), Turns(OpNames(sequence)))
    BY <2>1, RecordedTypes, MetMerged
  <2> QED BY <2>1, <2>3, <2>4 DEF Finished, Times
<1> QED BY <1>1, PassesMetInit, PassesMetStep, PTL DEF InjectionSpec

(***************************************************************************)
(* Stretches of operations shared evenly among the calls that meet them.   *)
(***************************************************************************)
\* A set is listed in one way.
LEMMA ListsOnce ==
    ASSUME NEW K \in SUBSET Nat, NEW P, NEW Q, Lists(P, K), Lists(Q, K)
    PROVE  P = Q
<1>1. /\ P \in Seq(K) /\ Q \in Seq(K) /\ Len(P) \in Nat /\ Len(Q) \in Nat
      /\ \A a \in 1..Len(P) : P[a] \in K /\ P[a] \in Nat
      /\ \A a \in 1..Len(Q) : Q[a] \in K /\ Q[a] \in Nat
  <2>1. P \in Seq(K) /\ Q \in Seq(K)
    BY DEF Lists
  <2> QED BY <2>1, LenProperties, ElementOfSeq
<1> DEFINE SameAt(a) == a \in 1..Len(P) /\ a \in 1..Len(Q) /\ P[a] = Q[a]
           Bad == {a \in Nat : (a \in 1..Len(P) \/ a \in 1..Len(Q)) /\ ~SameAt(a)}
<1>2. Bad = {}
  <2> SUFFICES ASSUME Bad # {} PROVE FALSE
    OBVIOUS
  <2>1. PICK a \in Bad : \A b \in Bad : a <= b
    <3>1. Bad \in SUBSET Nat
      OBVIOUS
    <3> HIDE DEF Bad
    <3> QED BY <3>1, HasLeast
  <2>2. a \in Nat /\ (a \in 1..Len(P) \/ a \in 1..Len(Q)) /\ ~SameAt(a)
    BY <2>1
  <2>3. \A b \in 1..(a - 1) : b \in 1..Len(P) \/ b \in 1..Len(Q) => SameAt(b)
    <3> SUFFICES ASSUME NEW b \in 1..(a - 1), b \in 1..Len(P) \/ b \in 1..Len(Q), ~SameAt(b)
                 PROVE  FALSE
      OBVIOUS
    <3>1. b \in Bad /\ ~(a <= b)
      BY <1>1, <2>2
    <3> QED BY <2>1, <3>1
  <2> HIDE DEF Bad
  \* what the one lists at a the other lists at a or after, and the other way
  <2>4. ASSUME a \in 1..Len(P)
        PROVE  a \in 1..Len(Q) /\ Q[a] <= P[a]
    <3>1. PICK b \in 1..Len(Q) : Q[b] = P[a]
      BY <1>1, <2>4 DEF Lists
    <3>2. ~(b < a)
      <4> SUFFICES ASSUME b < a PROVE FALSE
        OBVIOUS
      <4>1. b \in 1..(a - 1) /\ SameAt(b)
        BY <1>1, <2>2, <2>3
      <4>2. P[b] < P[a]
        <5>1. b \in 1..Len(P) /\ a \in (b + 1)..Len(P)
          BY <1>1, <2>4, <4>1
        <5> QED BY <5>1 DEF Lists
      <4> QED BY <1>1, <2>4, <3>1, <4>1, <4>2
    <3>3. a \in 1..Len(Q)
      BY <1>1, <2>2, <3>2
    <3>4. a = b \/ Q[a] < Q[b]
      <4>1. a = b \/ b \in (a + 1)..Len(Q)
        BY <1>1, <3>2, <2>2
      <4> QED BY <3>3, <4>1 DEF Lists
    <3> QED BY <1>1, <3>1, <3>3, <3>4
  <2>5. ASSUME a \in 1..Len(Q)
        PROVE  a \in 1..Len(P) /\ P[a] <= Q[a]
    <3>1. PICK b \in 1..Len(P) : P[b] = Q[a]
      BY <1>1, <2>5 DEF Lists
    <3>2. ~(b < a)
      <4> SUFFICES ASSUME b < a PROVE FALSE
        OBVIOUS
      <4>1. b \in 1..(a - 1) /\ SameAt(b)
        BY <1>1, <2>2, <2>3
      <4>2. Q[b] < Q[a]
        <5>1. b \in 1..Len(Q) /\ a \in (b + 1)..Len(Q)
          BY <1>1, <2>5, <4>1
        <5> QED BY <5>1 DEF Lists
      <4> QED BY <1>1, <2>5, <3>1, <4>1, <4>2
    <3>3. a \in 1..Len(P)
      BY <1>1, <2>2, <3>2
    <3>4. a = b \/ P[a] < P[b]
      <4>1. a = b \/ b \in (a + 1)..Len(P)
        BY <1>1, <3>2, <2>2
      <4> QED BY <3>3, <4>1 DEF Lists
    <3> QED BY <1>1, <3>1, <3>3, <3>4
  <2>6. a \in 1..Len(P) /\ a \in 1..Len(Q) /\ Q[a] <= P[a] /\ P[a] <= Q[a]
    BY <2>2, <2>4, <2>5
  <2> QED BY <1>1, <2>2, <2>6
<1>3. \A a \in Nat : (a \in 1..Len(P) \/ a \in 1..Len(Q)) => SameAt(a)
  BY <1>2
<1>4. Len(P) = Len(Q)
  <2>1. Len(P) \in Nat /\ Len(Q) \in Nat /\ (Len(P) > 0 => Len(P) \in 1..Len(P))
        /\ (Len(Q) > 0 => Len(Q) \in 1..Len(Q))
    BY <1>1
  <2>2. (Len(P) > 0 => Len(P) \in 1..Len(Q)) /\ (Len(Q) > 0 => Len(Q) \in 1..Len(P))
    BY <1>3, <2>1
  <2> QED BY <2>1, <2>2
<1>5. \A a \in 1..Len(P) : P[a] = Q[a]
  <2>1. \A a \in 1..Len(P) : a \in Nat
    BY <1>1
  <2> QED BY <1>3, <2>1
<1> QED BY <1>1, <1>4, <1>5, SeqEqual

\* The operations' names are each call's for its share, equal calls' shares
\* are as long, and V is where each ends.
Shares(V, names, met) ==
    LET N == Len(met)
    IN /\ V \in [0..N -> Nat] /\ V[0] = 0 /\ V[N] = Len(names)
       /\ \A c \in 1..N : /\ V[c - 1] < V[c]
                          /\ \A m \in (V[c - 1] + 1)..V[c] : names[m] = met[c]
       /\ \A c \in 1..N : \A d \in 1..N :
              met[c] = met[d] => V[c] - V[c - 1] = V[d] - V[d - 1]

LEMMA SharesGrow ==
    ASSUME NEW names \in Seq(STRING), NEW met \in Seq(STRING), NEW V, Shares(V, names, met)
    PROVE  /\ \A c \in 0..Len(met) : V[c] \in Nat
           /\ \A c \in 0..Len(met) : \A d \in (c + 1)..Len(met) : V[c] < V[d]
           /\ \A m \in 1..Len(names) : \E c \in 1..Len(met) : m \in (V[c - 1] + 1)..V[c]
<1> DEFINE N == Len(met)
<1>1. /\ N \in Nat /\ Len(names) \in Nat /\ V[0] = 0 /\ V[N] = Len(names)
      /\ \A c \in 0..N : V[c] \in Nat
      /\ \A c \in 1..N : V[c - 1] < V[c]
  BY LenProperties DEF Shares
<1> HIDE DEF N
<1>2. ASSUME NEW c \in 0..N
      PROVE  \A d \in (c + 1)..N : V[c] < V[d]
  <2> DEFINE T == {d \in 0..N : d > c => V[c] < V[d]}
  <2>1. 0 \in T
    BY <1>1
  <2>2. ASSUME NEW d \in 1..N, d - 1 \in T
        PROVE  d \in T
    <3>1. d \in 0..N /\ d - 1 \in 0..N /\ V[d - 1] < V[d] /\ V[d] \in Nat /\ V[d - 1] \in Nat
          /\ V[c] \in Nat
      BY <1>1
    <3>2. CASE d - 1 = c
      BY <3>1, <3>2
    <3>3. CASE d - 1 > c
      BY <2>2, <3>1, <3>3
    <3>4. CASE d - 1 < c
      BY <3>1, <3>4
    <3> QED BY <3>2, <3>3, <3>4
  <2> HIDE DEF T
  <2>3. \A d \in 0..N : d \in T
    BY <1>1, <2>1, <2>2, UpTo
  <2>4. \A d \in (c + 1)..N : d \in 0..N /\ d > c
    BY <1>1
  <2> QED BY <2>3, <2>4 DEF T
<1>3. ASSUME NEW m \in 1..Len(names)
      PROVE  \E c \in 1..N : m \in (V[c - 1] + 1)..V[c]
  <2> DEFINE T == {c \in 0..N : m <= V[c]}
  <2>1. T \in SUBSET Nat /\ N \in T
    BY <1>1
  <2> HIDE DEF T
  <2>2. PICK c \in T : \A d \in T : c <= d
    BY <2>1, HasLeast
  <2>3. c \in 1..N /\ m <= V[c] /\ V[c] \in Nat
    BY <1>1, <2>2 DEF T
  <2>4. c - 1 \in 0..N /\ V[c - 1] \in Nat /\ c - 1 \notin T
    BY <1>1, <2>2, <2>3
  <2>5. ~(m <= V[c - 1])
    BY <2>4 DEF T
  <2>6. m \in (V[c - 1] + 1)..V[c]
    BY <2>3, <2>4, <2>5
  <2> QED BY <2>3, <2>6
<1> QED BY <1>1, <1>2, <1>3 DEF N

\* The stretches of the names are those of the calls.
LEMMA TurnsMeet ==
    ASSUME NEW names \in Seq(STRING), NEW met \in Seq(STRING), NEW V, Shares(V, names, met)
    PROVE  /\ \A c \in Turns(met) : V[c - 1] + 1 \in Turns(names)
           /\ \A m \in Turns(names) : \E c \in Turns(met) : m = V[c - 1] + 1
<1> DEFINE N == Len(met)
<1>1. /\ N \in Nat /\ Len(names) \in Nat /\ V[0] = 0 /\ V[N] = Len(names)
      /\ \A c \in 0..N : V[c] \in Nat
      /\ \A c \in 1..N : V[c - 1] < V[c]
      /\ \A c \in 1..N : \A m \in (V[c - 1] + 1)..V[c] : names[m] = met[c]
      /\ DOMAIN names = 1..Len(names) /\ DOMAIN met = 1..N
  BY LenProperties DEF Shares
<1>2. /\ \A c \in 0..N : \A d \in (c + 1)..N : V[c] < V[d]
      /\ \A m \in 1..Len(names) : \E c \in 1..N : m \in (V[c - 1] + 1)..V[c]
  BY SharesGrow
<1> HIDE DEF N
<1>3. \A c \in 1..N : V[c] <= Len(names)
  <2> SUFFICES ASSUME NEW c \in 1..N PROVE V[c] <= Len(names)
    OBVIOUS
  <2>1. c = N \/ N \in (c + 1)..N
    BY <1>1
  <2>2. c \in 0..N
    BY <1>1
  <2> QED BY <1>1, <1>2, <2>1, <2>2
<1>4. ASSUME NEW c \in 1..N
      PROVE  /\ c - 1 \in 0..N /\ c \in 0..N /\ V[c - 1] \in Nat /\ V[c] \in Nat
             /\ V[c - 1] < V[c] /\ V[c] <= Len(names)
             /\ names[V[c - 1] + 1] = met[c] /\ names[V[c]] = met[c]
  <2>1. c - 1 \in 0..N /\ c \in 0..N
    BY <1>1
  <2>2. V[c - 1] \in Nat /\ V[c] \in Nat /\ V[c - 1] < V[c]
    BY <1>1, <2>1
  <2>3. V[c - 1] + 1 \in (V[c - 1] + 1)..V[c] /\ V[c] \in (V[c - 1] + 1)..V[c]
    BY <2>2
  <2> QED BY <1>1, <1>3, <2>1, <2>2, <2>3
<1>5. ASSUME NEW c \in 1..N, c # 1
      PROVE  V[c - 1] # 0 /\ names[V[c - 1]] = met[c - 1]
  <2>1. c - 1 \in 1..N
    BY <1>1, <1>5
  <2>2. /\ (c - 1) - 1 \in 0..N /\ V[(c - 1) - 1] \in Nat /\ V[c - 1] \in Nat
        /\ V[(c - 1) - 1] < V[c - 1] /\ names[V[c - 1]] = met[c - 1]
    BY <1>4, <2>1
  <2> QED BY <2>2
<1>6. ASSUME NEW c \in Turns(met)
      PROVE  V[c - 1] + 1 \in Turns(names)
  <2>1. c \in 1..N /\ (c = 1 \/ met[c] # met[c - 1])
    BY <1>1, <1>6 DEF Turns
  <2>2. /\ V[c - 1] \in Nat /\ V[c - 1] + 1 \in 1..Len(names) /\ names[V[c - 1] + 1] = met[c]
        /\ (V[c - 1] + 1) - 1 = V[c - 1]
    <3>1. /\ V[c - 1] \in Nat /\ V[c] \in Nat /\ V[c - 1] < V[c] /\ V[c] <= Len(names)
          /\ names[V[c - 1] + 1] = met[c]
      BY <1>4, <2>1, Zenon
    <3> QED BY <1>1, <3>1
  <2>3. CASE c = 1
    <3>1. V[c - 1] + 1 = 1
      BY <1>1, <2>3
    <3> QED BY <1>1, <2>2, <3>1 DEF Turns
  <2>4. CASE c # 1
    <3>1. names[V[c - 1]] = met[c - 1]
      BY <1>5, <2>1, <2>4
    <3> QED BY <1>1, <2>1, <2>2, <2>4, <3>1 DEF Turns
  <2> QED BY <2>3, <2>4
<1>7. ASSUME NEW m \in Turns(names)
      PROVE  \E c \in Turns(met) : m = V[c - 1] + 1
  <2>1. m \in 1..Len(names) /\ (m = 1 \/ names[m] # names[m - 1])
    BY <1>1, <1>7 DEF Turns
  <2>2. PICK c \in 1..N : m \in (V[c - 1] + 1)..V[c]
    BY <1>2, <2>1
  <2>3. V[c - 1] \in Nat /\ V[c] \in Nat /\ names[m] = met[c]
    BY <1>1, <1>4, <2>2
  <2>4. m = V[c - 1] + 1
    <3> SUFFICES ASSUME m # V[c - 1] + 1 PROVE FALSE
      OBVIOUS
    <3>1. m # 1 /\ m - 1 \in (V[c - 1] + 1)..V[c]
      BY <2>2, <2>3, SMTT(60)
    <3>2. names[m - 1] = met[c]
      BY <1>1, <3>1
    <3> QED BY <2>1, <2>3, <3>1, <3>2
  <2>5. c \in Turns(met)
    <3>1. CASE c = 1
      BY <1>1, <3>1 DEF Turns
    <3>2. CASE c # 1
      <4>1. V[c - 1] # 0 /\ names[V[c - 1]] = met[c - 1] /\ m # 1 /\ m - 1 = V[c - 1]
        BY <1>5, <2>3, <2>4, <3>2
      <4>2. met[c] # met[c - 1]
        BY <2>1, <2>3, <4>1
      <4> QED BY <1>1, <4>2 DEF Turns
    <3> QED BY <3>1, <3>2
  <2> QED BY <2>4, <2>5
<1> QED BY <1>6, <1>7

LEMMA EvenQuotient ==
    ASSUME NEW n \in Nat, NEW w \in Nat, n > 0
    PROVE  (n * w) \div n = w
OBVIOUS

\* Every call is in a stretch.
LEMMA InAStretch ==
    ASSUME NEW met \in Seq(STRING), NEW c \in 1..Len(met)
    PROVE  \E r \in 1..Len(Stretches(met)) : c \in Stretches(met)[r].first..Stretches(met)[r].last
<1> DEFINE P == Places(met, Turns(met))
           R == Len(P)
           N == Len(met)
<1>1. /\ StretchesOf(met, P) /\ N \in Nat
  BY StretchesAre, LenProperties
<1> HIDE DEF P
<1>2. /\ P \in Seq(Turns(met)) /\ R \in Nat /\ Turns(met) \in SUBSET (1..N)
      /\ \A a \in 1..R : \A b \in (a + 1)..R : P[a] < P[b]
      /\ \A p \in Turns(met) : \E a \in 1..R : P[a] = p
      /\ Len(Stretches(met)) = R
      /\ \A r \in 1..R : /\ Stretches(met)[r].first = P[r]
                         /\ Stretches(met)[r].last = IF r < R THEN P[r + 1] - 1 ELSE N
  BY <1>1 DEF StretchesOf, Lists
<1>3. \A a \in 1..R : P[a] \in 1..N
  BY <1>2, ElementOfSeq
<1> HIDE DEF R, N
<1> DEFINE T == {r \in 1..(R + 1) : r = R + 1 \/ P[r] > c}
<1>4. T \in SUBSET Nat /\ R + 1 \in T
  BY <1>2
<1> HIDE DEF T
<1>5. PICK r \in T : \A s \in T : r <= s
  BY <1>4, HasLeast
<1> USE DEF T
<1>6. r # 1
  <2>1. 1 \in Turns(met)
    <3>1. 1 \in 1..Len(met) /\ DOMAIN met = 1..Len(met)
      BY <1>1, LenProperties DEF N
    <3> QED BY <3>1 DEF Turns
  <2>2. PICK a \in 1..R : P[a] = 1
    BY <1>2, <2>1
  <2>3. a \notin T
    BY <1>1, <1>2, <2>2
  <2>4. 1 = a \/ a \in (1 + 1)..R
    BY <1>2
  <2>5. 1 \in 1..R
    BY <1>2, <2>2
  <2>6. P[1] <= 1
    BY <1>2, <1>3, <2>2, <2>4, <2>5
  <2>7. c \in 1..N
    BY DEF N
  <2> QED BY <1>1, <1>2, <1>3, <1>5, <2>5, <2>6, <2>7
<1>7. r - 1 \in 1..R /\ r - 1 \notin T /\ c \in 1..N
  BY <1>2, <1>5, <1>6 DEF N
<1>8. P[r - 1] <= c
  BY <1>2, <1>3, <1>7
<1>9. (r - 1 < R => P[(r - 1) + 1] > c) /\ (r - 1) + 1 = r
  BY <1>2, <1>5, <1>7
<1>10. c \in Stretches(met)[r - 1].first..Stretches(met)[r - 1].last
  <2>1. /\ Stretches(met)[r - 1].first = P[r - 1]
        /\ Stretches(met)[r - 1].last = IF r - 1 < R THEN P[(r - 1) + 1] - 1 ELSE N
    BY <1>2, <1>7, Zenon
  <2>2. /\ P[r - 1] \in Nat /\ c \in 1..N /\ N \in Nat
        /\ r - 1 < R => P[(r - 1) + 1] \in Nat
    BY <1>1, <1>2, <1>3, <1>7, SMTT(60)
  <2>3. CASE r - 1 < R
    BY <1>8, <1>9, <2>1, <2>2, <2>3
  <2>4. CASE ~(r - 1 < R)
    BY <1>8, <2>1, <2>2, <2>4
  <2> QED BY <2>3, <2>4
<1> QED BY <1>2, <1>7, <1>10

\* The calls of a stretch are equal, and of the names there is one stretch as
\* well, its calls' shares one after another.
LEMMA StretchShares ==
    ASSUME NEW names \in Seq(STRING), NEW met \in Seq(STRING), NEW V, Shares(V, names, met)
    PROVE  /\ Len(Stretches(names)) = Len(Stretches(met))
           /\ \A r \in 1..Len(Stretches(met)) :
                 LET a == Stretches(met)[r].first
                     b == Stretches(met)[r].last
                 IN /\ a \in 1..Len(met) /\ b \in a..Len(met)
                    /\ \A d \in a..b : met[d] = met[a]
                    /\ Stretches(names)[r].first = V[a - 1] + 1
                    /\ Stretches(names)[r].last = V[b]
<1> DEFINE P == Places(met, Turns(met))
           Q == Places(names, Turns(names))
           R == Len(P)
           N == Len(met)
           A == [r \in 1..R |-> V[P[r] - 1] + 1]
<1>1. StretchesOf(met, P) /\ StretchesOf(names, Q) /\ N \in Nat /\ Len(names) \in Nat
  BY StretchesAre, LenProperties
<1> HIDE DEF P, Q
<1>2. /\ P \in Seq(Turns(met)) /\ R \in Nat /\ Turns(met) \in SUBSET (1..N)
      /\ \A a \in 1..R : \A b \in (a + 1)..R : P[a] < P[b]
      /\ \A p \in Turns(met) : \E a \in 1..R : P[a] = p
      /\ Len(Stretches(met)) = R
      /\ \A r \in 1..R : /\ Stretches(met)[r].first = P[r]
                         /\ Stretches(met)[r].last = IF r < R THEN P[r + 1] - 1 ELSE N
      /\ Lists(Q, Turns(names)) /\ Turns(names) \in SUBSET (1..Len(names))
  BY <1>1 DEF StretchesOf, Lists
<1>3. \A a \in 1..R : P[a] \in Turns(met) /\ P[a] \in 1..N
  BY <1>2, ElementOfSeq
<1>4. /\ \A c \in 0..N : V[c] \in Nat
      /\ \A c \in 0..N : \A d \in (c + 1)..N : V[c] < V[d]
      /\ V[N] = Len(names)
  BY SharesGrow DEF Shares
<1>5. /\ \A c \in Turns(met) : V[c - 1] + 1 \in Turns(names)
      /\ \A m \in Turns(names) : \E c \in Turns(met) : m = V[c - 1] + 1
  BY TurnsMeet
<1> HIDE DEF N, R
<1>6. A = Q
  <2>1. \A a \in 1..R : A[a] = V[P[a] - 1] + 1 /\ A[a] \in Turns(names)
    BY <1>3, <1>5
  <2>2. A \in Seq(Turns(names)) /\ Len(A) = R
    BY <1>2, <2>1
  <2>3. ASSUME NEW a \in 1..R, NEW b \in (a + 1)..R
        PROVE  A[a] < A[b]
    <3>1. b \in 1..R /\ P[a] < P[b] /\ P[a] \in 1..N /\ P[b] \in 1..N
      BY <1>2, <1>3
    <3>2. P[a] - 1 \in 0..N /\ P[b] - 1 \in ((P[a] - 1) + 1)..N /\ P[b] - 1 \in 0..N
      BY <1>1, <3>1, SMTT(60)
    <3>3. V[P[a] - 1] < V[P[b] - 1] /\ V[P[a] - 1] \in Nat /\ V[P[b] - 1] \in Nat
      BY <1>4, <3>2
    <3> QED BY <2>1, <3>1, <3>3, SMTT(60)
  <2>4. ASSUME NEW m \in Turns(names)
        PROVE  \E a \in 1..R : A[a] = m
    <3>1. PICK c \in Turns(met) : m = V[c - 1] + 1
      BY <1>5
    <3>2. PICK a \in 1..R : P[a] = c
      BY <1>2
    <3> QED BY <2>1, <3>1, <3>2
  <2> HIDE DEF A
  <2>5. Lists(A, Turns(names))
    BY <2>2, <2>3, <2>4 DEF Lists
  <2>6. Turns(names) \in SUBSET Nat
    BY <1>2
  <2> QED BY <1>2, <2>5, <2>6, ListsOnce
<1>7. Len(Q) = R /\ \A r \in 1..R : Q[r] = V[P[r] - 1] + 1
  BY <1>2, <1>6
<1>8. /\ Len(Stretches(names)) = R
      /\ \A r \in 1..R : /\ Stretches(names)[r].first = Q[r]
                         /\ Stretches(names)[r].last = IF r < R THEN Q[r + 1] - 1 ELSE Len(names)
  BY <1>1, <1>7 DEF StretchesOf
<1> HIDE DEF A
<1>9. ASSUME NEW r \in 1..R
      PROVE  LET a == Stretches(met)[r].first
                 b == Stretches(met)[r].last
             IN /\ a \in 1..N /\ b \in a..N
                /\ \A d \in a..b : met[d] = met[a]
                /\ Stretches(names)[r].first = V[a - 1] + 1
                /\ Stretches(names)[r].last = V[b]
  <2> DEFINE a == P[r]
             b == IF r < R THEN P[r + 1] - 1 ELSE N
  <2>1. a \in 1..N /\ b \in a..N
    <3>1. CASE r < R
      <4>1. r + 1 \in 1..R /\ r + 1 \in (r + 1)..R
        BY <1>2, <3>1
      <4>2. P[r] < P[r + 1] /\ P[r] \in 1..N /\ P[r + 1] \in 1..N
        BY <1>2, <1>3, <4>1
      <4> QED BY <1>1, <3>1, <4>2
    <3>2. CASE ~(r < R)
      BY <1>1, <1>3, <3>2
    <3> QED BY <3>1, <3>2
  <2>2. ASSUME NEW d \in (a + 1)..b
        PROVE  d \notin Turns(met)
    <3> SUFFICES ASSUME d \in Turns(met) PROVE FALSE
      OBVIOUS
    <3>1. PICK x \in 1..R : P[x] = d
      BY <1>2
    <3>2. P[r] < P[x] /\ P[r] \in Nat /\ P[x] \in Nat
      BY <1>1, <1>3, <2>1, <3>1
    <3>3. ~(x <= r)
      <4>1. x = r \/ x > r \/ r \in (x + 1)..R
        BY <1>2
      <4> QED BY <1>2, <3>2, <4>1
    <3>4. r < R /\ (x = r + 1 \/ x \in ((r + 1) + 1)..R) /\ r + 1 \in 1..R
      BY <1>2, <3>3
    <3>5. P[r + 1] <= P[x] /\ P[r + 1] \in Nat
      BY <1>2, <1>3, <3>2, <3>4, SMTT(60)
    <3>6. P[x] <= P[r + 1] - 1
      BY <3>1, <3>4, <2>1
    <3> QED BY <3>2, <3>5, <3>6
  <2>3. Stretches(names)[r].first = V[a - 1] + 1
    BY <1>7, <1>8
  <2>4. Stretches(names)[r].last = V[b]
    <3>1. CASE r < R
      <4>1. r + 1 \in 1..R /\ Q[r + 1] = V[P[r + 1] - 1] + 1 /\ P[r + 1] \in 1..N
        BY <1>2, <1>3, <1>7, <3>1, SMTT(60)
      <4>2. V[P[r + 1] - 1] \in Nat
        <5>1. P[r + 1] - 1 \in 0..N
          BY <1>1, <4>1
        <5> QED BY <1>4, <5>1
      <4>3. Stretches(names)[r].last = Q[r + 1] - 1 /\ b = P[r + 1] - 1
        BY <1>8, <3>1
      <4> QED BY <4>1, <4>2, <4>3
    <3>2. CASE ~(r < R)
      BY <1>4, <1>8, <3>2
    <3> QED BY <3>1, <3>2
  <2> HIDE DEF b, a
  <2>5. \A d \in a..b : met[d] = met[a]
    <3> DEFINE T == {n \in 0..(b - a) : met[a + n] = met[a]}
    <3>1. 0 \in T
      BY <1>1, <2>1
    <3>2. ASSUME NEW n \in 1..(b - a), n - 1 \in T
          PROVE  n \in T
      <4>1. a + n \in (a + 1)..b /\ (a + n) - 1 = a + (n - 1) /\ a + n # 1 /\ a + n \in 1..N
        BY <1>1, <2>1
      <4>2. a + n \notin Turns(met) /\ a + n \in DOMAIN met
        <5>1. DOMAIN met = 1..N
          BY LenProperties DEF N
        <5> QED BY <2>2, <4>1, <5>1 DEF a
      <4>3. met[a + n] = met[(a + n) - 1]
        BY <4>1, <4>2 DEF Turns
      <4> QED BY <3>2, <4>1, <4>3
    <3> HIDE DEF T
    <3>3. \A n \in 0..(b - a) : n \in T
      <4>1. b - a \in Nat
        BY <1>1, <2>1
      <4> QED BY <3>1, <3>2, <4>1, UpTo
    <3>4. ASSUME NEW d \in a..b
          PROVE  met[d] = met[a]
      <4>1. d - a \in 0..(b - a) /\ a + (d - a) = d
        BY <1>1, <2>1
      <4>2. met[a + (d - a)] = met[a]
        BY <3>3, <4>1 DEF T
      <4> QED BY <4>1, <4>2
    <3> QED BY <3>4
  <2>6. Stretches(met)[r].first = a /\ Stretches(met)[r].last = b
    BY <1>2 DEF a, b
  <2> QED BY <2>1, <2>3, <2>4, <2>5, <2>6
<1> QED BY <1>2, <1>8, <1>9 DEF N

\* A stretch's shares, one after another, are each as long as its first.
LEMMA SharesInStretch ==
    ASSUME NEW names \in Seq(STRING), NEW met \in Seq(STRING), NEW V, Shares(V, names, met),
           NEW a \in 1..Len(met), NEW b \in a..Len(met), \A d \in a..b : met[d] = met[a]
    PROVE  LET w == V[a] - V[a - 1]
           IN w \in Nat /\ w > 0 /\ \A d \in (a - 1)..b : V[d] = V[a - 1] + (d - (a - 1)) * w
<1> DEFINE N == Len(met)
           w == V[a] - V[a - 1]
<1>1. /\ N \in Nat /\ a \in 1..N /\ b \in a..N
      /\ \A c \in 0..N : V[c] \in Nat
      /\ \A c \in 1..N : V[c - 1] < V[c]
      /\ \A c \in 1..N : \A d \in 1..N : met[c] = met[d] => V[c] - V[c - 1] = V[d] - V[d - 1]
  BY LenProperties DEF Shares
<1> HIDE DEF N
<1>2. w \in Nat /\ w > 0
  <2>1. a - 1 \in 0..N /\ a \in 0..N
    BY <1>1
  <2>2. V[a - 1] \in Nat /\ V[a] \in Nat /\ V[a - 1] < V[a]
    BY <1>1, <2>1
  <2> QED BY <2>2
<1> DEFINE T == {n \in 0..(b - (a - 1)) : V[(a - 1) + n] = V[a - 1] + n * w}
<1>3. 0 \in T
  <2>1. (a - 1) + 0 = a - 1 /\ 0 \in 0..(b - (a - 1)) /\ a - 1 \in 0..N
    BY <1>1
  <2>2. V[a - 1] \in Nat /\ 0 * w = 0
    BY <1>1, <1>2, <2>1
  <2> HIDE DEF w
  <2>3. V[(a - 1) + 0] = V[a - 1] + 0 * w
    BY <2>1, <2>2
  <2> QED BY <2>1, <2>3
<1>4. ASSUME NEW n \in 1..(b - (a - 1)), n - 1 \in T
      PROVE  n \in T
  <2>1. /\ (a - 1) + n \in 1..N /\ (a - 1) + n \in a..b /\ n \in Nat /\ n - 1 \in Nat
        /\ ((a - 1) + n) - 1 = (a - 1) + (n - 1) /\ ((a - 1) + n) - 1 \in 0..N
        /\ n \in 0..(b - (a - 1)) /\ a - 1 \in 0..N
    BY <1>1
  <2>2. met[(a - 1) + n] = met[a]
    BY <2>1
  <2>3. V[(a - 1) + n] - V[((a - 1) + n) - 1] = w
    BY <1>1, <2>1, <2>2
  <2>4. V[(a - 1) + (n - 1)] = V[a - 1] + (n - 1) * w
    BY <1>4
  <2>5. V[(a - 1) + n] \in Nat /\ V[((a - 1) + n) - 1] \in Nat /\ V[a - 1] \in Nat
    <3>1. (a - 1) + n \in 0..N
      BY <1>1, <2>1
    <3> QED BY <1>1, <2>1, <3>1
  <2> HIDE DEF w, T
  <2>6. (n - 1) * w + w = n * w /\ (n - 1) * w \in Int /\ n * w \in Int
    BY <1>2, <2>1
  <2>7. V[(a - 1) + n] = V[a - 1] + n * w
    <3> DEFINE x == (n - 1) * w
               y == n * w
               u == V[(a - 1) + n]
               v == V[((a - 1) + n) - 1]
               z == V[a - 1]
    <3>1. v = z + x /\ u - v = w /\ x + w = y
      BY <2>1, <2>3, <2>4, <2>6
    <3>2. x \in Int /\ y \in Int /\ u \in Nat /\ v \in Nat /\ z \in Nat
      BY <2>5, <2>6
    <3> HIDE DEF x, y, u, v, z
    <3>3. u = z + y
      BY <1>2, <3>1, <3>2
    <3> QED BY <3>3 DEF u, z, y
  <2> QED BY <2>1, <2>7 DEF T
<1> HIDE DEF T, w
<1>5. \A n \in 0..(b - (a - 1)) : n \in T
  <2>1. b - (a - 1) \in Nat
    BY <1>1
  <2> QED BY <1>3, <1>4, <2>1, UpTo
<1>6. ASSUME NEW d \in (a - 1)..b
      PROVE  V[d] = V[a - 1] + (d - (a - 1)) * w
  <2>1. d - (a - 1) \in 0..(b - (a - 1)) /\ (a - 1) + (d - (a - 1)) = d
    BY <1>1
  <2>2. V[(a - 1) + (d - (a - 1))] = V[a - 1] + (d - (a - 1)) * w
    BY <1>5, <2>1 DEF T
  <2> QED BY <2>1, <2>2
<1> QED BY <1>2, <1>6 DEF w

\* The even division gives each call its share, and ends where it does.
LEMMA EvenShares ==
    ASSUME NEW seq \in Seq(Ops), \A p \in IssuedAt(seq) : seq[p].chain # <<>>,
           NEW met \in Seq(STRING), NEW V, Shares(V, OpNames(seq), met)
    PROVE  \A c \in 1..Len(met) :
              /\ V[c] \in 1..Len(Issued(seq))
              /\ CallPositions(seq, met)[c] = SubSeq(Issued(seq), V[c - 1] + 1, V[c])
<1> DEFINE names == OpNames(seq)
           issued == Issued(seq)
           ops == Stretches(OpNames(seq))
           call == Stretches(met)
           stretch(c) == CHOOSE r \in DOMAIN call : c \in call[r].first..call[r].last
           k(r) == Size(ops[r]) \div Size(call[r])
           first(c, r) == ops[r].first + (c - call[r].first) * k(r)
           N == Len(met)
<1>1. names \in Seq(STRING) /\ Len(names) = Len(issued)
  BY IssuedLists
<1>2. N \in Nat /\ DOMAIN met = 1..N /\ Len(names) \in Nat
  BY <1>1, LenProperties
<1>3. CallPositions(seq, met)
          = [c \in DOMAIN met |->
                SubSeq(issued, first(c, stretch(c)), first(c, stretch(c)) + k(stretch(c)) - 1)]
  BY DEF CallPositions
<1>4. DOMAIN call = 1..Len(call)
  BY StretchesAre DEF StretchesOf
<1> HIDE DEF issued
<1>5. \A r \in 1..Len(call) :
          /\ call[r].first \in 1..N /\ call[r].last \in call[r].first..N
          /\ \A d \in call[r].first..call[r].last : met[d] = met[call[r].first]
          /\ ops[r].first = V[call[r].first - 1] + 1
          /\ ops[r].last = V[call[r].last]
  BY <1>1, StretchShares
<1> HIDE DEF call, ops, names
<1>6. ASSUME NEW c \in 1..N
      PROVE  /\ V[c] \in 1..Len(issued)
             /\ CallPositions(seq, met)[c] = SubSeq(issued, V[c - 1] + 1, V[c])
  <2> DEFINE r == stretch(c)
  <2>1. r \in 1..Len(call) /\ c \in call[r].first..call[r].last
    <3>1. \E x \in DOMAIN call : c \in call[x].first..call[x].last
      BY <1>4, InAStretch DEF call
    <3> QED BY <1>4, <3>1
  <2> HIDE DEF stretch
  <2> DEFINE a == call[r].first
             b == call[r].last
             w == V[a] - V[a - 1]
  <2>2. a \in 1..N /\ b \in a..N /\ \A d \in a..b : met[d] = met[a]
    BY <1>5, <2>1
  <2> HIDE DEF r
  <2>3. w \in Nat /\ w > 0 /\ \A d \in (a - 1)..b : V[d] = V[a - 1] + (d - (a - 1)) * w
    <3> HIDE DEF a, b
    <3> QED BY <1>1, <2>2, SharesInStretch DEF names
  <2>4. ops[r].first = V[a - 1] + 1 /\ ops[r].last = V[b]
    BY <1>5, <2>1 DEF r
  <2>5. c \in a..b
    BY <2>1 DEF r
  <2>6. V[a - 1] \in Nat
    <3>1. a - 1 \in 0..Len(met)
      BY <1>2, <2>2
    <3> QED BY <1>1, <3>1, SharesGrow DEF names
  <2>7. Size(call[r]) = b - (a - 1) /\ Size(ops[r]) = V[b] - V[a - 1]
    <3>1. Size(call[r]) = b - a + 1 /\ Size(ops[r]) = V[b] - (V[a - 1] + 1) + 1
      BY <2>4 DEF Size
    <3>2. V[b] \in Nat
      <4>1. b \in 0..Len(met)
        BY <1>2, <2>2
      <4> QED BY <1>1, <4>1, SharesGrow DEF names
    <3> DEFINE x == V[b]
               y == V[a - 1]
    <3> HIDE DEF a, b, x, y
    <3>3. x \in Nat /\ y \in Nat /\ a \in Nat /\ b \in Nat
      BY <1>2, <2>2, <2>6, <3>2 DEF x, y
    <3>4. b - a + 1 = b - (a - 1) /\ x - (y + 1) + 1 = x - y
      BY <3>3
    <3> QED BY <3>1, <3>4 DEF x, y
  <2> HIDE DEF a, b, w
  <2>8. k(r) = w
    <3> DEFINE n == b - (a - 1)
    <3>1. n \in Nat /\ n > 0 /\ b \in (a - 1)..b
      BY <1>2, <2>2
    <3>2. V[b] = V[a - 1] + n * w
      BY <2>3, <3>1
    <3> HIDE DEF n
    <3>3. n * w \in Int
      BY <2>3, <3>1
    <3>4. Size(ops[r]) = n * w /\ Size(call[r]) = n
      BY <2>6, <2>7, <3>2, <3>3 DEF n
    <3> QED BY <2>3, <3>1, <3>4, EvenQuotient
  <2>9. /\ V[c - 1] = V[a - 1] + (c - a) * w /\ V[c] = V[a - 1] + ((c - a) + 1) * w
        /\ c - a \in Nat
    <3>1. /\ c - 1 \in (a - 1)..b /\ c \in (a - 1)..b /\ (c - 1) - (a - 1) = c - a
          /\ c - (a - 1) = (c - a) + 1 /\ c - a \in Nat
      BY <1>2, <2>2, <2>5
    <3> QED BY <2>3, <3>1
  <2>10. first(c, r) = V[c - 1] + 1 /\ first(c, r) + k(r) - 1 = V[c]
    <3>1. first(c, r) = (V[a - 1] + 1) + (c - a) * w
      BY <2>4, <2>8 DEF a
    <3>2. (c - a) * w \in Int /\ ((c - a) + 1) * w = (c - a) * w + w
      BY <2>3, <2>9
    <3> DEFINE x == (c - a) * w
               y == ((c - a) + 1) * w
               u == V[c - 1]
               v == V[c]
               z == V[a - 1]
               f == first(c, r)
    <3>3. /\ f = (z + 1) + x /\ x \in Int /\ y = x + w /\ u = z + x /\ v = z + y /\ z \in Nat
          /\ w \in Nat
      BY <2>3, <2>6, <2>9, <3>1, <3>2
    <3> HIDE DEF x, y, u, v, z, f
    <3>4. f = u + 1 /\ f + w - 1 = v
      BY <3>3
    <3> QED BY <2>8, <3>4, Zenon DEF f, u, v
  <2>11. CallPositions(seq, met)[c] = SubSeq(issued, first(c, r), first(c, r) + k(r) - 1)
    <3> HIDE DEF first, k
    <3> QED BY <1>2, <1>3, Zenon DEF r
  <2> HIDE DEF N, k, first
  <2>12. V[c] \in 1..Len(issued)
    <3>1. c - 1 \in 0..N /\ c \in 0..N /\ (c = N \/ N \in (c + 1)..N)
      BY <1>2
    <3>2. /\ V[c - 1] \in Nat /\ V[c] \in Nat /\ V[c - 1] < V[c] /\ V[N] = Len(names)
          /\ c = N \/ V[c] < V[N]
      BY <1>1, <3>1, SharesGrow DEF Shares, names, N
    <3> QED BY <1>1, <1>2, <3>2
  <2> QED BY <2>10, <2>11, <2>12
<1> QED BY <1>6 DEF issued, N

(***************************************************************************)
(* The calls of a path that is Uniform: each that issues work is seen once *)
(* and ends with an operation it issued.                                   *)
(***************************************************************************)
\* Between two places there are as many of K as the counts differ.
LEMMA CountsBetween ==
    ASSUME NEW N \in Nat, NEW K, NEW e, Counts(e, K, N), NEW a \in 0..N, NEW n \in 0..(N - a)
    PROVE  /\ IsFiniteSet({k \in 1..n : a + k \in K})
           /\ e[a + n] = e[a] + Cardinality({k \in 1..n : a + k \in K})
<1> DEFINE B(x) == {k \in 1..x : a + k \in K}
           T == {x \in 0..(N - a) : IsFiniteSet(B(x)) /\ e[a + x] = e[a] + Cardinality(B(x))}
<1>1. /\ \A x \in 0..N : e[x] \in Nat
      /\ \A x \in 1..N : e[x] = IF x \in K THEN e[x - 1] + 1 ELSE e[x - 1]
  BY DEF Counts
<1>2. 0 \in T
  <2>1. B(0) = {} /\ a + 0 = a
    OBVIOUS
  <2> HIDE DEF B
  <2>2. IsFiniteSet(B(0)) /\ Cardinality(B(0)) = 0
    BY <2>1, FS_EmptySet
  <2> QED BY <1>1, <2>1, <2>2
<1>3. ASSUME NEW x \in 1..(N - a), x - 1 \in T
      PROVE  x \in T
  <2>1. a + x \in 1..N /\ (a + x) - 1 = a + (x - 1) /\ a \in 0..N
    OBVIOUS
  <2>2. IsFiniteSet(B(x - 1)) /\ e[a + (x - 1)] = e[a] + Cardinality(B(x - 1))
    BY <1>3
  <2>3. CASE a + x \in K
    <3>1. B(x) = B(x - 1) \cup {x} /\ x \notin B(x - 1)
      BY <2>3
    <3> HIDE DEF B
    <3>2. /\ IsFiniteSet(B(x)) /\ Cardinality(B(x)) = Cardinality(B(x - 1)) + 1
          /\ Cardinality(B(x - 1)) \in Nat
      BY <2>2, <3>1, FS_AddElement, FS_CardinalityType
    <3>3. e[a + x] = e[a + (x - 1)] + 1
      BY <1>1, <2>1, <2>3
    <3> QED BY <1>1, <2>1, <2>2, <3>2, <3>3
  <2>4. CASE a + x \notin K
    <3>1. B(x) = B(x - 1)
      BY <2>4
    <3> HIDE DEF B
    <3>2. e[a + x] = e[a + (x - 1)]
      BY <1>1, <2>1, <2>4
    <3> QED BY <2>2, <3>1, <3>2
  <2> QED BY <2>3, <2>4
<1> HIDE DEF T
<1>4. \A x \in 0..(N - a) : x \in T
  <2>1. N - a \in Nat
    OBVIOUS
  <2> QED BY <1>2, <1>3, <2>1, UpTo
<1> QED BY <1>4 DEF T

\* The places of K in seq are told by the counts, and the other way.
LEMMA PlacesCounted ==
    ASSUME NEW S, NEW seq \in Seq(S), NEW K \in SUBSET (1..Len(seq))
    PROVE  \E e : /\ Counts(e, K, Len(seq)) /\ Len(Places(seq, K)) = e[Len(seq)]
                  /\ \A n \in K : /\ e[n] \in 1..Len(Places(seq, K))
                                  /\ Places(seq, K)[e[n]] = n
                  /\ \A a \in 1..Len(Places(seq, K)) :
                        /\ Places(seq, K)[a] \in K /\ e[Places(seq, K)[a]] = a
<1> DEFINE N == Len(seq)
           ids == [n \in DOMAIN seq |-> n]
           P == Kept(ids, K)
<1>1. N \in Nat /\ DOMAIN seq = 1..N
  BY LenProperties
<1>2. ids \in Seq(1..N) /\ Len(ids) = N /\ \A n \in 1..N : ids[n] = n
  BY <1>1
<1>3. Places(seq, K) = P
  BY DEF Places
<1> HIDE DEF ids, N
<1>4. P \in Seq(1..N) /\ \E e : Counted(P, ids, K, Len(ids), e)
  BY <1>2, KeptCounts, Zenon
<1> HIDE DEF P
<1>5. PICK e : Counted(P, ids, K, N, e)
  BY <1>2, <1>4
<1>6. /\ Counts(e, K, N) /\ Len(P) = e[N]
      /\ \A n \in 1..N : n \in K => P[e[n]] = n
      /\ \A p \in 1..Len(P) : \E n \in 1..N : n \in K /\ p = e[n]
  BY <1>2, <1>5 DEF Counted
<1>7. \A n \in K : n \in 1..N
  BY DEF N
<1>8. ASSUME NEW n \in K
      PROVE  e[n] \in 1..Len(P) /\ P[e[n]] = n
  <2>1. /\ e[0] = 0 /\ 0 \in 0..N /\ n \in (0 + 1)..N /\ n \in 0..N /\ N \in n..N
        /\ \A x \in 0..N : e[x] \in Nat
    BY <1>1, <1>6, <1>7 DEF Counts
  <2>2. e[0] < e[n] /\ e[n] <= e[N]
    BY <1>1, <1>6, <2>1, CountsGrow
  <2>3. e[n] \in Nat /\ e[N] \in Nat
    BY <1>1, <2>1
  <2> QED BY <1>6, <1>7, <2>1, <2>2, <2>3
<1>9. ASSUME NEW a \in 1..Len(P)
      PROVE  P[a] \in K /\ e[P[a]] = a
  <2>1. PICK n \in 1..N : n \in K /\ a = e[n]
    BY <1>6
  <2>2. P[a] = n
    BY <1>8, <2>1
  <2> QED BY <2>1, <2>2
<1> QED BY <1>3, <1>6, <1>8, <1>9 DEF N

Given(path) == [i \in DOMAIN path |-> OpsOf(path[i], i)]
Showing(path, names) == [i \in DOMAIN path |-> Shown(path[i], names)]
Seen(path) == Showing(path, Names(Recorded(path)))
Work(path, i) == {k \in DOMAIN Given(path)[i] : IsIssue(Given(path)[i][k])}

\* What Uniform says, and where each event's operations and calls are.
LEMMA UniformFacts ==
    ASSUME NEW path \in Seq(Events), Uniform(path)
    PROVE  LET seq == Recorded(path)
               met == Observed(path, Names(seq))
               G == Given(path)
               C == Seen(path)
               N == Len(path)
           IN /\ N \in Nat /\ seq \in Seq(Ops) /\ met \in Seq(STRING)
              /\ \A p \in IssuedAt(seq) : seq[p].chain # <<>>
              /\ \A i \in 0..N : End(G, i) \in 0..Len(seq) /\ End(C, i) \in 0..Len(met)
              /\ End(G, 0) = 0 /\ End(G, N) = Len(seq) /\ End(C, 0) = 0 /\ End(C, N) = Len(met)
              /\ \A i \in 1..N :
                    /\ G[i] = OpsOf(path[i], i) /\ C[i] = Shown(path[i], Names(seq))
                    /\ Len(G[i]) \in Nat /\ DOMAIN G[i] = 1..Len(G[i]) /\ C[i] \in Seq(STRING)
                    /\ End(G, i) = End(G, i - 1) + Len(G[i])
                    /\ \A k \in 1..Len(G[i]) : seq[End(G, i - 1) + k] = G[i][k]
                    /\ Work(path, i) = {} => C[i] = <<>> /\ End(C, i) = End(C, i - 1)
                    /\ Work(path, i) # {} =>
                          /\ Len(C[i]) = 1 /\ End(C, i) = End(C, i - 1) + 1
                          /\ C[i] = <<met[End(C, i)]>> /\ Len(G[i]) \in Work(path, i)
                    /\ \A k \in Work(path, i) : C[i] = <<AtenOp(G[i][k])>>
                    /\ \A j \in 1..N : C[i] = C[j] =>
                          Cardinality(Work(path, i)) = Cardinality(Work(path, j))
              /\ \A p \in 1..Len(seq) :
                     \E i \in 1..N : \E k \in 1..Len(G[i]) : p = End(G, i - 1) + k
<1> DEFINE seq == Recorded(path)
           met == Observed(path, Names(seq))
           G == Given(path)
           C == Seen(path)
           N == Len(path)
<1>1. N \in Nat /\ DOMAIN path = 1..N
  BY LenProperties
<1>2. /\ G \in Seq(Seq(Ops)) /\ Len(G) = N /\ seq \in Seq(Ops)
      /\ \A p \in IssuedAt(seq) : seq[p].chain # <<>>
  BY RecordedTypes DEF Given
<1>3. C \in Seq(Seq(STRING)) /\ Len(C) = N
  BY ShownTypes DEF Seen, Showing
<1>4. \A i \in 1..N : G[i] = OpsOf(path[i], i) /\ C[i] = Shown(path[i], Names(seq))
  BY <1>1 DEF Given, Seen, Showing
<1>5. seq = FlattenSeq(G) /\ met = FlattenSeq(C)
  BY DEF Recorded, Observed, Given, Seen, Showing
<1>6. \A i, j \in 1..N :
          /\ C[i] # <<>> => Work(path, i) # {}
          /\ \A k \in Work(path, i) : C[i] = <<AtenOp(G[i][k])>>
          /\ Work(path, i) # {} => Len(G[i]) \in Work(path, i)
          /\ C[i] = C[j] => Cardinality(Work(path, i)) = Cardinality(Work(path, j))
  <2>1. \A i, j \in 1..N :
          /\ Shown(path[i], Names(seq)) # <<>> => Work(path, i) # {}
          /\ \A k \in Work(path, i) : Shown(path[i], Names(seq)) = <<AtenOp(OpsOf(path[i], i)[k])>>
          /\ Work(path, i) # {} => Len(OpsOf(path[i], i)) \in Work(path, i)
          /\ Shown(path[i], Names(seq)) = Shown(path[j], Names(seq)) =>
                Cardinality(Work(path, i)) = Cardinality(Work(path, j))
    <3>1. \A i \in 1..N : Work(path, i)
              = {k \in DOMAIN OpsOf(path[i], i) : IsIssue(OpsOf(path[i], i)[k])}
      BY <1>4 DEF Work
    <3> QED BY <1>1, <3>1 DEF Uniform
  <2> QED BY <1>4, <2>1
<1> HIDE DEF N, seq, met, G, C
<1>7. /\ \A i \in 0..N : End(G, i) \in 0..Len(seq)
      /\ End(G, 0) = 0 /\ End(G, N) = Len(seq) /\ Len(seq) \in Nat
      /\ \A i \in 1..N : /\ End(G, i) = End(G, i - 1) + Len(G[i]) /\ Len(G[i]) \in Nat
                         /\ \A k \in 1..Len(G[i]) : seq[End(G, i - 1) + k] = G[i][k]
      /\ \A p \in 1..Len(seq) :
             \E i \in 1..N : \E k \in 1..Len(G[i]) : p = End(G, i - 1) + k
  <2>1. /\ \A i \in 0..Len(G) : End(G, i) \in Nat
        /\ End(G, 0) = 0 /\ End(G, Len(G)) = Len(FlattenSeq(G))
        /\ \A i \in 1..Len(G) : End(G, i) = End(G, i - 1) + Len(G[i]) /\ Len(G[i]) \in Nat
        /\ \A i \in 0..Len(G) : End(G, i) <= Len(FlattenSeq(G))
    BY <1>2, <1>5, FlattenIndex
  <2>2. /\ \A i \in 1..Len(G) : \A k \in 1..Len(G[i]) : FlattenSeq(G)[End(G, i - 1) + k] = G[i][k]
        /\ \A p \in 1..Len(FlattenSeq(G)) :
               \E i \in 1..Len(G) : \E k \in 1..Len(G[i]) : p = End(G, i - 1) + k
    BY <1>2, <1>5, FlattenIndex
  <2>3. Len(seq) \in Nat
    BY <1>2, <1>5, LenProperties
  <2> QED BY <1>2, <1>5, <2>1, <2>2, <2>3
<1>8. /\ \A i \in 0..N : End(C, i) \in 0..Len(met)
      /\ End(C, 0) = 0 /\ End(C, N) = Len(met) /\ met \in Seq(STRING)
      /\ \A i \in 1..N : /\ End(C, i) = End(C, i - 1) + Len(C[i]) /\ Len(C[i]) \in Nat
                         /\ \A k \in 1..Len(C[i]) : met[End(C, i - 1) + k] = C[i][k]
  <2>1. /\ met \in Seq(STRING)
        /\ \A i \in 0..N : End(C, i) \in Nat /\ End(C, i) <= Len(met)
        /\ End(C, 0) = 0 /\ End(C, N) = Len(met)
        /\ \A i \in 1..N : End(C, i) = End(C, i - 1) + Len(C[i]) /\ Len(C[i]) \in Nat
        /\ \A i \in 1..N : \A k \in 1..Len(C[i]) : met[End(C, i - 1) + k] = C[i][k]
    <3>1. /\ FlattenSeq(C) \in Seq(STRING)
          /\ \A n \in 0..Len(C) : End(C, n) \in Nat
          /\ End(C, 0) = 0 /\ End(C, Len(C)) = Len(FlattenSeq(C))
          /\ \A n \in 1..Len(C) : /\ End(C, n) = End(C, n - 1) + Len(C[n])
                                  /\ Len(C[n]) \in Nat
          /\ \A n \in 0..Len(C) : End(C, n) <= Len(FlattenSeq(C))
          /\ \A n \in 1..Len(C) : \A k \in 1..Len(C[n]) :
                 FlattenSeq(C)[End(C, n - 1) + k] = C[n][k]
      BY <1>3, FlattenIndex, Zenon
    <3> QED BY <1>3, <1>5, <3>1, Zenon
  <2>2. Len(met) \in Nat
    BY <2>1, LenProperties
  <2> QED BY <2>1, <2>2
<1>9. ASSUME NEW i \in 1..N
      PROVE  /\ DOMAIN G[i] = 1..Len(G[i]) /\ C[i] \in Seq(STRING)
             /\ Work(path, i) = {} => C[i] = <<>> /\ End(C, i) = End(C, i - 1)
             /\ Work(path, i) # {} =>
                   /\ Len(C[i]) = 1 /\ End(C, i) = End(C, i - 1) + 1
                   /\ C[i] = <<met[End(C, i)]>>
  <2>1. DOMAIN G[i] = 1..Len(G[i]) /\ C[i] \in Seq(STRING)
    BY <1>2, <1>3, ElementOfSeq, LenProperties
  <2>2. i - 1 \in 0..N
    BY <1>1
  <2>3. CASE Work(path, i) = {}
    <3>1. C[i] = <<>> /\ Len(C[i]) = 0 /\ End(C, i - 1) \in Nat
      BY <1>6, <1>8, <2>2, <2>3
    <3>2. End(C, i) = End(C, i - 1)
      BY <1>8, <3>1
    <3> QED BY <2>1, <2>3, <3>1, <3>2
  <2>4. CASE Work(path, i) # {}
    <3>1. PICK k \in Work(path, i) : C[i] = <<AtenOp(G[i][k])>>
      BY <1>6, <2>4
    <3>2. Len(C[i]) = 1 /\ C[i] = <<C[i][1]>>
      BY <3>1
    <3>3. End(C, i) = End(C, i - 1) + 1 /\ met[End(C, i - 1) + 1] = C[i][1]
      <4>1. 1 \in 1..Len(C[i])
        BY <3>2
      <4> QED BY <1>8, <3>2, <4>1, Zenon
    <3> QED BY <2>1, <2>4, <3>2, <3>3
  <2> QED BY <2>3, <2>4
<1>10. \A i \in 1..N : i \in 1..N /\ \A k \in Work(path, i) : k \in 1..Len(G[i])
  BY <1>9 DEF Work, G
<1> QED BY <1>1, <1>2, <1>4, <1>6, <1>7, <1>8, <1>9 DEF N, seq, met, G, C

\* On a path that is Uniform what call_positions gives the call of an event
\* ends where the event does, and each call is of an event that issues work.
LEMMA CallsEnd ==
    ASSUME NEW path \in Seq(Events), Uniform(path)
    PROVE  LET seq == Recorded(path)
               met == Observed(path, Names(seq))
           IN /\ \A i \in 1..Len(path) :
                    Work(path, i) # {} =>
                       /\ End(Seen(path), i) \in 1..Len(met)
                       /\ Last(CallPositions(seq, met)[End(Seen(path), i)]) = End(Given(path), i)
              /\ \A c \in 1..Len(met) :
                    \E i \in 1..Len(path) : Work(path, i) # {} /\ c = End(Seen(path), i)
<1> DEFINE seq == Recorded(path)
           names == OpNames(seq)
           met == Observed(path, Names(seq))
           G == Given(path)
           C == Seen(path)
           N == Len(path)
           M == Len(met)
           W == {i \in 1..N : Work(path, i) # {}}
           I == Issued(seq)
<1>1. /\ N \in Nat /\ seq \in Seq(Ops) /\ met \in Seq(STRING)
      /\ \A p \in IssuedAt(seq) : seq[p].chain # <<>>
      /\ \A i \in 0..N : End(G, i) \in 0..Len(seq) /\ End(C, i) \in 0..M
      /\ End(G, 0) = 0 /\ End(G, N) = Len(seq) /\ End(C, 0) = 0 /\ End(C, N) = M
      /\ \A i \in 1..N :
            /\ Len(G[i]) \in Nat /\ DOMAIN G[i] = 1..Len(G[i])
            /\ End(G, i) = End(G, i - 1) + Len(G[i])
            /\ \A k \in 1..Len(G[i]) : seq[End(G, i - 1) + k] = G[i][k]
            /\ Work(path, i) = {} => End(C, i) = End(C, i - 1)
            /\ Work(path, i) # {} =>
                  /\ End(C, i) = End(C, i - 1) + 1
                  /\ C[i] = <<met[End(C, i)]>> /\ Len(G[i]) \in Work(path, i)
            /\ \A k \in Work(path, i) : C[i] = <<AtenOp(G[i][k])>>
            /\ \A j \in 1..N : C[i] = C[j] =>
                  Cardinality(Work(path, i)) = Cardinality(Work(path, j))
      /\ \A p \in 1..Len(seq) :
             \E i \in 1..N : \E k \in 1..Len(G[i]) : p = End(G, i - 1) + k
  BY UniformFacts
<1>2. /\ M \in Nat /\ Len(seq) \in Nat /\ \A i \in 1..N : i - 1 \in 0..N /\ i \in 0..N
      /\ DOMAIN seq = 1..Len(seq)
  BY <1>1, LenProperties
<1> HIDE DEF seq, met, G, C, N, M, names
\* calls are counted by the events that issue work
<1>3. PICK Q : /\ \A i \in W : Q[End(C, i)] = i /\ End(C, i) \in 1..M
               /\ \A c \in 1..M : Q[c] \in W /\ End(C, Q[c]) = c
  <2> DEFINE q == Places(path, W)
             e == [i \in 0..N |-> End(C, i)]
  <2>1. Counts(e, W, N)
    <3>1. e \in [0..N -> Nat] /\ e[0] = 0
      BY <1>1, <1>2
    <3>2. ASSUME NEW i \in 1..N
          PROVE  e[i] = IF i \in W THEN e[i - 1] + 1 ELSE e[i - 1]
      <4>1. e[i] = End(C, i) /\ e[i - 1] = End(C, i - 1)
        BY <1>2
      <4> HIDE DEF e
      <4> QED BY <1>1, <4>1
    <3> HIDE DEF e
    <3> QED BY <3>1, <3>2 DEF Counts
  <2>2. PICK d : /\ Counts(d, W, N) /\ Len(q) = d[N]
                 /\ \A n \in W : d[n] \in 1..Len(q) /\ q[d[n]] = n
                 /\ \A a \in 1..Len(q) : q[a] \in W /\ d[q[a]] = a
    <3>1. W \in SUBSET (1..Len(path))
      BY DEF N
    <3> HIDE DEF W
    <3> QED BY <3>1, PlacesCounted, Zenon DEF N
  <2>3. \A i \in 0..N : d[i] = End(C, i)
    <3> HIDE DEF e
    <3>1. \A i \in 0..N : d[i] = e[i]
      BY <1>1, <2>1, <2>2, CountsOnce
    <3> QED BY <3>1 DEF e
  <2>4. Len(q) = M /\ \A i \in W : i \in 0..N
    <3>1. N \in 0..N
      BY <1>1
    <3> QED BY <1>1, <1>2, <2>2, <2>3, <3>1
  <2> HIDE DEF q, W
  <2>5. \A i \in W : q[End(C, i)] = i /\ End(C, i) \in 1..M
    BY <2>2, <2>3, <2>4
  <2>6. \A c \in 1..M : q[c] \in W /\ End(C, q[c]) = c
    BY <2>2, <2>3, <2>4
  <2> QED BY <2>5, <2>6
\* issued operations are counted by the places before them
<1>4. PICK f : /\ Counts(f, IssuedAt(seq), Len(seq)) /\ Len(I) = f[Len(seq)]
               /\ \A p \in IssuedAt(seq) : f[p] \in 1..Len(I) /\ I[f[p]] = p
               /\ \A m \in 1..Len(I) : I[m] \in IssuedAt(seq) /\ f[I[m]] = m
  <2>1. IssuedAt(seq) \in SUBSET (1..Len(seq))
    BY <1>2 DEF IssuedAt
  <2>2. I = Places(seq, IssuedAt(seq)) /\ seq \in Seq(Ops)
    BY <1>1 DEF Issued
  <2>3. \E x : /\ Counts(x, IssuedAt(seq), Len(seq)) /\ Len(Places(seq, IssuedAt(seq))) = x[Len(seq)]
               /\ \A p \in IssuedAt(seq) : /\ x[p] \in 1..Len(Places(seq, IssuedAt(seq)))
                                           /\ Places(seq, IssuedAt(seq))[x[p]] = p
               /\ \A m \in 1..Len(Places(seq, IssuedAt(seq))) :
                     /\ Places(seq, IssuedAt(seq))[m] \in IssuedAt(seq)
                     /\ x[Places(seq, IssuedAt(seq))[m]] = m
    BY <2>1, <2>2, PlacesCounted, Zenon
  <2> QED BY <2>3 DEF Issued
<1> DEFINE u(i) == f[End(G, i)]
           V == [c \in 0..M |-> IF c = 0 THEN 0 ELSE u(Q[c])]
<1>5. /\ \A p \in 0..Len(seq) : f[p] \in Nat
      /\ f[0] = 0
      /\ \A m \in 0..Len(seq) : \A n \in m..Len(seq) : f[m] <= f[n]
      /\ \A m \in 0..Len(seq) : \A n \in (m + 1)..Len(seq) : n \in IssuedAt(seq) => f[m] < f[n]
  BY <1>2, <1>4, CountsGrow DEF Counts
<1>6. \A i \in 0..N : u(i) \in Nat
  BY <1>1, <1>5
<1>7. ASSUME NEW i \in 1..N
      PROVE  /\ u(i) = u(i - 1) + Cardinality(Work(path, i))
             /\ Cardinality(Work(path, i)) \in Nat /\ IsFiniteSet(Work(path, i))
  <2> DEFINE a == End(G, i - 1)
             n == Len(G[i])
             B == {k \in 1..n : a + k \in IssuedAt(seq)}
  <2>1. a \in 0..Len(seq) /\ n \in Nat /\ a + n = End(G, i) /\ a + n \in 0..Len(seq)
    BY <1>1, <1>2
  <2>2. n \in 0..(Len(seq) - a)
    BY <1>2, <2>1
  <2>3. IsFiniteSet(B) /\ f[a + n] = f[a] + Cardinality(B)
    <3>1. Len(seq) \in Nat /\ Counts(f, IssuedAt(seq), Len(seq))
      BY <1>2, <1>4
    <3> HIDE DEF a, n
    <3> DEFINE K == IssuedAt(seq)
               L == Len(seq)
    <3>2. L \in Nat /\ Counts(f, K, L) /\ a \in 0..L /\ n \in 0..(L - a)
      BY <2>1, <2>2, <3>1
    <3> HIDE DEF K, L
    <3>3. /\ IsFiniteSet({k \in 1..n : a + k \in K})
          /\ f[a + n] = f[a] + Cardinality({k \in 1..n : a + k \in K})
      BY <3>2, CountsBetween
    <3> QED BY <3>3 DEF K
  <2>4. B = Work(path, i)
    <3>1. \A k \in 1..n : a + k \in 1..Len(seq)
      BY <1>2, <2>1
    <3>2. \A k \in 1..n : a + k \in IssuedAt(seq) <=> IsIssue(G[i][k])
      BY <1>1, <1>2, <3>1 DEF IssuedAt
    <3>3. Work(path, i) = {k \in 1..n : IsIssue(G[i][k])}
      BY <1>1 DEF Work, G
    <3> QED BY <3>2, <3>3
  <2> HIDE DEF B
  <2>5. Cardinality(Work(path, i)) \in Nat
    BY <2>3, <2>4, FS_CardinalityType
  <2> QED BY <2>1, <2>3, <2>4, <2>5
<1> HIDE DEF u
<1>8. \A c \in 0..M : V[c] = IF c = 0 THEN 0 ELSE u(Q[c])
  OBVIOUS
<1> HIDE DEF V
<1>9. \A i \in 0..N : u(i) = V[End(C, i)]
  <2> DEFINE T == {i \in 0..N : u(i) = V[End(C, i)]}
  <2>1. 0 \in T
    <3>1. u(0) = 0 /\ End(C, 0) = 0 /\ 0 \in 0..N /\ 0 \in 0..M
      BY <1>1, <1>2, <1>5 DEF u
    <3> QED BY <1>8, <3>1
  <2>2. ASSUME NEW i \in 1..N, i - 1 \in T
        PROVE  i \in T
    <3>1. CASE Work(path, i) = {}
      <4>1. u(i) = u(i - 1) /\ End(C, i) = End(C, i - 1)
        <5>1. Cardinality(Work(path, i)) = 0
          BY <3>1, FS_EmptySet
        <5>2. u(i) = u(i - 1) + 0 /\ u(i - 1) \in Nat
          BY <1>2, <1>6, <1>7, <5>1
        <5>3. End(C, i) = End(C, i - 1)
          BY <1>1, <3>1, Zenon
        <5> QED BY <5>2, <5>3
      <4> QED BY <1>2, <2>2, <4>1
    <3>2. CASE Work(path, i) # {}
      <4>1. Q[End(C, i)] = i /\ End(C, i) \in 1..M /\ End(C, i) \in 0..M /\ End(C, i) # 0
        BY <1>2, <1>3, <3>2
      <4>2. V[End(C, i)] = u(i)
        BY <1>8, <4>1
      <4> QED BY <1>2, <4>2
    <3> QED BY <3>1, <3>2
  <2> HIDE DEF T
  <2>3. \A i \in 0..N : i \in T
    BY <1>1, <2>1, <2>2, UpTo
  <2> QED BY <2>3 DEF T
<1>10. ASSUME NEW c \in 1..M
       PROVE  /\ Q[c] \in 1..N /\ Work(path, Q[c]) # {} /\ End(C, Q[c]) = c
              /\ V[c] = u(Q[c]) /\ V[c - 1] = u(Q[c] - 1)
              /\ V[c] = V[c - 1] + Cardinality(Work(path, Q[c]))
              /\ V[c - 1] \in Nat /\ V[c - 1] < V[c]
  <2> DEFINE i == Q[c]
  <2>1. i \in 1..N /\ Work(path, i) # {} /\ End(C, i) = c
    BY <1>3
  <2> HIDE DEF i
  <2>2. V[c] = u(i) /\ V[c - 1] = u(i - 1)
    <3>1. End(C, i) = End(C, i - 1) + 1
      BY <1>1, <2>1, Zenon
    <3>2. End(C, i - 1) \in Nat /\ c \in Nat
      <4>1. i - 1 \in 0..N
        BY <1>2, <2>1
      <4>2. \A j \in 0..N : End(C, j) \in 0..M
        BY <1>1, Zenon
      <4> QED BY <1>2, <4>1, <4>2
    <3>3. End(C, i - 1) = c - 1
      BY <2>1, <3>1, <3>2
    <3> QED BY <1>2, <1>9, <2>1, <3>3
  <2>3. Cardinality(Work(path, i)) # 0
    BY <1>7, <2>1, FS_EmptySet
  <2> QED BY <1>2, <1>6, <1>7, <2>1, <2>2, <2>3 DEF i
<1>11. ASSUME NEW c \in 1..M, NEW m \in (V[c - 1] + 1)..V[c]
       PROVE  m \in 1..Len(I) /\ names[m] = met[c]
  <2> DEFINE i == Q[c]
             p == I[m]
  <2>1. /\ i \in 1..N /\ Work(path, i) # {} /\ End(C, i) = c
        /\ V[c] = f[End(G, i)] /\ V[c - 1] = f[End(G, i - 1)] /\ V[c - 1] \in Nat
    BY <1>10 DEF u
  <2> HIDE DEF i
  <2>2. End(G, i) \in 0..Len(seq) /\ End(G, i - 1) \in 0..Len(seq) /\ Len(seq) \in End(G, i)..Len(seq)
    BY <1>1, <1>2, <2>1
  <2>3. f[End(G, i)] <= f[Len(seq)] /\ f[End(G, i)] \in Nat /\ f[End(G, i - 1)] \in Nat
    BY <1>5, <2>2
  <2>4. m \in 1..Len(I)
    BY <1>4, <1>5, <1>2, <2>1, <2>3
  <2>5. p \in IssuedAt(seq) /\ f[p] = m /\ p \in 1..Len(seq) /\ IsIssue(seq[p])
    BY <1>2, <1>4, <2>4 DEF IssuedAt
  <2> HIDE DEF p
  <2>6. ~(p <= End(G, i - 1))
    <3> SUFFICES ASSUME p <= End(G, i - 1) PROVE FALSE
      OBVIOUS
    <3>1. p \in 0..Len(seq) /\ End(G, i - 1) \in p..Len(seq)
      BY <2>2, <2>5
    <3>2. f[p] <= f[End(G, i - 1)]
      BY <1>5, <3>1
    <3> QED BY <2>1, <2>3, <2>5, <3>2
  <2>7. ~(p > End(G, i))
    <3> SUFFICES ASSUME p > End(G, i) PROVE FALSE
      OBVIOUS
    <3>1. p \in (End(G, i) + 1)..Len(seq)
      BY <2>2, <2>5
    <3>2. f[End(G, i)] < f[p]
      BY <1>5, <2>2, <2>5, <3>1
    <3> QED BY <2>1, <2>3, <2>5, <3>2
  <2> DEFINE k == p - End(G, i - 1)
  <2>8. k \in 1..Len(G[i]) /\ End(G, i - 1) + k = p
    <3>1. End(G, i) = End(G, i - 1) + Len(G[i]) /\ Len(G[i]) \in Nat
      BY <1>1, <2>1, Zenon
    <3> QED BY <2>2, <2>5, <2>6, <2>7, <3>1
  <2> HIDE DEF k
  <2>9. seq[p] = G[i][k] /\ k \in Work(path, i)
    <3>1. seq[p] = G[i][k]
      BY <1>1, <2>1, <2>8
    <3> QED BY <1>1, <2>1, <2>5, <2>8, <3>1 DEF Work, G
  <2>10. C[i] = <<AtenOp(seq[p])>> /\ C[i] = <<met[c]>>
    BY <1>1, <2>1, <2>9
  <2>11. names[m] = AtenOp(seq[p])
    BY <1>1, <2>4, IssuedLists DEF names, p
  <2> QED BY <2>4, <2>10, <2>11
<1>12. Shares(V, names, met)
  <2>1. V \in [0..M -> Nat] /\ V[0] = 0
    <3>1. V[0] = 0 /\ \A c \in 0..M : V[c] \in Nat
      <4>1. \A c \in 1..M : V[c] \in Nat
        BY <1>3, <1>6, <1>10
      <4> QED BY <1>2, <1>8, <4>1
    <3> QED BY <3>1 DEF V
  <2>2. V[M] = Len(names)
    <3>1. N \in 0..N /\ u(N) = f[Len(seq)]
      BY <1>1 DEF u
    <3>2. Len(names) = Len(I)
      BY <1>1, IssuedLists DEF names
    <3> QED BY <1>1, <1>4, <1>9, <3>1, <3>2
  <2>3. ASSUME NEW c \in 1..M, NEW d \in 1..M, met[c] = met[d]
        PROVE  V[c] - V[c - 1] = V[d] - V[d - 1]
    <3>0. /\ Q[c] \in 1..N /\ Work(path, Q[c]) # {} /\ End(C, Q[c]) = c
          /\ Q[d] \in 1..N /\ Work(path, Q[d]) # {} /\ End(C, Q[d]) = d
      BY <1>10
    <3>1. C[Q[c]] = <<met[c]>> /\ C[Q[d]] = <<met[d]>>
      <4>1. C[Q[c]] = <<met[End(C, Q[c])]>> /\ C[Q[d]] = <<met[End(C, Q[d])]>>
        BY <1>1, <3>0, Zenon
      <4> QED BY <3>0, <4>1
    <3>2. Cardinality(Work(path, Q[c])) = Cardinality(Work(path, Q[d]))
      <4>1. C[Q[c]] = C[Q[d]]
        BY <2>3, <3>1
      <4> QED BY <1>1, <3>0, <4>1, Zenon
    <3>3. /\ V[c] = V[c - 1] + Cardinality(Work(path, Q[c])) /\ V[c - 1] \in Nat
          /\ V[d] = V[d - 1] + Cardinality(Work(path, Q[d])) /\ V[d - 1] \in Nat
          /\ Cardinality(Work(path, Q[c])) \in Nat
      BY <1>7, <1>10
    <3> QED BY <3>2, <3>3
  <2> QED BY <1>10, <1>11, <2>1, <2>2, <2>3 DEF Shares, M
<1>13. ASSUME NEW i \in 1..N, Work(path, i) # {}
       PROVE  Last(CallPositions(seq, met)[End(C, i)]) = End(G, i)
  <2> DEFINE c == End(C, i)
  <2>1. c \in 1..M /\ Q[c] = i
    BY <1>3, <1>13
  <2> HIDE DEF c
  <2>2. /\ V[c] \in 1..Len(I)
        /\ CallPositions(seq, met)[c] = SubSeq(I, V[c - 1] + 1, V[c])
    <3>1. /\ seq \in Seq(Ops) /\ met \in Seq(STRING) /\ Shares(V, OpNames(seq), met)
          /\ \A p \in IssuedAt(seq) : seq[p].chain # <<>>
          /\ c \in 1..Len(met)
      BY <1>1, <1>12, <2>1 DEF names, M
    <3> HIDE DEF I
    <3> QED BY <3>1, EvenShares DEF I
  <2>3. V[c] = f[End(G, i)] /\ V[c - 1] \in Nat /\ V[c - 1] < V[c]
    BY <1>10, <2>1 DEF u
  <2>4. End(G, i) \in IssuedAt(seq)
    <3>1. Len(G[i]) \in Work(path, i) /\ End(G, i) = End(G, i - 1) + Len(G[i])
      BY <1>1, <1>13
    <3>2. Len(G[i]) \in 1..Len(G[i]) /\ IsIssue(G[i][Len(G[i])])
      BY <1>1, <3>1 DEF Work, G
    <3>3. seq[End(G, i)] = G[i][Len(G[i])]
      <4>1. seq[End(G, i - 1) + Len(G[i])] = G[i][Len(G[i])]
        BY <1>1, <3>2, Zenon
      <4> QED BY <3>1, <4>1
    <3>4. End(G, i) \in 1..Len(seq)
      <4>1. End(G, i) \in 0..Len(seq) /\ End(G, i - 1) \in 0..Len(seq)
        BY <1>1, <1>2
      <4> QED BY <1>2, <3>1, <3>2, <4>1
    <3> QED BY <1>2, <3>2, <3>3, <3>4 DEF IssuedAt
  <2>5. I[V[c]] = End(G, i)
    BY <1>4, <2>3, <2>4
  <2>6. Last(SubSeq(I, V[c - 1] + 1, V[c])) = I[V[c]]
    <3> DEFINE a == V[c - 1] + 1
               b == V[c]
               s == SubSeq(I, a, b)
    <3>1. a \in Nat /\ b \in Nat /\ a > 0 /\ a <= b /\ b <= Len(I)
      BY <2>2, <2>3
    <3> HIDE DEF a, b
    <3>2. Len(s) = b - a + 1 /\ s[b - a + 1] = I[a + (b - a + 1) - 1]
      <4>1. b - a + 1 \in 1..(b - a + 1)
        BY <3>1
      <4> QED BY <3>1, <4>1
    <3>3. a + (b - a + 1) - 1 = b
      BY <3>1
    <3> HIDE DEF s
    <3>4. Last(s) = I[b]
      BY <3>2, <3>3 DEF Last
    <3> QED BY <3>4 DEF s, a, b
  <2> QED BY <2>2, <2>5, <2>6 DEF c
<1>14. \A c \in 1..M : \E i \in 1..N : Work(path, i) # {} /\ c = End(C, i)
  BY <1>3
<1>15. \A i \in 1..N : Work(path, i) # {} => End(C, i) \in 1..M
  BY <1>3
<1> QED BY <1>13, <1>14, <1>15 DEF seq, met, G, C, N, M

(***************************************************************************)
(* What the device is given, and what the recursion predicts.              *)
(***************************************************************************)
Things == Ops \cup {Injected}

\* What an event of a pass is followed by, the calls before it counted.
Owed(after, c) == IF c \in DOMAIN after THEN after[c] ELSE 0
Fired(path, names, after, i) ==
    FlattenSeq([n \in DOMAIN Shown(path[i], names) |->
                   Fire(Owed(after, End(Showing(path, names), i - 1) + n))])
Ran(path, names, after) ==
    [i \in DOMAIN path |-> Executed(path[i], i) \o Fired(path, names, after, i)]

\* What the prediction has of each of the base's operations.
Varied(ops, s) == [k \in DOMAIN ops |-> <<ops[k].op>> \o Fire(Times(s, k))]

LEMMA FireTypes ==
    ASSUME NEW n \in Nat
    PROVE  Fire(n) \in Seq(Things) /\ Fire(0) = <<>>
<1>1. Injected \in Things
  BY DEF Things
<1> QED BY <1>1 DEF Fire

LEMMA FlattenFew ==
    ASSUME NEW S, NEW y \in Seq(S)
    PROVE  FlattenSeq(<<>>) = <<>> /\ FlattenSeq(<<y>>) = y
<1> DEFINE ss == <<y>>
<1>1. ss \in Seq(Seq(S)) /\ Len(ss) = 1 /\ ss[1] = y
  OBVIOUS
<1> HIDE DEF ss
<1>2. Joined(ss, 0) = <<>> /\ Joined(ss, 1) = Joined(ss, 0) \o y /\ FlattenSeq(ss) = Joined(ss, 1)
  <2>1. /\ Joined(ss, 0) = <<>>
        /\ \A n \in 1..Len(ss) : Joined(ss, n) = Joined(ss, n - 1) \o ss[n]
        /\ FlattenSeq(ss) = Joined(ss, Len(ss))
    BY <1>1, JoinedSteps
  <2>2. 1 \in 1..Len(ss) /\ 1 - 1 = 0
    BY <1>1
  <2> QED BY <1>1, <2>1, <2>2
<1>3. FlattenSeq(ss) = y
  BY <1>2, ConcatEmptySeq
<1>4. FlattenSeq(<<>>) = <<>>
  BY DEF FlattenSeq
<1> QED BY <1>3, <1>4 DEF ss

LEMMA RanTypes ==
    ASSUME NEW path \in Seq(Events), NEW names, NEW after \in Seq(Nat)
    PROVE  /\ Ran(path, names, after) \in Seq(Seq(Things)) /\ Len(Ran(path, names, after)) = Len(path)
           /\ \A i \in 1..Len(path) :
                 /\ Executed(path[i], i) \in Seq(Things) /\ Fired(path, names, after, i) \in Seq(Things)
                 /\ Ran(path, names, after)[i] = Executed(path[i], i) \o Fired(path, names, after, i)
<1>1. DOMAIN path = 1..Len(path) /\ Len(path) \in Nat
  BY LenProperties
<1>2. ASSUME NEW i \in 1..Len(path)
      PROVE  Executed(path[i], i) \in Seq(Things)
  <2>1. path[i] \in Events /\ i \in Nat
    BY <1>1, ElementOfSeq
  <2>2. OpsOf(path[i], i) \in Seq(Ops)
    BY <2>1, OpsOfTypes
  <2>3. OpsOf(path[i], i) \in Seq(Things)
    <3>1. Ops \subseteq Things
      BY DEF Things
    <3> QED BY <2>2, <3>1, SeqMonotonic
  <2> QED BY <2>3, EmptySeq DEF Executed
<1>3. ASSUME NEW i \in 1..Len(path)
      PROVE  Fired(path, names, after, i) \in Seq(Things)
  <2> DEFINE seen == Shown(path[i], names)
             b == End(Showing(path, names), i - 1)
             ff == [n \in DOMAIN seen |-> Fire(Owed(after, b + n))]
  <2>1. seen \in Seq(STRING)
    BY ShownTypes
  <2> HIDE DEF seen, b
  <2>2. DOMAIN seen = 1..Len(seen) /\ Len(seen) \in Nat
    BY <2>1, LenProperties
  <2>3. \A n \in DOMAIN seen : Fire(Owed(after, b + n)) \in Seq(Things)
    <3>1. \A c : Owed(after, c) \in Nat
      <4>1. DOMAIN after = 1..Len(after) /\ \A c \in 1..Len(after) : after[c] \in Nat
        BY LenProperties, ElementOfSeq
      <4> QED BY <4>1 DEF Owed
    <3> QED BY <3>1, FireTypes
  <2>4. ff \in Seq(Seq(Things))
    <3>1. ff \in [1..Len(seen) -> Seq(Things)]
      BY <2>2, <2>3
    <3> HIDE DEF ff
    <3> QED BY <2>2, <3>1
  <2> HIDE DEF ff
  <2>5. FlattenSeq(ff) \in Seq(Things)
    BY <2>4, FlattenIndex, Zenon
  <2> QED BY <2>5 DEF Fired, ff, seen, b
<1> DEFINE rr == Ran(path, names, after)
<1>4. rr = [i \in 1..Len(path) |-> Executed(path[i], i) \o Fired(path, names, after, i)]
  BY <1>1 DEF Ran
<1> HIDE DEF rr
<1>5. \A i \in 1..Len(path) : Executed(path[i], i) \o Fired(path, names, after, i) \in Seq(Things)
  BY <1>2, <1>3, ConcatProperties
<1>6. rr \in Seq(Seq(Things)) /\ Len(rr) = Len(path)
  <2>1. rr \in [1..Len(path) -> Seq(Things)]
    BY <1>4, <1>5
  <2> QED BY <1>1, <2>1, SMTT(60)
<1> QED BY <1>2, <1>3, <1>4, <1>6 DEF rr

LEMMA PrefixGrows ==
    ASSUME NEW S, NEW g \in Seq(S)
    PROVE  /\ \A k \in 0..Len(g) : SubSeq(g, 1, k) \in Seq(S)
           /\ \A k \in 1..Len(g) : SubSeq(g, 1, k) = SubSeq(g, 1, k - 1) \o <<g[k]>>
<1>1. Len(g) \in Nat /\ \A k \in 1..Len(g) : g[k] \in S
  BY LenProperties, ElementOfSeq
<1>2. ASSUME NEW k \in 1..Len(g)
      PROVE  SubSeq(g, 1, k) = SubSeq(g, 1, k - 1) \o <<g[k]>>
  <2>1. 1 \in 1..(Len(g) + 1) /\ k - 1 \in (1 - 1)..Len(g) /\ k \in (k - 1)..Len(g) /\ (k - 1) + 1 = k
    BY <1>1
  <2>2. SubSeq(g, 1, k - 1) \o SubSeq(g, (k - 1) + 1, k) = SubSeq(g, 1, k)
    BY <2>1, ConcatAdjacentSubSeq
  <2>3. SubSeq(g, k, k) = <<g[k]>>
    <3>1. k \in 1..(Len(g) + 1) /\ k \in (k - 1)..Len(g) /\ k - k + 1 = 1 /\ k + 1 - 1 = k
      BY <1>1
    <3>2. /\ SubSeq(g, k, k) \in Seq(S) /\ Len(SubSeq(g, k, k)) = 1
          /\ SubSeq(g, k, k)[1] = g[k]
      BY <3>1, SubSeqProperties
    <3> DEFINE h == SubSeq(g, k, k)
    <3>3. h \in Seq(S) /\ Len(h) = 1 /\ h[1] = g[k]
      BY <3>2
    <3> HIDE DEF h
    <3>4. h = <<g[k]>>
      BY <3>3
    <3> QED BY <3>4 DEF h
  <2> QED BY <2>1, <2>2, <2>3
<1>3. \A k \in 0..Len(g) : SubSeq(g, 1, k) \in Seq(S)
  BY <1>1
<1> QED BY <1>2, <1>3

Associates(S) == \A p, q, r \in Seq(S) : (p \o q) \o r = p \o (q \o r)

LEMMA Associative ==
    ASSUME NEW S
    PROVE  Associates(S)
BY ConcatAssociative, SMTT(60) DEF Associates

\* A block of what is joined, one element each and something after the last.
Block(vv, b, g, x) ==
    \A k \in 1..Len(g) : vv[b + k] = IF k = Len(g) THEN <<g[k]>> \o x ELSE <<g[k]>>

LEMMA BlockJoined ==
    ASSUME NEW S, NEW vv \in Seq(Seq(S)), NEW g \in Seq(S), NEW x \in Seq(S), NEW b \in Nat,
           b + Len(g) <= Len(vv), Len(g) # 0, Block(vv, b, g, x)
    PROVE  Joined(vv, b + Len(g)) = Joined(vv, b) \o (g \o x)
<1> DEFINE n == Len(g)
           J == Joined(vv, b)
<1>0. Associates(S)
  BY Associative
<1>1. /\ n \in Nat /\ Len(vv) \in Nat /\ n # 0 /\ b + n <= Len(vv)
      /\ SubSeq(g, 1, n) = g /\ \A k \in 1..n : g[k] \in S
  BY LenProperties, SubSeqFull, ElementOfSeq
<1>2. /\ \A m \in 1..Len(vv) : Joined(vv, m) = Joined(vv, m - 1) \o vv[m]
      /\ \A m \in 0..Len(vv) : Joined(vv, m) \in Seq(S)
  BY JoinedSteps
<1> HIDE DEF n
<1>3. J \in Seq(S)
  <2>1. b \in 0..Len(vv)
    BY <1>1
  <2> QED BY <1>2, <2>1
<1>4. \A k \in 0..n : SubSeq(g, 1, k) \in Seq(S)
  BY PrefixGrows DEF n
<1>5. \A k \in 1..n : SubSeq(g, 1, k) = SubSeq(g, 1, k - 1) \o <<g[k]>>
  BY PrefixGrows DEF n
<1> DEFINE T == {k \in 0..(n - 1) : Joined(vv, b + k) = J \o SubSeq(g, 1, k)}
<1>6. 0 \in T
  <2>1. SubSeq(g, 1, 0) = <<>> /\ b + 0 = b /\ 0 \in 0..(n - 1)
    BY <1>1, SubSeqEmpty
  <2>2. J \o <<>> = J
    BY <1>3, ConcatEmptySeq
  <2> QED BY <2>1, <2>2
<1>7. ASSUME NEW k \in 1..(n - 1), k - 1 \in T
      PROVE  k \in T
  <2>1. /\ b + k \in 1..Len(vv) /\ (b + k) - 1 = b + (k - 1) /\ k \in 1..n /\ k # n
        /\ k \in 0..n /\ k - 1 \in 0..n /\ k \in 0..(n - 1)
    BY <1>1
  <2>2. Joined(vv, b + k) = Joined(vv, b + (k - 1)) \o <<g[k]>>
    <3>1. vv[b + k] = <<g[k]>>
      BY <2>1 DEF n, Block
    <3> QED BY <1>2, <2>1, <3>1
  <2>3. Joined(vv, b + (k - 1)) = J \o SubSeq(g, 1, k - 1)
    BY <1>7
  <2>4. <<g[k]>> \in Seq(S)
    BY <1>1, <2>1
  <2> HIDE DEF J
  <2>5. (J \o SubSeq(g, 1, k - 1)) \o <<g[k]>> = J \o (SubSeq(g, 1, k - 1) \o <<g[k]>>)
    <3>1. J \in Seq(S) /\ SubSeq(g, 1, k - 1) \in Seq(S) /\ <<g[k]>> \in Seq(S)
      BY <1>3, <1>4, <2>1, <2>4
    <3> QED BY <3>1, <1>0, ZenonT(60) DEF Associates
  <2>6. Joined(vv, b + k) = J \o SubSeq(g, 1, k)
    BY <1>5, <2>1, <2>2, <2>3, <2>5
  <2> QED BY <2>1, <2>6 DEF J
<1> HIDE DEF T
<1>8. \A k \in 0..(n - 1) : k \in T
  <2>1. n - 1 \in Nat
    BY <1>1
  <2> QED BY <1>6, <1>7, <2>1, UpTo
<1>9. Joined(vv, b + (n - 1)) = J \o SubSeq(g, 1, n - 1)
  <2>1. n - 1 \in 0..(n - 1)
    BY <1>1
  <2> QED BY <1>8, <2>1 DEF T
<1>10. Joined(vv, b + n) = Joined(vv, b + (n - 1)) \o (<<g[n]>> \o x)
  <2>1. b + n \in 1..Len(vv) /\ (b + n) - 1 = b + (n - 1) /\ n \in 1..n
    BY <1>1
  <2>2. vv[b + n] = <<g[n]>> \o x
    BY <2>1 DEF n, Block
  <2> QED BY <1>2, <2>1, <2>2
<1> DEFINE h == SubSeq(g, 1, n - 1)
           l == <<g[n]>>
<1>11. h \in Seq(S) /\ l \in Seq(S) /\ h \o l = g
  <2>1. n \in 1..n /\ n - 1 \in 0..n
    BY <1>1
  <2> QED BY <1>1, <1>4, <1>5, <2>1
<1> HIDE DEF h, l, J
<1>12. (J \o h) \o (l \o x) = J \o (h \o (l \o x)) /\ h \o (l \o x) = (h \o l) \o x
  <2>1. l \o x \in Seq(S)
    BY <1>11, ConcatProperties
  <2>2. J \in Seq(S) /\ h \in Seq(S) /\ l \in Seq(S) /\ x \in Seq(S)
    BY <1>3, <1>11 DEF J
  <2>3. (J \o h) \o (l \o x) = J \o (h \o (l \o x))
    <3> DEFINE y == l \o x
    <3>1. y \in Seq(S)
      BY <2>1
    <3> HIDE DEF y
    <3>2. (J \o h) \o y = J \o (h \o y)
      <4>1. \A p, q, r \in Seq(S) : (p \o q) \o r = p \o (q \o r)
        BY <1>0 DEF Associates
      <4>2. \A q, r \in Seq(S) : (J \o q) \o r = J \o (q \o r)
        BY <2>2, <4>1
      <4>3. \A r \in Seq(S) : (J \o h) \o r = J \o (h \o r)
        BY <2>2, <4>2
      <4> QED BY <3>1, <4>3
    <3> QED BY <3>2, Zenon DEF y
  <2>4. (h \o l) \o x = h \o (l \o x)
    BY <2>2, <1>0, ZenonT(60) DEF Associates
  <2> QED BY <2>3, <2>4
<1> QED BY <1>9, <1>10, <1>11, <1>12 DEF h, l, n, J

\* Sequences joined end in order.
LEMMA EndsGrow ==
    ASSUME NEW S, NEW ss \in Seq(Seq(S))
    PROVE  \A m \in 0..Len(ss) : \A n \in m..Len(ss) : End(ss, m) <= End(ss, n)
<1> DEFINE N == Len(ss)
<1>1. /\ N \in Nat /\ \A n \in 0..N : End(ss, n) \in Nat
      /\ \A n \in 1..N : End(ss, n) = End(ss, n - 1) + Len(ss[n]) /\ Len(ss[n]) \in Nat
  BY FlattenIndex, LenProperties
<1> HIDE DEF N
<1> SUFFICES ASSUME NEW m \in 0..N
             PROVE  \A n \in m..N : End(ss, m) <= End(ss, n)
  BY DEF N
<1> DEFINE T == {n \in 0..N : n >= m => End(ss, m) <= End(ss, n)}
<1>2. 0 \in T
  BY <1>1
<1>3. ASSUME NEW n \in 1..N, n - 1 \in T
      PROVE  n \in T
  <2>1. /\ n - 1 \in 0..N /\ n \in 0..N /\ End(ss, n) = End(ss, n - 1) + Len(ss[n])
        /\ Len(ss[n]) \in Nat /\ End(ss, n - 1) \in Nat /\ End(ss, m) \in Nat
    BY <1>1
  <2>2. CASE n > m
    BY <2>1, <2>2, <1>3
  <2>3. CASE ~(n > m)
    BY <2>1, <2>3
  <2> QED BY <2>2, <2>3
<1> HIDE DEF T
<1>4. \A n \in 0..N : n \in T
  BY <1>1, <1>2, <1>3, UpTo
<1> QED BY <1>1, <1>4 DEF T

LEMMA HostFacts ==
    ASSUME NEW path \in Seq(Events), NEW i \in 1..Len(path)
    PROVE  LET g == Given(path)[i]
           IN /\ g \in Seq(Ops) /\ g = OpsOf(path[i], i) /\ DOMAIN g = 1..Len(g)
              /\ \A k \in 1..Len(g) : IsHost(g[k]) <=> path[i].kind = "host"
              /\ path[i].kind = "host" =>
                    Len(g) = 1 /\ Work(path, i) = {} /\ Executed(path[i], i) = <<>>
              /\ path[i].kind # "host" => Executed(path[i], i) = g
<1> DEFINE g == Given(path)[i]
<1>1. path[i] \in Events /\ i \in Nat /\ i \in DOMAIN path
  BY LenProperties, ElementOfSeq
<1>2. g = OpsOf(path[i], i)
  BY <1>1 DEF Given
<1>3. g \in Seq(Ops) /\ \A k \in 1..Len(g) : g[k].kind = "host" <=> path[i].kind = "host"
  BY <1>1, <1>2, OpsOfTypes
<1>4. Work(path, i) = {k \in DOMAIN g : IsIssue(g[k])}
  BY DEF Work
<1> HIDE DEF g
<1>5. DOMAIN g = 1..Len(g)
  BY <1>3, LenProperties
<1>6. path[i].kind = "host" => Len(g) = 1
  BY <1>2 DEF OpsOf
<1>7. path[i].kind = "host" => Work(path, i) = {}
  BY <1>3, <1>4, <1>5 DEF IsIssue
<1>8. /\ path[i].kind = "host" => Executed(path[i], i) = <<>>
      /\ path[i].kind # "host" => Executed(path[i], i) = g
  BY <1>2 DEF Executed
<1> QED BY <1>2, <1>3, <1>5, <1>6, <1>7, <1>8 DEF g, IsHost

\* e numbers the operations of seq that are no markers, as the base does.
Numbers(e, seq) ==
    LET K == DOMAIN seq \ Markers(seq)
        where == RecursionPositions(seq)
    IN /\ Counts(e, K, Len(seq)) /\ Len(where) = e[Len(seq)]
       /\ \A p \in K : e[p] \in 1..Len(where) /\ where[e[p]] = p
       /\ \A k \in 1..Len(where) : where[k] \in K /\ e[where[k]] = k

LEMMA NumbersExist ==
    ASSUME NEW seq \in Seq(Ops)
    PROVE  \E e : Numbers(e, seq)
<1> DEFINE K == DOMAIN seq \ Markers(seq)
<1>1. K \in SUBSET (1..Len(seq))
  BY LenProperties
<1>2. RecursionPositions(seq) = Places(seq, K)
  BY DEF RecursionPositions
<1> HIDE DEF K
<1>3. PICK e : /\ Counts(e, K, Len(seq)) /\ Len(Places(seq, K)) = e[Len(seq)]
               /\ \A n \in K : e[n] \in 1..Len(Places(seq, K)) /\ Places(seq, K)[e[n]] = n
               /\ \A a \in 1..Len(Places(seq, K)) :
                     Places(seq, K)[a] \in K /\ e[Places(seq, K)[a]] = a
  BY <1>1, PlacesCounted, Zenon
<1>4. Numbers(e, seq)
  BY <1>2, <1>3 DEF Numbers, K
<1> QED BY <1>4

\* The base is the sequence's operations, and the schedule the plan's.
Matches(ops, seq) ==
    LET where == RecursionPositions(seq)
    IN /\ DOMAIN ops = 1..Len(where) /\ Len(ops) = Len(where)
       /\ \A k \in 1..Len(where) : ops[k].op = seq[where[k]]

Planned(seq, met, s, sched) ==
    LET where == RecursionPositions(seq)
        issued == CallPositions(seq, met)
    IN /\ s \in Seq(0..Len(where)) /\ sched.start = Times(s, START)
       /\ sched.after = [c \in DOMAIN met |->
                            Cardinality({m \in DOMAIN s : s[m] # START /\ Ends(issued[c], where[s[m]])})]
       /\ \A m \in DOMAIN s :
             s[m] = START \/ \E c \in DOMAIN met : s[m] # START /\ Ends(issued[c], where[s[m]])

\* How often a plan injects after the k-th operation of an event: after the
\* last of one that issues work, as often as after its call, and else never.
LEMMA SiteTimes ==
    ASSUME NEW path \in Seq(Events), Uniform(path), NEW e, NEW s, NEW sched,
           Numbers(e, Recorded(path)),
           Planned(Recorded(path), Observed(path, Names(Recorded(path))), s, sched),
           NEW i \in 1..Len(path), path[i].kind # "host", NEW k \in 1..Len(Given(path)[i])
    PROVE  LET t == Times(s, e[End(Given(path), i - 1) + k])
               c == End(Seen(path), i)
           IN IF k = Len(Given(path)[i]) /\ Work(path, i) # {}
              THEN c \in DOMAIN sched.after /\ t = sched.after[c]
              ELSE t = 0
<1> DEFINE seq == Recorded(path)
           met == Observed(path, Names(seq))
           G == Given(path)
           C == Seen(path)
           N == Len(path)
           K == DOMAIN seq \ Markers(seq)
           where == RecursionPositions(seq)
           issued == CallPositions(seq, met)
           p == End(G, i - 1) + k
           atEnd(m, c) == s[m] # START /\ Ends(issued[c], where[s[m]])
<1>1. /\ N \in Nat /\ seq \in Seq(Ops) /\ met \in Seq(STRING)
      /\ \A x \in 0..N : End(G, x) \in 0..Len(seq)
      /\ \A x \in 1..N : /\ End(G, x) = End(G, x - 1) + Len(G[x]) /\ Len(G[x]) \in Nat
                         /\ Work(path, x) # {} => Len(G[x]) \in Work(path, x)
                         /\ \A y \in 1..Len(G[x]) : seq[End(G, x - 1) + y] = G[x][y]
  BY UniformFacts
<1>2. DOMAIN met = 1..Len(met) /\ DOMAIN seq = 1..Len(seq) /\ Len(seq) \in Nat
  BY <1>1, LenProperties
<1>3. /\ \A x \in 1..N : Work(path, x) # {} =>
             End(C, x) \in 1..Len(met) /\ Last(issued[End(C, x)]) = End(G, x)
      /\ \A c \in 1..Len(met) : \E x \in 1..N : Work(path, x) # {} /\ c = End(C, x)
  BY CallsEnd
<1>4. /\ \A q \in K : e[q] \in 1..Len(where) /\ where[e[q]] = q
      /\ \A x \in 1..Len(where) : where[x] \in K /\ e[where[x]] = x
  BY DEF Numbers
<1>5. /\ s \in Seq(0..Len(where))
      /\ sched.after = [c \in DOMAIN met |-> Cardinality({m \in DOMAIN s : atEnd(m, c)})]
      /\ \A m \in DOMAIN s : s[m] = START \/ \E c \in DOMAIN met : atEnd(m, c)
  BY DEF Planned
<1>6. \A x \in 0..N : \A y \in x..N : End(G, x) <= End(G, y)
  <2>1. G \in Seq(Seq(Ops)) /\ Len(G) = N
    BY RecordedTypes DEF Given
  <2> HIDE DEF G
  <2> QED BY <2>1, EndsGrow
<1>7. p \in K
  <2>1. p \in 1..Len(seq)
    <3>1. i - 1 \in 0..N /\ i \in 0..N
      BY <1>1
    <3> QED BY <1>1, <1>2, <3>1, SMTT(60)
  <2>2. seq[p] = G[i][k]
    BY <1>1
  <2>3. ~IsHost(G[i][k])
    BY HostFacts
  <2> QED BY <1>2, <2>1, <2>2, <2>3 DEF Markers
<1>8. \A x \in 1..N : Work(path, x) # {} => Len(G[x]) > 0
  BY <1>1 DEF Work
<1>9. \A m \in DOMAIN s : s[m] \in 0..Len(where)
  BY <1>5, ElementOfSeq, LenProperties
<1> HIDE DEF seq, met, G, C, N, K, where, issued, p
\* a site after the operation at p is the last of an event that issues work
<1>10. ASSUME NEW m \in DOMAIN s, s[m] = e[p]
       PROVE  k = Len(G[i]) /\ Work(path, i) # {}
  <2>1. s[m] # START /\ where[s[m]] = p
    BY <1>4, <1>7, <1>10 DEF START
  <2>2. PICK c \in DOMAIN met : atEnd(m, c)
    BY <1>5, <2>1
  <2>3. PICK x \in 1..N : Work(path, x) # {} /\ c = End(C, x)
    BY <1>2, <1>3, <2>2
  <2>4. End(G, x) = p
    BY <1>3, <2>1, <2>2, <2>3 DEF Ends
  <2>5. /\ i \in 1..N /\ End(G, i) = End(G, i - 1) + Len(G[i]) /\ Len(G[i]) \in Nat
        /\ End(G, x) = End(G, x - 1) + Len(G[x]) /\ Len(G[x]) > 0 /\ Len(G[x]) \in Nat
        /\ i - 1 \in 0..N /\ x - 1 \in 0..N /\ i \in 0..N /\ x \in 0..N
    BY <1>1, <1>8, <2>3 DEF N
  <2>6. /\ End(G, i - 1) \in Nat /\ End(G, x - 1) \in Nat /\ End(G, i) \in Nat
        /\ End(G, x) = End(G, i - 1) + k /\ k \in 1..Len(G[i])
    BY <1>1, <1>2, <2>4, <2>5 DEF p, G
  <2>7. ~(x < i)
    <3> SUFFICES ASSUME x < i PROVE FALSE
      OBVIOUS
    <3>1. i - 1 \in x..N
      BY <1>1, <2>5
    <3>2. End(G, x) <= End(G, i - 1)
      BY <1>6, <2>5, <3>1
    <3> QED BY <2>6, <3>2
  <2>8. ~(x > i)
    <3> SUFFICES ASSUME x > i PROVE FALSE
      OBVIOUS
    <3>1. x - 1 \in i..N
      BY <1>1, <2>5
    <3>2. End(G, i) <= End(G, x - 1)
      BY <1>6, <2>5, <3>1
    <3> QED BY <2>5, <2>6, <3>2, SMTT(60)
  <2>9. x = i
    BY <1>1, <2>5, <2>7, <2>8
  <2> QED BY <2>3, <2>5, <2>6, <2>9
<1>11. Times(s, e[p]) = Cardinality({m \in DOMAIN s : s[m] = e[p]})
  BY DEF Times
<1>12. CASE k = Len(G[i]) /\ Work(path, i) # {}
  <2>1. End(C, i) \in DOMAIN met /\ Last(issued[End(C, i)]) = p
    <3>1. End(G, i) = p /\ i \in 1..N
      BY <1>1, <1>12 DEF p, N
    <3> QED BY <1>2, <1>3, <1>12, <3>1
  <2>2. {m \in DOMAIN s : atEnd(m, End(C, i))} = {m \in DOMAIN s : s[m] = e[p]}
    <3> SUFFICES ASSUME NEW m \in DOMAIN s
                 PROVE  atEnd(m, End(C, i)) <=> s[m] = e[p]
      OBVIOUS
    <3>1. ASSUME atEnd(m, End(C, i))
          PROVE  s[m] = e[p]
      <4>1. s[m] \in 1..Len(where) /\ where[s[m]] = p
        BY <1>9, <2>1, <3>1 DEF Ends, START
      <4> QED BY <1>4, <4>1
    <3>2. ASSUME s[m] = e[p]
          PROVE  atEnd(m, End(C, i))
      <4>1. s[m] \in 1..Len(where) /\ where[s[m]] = p
        BY <1>4, <1>7, <3>2
      <4> QED BY <2>1, <4>1 DEF Ends, START
    <3> QED BY <3>1, <3>2
  <2>3. sched.after[End(C, i)] = Cardinality({m \in DOMAIN s : atEnd(m, End(C, i))})
        /\ End(C, i) \in DOMAIN sched.after
    <3> HIDE DEF atEnd
    <3> QED BY <1>5, <2>1
  <2> QED BY <1>11, <1>12, <2>2, <2>3 DEF p, G, C
<1>13. CASE ~(k = Len(G[i]) /\ Work(path, i) # {})
  <2>1. {m \in DOMAIN s : s[m] = e[p]} = {}
    BY <1>10, <1>13
  <2>2. Times(s, e[p]) = 0
    BY <1>11, <2>1, FS_EmptySet
  <2> QED BY <1>13, <2>2 DEF p, G
<1> QED BY <1>12, <1>13

LEMMA TimesTypes ==
    ASSUME NEW S, NEW s \in Seq(S), NEW n
    PROVE  Times(s, n) \in Nat
<1>1. Len(s) \in Nat /\ {m \in DOMAIN s : s[m] = n} \in SUBSET (1..Len(s))
  BY LenProperties
<1>2. IsFiniteSet(1..Len(s))
  BY <1>1, FS_Interval
<1>3. Cardinality({m \in DOMAIN s : s[m] = n}) \in Nat
  BY <1>1, <1>2, FS_Subset, FS_CardinalityType
<1> QED BY <1>3 DEF Times

LEMMA VariedTypes ==
    ASSUME NEW seq \in Seq(Ops), NEW ops, Matches(ops, seq), NEW S, NEW s \in Seq(S)
    PROVE  LET vv == Varied(ops, s)
               where == RecursionPositions(seq)
           IN /\ vv \in Seq(Seq(Things)) /\ Len(vv) = Len(where) /\ Len(where) \in Nat
              /\ \A k \in 1..Len(where) :
                    /\ vv[k] = <<seq[where[k]]>> \o Fire(Times(s, k))
                    /\ seq[where[k]] \in Ops
<1> DEFINE vv == Varied(ops, s)
           where == RecursionPositions(seq)
           K == DOMAIN seq \ Markers(seq)
<1>1. K \in SUBSET (1..Len(seq))
  BY LenProperties
<1>2. where \in Seq(K)
  <2>1. where = Places(seq, K)
    BY DEF RecursionPositions
  <2> HIDE DEF K, where
  <2>2. Lists(Places(seq, K), K)
    BY <1>1, KeptAtPlaces
  <2> QED BY <2>1, <2>2 DEF Lists
<1>3. DOMAIN ops = 1..Len(where) /\ \A k \in 1..Len(where) : ops[k].op = seq[where[k]]
  BY DEF Matches
<1>4. vv = [k \in 1..Len(where) |-> <<ops[k].op>> \o Fire(Times(s, k))]
  BY <1>3 DEF Varied
<1> HIDE DEF vv, where, K
<1>5. Len(where) \in Nat /\ \A k \in 1..Len(where) : where[k] \in K
  BY <1>2, LenProperties, ElementOfSeq
<1>6. \A k \in 1..Len(where) : seq[where[k]] \in Ops
  BY <1>1, <1>5, ElementOfSeq
<1>7. ASSUME NEW k \in 1..Len(where)
      PROVE  vv[k] = <<seq[where[k]]>> \o Fire(Times(s, k)) /\ vv[k] \in Seq(Things)
  <2>1. vv[k] = <<seq[where[k]]>> \o Fire(Times(s, k))
    BY <1>3, <1>4
  <2>2. Fire(Times(s, k)) \in Seq(Things)
    BY TimesTypes, FireTypes
  <2>3. <<seq[where[k]]>> \in Seq(Things)
    <3>1. seq[where[k]] \in Things
      BY <1>6 DEF Things
    <3> QED BY <3>1
  <2> QED BY <2>1, <2>2, <2>3, ConcatProperties
<1>8. vv \in Seq(Seq(Things)) /\ Len(vv) = Len(where)
  <2>1. vv = [k \in 1..Len(where) |-> vv[k]]
    BY <1>4
  <2>2. vv \in [1..Len(where) -> Seq(Things)]
    BY <1>7, <2>1, Zenon
  <2> QED BY <1>5, <2>2
<1> QED BY <1>5, <1>6, <1>7, <1>8 DEF vv, where

\* What is joined from b up to d is x.
Extends(ss, b, d, x) ==
    b \in Nat /\ d \in 0..Len(ss) /\ Joined(ss, d) = Joined(ss, b) \o x

\* An event is given what the prediction has of its operations.
LEMMA EventPredicted ==
    ASSUME NEW path \in Seq(Events), Uniform(path), NEW e, NEW ops, NEW s, NEW sched,
           Numbers(e, Recorded(path)), Matches(ops, Recorded(path)),
           Planned(Recorded(path), Observed(path, Names(Recorded(path))), s, sched),
           sched.after \in Seq(Nat), NEW i \in 1..Len(path)
    PROVE  Extends(Varied(ops, s), e[End(Given(path), i - 1)], e[End(Given(path), i)],
                   Ran(path, Names(Recorded(path)), sched.after)[i])
<1> DEFINE seq == Recorded(path)
           names == Names(Recorded(path))
           G == Given(path)
           C == Seen(path)
           N == Len(path)
           K == DOMAIN seq \ Markers(seq)
           where == RecursionPositions(seq)
           vv == Varied(ops, s)
           b == e[End(G, i - 1)]
           d == e[End(G, i)]
           g == G[i]
           after == sched.after
           F == Fired(path, names, after, i)
           X == Executed(path[i], i)
           J == Joined(vv, b)
<1>1. /\ N \in Nat /\ seq \in Seq(Ops)
      /\ End(G, i) \in 0..Len(seq) /\ End(G, i - 1) \in 0..Len(seq)
      /\ End(G, i) = End(G, i - 1) + Len(g) /\ Len(g) \in Nat
      /\ \A k \in 1..Len(g) : seq[End(G, i - 1) + k] = g[k]
      /\ C[i] = Shown(path[i], names)
      /\ Work(path, i) = {} => C[i] = <<>>
      /\ Work(path, i) # {} =>
            /\ Len(C[i]) = 1 /\ End(C, i) = End(C, i - 1) + 1 /\ Len(g) \in Work(path, i)
  <2>1. i \in 0..N /\ i - 1 \in 0..N
    BY UniformFacts
  <2> QED BY <2>1, UniformFacts
<1>2. DOMAIN seq = 1..Len(seq) /\ Len(seq) \in Nat
  BY <1>1, LenProperties
<1>3. /\ Counts(e, K, Len(seq)) /\ Len(where) = e[Len(seq)]
      /\ \A p \in K : e[p] \in 1..Len(where) /\ where[e[p]] = p
  BY DEF Numbers
<1>4. /\ g \in Seq(Ops) /\ DOMAIN g = 1..Len(g)
      /\ \A k \in 1..Len(g) : IsHost(g[k]) <=> path[i].kind = "host"
      /\ path[i].kind = "host" => Len(g) = 1 /\ Work(path, i) = {} /\ X = <<>>
      /\ path[i].kind # "host" => X = g
  BY HostFacts
<1>5. path[i].kind # "host" =>
         \A k \in 1..Len(g) :
            LET t == Times(s, e[End(G, i - 1) + k])
                c == End(C, i)
            IN IF k = Len(g) /\ Work(path, i) # {}
               THEN c \in DOMAIN after /\ t = after[c]
               ELSE t = 0
  BY SiteTimes
<1>6. /\ vv \in Seq(Seq(Things)) /\ Len(vv) = Len(where) /\ Len(where) \in Nat
      /\ \A k \in 1..Len(where) :
            vv[k] = <<seq[where[k]]>> \o Fire(Times(s, k)) /\ seq[where[k]] \in Ops
  <2>1. s \in Seq(0..Len(where))
    BY DEF Planned
  <2>2. seq \in Seq(Ops) /\ Matches(ops, seq)
    BY <1>1
  <2> HIDE DEF seq
  <2> QED BY <2>1, <2>2, VariedTypes
<1>7. /\ X \in Seq(Things) /\ F \in Seq(Things)
      /\ Ran(path, names, after)[i] = X \o F
  BY RanTypes
<1>8. C[i] = Shown(path[i], names) /\ C = Showing(path, names)
  BY <1>1 DEF Seen
<1>9. F = FlattenSeq([n \in DOMAIN C[i] |-> Fire(Owed(after, End(C, i - 1) + n))])
  BY <1>8 DEF Fired
<1> HIDE DEF seq, names, G, C, N, K, where, vv, g, F, X, after
<1>10. ASSUME Work(path, i) = {} PROVE F = <<>>
  <2>1. C[i] = <<>>
    BY <1>1, <1>10
  <2>2. [n \in DOMAIN C[i] |-> Fire(Owed(after, End(C, i - 1) + n))] = <<>>
    BY <2>1
  <2> QED BY <1>9, <2>2 DEF FlattenSeq
<1>11. ASSUME Work(path, i) # {} PROVE F = Fire(Owed(after, End(C, i)))
  <2>1. DOMAIN C[i] = 1..1 /\ End(C, i) = End(C, i - 1) + 1
    <3>1. C[i] \in Seq(STRING)
      BY <1>8, ShownTypes DEF N
    <3> QED BY <1>1, <1>11, <3>1, LenProperties
  <2> DEFINE y == Fire(Owed(after, End(C, i)))
  <2>2. [n \in DOMAIN C[i] |-> Fire(Owed(after, End(C, i - 1) + n))] = <<y>>
    BY <2>1
  <2>3. y \in Seq(Things)
    <3>1. Owed(after, End(C, i)) \in Nat
      <4>1. DOMAIN after = 1..Len(after) /\ \A c \in 1..Len(after) : after[c] \in Nat
        BY LenProperties, ElementOfSeq DEF after
      <4> QED BY <4>1 DEF Owed
    <3> QED BY <3>1, FireTypes
  <2> HIDE DEF y
  <2>4. F = y
    BY <1>9, <2>2, <2>3, FlattenFew
  <2> QED BY <2>4 DEF y
<1>12. \A p \in 0..Len(seq) : e[p] \in 0..Len(where)
  <2>1. \A p \in 0..Len(seq) : e[p] \in Nat
    BY <1>3 DEF Counts
  <2>2. \A p \in 0..Len(seq) : e[p] <= e[Len(seq)]
    <3>1. \A p \in 0..Len(seq) : Len(seq) \in p..Len(seq)
      BY <1>2
    <3> QED BY <1>2, <1>3, <3>1, CountsGrow
  <2> QED BY <1>3, <1>6, <2>1, <2>2
<1>13. b \in Nat /\ b \in 0..Len(where) /\ d \in 0..Len(vv)
  BY <1>1, <1>6, <1>12
<1>14. J \in Seq(Things)
  BY <1>6, <1>13, JoinedSteps
<1>15. CASE path[i].kind = "host"
  <2>1. Len(g) = 1 /\ Work(path, i) = {} /\ X = <<>> /\ IsHost(g[1])
    BY <1>4, <1>15
  <2> DEFINE p == End(G, i)
  <2>2. p = End(G, i - 1) + 1 /\ p \in 1..Len(seq) /\ seq[p] = g[1] /\ p - 1 = End(G, i - 1)
    BY <1>1, <1>2, <2>1
  <2>3. p \notin K
    BY <1>2, <2>1, <2>2 DEF K, Markers
  <2>4. e[p] = e[p - 1]
    BY <1>3, <2>2, <2>3 DEF Counts
  <2>5. d = b
    BY <2>2, <2>4
  <2>6. X \o F = <<>>
    BY <1>10, <2>1
  <2>7. J \o <<>> = J
    BY <1>14, ConcatEmptySeq
  <2>8. Joined(vv, d) = J \o (X \o F)
    BY <2>5, <2>6, <2>7
  <2> QED BY <1>7, <1>13, <2>8 DEF Extends, vv, G, seq, names, after
<1>16. CASE path[i].kind # "host"
  <2>1. X = g /\ \A k \in 1..Len(g) : ~IsHost(g[k])
    BY <1>4, <1>16
  <2>2. ASSUME NEW k \in 1..Len(g)
        PROVE  End(G, i - 1) + k \in 1..Len(seq) /\ End(G, i - 1) + k \in K
    <3>1. End(G, i - 1) + k \in 1..Len(seq)
      BY <1>1, <1>2
    <3>2. seq[End(G, i - 1) + k] = g[k]
      BY <1>1
    <3> QED BY <1>2, <2>1, <3>1, <3>2 DEF K, Markers
  \* the operations of the event follow one another in the base
  <2>3. \A k \in 0..Len(g) : e[End(G, i - 1) + k] = b + k
    <3> DEFINE T == {k \in 0..Len(g) : e[End(G, i - 1) + k] = b + k}
    <3>1. 0 \in T
      <4>1. End(G, i - 1) + 0 = End(G, i - 1) /\ b + 0 = b
        BY <1>1, <1>13
      <4> QED BY <1>1, <4>1
    <3>2. ASSUME NEW k \in 1..Len(g), k - 1 \in T
          PROVE  k \in T
      <4>1. /\ End(G, i - 1) + k \in 1..Len(seq) /\ End(G, i - 1) + k \in K
            /\ (End(G, i - 1) + k) - 1 = End(G, i - 1) + (k - 1)
        BY <1>1, <2>2
      <4>2. e[End(G, i - 1) + k] = e[(End(G, i - 1) + k) - 1] + 1
        BY <1>3, <4>1 DEF Counts
      <4>3. e[End(G, i - 1) + (k - 1)] = b + (k - 1)
        BY <3>2
      <4> HIDE DEF b
      <4>4. e[End(G, i - 1) + k] = b + k
        BY <1>13, <4>1, <4>2, <4>3
      <4> QED BY <4>4
    <3> HIDE DEF T
    <3>3. \A k \in 0..Len(g) : k \in T
      BY <1>1, <3>1, <3>2, UpTo
    <3> QED BY <3>3 DEF T
  <2>4. d = b + Len(g)
    BY <1>1, <2>3
  <2>5. CASE Len(g) = 0
    <3>1. Work(path, i) = {}
      BY <1>4, <2>5 DEF Work, g, G
    <3>2. g = <<>>
      BY <1>4, <2>5, EmptySeq
    <3>3. X \o F = <<>> /\ d = b
      BY <1>10, <1>13, <2>1, <2>4, <2>5, <3>1, <3>2
    <3>4. J \o <<>> = J
      BY <1>14, ConcatEmptySeq
    <3>5. Joined(vv, d) = J \o (X \o F)
      BY <3>3, <3>4
    <3> QED BY <1>7, <1>13, <3>5 DEF Extends, vv, G, seq, names, after
  <2>6. CASE Len(g) # 0
    <3>1. ASSUME NEW k \in 1..Len(g)
          PROVE  vv[b + k] = IF k = Len(g) THEN <<g[k]>> \o F ELSE <<g[k]>>
      <4> DEFINE p == End(G, i - 1) + k
      <4>1. p \in K /\ seq[p] = g[k] /\ e[p] = b + k
        BY <1>1, <2>2, <2>3
      <4>2. b + k \in 1..Len(where) /\ where[b + k] = p
        BY <1>3, <4>1
      <4> DEFINE t == Times(s, e[p])
      <4>3. IF k = Len(g) /\ Work(path, i) # {}
            THEN End(C, i) \in DOMAIN after /\ t = after[End(C, i)]
            ELSE t = 0
        BY <1>5, <1>16
      <4> HIDE DEF p
      <4>4. vv[b + k] = <<g[k]>> \o Fire(t)
        BY <1>6, <4>1, <4>2
      <4>5. <<g[k]>> \in Seq(Ops)
        BY <1>4, ElementOfSeq
      <4> HIDE DEF t, b
      <4>6. CASE k = Len(g) /\ Work(path, i) # {}
        BY <1>11, <4>3, <4>4, <4>6 DEF Owed
      <4>7. CASE ~(k = Len(g) /\ Work(path, i) # {})
        <5>1. Fire(t) = <<>>
          BY <4>3, <4>7, FireTypes
        <5>2. <<g[k]>> \o <<>> = <<g[k]>>
          BY <4>5, ConcatEmptySeq
        <5>3. k = Len(g) => F = <<>>
          BY <1>10, <4>7
        <5> QED BY <4>4, <5>1, <5>2, <5>3
      <4> QED BY <4>6, <4>7
    <3>2. Block(vv, b, g, F)
      BY <3>1 DEF Block
    <3>3. g \in Seq(Things)
      BY <1>7, <2>1
    <3>4. b + Len(g) <= Len(vv)
      BY <1>13, <2>4
    <3>5. Joined(vv, b + Len(g)) = J \o (g \o F)
      <4> HIDE DEF b
      <4>1. /\ vv \in Seq(Seq(Things)) /\ g \in Seq(Things) /\ F \in Seq(Things) /\ b \in Nat
            /\ b + Len(g) <= Len(vv) /\ Len(g) # 0 /\ Block(vv, b, g, F)
        BY <1>6, <1>7, <1>13, <2>6, <3>2, <3>3, <3>4
      <4> HIDE DEF d, g, F, vv
      <4>2. Joined(vv, b + Len(g)) = Joined(vv, b) \o (g \o F)
        BY <4>1, BlockJoined, SMTT(30)
      <4> QED BY <4>2
    <3>6. Joined(vv, d) = J \o (X \o F)
      BY <2>1, <2>4, <3>5
    <3> QED BY <1>7, <1>13, <3>6 DEF Extends, vv, G, seq, names, after
  <2> QED BY <2>5, <2>6
<1> QED BY <1>15, <1>16

\* On a path that is Uniform what a pass along it gives the device is the
\* prediction.
LEMMA PathPredicted ==
    ASSUME NEW path \in Seq(Events), Uniform(path), NEW ops, NEW s, NEW sched,
           Matches(ops, Recorded(path)),
           Planned(Recorded(path), Observed(path, Names(Recorded(path))), s, sched),
           sched.after \in Seq(Nat)
    PROVE  Fire(sched.start) \o Joined(Ran(path, Names(Recorded(path)), sched.after), Len(path))
               = Inject(ops, s)
<1> DEFINE seq == Recorded(path)
           G == Given(path)
           N == Len(path)
           where == RecursionPositions(seq)
           vv == Varied(ops, s)
           rr == Ran(path, Names(Recorded(path)), sched.after)
<1>1. /\ N \in Nat /\ seq \in Seq(Ops) /\ End(G, 0) = 0 /\ End(G, N) = Len(seq)
  BY UniformFacts
<1>2. PICK e : Numbers(e, seq)
  BY <1>1, NumbersExist
<1>3. e[0] = 0 /\ e[Len(seq)] = Len(where)
  BY <1>2 DEF Numbers, Counts
<1>4. vv \in Seq(Seq(Things)) /\ Len(vv) = Len(where)
  <2>1. s \in Seq(0..Len(where)) /\ Matches(ops, seq)
    BY DEF Planned
  <2> HIDE DEF seq
  <2> QED BY <1>1, <2>1, VariedTypes
<1>5. rr \in Seq(Seq(Things)) /\ Len(rr) = N
  BY RanTypes
<1>6. \A i \in 1..N : Joined(vv, e[End(G, i)]) = Joined(vv, e[End(G, i - 1)]) \o rr[i]
  <2> SUFFICES ASSUME NEW i \in 1..Len(path)
               PROVE  Joined(vv, e[End(G, i)]) = Joined(vv, e[End(G, i - 1)]) \o rr[i]
    OBVIOUS
  <2>1. Numbers(e, Recorded(path))
    BY <1>2
  <2> HIDE DEF seq, G, N, where, vv, rr
  <2>2. Extends(Varied(ops, s), e[End(Given(path), i - 1)], e[End(Given(path), i)],
                Ran(path, Names(Recorded(path)), sched.after)[i])
    BY <2>1, EventPredicted, Zenon
  <2> QED BY <2>2 DEF Extends, vv, G, rr
<1>7. /\ Joined(vv, 0) = <<>> /\ FlattenSeq(vv) = Joined(vv, Len(vv))
  BY <1>4, JoinedSteps
<1>8. /\ Joined(rr, 0) = <<>>
      /\ \A i \in 1..N : Joined(rr, i) = Joined(rr, i - 1) \o rr[i]
  BY <1>5, JoinedSteps
<1> HIDE DEF seq, G, N, where, vv, rr
<1> DEFINE T == {i \in 0..N : Joined(rr, i) = Joined(vv, e[End(G, i)])}
<1>9. 0 \in T
  BY <1>1, <1>3, <1>7, <1>8
<1>10. ASSUME NEW i \in 1..N, i - 1 \in T
       PROVE  i \in T
  <2>1. i \in 0..N
    BY <1>1
  <2>2. Joined(rr, i - 1) = Joined(vv, e[End(G, i - 1)])
    BY <1>10
  <2>3. Joined(rr, i) = Joined(vv, e[End(G, i)])
    BY <1>6, <1>8, <2>2, Zenon
  <2> QED BY <2>1, <2>3
<1>11. N \in T
  <2> HIDE DEF T
  <2>1. \A i \in 0..N : i \in T
    BY <1>1, <1>9, <1>10, UpTo
  <2> QED BY <1>1, <2>1
<1>12. Joined(rr, N) = FlattenSeq(vv)
  BY <1>1, <1>3, <1>4, <1>7, <1>11
<1>13. Inject(ops, s) = Fire(Times(s, START)) \o FlattenSeq(vv)
  <2>1. vv = [k \in DOMAIN ops |-> <<ops[k].op>> \o [n \in 1..Times(s, k) |-> Injected]]
    BY DEF vv, Varied, Fire
  <2> HIDE DEF vv
  <2> QED BY <2>1 DEF Inject, Fire
<1>14. sched.start = Times(s, START)
  BY DEF Planned
<1> QED BY <1>12, <1>13, <1>14 DEF rr, N

\* What an operation is charged: its own time, and what it was carried.
CostOf(seq, host, p) == IF IsIssue(seq[p]) THEN host[p] \cup Carried(seq, host, p) ELSE {}

\* The base keeps the operations of the sequence it was priced for.
LEMMA OperationsMatch ==
    ASSUME NEW seq \in Seq(Ops), NEW host
    PROVE  LET where == RecursionPositions(seq)
               ops == ToOperations(seq, host).ops
           IN /\ Matches(ops, seq)
              /\ \A k \in 1..Len(where) : ops[k].cost = CostOf(seq, host, where[k])
<1> DEFINE K == DOMAIN seq \ Markers(seq)
           cost(p) == IF IsIssue(seq[p]) THEN host[p] \cup Carried(seq, host, p) ELSE {}
           all == [p \in DOMAIN seq |-> [op |-> seq[p], cost |-> cost(p)]]
           S == {all[p] : p \in DOMAIN seq}
           where == Places(seq, K)
           ops == Kept(all, K)
<1>1. DOMAIN seq = 1..Len(seq) /\ Len(seq) \in Nat
  BY LenProperties
<1>2. ToOperations(seq, host).ops = ops /\ RecursionPositions(seq) = where
  BY DEF ToOperations, RecursionPositions
<1>3. /\ DOMAIN all = DOMAIN seq /\ \A p \in DOMAIN seq : all[p].op = seq[p]
      /\ \A p \in DOMAIN seq : all[p].cost = CostOf(seq, host, p)
  BY Zenon DEF CostOf
<1>4. all \in Seq(S) /\ Len(all) = Len(seq)
  <2> HIDE DEF cost
  <2>1. all = [p \in 1..Len(seq) |-> all[p]]
    BY <1>1, <1>3, Zenon
  <2> HIDE DEF all
  <2>2. \A p \in 1..Len(seq) : all[p] \in S
    BY <1>1
  <2> HIDE DEF S
  <2>3. all \in [1..Len(seq) -> S]
    BY <2>1, <2>2, Zenon
  <2> QED BY <1>1, <2>3
<1>5. K \in SUBSET (1..Len(seq))
  BY <1>1
<1> HIDE DEF all, S, K
<1>6. Places(all, K) = where
  BY <1>3 DEF Places
<1>7. /\ Lists(where, K) /\ ops \in Seq(S) /\ Len(ops) = Len(where)
      /\ \A a \in 1..Len(where) : ops[a] = all[where[a]]
  <2>1. K \in SUBSET (1..Len(all))
    BY <1>4, <1>5
  <2> HIDE DEF ops, where
  <2> QED BY <1>4, <1>6, <2>1, KeptAtPlaces DEF ops
<1> HIDE DEF where, ops
<1>8. \A a \in 1..Len(where) : where[a] \in DOMAIN seq
  <2>1. where \in Seq(K)
    BY <1>7 DEF Lists
  <2> QED BY <1>1, <1>5, <2>1, ElementOfSeq
<1>9. DOMAIN ops = 1..Len(where)
  BY <1>7, LenProperties
<1>10. Matches(ops, seq)
  BY <1>2, <1>3, <1>7, <1>8, <1>9 DEF Matches
<1>11. \A k \in 1..Len(where) : ops[k].cost = CostOf(seq, host, where[k])
  BY <1>3, <1>7, <1>8
<1> QED BY <1>2, <1>10, <1>11

\* The plan's sites are calls of the calibration, and what the device was given
\* so far is what the pass's events and the schedule gave it.
Scheduled == {"scheduled"} \cup Under

AsScheduled ==
    /\ stage \in {"priced"} \cup Calibrated => Matches(base, sequence)
    /\ stage \in Calibrated => issuedBy = CallPositions(sequence, calls)
    /\ stage \in Scheduled => Planned(sequence, calls, sites, schedule)
    /\ stage \in Under =>
          executed = Fire(schedule.start) \o Joined(Ran(pass, launching, schedule.after), at - 1)

LEMMA PlansTypes ==
    ASSUME NEW s \in Plans, NEW n \in Nat, DOMAIN base = 1..n
    PROVE  s \in Seq(0..n)
<1>1. CASE s = <<>>
  BY <1>1
<1>2. ASSUME NEW c \in 1..MaxCount, NEW x \in {START} \cup DOMAIN base, s = [m \in 1..c |-> x]
      PROVE  s \in Seq(0..n)
  <2>1. x \in 0..n /\ c \in Nat
    BY DEF START
  <2> QED BY <1>2, <2>1
<1>3. ASSUME NEW c \in 1..MaxCount, s \in [1..c -> BusySites]
      PROVE  s \in Seq(0..n)
  <2>1. c \in Nat /\ \A x \in BusySites : x \in 0..n
    BY DEF BusySites
  <2>2. s \in [1..c -> 0..n]
    BY <1>3, <2>1
  <2> QED BY <2>1, <2>2
<1>4. \/ s = <<>>
      \/ \E c \in 1..MaxCount, x \in {START} \cup DOMAIN base : s = [m \in 1..c |-> x]
      \/ \E c \in 1..MaxCount : s \in [1..c -> BusySites]
  <2> DEFINE Repeated == {[m \in 1..c |-> x] : x \in {START} \cup DOMAIN base, c \in 1..MaxCount}
             Busy == UNION {[1..c -> BusySites] : c \in 1..MaxCount}
  <2>1. s = <<>> \/ s \in Repeated \/ s \in Busy
    BY DEF Plans
  <2>2. s \in Repeated => \E c \in 1..MaxCount, x \in {START} \cup DOMAIN base : s = [m \in 1..c |-> x]
    OBVIOUS
  <2>3. s \in Busy => \E c \in 1..MaxCount : s \in [1..c -> BusySites]
    OBVIOUS
  <2> HIDE DEF Repeated, Busy
  <2> QED BY <2>1, <2>2, <2>3
<1> QED BY <1>1, <1>2, <1>3, <1>4, Zenon

\* The base's operations are counted by a number.
LEMMA PositionsTypes ==
    ASSUME NEW seq \in Seq(Ops)
    PROVE  Len(RecursionPositions(seq)) \in Nat
<1> DEFINE K == DOMAIN seq \ Markers(seq)
<1>1. K \in SUBSET (1..Len(seq))
  BY LenProperties
<1>2. RecursionPositions(seq) = Places(seq, K)
  BY DEF RecursionPositions
<1> HIDE DEF K
<1>3. Lists(Places(seq, K), K)
  BY <1>1, KeptAtPlaces
<1> QED BY <1>2, <1>3, LenProperties DEF Lists

\* A schedule's counts are numbers.
LEMMA PlannedTypes ==
    ASSUME NEW seq, NEW met \in Seq(STRING), NEW s, NEW sched, Planned(seq, met, s, sched)
    PROVE  /\ sched.start \in Nat /\ sched.after \in Seq(Nat) /\ DOMAIN sched.after = DOMAIN met
           /\ Len(sched.after) = Len(met)
<1> DEFINE where == RecursionPositions(seq)
           issued == CallPositions(seq, met)
           at_end(c) == {m \in DOMAIN s : s[m] # START /\ Ends(issued[c], where[s[m]])}
<1>1. s \in Seq(0..Len(where)) /\ sched.start = Times(s, START)
  BY DEF Planned
<1>2. sched.after = [c \in DOMAIN met |-> Cardinality(at_end(c))]
  BY DEF Planned
<1>3. DOMAIN met = 1..Len(met) /\ Len(met) \in Nat
  BY LenProperties
<1> HIDE DEF where, issued
<1>4. sched.start \in Nat
  BY <1>1, TimesTypes
<1>5. \A c \in DOMAIN met : Cardinality(at_end(c)) \in Nat
  <2>1. IsFiniteSet(DOMAIN s)
    <3>1. DOMAIN s = 1..Len(s) /\ Len(s) \in Nat
      BY <1>1, LenProperties
    <3> QED BY <3>1, FS_Interval
  <2>2. ASSUME NEW c \in DOMAIN met
        PROVE  Cardinality(at_end(c)) \in Nat
    <3>1. at_end(c) \in SUBSET DOMAIN s
      OBVIOUS
    <3> HIDE DEF at_end
    <3> QED BY <2>1, <3>1, FS_Subset, FS_CardinalityType
  <2> QED BY <2>2
<1> HIDE DEF at_end
<1>6. sched.after \in [1..Len(met) -> Nat]
  BY <1>2, <1>3, <1>5
<1> QED BY <1>3, <1>4, <1>6

\* What an event fires where it is the cursor that counts the calls.
FiredFrom(seen, after, cur) == FlattenSeq([n \in DOMAIN seen |-> Fire(after[cur + n])])

\* What a pass has given the device by the event, from an empty device.
RunTo(start, path, names, after, n) == Fire(start) \o Joined(Ran(path, names, after), n)

\* An event adds to it what it issues and what is owed after its calls.
RunsOn(start, path, names, after, i, cur) ==
    RunTo(start, path, names, after, i)
        = (RunTo(start, path, names, after, i - 1) \o Executed(path[i], i))
              \o FiredFrom(Shown(path[i], names), after, cur)

LEMMA RunGrows ==
    ASSUME NEW path \in Seq(Events), NEW names, NEW after \in Seq(Nat), NEW i \in 1..Len(path),
           NEW start \in Nat, NEW cur \in Nat, cur = End(Showing(path, names), i - 1),
           cur + Len(Shown(path[i], names)) <= Len(after)
    PROVE  RunsOn(start, path, names, after, i, cur)
<1> DEFINE rr == Ran(path, names, after)
           seen == Shown(path[i], names)
           fired == FlattenSeq([n \in DOMAIN seen |-> Fire(after[cur + n])])
           J == Joined(rr, i - 1)
           X == Executed(path[i], i)
           F == Fire(start)
<1>1. seen \in Seq(STRING) /\ Len(after) \in Nat /\ DOMAIN after = 1..Len(after)
  BY ShownTypes, LenProperties
<1>2. fired = Fired(path, names, after, i)
  <2> HIDE DEF seen
  <2>1. DOMAIN seen = 1..Len(seen) /\ Len(seen) \in Nat
    BY <1>1, LenProperties
  <2>2. cur + Len(seen) <= Len(after)
    BY DEF seen
  <2>3. \A n \in DOMAIN seen : after[cur + n] = Owed(after, cur + n)
    <3> SUFFICES ASSUME NEW n \in DOMAIN seen PROVE after[cur + n] = Owed(after, cur + n)
      OBVIOUS
    <3>1. cur + n \in DOMAIN after
      <4>1. n \in Nat /\ 1 <= n /\ n <= Len(seen)
        BY <2>1
      <4> HIDE DEF fired, rr, J, X, F
      <4>2. \A x, y, z, w \in Nat : 1 <= w /\ w <= y /\ x + y <= z => x + w \in 1..z
        OBVIOUS
      <4>3. cur + n \in 1..Len(after)
        BY <1>1, <2>1, <2>2, <4>1, <4>2, Zenon
      <4> QED BY <1>1, <4>3
    <3> QED BY <3>1 DEF Owed
  <2>4. [n \in DOMAIN seen |-> Fire(after[cur + n])] = [n \in DOMAIN seen |-> Fire(Owed(after, cur + n))]
    BY <2>3, Zenon
  <2>5. Fired(path, names, after, i) = FlattenSeq([n \in DOMAIN seen |-> Fire(Owed(after, cur + n))])
    BY Zenon DEF Fired, seen
  <2> QED BY <2>4, <2>5, Zenon
<1>3. /\ rr \in Seq(Seq(Things)) /\ Len(rr) = Len(path) /\ Len(path) \in Nat
      /\ X \in Seq(Things) /\ fired \in Seq(Things) /\ rr[i] = X \o fired
  <2> HIDE DEF fired, seen
  <2>1. /\ rr \in Seq(Seq(Things)) /\ Len(rr) = Len(path)
        /\ X \in Seq(Things) /\ Fired(path, names, after, i) \in Seq(Things)
        /\ rr[i] = X \o Fired(path, names, after, i)
    BY RanTypes, Zenon
  <2> QED BY <1>2, <2>1, LenProperties
<1>4. F \in Seq(Things)
  BY FireTypes
<1>5. J \in Seq(Things) /\ Joined(rr, i) = J \o rr[i]
  <2> HIDE DEF rr
  <2>1. i \in 1..Len(rr) /\ i - 1 \in 0..Len(rr)
    BY <1>3
  <2> QED BY <1>3, <2>1, JoinedSteps
<1>6. Associates(Things)
  BY Associative
<1> HIDE DEF rr, seen, fired, J, X, F
<1>7. (F \o J) \o X = F \o (J \o X) /\ J \o X \in Seq(Things)
  BY <1>3, <1>4, <1>5, <1>6, ConcatProperties DEF Associates
<1>8. (F \o (J \o X)) \o fired = F \o ((J \o X) \o fired) /\ (J \o X) \o fired = J \o (X \o fired)
  BY <1>3, <1>4, <1>5, <1>6, <1>7 DEF Associates
<1>9. ((F \o J) \o X) \o fired = F \o Joined(rr, i)
  BY <1>3, <1>5, <1>7, <1>8
<1> QED BY <1>9 DEF RunsOn, RunTo, FiredFrom, rr, seen, fired, J, X, F

LEMMA AsScheduledInit == InjectionInit => AsScheduled
BY DEF InjectionInit, AsScheduled, Calibrated, Scheduled, Under

LEMMA AsScheduledStep == PassesMet /\ AsScheduled /\ [InjectionNext]_injectionVars => AsScheduled'
<1> SUFFICES ASSUME PassesMet, AsScheduled, [InjectionNext]_injectionVars PROVE AsScheduled'
  OBVIOUS
<1>0. recorded \in Seq(Events) /\ sequence = Recorded(recorded) /\ sequence \in Seq(Ops)
  BY RecordedTypes DEF PassesMet
<1> USE DEF Calibrated, Scheduled, Under
<1>1. CASE Refuse
  BY <1>1 DEF Refuse, AsScheduled
<1>2. CASE Price
  <2>1. CASE stage' = "priced"
    <3>1. PICK path \in Detours(recorded) :
              base' = Assigned(sequence, NullCalls(path, sequence)).ops /\ UNCHANGED sequence
      BY <1>2, <2>1 DEF Price, Refuse
    <3>2. \E host : base' = ToOperations(sequence, host).ops
      BY <3>1 DEF Assigned
    <3>3. Matches(base, sequence)'
      BY <1>0, <3>1, <3>2, OperationsMatch
    <3> QED BY <2>1, <3>3 DEF AsScheduled
  <2> QED BY <1>1, <1>2, <2>1 DEF Price
<1>3. CASE Calibrate
  <2>1. CASE stage' = "calibrated"
    <3>1. /\ stage = "priced" /\ issuedBy' = CallPositions(sequence, calls')
          /\ UNCHANGED <<sequence, base>>
      BY <1>3, <2>1 DEF Calibrate, Refuse
    <3> QED BY <2>1, <3>1 DEF AsScheduled
  <2> QED BY <1>1, <1>3, <2>1 DEF Calibrate
<1>4. CASE Schedule
  <2>1. CASE stage' = "scheduled"
    <3> DEFINE where == RecursionPositions(sequence)
               at_end(s, m, c) == s[m] # START /\ Ends(issuedBy[c], where[s[m]])
    <3>1. PICK s \in Plans :
              /\ Len(base) = Len(where) /\ sites' = s
              /\ \A m \in DOMAIN s : s[m] = START \/ \E c \in DOMAIN calls : at_end(s, m, c)
              /\ schedule' = [start |-> Times(s, START),
                              after |-> [c \in DOMAIN calls |->
                                            Cardinality({m \in DOMAIN s : at_end(s, m, c)})]]
              /\ UNCHANGED <<sequence, base, calls, issuedBy>>
      BY <1>4, <2>1 DEF Schedule, Refuse
    <3>2. stage = "calibrated" /\ Matches(base, sequence) /\ issuedBy = CallPositions(sequence, calls)
      BY <1>4 DEF Schedule, AsScheduled
    <3>3. s \in Seq(0..Len(where))
      <4>1. DOMAIN base = 1..Len(where)
        BY <3>2 DEF Matches
      <4>2. Len(where) \in Nat
        BY <1>0, PositionsTypes
      <4> HIDE DEF where
      <4> QED BY <4>1, <4>2, PlansTypes
    <3>4. Planned(sequence, calls, sites', schedule')
      BY <3>1, <3>2, <3>3 DEF Planned
    <3> QED BY <2>1, <3>1, <3>2, <3>4 DEF AsScheduled
  <2> QED BY <1>1, <1>4, <2>1 DEF Schedule
<1>5. CASE Begin
  <2>1. PICK path \in Detours(recorded) : pass' = path
    BY <1>5 DEF Begin
  <2>2. /\ stage \in Scheduled /\ stage' = "running" /\ at' = 1 /\ executed' = Fire(schedule.start)
        /\ UNCHANGED <<recorded, sequence, base, other, launching, calls, issuedBy, sites, schedule>>
    BY <1>5 DEF Begin
  <2>3. schedule.start \in Nat /\ schedule.after \in Seq(Nat)
    BY <2>2, PlannedTypes DEF AsScheduled, PassesMet
  <2>4. pass' \in Seq(Events)
    BY <1>0, <2>1, DetoursTypes
  <2>5. executed' = Fire(schedule.start) \o Joined(Ran(pass', launching, schedule.after), at' - 1)
    <3> DEFINE rr == Ran(pass', launching, schedule.after)
    <3>1. rr \in Seq(Seq(Things))
      BY <2>3, <2>4, RanTypes
    <3>2. Joined(rr, 0) = <<>>
      <4> HIDE DEF rr
      <4> QED BY <3>1, JoinedSteps, Zenon
    <3>3. Fire(schedule.start) \in Seq(Things)
      BY <2>3, FireTypes
    <3> HIDE DEF rr
    <3>4. Fire(schedule.start) \o Joined(rr, 0) = Fire(schedule.start)
      BY <3>2, <3>3, ConcatEmptySeq
    <3> QED BY <2>2, <3>4 DEF rr
  <2> QED BY <2>2, <2>5 DEF AsScheduled
<1>6. CASE Event
  <2>1. CASE stage' = "running"
    <3> DEFINE seen == Shown(pass[at], launching)
               fired == FlattenSeq([n \in DOMAIN seen |-> Fire(schedule.after[cursor + n])])
    <3>1. /\ stage = "running" /\ at <= Len(pass)
          /\ cursor + Len(seen) <= Len(calls)
          /\ executed' = executed \o Executed(pass[at], at) \o fired /\ at' = at + 1
          /\ UNCHANGED <<recorded, sequence, base, launching, calls, issuedBy, sites, schedule, pass>>
      BY <1>6, <2>1 DEF Event, Refuse
    <3>2. /\ pass \in Seq(Events) /\ at \in 1..(Len(pass) + 1) /\ cursor \in 0..Len(calls)
          /\ calls \in Seq(STRING)
          /\ Observed(SubSeq(pass, 1, at - 1), launching) = SubSeq(calls, 1, cursor)
      BY <3>1 DEF PassesMet
    <3>3. at \in 1..Len(pass) /\ at - 1 \in 0..Len(pass) /\ at' - 1 = at /\ cursor \in Nat
      BY <3>1, <3>2, LenProperties
    <3>4. cursor = End(Showing(pass, launching), at - 1)
      <4>1. Len(SubSeq(calls, 1, cursor)) = cursor
        BY <3>2, LenProperties, SubSeqProperties
      <4> QED BY <3>2, <3>3, <4>1, ObservedGrows DEF Showing
    <3>5. /\ schedule.start \in Nat /\ schedule.after \in Seq(Nat) /\ Len(schedule.after) = Len(calls)
      BY <3>1, <3>2, PlannedTypes DEF AsScheduled
    <3>6. RunsOn(schedule.start, pass, launching, schedule.after, at, cursor)
      <4>1. cursor + Len(Shown(pass[at], launching)) <= Len(schedule.after)
        BY <3>1, <3>5
      <4> QED BY <3>2, <3>3, <3>4, <3>5, <4>1, RunGrows, Zenon
    <3>7. executed = Fire(schedule.start) \o Joined(Ran(pass, launching, schedule.after), at - 1)
      BY <3>1 DEF AsScheduled
    <3> HIDE DEF fired
    <3>8. executed' = Fire(schedule.start) \o Joined(Ran(pass, launching, schedule.after), at' - 1)
      BY <3>1, <3>3, <3>6, <3>7 DEF RunsOn, RunTo, FiredFrom, fired
    <3> QED BY <2>1, <3>1, <3>8 DEF AsScheduled
  <2> QED BY <1>1, <1>6, <2>1 DEF Event
<1>7. CASE Finish
  BY <1>1, <1>7 DEF Finish, AsScheduled
<1>8. CASE UNCHANGED injectionVars
  BY <1>8 DEF injectionVars, AsScheduled
<1> QED BY <1>2, <1>3, <1>4, <1>5, <1>6, <1>7, <1>8 DEF InjectionNext

\* A measured variant on the recorded path is the predicted one, where the
\* even division is no guess (delay_injector.py:28-36).
THEOREM VariantAsPredictedHolds == InjectionSpec => []VariantAsPredicted
<1>1. PassesMet /\ AsScheduled => VariantAsPredicted
  <2> SUFFICES ASSUME PassesMet, AsScheduled, stage = "measured", pass = recorded, Uniform(recorded)
               PROVE  executed = Inject(base, sites)
    BY DEF VariantAsPredicted
  <2>1. /\ recorded \in Seq(Events) /\ sequence = Recorded(recorded) /\ launching = Names(sequence)
        /\ calls \in Seq(STRING) /\ at = Len(recorded) + 1 /\ Finished
        /\ Observed(SubSeq(recorded, 1, at - 1), launching) = SubSeq(calls, 1, cursor)
    BY DEF PassesMet, Calibrated, Under
  <2>2. at - 1 = Len(recorded) /\ cursor = Len(calls)
    BY <2>1, LenProperties DEF Finished
  <2>3. calls = Observed(recorded, Names(Recorded(recorded)))
    BY <2>1, <2>2, ObservedGrows, SubSeqFull
  <2>4. /\ Matches(base, Recorded(recorded))
        /\ Planned(Recorded(recorded), Observed(recorded, Names(Recorded(recorded))), sites, schedule)
        /\ executed = Fire(schedule.start)
                          \o Joined(Ran(recorded, Names(Recorded(recorded)), schedule.after), Len(recorded))
    BY <2>1, <2>2, <2>3 DEF AsScheduled, Calibrated, Scheduled, Under
  <2>5. schedule.after \in Seq(Nat)
    BY <2>1, <2>3, <2>4, PlannedTypes
  <2>6. Fire(schedule.start)
            \o Joined(Ran(recorded, Names(Recorded(recorded)), schedule.after), Len(recorded))
        = Inject(base, sites)
    BY <2>1, <2>4, <2>5, PathPredicted
  <2> QED BY <2>4, <2>6
<1> QED BY <1>1, PassesMetInit, PassesMetStep, AsScheduledInit, AsScheduledStep, PTL DEF InjectionSpec

(***************************************************************************)
(* Which operations a call prices.  align_calls goes through the recorded  *)
(* calls one by one; each issued operation is at one place of one call,    *)
(* and a call's are divided into the shares of the calls met for it.       *)
(***************************************************************************)
\* What align_calls has after each recorded call.
Fresh == [met |-> TRUE, out |-> <<>>, j |-> 1]
Aligning(seq, names, cc, N, f) ==
    f = [n \in 0..N |-> IF n = 0 THEN Fresh ELSE Aligned(seq, names, f[n - 1], cc[n])]

LEMMA AligningExists ==
    ASSUME NEW seq, NEW names, NEW cc, NEW N \in Nat
    PROVE  \E f : Aligning(seq, names, cc, N, f)
<1> DEFINE T == {n \in 0..N : \E f : Aligning(seq, names, cc, n, f)}
<1>1. 0 \in T
  <2> DEFINE f == [n \in 0..0 |-> Fresh]
  <2>1. f = [n \in 0..0 |-> IF n = 0 THEN Fresh ELSE Aligned(seq, names, f[n - 1], cc[n])]
    OBVIOUS
  <2> HIDE DEF f
  <2>2. Aligning(seq, names, cc, 0, f)
    BY <2>1 DEF Aligning
  <2> QED BY <2>2
<1>2. ASSUME NEW n \in 1..N, n - 1 \in T
      PROVE  n \in T
  <2>1. PICK f : Aligning(seq, names, cc, n - 1, f)
    BY <1>2
  <2> DEFINE new == Aligned(seq, names, f[n - 1], cc[n])
             g == [i \in 0..n |-> IF i = n THEN new ELSE f[i]]
  <2>2. ASSUME NEW i \in 0..n
        PROVE  g[i] = IF i = 0 THEN Fresh ELSE Aligned(seq, names, g[i - 1], cc[i])
    <3>1. CASE i = n
      <4>1. g[i] = new /\ i # 0
        BY <3>1
      <4>2. g[i - 1] = f[n - 1]
        BY <3>1
      <4> QED BY <4>1, <4>2, <3>1
    <3>2. CASE i # n
      <4>1. i \in 0..(n - 1) /\ g[i] = f[i] /\ (i # 0 => g[i - 1] = f[i - 1])
        BY <3>2
      <4>2. f[i] = IF i = 0 THEN Fresh ELSE Aligned(seq, names, f[i - 1], cc[i])
        BY <4>1, <2>1, Zenon DEF Aligning
      <4> QED BY <4>1, <4>2
    <3> QED BY <3>1, <3>2
  <2>3. g = [i \in 0..n |-> g[i]]
    OBVIOUS
  <2> HIDE DEF g
  <2>4. g = [i \in 0..n |-> IF i = 0 THEN Fresh ELSE Aligned(seq, names, g[i - 1], cc[i])]
    BY <2>2, <2>3
  <2>5. Aligning(seq, names, cc, n, g)
    BY <2>4 DEF Aligning
  <2> QED BY <2>5
<1> HIDE DEF T
<1>3. N \in T
  BY <1>1, <1>2, UpTo
<1> QED BY <1>3 DEF T

LEMMA AlignIs ==
    ASSUME NEW seq, NEW names, NEW cc, cc = RecordedCalls(seq, ToSet(names)), Len(cc) \in Nat
    PROVE  \E f : /\ Aligning(seq, names, cc, Len(cc), f)
                  /\ AlignCalls(seq, names) = [met |-> f[Len(cc)].met /\ f[Len(cc)].j = Len(names) + 1,
                                               out |-> f[Len(cc)].out]
<1> DEFINE f == CHOOSE f : f = [n \in 0..Len(cc) |->
                     IF n = 0 THEN [met |-> TRUE, out |-> <<>>, j |-> 1]
                     ELSE Aligned(seq, names, f[n - 1], cc[n])]
<1>1. AlignCalls(seq, names) = [met |-> f[Len(cc)].met /\ f[Len(cc)].j = Len(names) + 1,
                                out |-> f[Len(cc)].out]
  BY DEF AlignCalls
<1>2. \E g : Aligning(seq, names, cc, Len(cc), g)
  BY AligningExists
<1>3. \E g : g = [n \in 0..Len(cc) |->
                     IF n = 0 THEN [met |-> TRUE, out |-> <<>>, j |-> 1]
                     ELSE Aligned(seq, names, g[n - 1], cc[n])]
  BY <1>2, Zenon DEF Aligning, Fresh
<1>4. f = [n \in 0..Len(cc) |->
                     IF n = 0 THEN [met |-> TRUE, out |-> <<>>, j |-> 1]
                     ELSE Aligned(seq, names, f[n - 1], cc[n])]
  BY <1>3, Zenon
<1> HIDE DEF f
<1>5. Aligning(seq, names, cc, Len(cc), f)
  BY <1>4, Zenon DEF Aligning, Fresh
<1> QED BY <1>1, <1>5, Zenon

\* Sequences of S that have each member of S once, between them, and are not
\* empty.
Divides(ss, S) ==
    /\ ss \in Seq(Seq(S))
    /\ \A n \in 1..Len(ss) : Len(ss[n]) # 0
    /\ \A n, m \in 1..Len(ss) : \A a \in 1..Len(ss[n]) : \A b \in 1..Len(ss[m]) :
           ss[n][a] = ss[m][b] => n = m /\ a = b
    /\ \A x \in S : \E n \in 1..Len(ss) : \E a \in 1..Len(ss[n]) : ss[n][a] = x

Listed(p) == {p[a] : a \in 1..Len(p)}

LEMMA SharesDivide ==
    ASSUME NEW S, NEW p \in Seq(S), NEW n \in Nat, n < Len(p),
           \A a, b \in 1..Len(p) : p[a] = p[b] => a = b
    PROVE  Divides(SharesOf(p, n), Listed(p)) /\ Len(SharesOf(p, n)) = n + 1
<1> DEFINE ss == SharesOf(p, n)
           L == Listed(p)
           r == SubSeq(p, n + 1, Len(p))
<1>1. Len(p) \in Nat /\ \A a \in 1..Len(p) : p[a] \in L
  BY LenProperties DEF Listed
<1>2. p \in Seq(L)
  <2>1. p = [a \in 1..Len(p) |-> p[a]]
    BY LenProperties
  <2> HIDE DEF L
  <2>2. p \in [1..Len(p) -> L]
    BY <1>1, <2>1, Zenon
  <2> QED BY <1>1, <2>2
<1>3. ss = [m \in 1..(n + 1) |-> IF m = n + 1 THEN r ELSE <<p[m]>>]
  BY SMTT(60) DEF SharesOf
<1> HIDE DEF L
<1>4. r \in Seq(L) /\ Len(r) = Len(p) - n /\ \A a \in 1..Len(r) : r[a] = p[n + a]
  <2>1. /\ n + 1 \in 1..(Len(p) + 1) /\ Len(p) \in ((n + 1) - 1)..Len(p)
        /\ Len(p) - (n + 1) + 1 = Len(p) - n
    BY <1>1
  <2>2. /\ SubSeq(p, n + 1, Len(p)) \in Seq(L) /\ Len(SubSeq(p, n + 1, Len(p))) = Len(p) - (n + 1) + 1
        /\ \A a \in 1..(Len(p) - (n + 1) + 1) : SubSeq(p, n + 1, Len(p))[a] = p[(n + 1) + a - 1]
    <3> HIDE DEF ss, r
    <3> DEFINE u == n + 1
    <3>1. u \in 1..(Len(p) + 1) /\ Len(p) \in (u - 1)..Len(p)
      BY <2>1
    <3> HIDE DEF u
    <3>2. /\ SubSeq(p, u, Len(p)) \in Seq(L) /\ Len(SubSeq(p, u, Len(p))) = Len(p) - u + 1
          /\ \A a \in 1..(Len(p) - u + 1) : SubSeq(p, u, Len(p))[a] = p[u + a - 1]
      BY <1>2, <3>1, SubSeqProperties
    <3> QED BY <3>2 DEF u
  <2>3. \A a \in 1..(Len(p) - n) : (n + 1) + a - 1 = n + a
    BY <1>1
  <2> QED BY <2>1, <2>2, <2>3
<1> HIDE DEF r
<1>5. ASSUME NEW m \in 1..n
      PROVE  m \in 1..Len(p) /\ ss[m] = <<p[m]>> /\ ss[m] \in Seq(L) /\ Len(ss[m]) = 1 /\ ss[m][1] = p[m]
  BY <1>1, <1>3
<1>6. ss[n + 1] = r
  BY <1>3
<1> HIDE DEF ss
<1>7. ss \in Seq(Seq(L)) /\ Len(ss) = n + 1
  <2>1. \A m \in 1..(n + 1) : ss[m] \in Seq(L)
    BY <1>4, <1>5, <1>6
  <2>2. ss = [m \in 1..(n + 1) |-> ss[m]]
    BY <1>3
  <2>3. ss \in [1..(n + 1) -> Seq(L)]
    BY <2>1, <2>2, Zenon
  <2> QED BY <2>3
\* the place of each element in p
<1>8. ASSUME NEW m \in 1..(n + 1), NEW a \in 1..Len(ss[m])
      PROVE  /\ m = n + 1 => n + a \in 1..Len(p) /\ ss[m][a] = p[n + a] /\ n + a > n
             /\ m # n + 1 => m \in 1..n /\ a = 1 /\ m \in 1..Len(p) /\ ss[m][a] = p[m]
  <2>1. CASE m = n + 1
    BY <1>1, <1>4, <1>6, <2>1
  <2>2. CASE m # n + 1
    <3>1. m \in 1..n
      BY <2>2
    <3>2. ss[m] = <<p[m]>> /\ Len(ss[m]) = 1 /\ m \in 1..Len(p) /\ ss[m][1] = p[m]
      BY <1>5, <3>1
    <3>3. a = 1
      BY <3>2
    <3> QED BY <2>2, <3>1, <3>2, <3>3
  <2> QED BY <2>1, <2>2
<1>9. ASSUME NEW k \in 1..(n + 1), NEW m \in 1..(n + 1), NEW a \in 1..Len(ss[k]), NEW b \in 1..Len(ss[m]),
             ss[k][a] = ss[m][b]
      PROVE  k = m /\ a = b
  <2>1. CASE k = n + 1 /\ m = n + 1
    <3>1. n + a = n + b
      BY <1>8, <1>9, <2>1
    <3>2. a \in Int /\ b \in Int
      BY <1>4, <1>6, <2>1
    <3> QED BY <2>1, <3>1, <3>2
  <2>2. CASE k # n + 1 /\ m # n + 1
    BY <1>8, <1>9, <2>2
  <2>3. CASE k = n + 1 /\ m # n + 1
    <3>1. n + a = m /\ n + a > n /\ m \in 1..n
      BY <1>8, <1>9, <2>3
    <3> QED BY <3>1
  <2>4. CASE k # n + 1 /\ m = n + 1
    <3>1. n + b = k /\ n + b > n /\ k \in 1..n
      BY <1>8, <1>9, <2>4
    <3> QED BY <3>1
  <2> QED BY <2>1, <2>2, <2>3, <2>4
<1>10. ASSUME NEW x \in L
       PROVE  \E m \in 1..(n + 1) : \E a \in 1..Len(ss[m]) : ss[m][a] = x
  <2>1. PICK a \in 1..Len(p) : p[a] = x
    BY DEF L, Listed
  <2>2. CASE a <= n
    <3>1. a \in 1..n /\ a \in 1..(n + 1)
      BY <1>1, <2>2
    <3>2. 1 \in 1..Len(ss[a]) /\ ss[a][1] = x
      BY <1>5, <2>1, <3>1
    <3> QED BY <3>1, <3>2
  <2>3. CASE a > n
    <3>1. n + 1 \in 1..(n + 1) /\ a - n \in 1..Len(r) /\ n + (a - n) = a
      BY <1>1, <1>4, <2>3
    <3>2. ss[n + 1][a - n] = x
      BY <1>4, <1>6, <2>1, <3>1
    <3> QED BY <1>6, <3>1, <3>2
  <2>4. a <= n \/ a > n
    BY <1>1
  <2> QED BY <2>2, <2>3, <2>4, Zenon
<1>11. ASSUME NEW m \in 1..(n + 1)
       PROVE  Len(ss[m]) # 0
  <2>1. Len(ss[n + 1]) # 0
    BY <1>1, <1>4, <1>6
  <2>2. CASE m = n + 1
    BY <2>1, <2>2, Zenon
  <2>3. CASE m # n + 1
    <3>1. m \in 1..n
      BY <2>3
    <3>2. Len(ss[m]) = 1
      BY <1>5, <3>1
    <3> QED BY <3>2
  <2> QED BY <2>2, <2>3
<1> QED BY <1>7, <1>9, <1>10, <1>11 DEF Divides, ss, L

LEMMA JoinDivides ==
    ASSUME NEW S, NEW T, NEW ss, NEW tt, Divides(ss, S), Divides(tt, T), S \cap T = {}
    PROVE  Divides(ss \o tt, S \cup T) /\ Len(ss \o tt) = Len(ss) + Len(tt)
<1> DEFINE U == S \cup T
           uu == ss \o tt
           M == Len(ss)
           N == Len(tt)
<1>1. /\ ss \in Seq(Seq(S)) /\ tt \in Seq(Seq(T)) /\ M \in Nat /\ N \in Nat
      /\ \A n \in 1..M : ss[n] \in Seq(S) /\ Len(ss[n]) # 0
      /\ \A n \in 1..N : tt[n] \in Seq(T) /\ Len(tt[n]) # 0
  BY LenProperties, ElementOfSeq DEF Divides
<1>2. ss \in Seq(Seq(U)) /\ tt \in Seq(Seq(U))
  <2>1. Seq(S) \subseteq Seq(U) /\ Seq(T) \subseteq Seq(U)
    <3>1. S \subseteq U /\ T \subseteq U
      OBVIOUS
    <3> QED BY <3>1, SeqMonotonic, Zenon
  <2>2. Seq(Seq(S)) \subseteq Seq(Seq(U)) /\ Seq(Seq(T)) \subseteq Seq(Seq(U))
    BY <2>1, SeqMonotonic, Zenon
  <2> QED BY <1>1, <2>2
<1> HIDE DEF U
<1>3. /\ uu \in Seq(Seq(U)) /\ Len(uu) = M + N
      /\ \A n \in 1..(M + N) : uu[n] = IF n <= M THEN ss[n] ELSE tt[n - M]
  BY <1>2, ConcatProperties
<1>4. /\ \A n \in 1..M : uu[n] = ss[n]
      /\ \A n \in 1..(M + N) : n > M => n - M \in 1..N /\ uu[n] = tt[n - M]
      /\ \A n \in 1..N : M + n \in 1..(M + N) /\ (M + n) - M = n /\ M + n > M
      /\ \A n \in 1..M : n \in 1..(M + N)
      /\ \A n \in 1..(M + N) : ~(n > M) => n \in 1..M
  BY <1>1, <1>3
<1>5. /\ \A n, m \in 1..M : \A a \in 1..Len(ss[n]) : \A b \in 1..Len(ss[m]) :
             ss[n][a] = ss[m][b] => n = m /\ a = b
      /\ \A n, m \in 1..N : \A a \in 1..Len(tt[n]) : \A b \in 1..Len(tt[m]) :
             tt[n][a] = tt[m][b] => n = m /\ a = b
  BY DEF Divides
<1>6. /\ \A n \in 1..M : \A a \in 1..Len(ss[n]) : ss[n][a] \in S
      /\ \A n \in 1..N : \A a \in 1..Len(tt[n]) : tt[n][a] \in T
  BY <1>1, ElementOfSeq
<1> HIDE DEF uu, M, N
<1>7. ASSUME NEW n \in 1..(M + N), NEW m \in 1..(M + N), NEW a \in 1..Len(uu[n]), NEW b \in 1..Len(uu[m]),
             uu[n][a] = uu[m][b]
      PROVE  n = m /\ a = b
  <2>1. CASE n > M /\ m > M
    <3>1. n - M \in 1..N /\ m - M \in 1..N /\ uu[n] = tt[n - M] /\ uu[m] = tt[m - M]
      BY <1>4, <2>1
    <3> DEFINE x == n - M
               y == m - M
    <3>2. x \in 1..N /\ y \in 1..N /\ a \in 1..Len(tt[x]) /\ b \in 1..Len(tt[y]) /\ tt[x][a] = tt[y][b]
      BY <1>7, <3>1
    <3>3. n = x + M /\ m = y + M
      BY <1>1
    <3> HIDE DEF x, y
    <3>4. \A h, k \in 1..N : \A c \in 1..Len(tt[h]) : \A d \in 1..Len(tt[k]) :
              tt[h][c] = tt[k][d] => h = k /\ c = d
      BY <1>5, Zenon
    <3>5. \A c \in 1..Len(tt[x]) : \A d \in 1..Len(tt[y]) : tt[x][c] = tt[y][d] => x = y /\ c = d
      BY <3>2, <3>4, ZenonT(60)
    <3>6. x = y /\ a = b
      BY <3>2, <3>5, Zenon
    <3> QED BY <3>3, <3>6
  <2>2. CASE ~(n > M) /\ ~(m > M)
    <3>1. n \in 1..M /\ m \in 1..M /\ uu[n] = ss[n] /\ uu[m] = ss[m]
      BY <1>4, <2>2
    <3> QED BY <1>5, <1>7, <3>1, ZenonT(60)
  <2>3. CASE n > M /\ ~(m > M)
    <3>1. uu[n][a] \in T /\ uu[m][b] \in S
      <4>1. n - M \in 1..N /\ m \in 1..M /\ uu[n] = tt[n - M] /\ uu[m] = ss[m]
        BY <1>4, <2>3
      <4> QED BY <1>6, <4>1
    <3> QED BY <1>7, <3>1
  <2>4. CASE ~(n > M) /\ m > M
    <3>1. uu[n][a] \in S /\ uu[m][b] \in T
      <4>1. m - M \in 1..N /\ n \in 1..M /\ uu[m] = tt[m - M] /\ uu[n] = ss[n]
        BY <1>4, <2>4
      <4> QED BY <1>6, <4>1
    <3> QED BY <1>7, <3>1
  <2> QED BY <2>1, <2>2, <2>3, <2>4
<1>8. ASSUME NEW x \in S \cup T
      PROVE  \E n \in 1..(M + N) : \E a \in 1..Len(uu[n]) : uu[n][a] = x
  <2>1. CASE x \in S
    <3>1. PICK n \in 1..M : \E a \in 1..Len(ss[n]) : ss[n][a] = x
      BY <2>1 DEF Divides, M
    <3> QED BY <1>4, <3>1
  <2>2. CASE x \in T
    <3>1. PICK n \in 1..N : \E a \in 1..Len(tt[n]) : tt[n][a] = x
      BY <2>2 DEF Divides, N
    <3>2. M + n \in 1..(M + N) /\ uu[M + n] = tt[n]
      BY <1>4, <3>1
    <3> QED BY <3>1, <3>2
  <2> QED BY <2>1, <2>2
<1>9. \A n \in 1..(M + N) : Len(uu[n]) # 0
  BY <1>1, <1>4
<1>10. Divides(uu, U)
  <2>1. \A x \in U : \E n \in 1..Len(uu) : \E a \in 1..Len(uu[n]) : uu[n][a] = x
    BY <1>3, <1>8 DEF U
  <2> QED BY <1>3, <1>7, <1>9, <2>1 DEF Divides
<1> QED BY <1>3, <1>10 DEF U, uu, M, N

LEMMA ListsEach ==
    ASSUME NEW K \in SUBSET Nat, NEW P, Lists(P, K)
    PROVE  /\ P \in Seq(K) /\ Len(P) \in Nat /\ DOMAIN P = 1..Len(P) /\ Listed(P) = K
           /\ \A a \in 1..Len(P) : P[a] \in K
           /\ \A a, b \in 1..Len(P) : P[a] = P[b] => a = b
<1>1. P \in Seq(K) /\ Len(P) \in Nat /\ DOMAIN P = 1..Len(P) /\ \A a \in 1..Len(P) : P[a] \in K
  BY LenProperties, ElementOfSeq DEF Lists
<1>2. \A a \in 1..Len(P) : \A b \in (a + 1)..Len(P) : P[a] < P[b]
  BY DEF Lists
<1>3. ASSUME NEW a \in 1..Len(P), NEW b \in 1..Len(P), P[a] = P[b]
      PROVE  a = b
  <2>1. P[a] \in Nat /\ P[b] \in Nat
    BY <1>1
  <2>2. CASE a < b
    <3>1. b \in (a + 1)..Len(P)
      BY <1>1, <2>2
    <3>2. P[a] < P[b]
      BY <1>2, <3>1
    <3> QED BY <1>3, <2>1, <3>2
  <2>3. CASE b < a
    <3>1. a \in (b + 1)..Len(P)
      BY <1>1, <2>3
    <3>2. P[b] < P[a]
      BY <1>2, <3>1
    <3> QED BY <1>3, <2>1, <3>2
  <2> QED BY <1>1, <2>2, <2>3
<1>4. Listed(P) = K
  <2>1. \A p \in K : \E a \in 1..Len(P) : P[a] = p
    BY DEF Lists
  <2> QED BY <1>1, <2>1 DEF Listed
<1> QED BY <1>1, <1>3, <1>4

\* The recorded call of an operation that is met at one of names.
Key(seq, names, p) == [call |-> seq[p].call, met |-> MetAt(seq[p], names)]
Alike(seq, names, p) == {q \in IssuedAt(seq) : Key(seq, names, q) = Key(seq, names, p)}
FirstOf(seq, names) == {p \in IssuedAt(seq) : \A q \in Alike(seq, names, p) : p <= q}

\* Each issued operation is at one place of one recorded call.
LEMMA CallsDivide ==
    ASSUME NEW seq \in Seq(Ops), NEW names
    PROVE  LET cc == RecordedCalls(seq, names)
           IN /\ Len(cc) \in Nat
              /\ Divides([n \in 1..Len(cc) |-> cc[n].positions], IssuedAt(seq))
<1> DEFINE cc == RecordedCalls(seq, names)
           pp == [n \in 1..Len(cc) |-> cc[n].positions]
           A == IssuedAt(seq)
           B(p) == Alike(seq, names, p)
           F == Places(seq, FirstOf(seq, names))
           N == Len(F)
<1>1. A \in SUBSET (1..Len(seq)) /\ A \in SUBSET Nat /\ FirstOf(seq, names) \in SUBSET A
  BY LenProperties DEF IssuedAt, FirstOf
<1>2. cc = [n \in DOMAIN F |-> [name |-> Key(seq, names, F[n]).met.name, positions |-> Places(seq, B(F[n]))]]
  BY Zenon DEF RecordedCalls, Key, Alike, FirstOf
<1>3. Lists(F, FirstOf(seq, names))
  <2>1. FirstOf(seq, names) \in SUBSET (1..Len(seq))
    BY <1>1
  <2> QED BY <2>1, KeptAtPlaces
<1> HIDE DEF F, cc
<1>4. /\ N \in Nat /\ DOMAIN F = 1..N /\ \A n \in 1..N : F[n] \in FirstOf(seq, names)
      /\ \A n, m \in 1..N : F[n] = F[m] => n = m
      /\ Listed(F) = FirstOf(seq, names)
  <2>1. FirstOf(seq, names) \in SUBSET Nat
    BY <1>1
  <2> QED BY <1>3, <2>1, ListsEach
<1>5. Len(cc) = N /\ \A n \in 1..N : cc[n].positions = Places(seq, B(F[n]))
  BY <1>2, <1>4
<1>6. pp = [n \in 1..N |-> Places(seq, B(F[n]))]
  BY <1>5
<1>7. \A p : B(p) \in SUBSET A
  BY DEF Alike
<1> HIDE DEF pp
<1>8. ASSUME NEW n \in 1..N
      PROVE  /\ pp[n] = Places(seq, B(F[n])) /\ pp[n] \in Seq(A) /\ Len(pp[n]) \in Nat
             /\ Listed(pp[n]) = B(F[n])
             /\ \A a \in 1..Len(pp[n]) : pp[n][a] \in B(F[n])
             /\ \A a, b \in 1..Len(pp[n]) : pp[n][a] = pp[n][b] => a = b
  <2>1. pp[n] = Places(seq, B(F[n]))
    BY <1>6
  <2> DEFINE K == B(F[n])
             P == pp[n]
  <2>2. K \in SUBSET (1..Len(seq)) /\ K \in SUBSET Nat /\ K \subseteq A
    BY <1>1, <1>7
  <2>3. Lists(P, K)
    <3> HIDE DEF K
    <3>1. Lists(Places(seq, K), K)
      BY <2>2, KeptAtPlaces
    <3> QED BY <2>1, <3>1 DEF K
  <2> HIDE DEF K, P
  <2>4. /\ P \in Seq(K) /\ Len(P) \in Nat /\ Listed(P) = K
        /\ \A a \in 1..Len(P) : P[a] \in K
        /\ \A a, b \in 1..Len(P) : P[a] = P[b] => a = b
    BY <2>2, <2>3, ListsEach
  <2>5. P \in Seq(A)
    BY <2>2, <2>4, SeqMonotonic
  <2> QED BY <2>1, <2>4, <2>5 DEF P, K
<1>9. pp \in Seq(Seq(A)) /\ Len(pp) = N
  <2>1. \A n \in 1..N : pp[n] \in Seq(A)
    BY <1>8
  <2>2. pp = [n \in 1..N |-> pp[n]]
    BY <1>6
  <2>3. pp \in [1..N -> Seq(A)]
    BY <2>1, <2>2, Zenon
  <2> QED BY <1>4, <2>3
<1>10. ASSUME NEW n \in 1..N
       PROVE  Len(pp[n]) # 0
  <2>1. F[n] \in B(F[n])
    BY <1>1, <1>4 DEF Alike
  <2>2. Listed(pp[n]) # {}
    BY <1>8, <2>1
  <2> QED BY <2>2 DEF Listed
<1>11. ASSUME NEW n \in 1..N, NEW m \in 1..N, NEW a \in 1..Len(pp[n]), NEW b \in 1..Len(pp[m]),
              pp[n][a] = pp[m][b]
       PROVE  n = m /\ a = b
  <2>1. pp[n][a] \in B(F[n]) /\ pp[m][b] \in B(F[m])
    BY <1>8
  <2>2. Key(seq, names, F[n]) = Key(seq, names, F[m])
    BY <1>11, <2>1 DEF Alike
  <2>3. F[n] \in FirstOf(seq, names) /\ F[m] \in FirstOf(seq, names) /\ F[n] \in Nat /\ F[m] \in Nat
    BY <1>1, <1>4
  <2>4. F[n] \in B(F[m]) /\ F[m] \in B(F[n])
    BY <1>1, <2>2, <2>3 DEF Alike
  <2>5. F[n] <= F[m] /\ F[m] <= F[n]
    BY <2>3, <2>4 DEF FirstOf
  <2>6. n = m
    BY <1>4, <2>3, <2>5
  <2> QED BY <1>8, <1>11, <2>6
<1>12. ASSUME NEW x \in A
       PROVE  \E n \in 1..N : \E a \in 1..Len(pp[n]) : pp[n][a] = x
  <2>1. x \in B(x) /\ B(x) \in SUBSET Nat
    BY <1>1, <1>7 DEF Alike
  <2>2. PICK y \in B(x) : \A z \in B(x) : y <= z
    BY <2>1, HasLeast
  <2>3. B(y) = B(x) /\ y \in A
    BY <2>2 DEF Alike
  <2>4. y \in FirstOf(seq, names)
    BY <2>2, <2>3 DEF FirstOf
  <2>5. PICK n \in 1..N : F[n] = y
    BY <1>4, <2>4 DEF Listed
  <2>6. x \in Listed(pp[n])
    BY <1>8, <2>1, <2>3, <2>5
  <2> QED BY <2>6 DEF Listed
<1>13. Divides(pp, A)
  BY <1>9, <1>10, <1>11, <1>12 DEF Divides
<1> QED BY <1>4, <1>5, <1>13 DEF pp, cc

LEMMA FollowingWithin ==
    ASSUME NEW names, Len(names) \in Nat, NEW j \in 1..Len(names), NEW S, NEW limit \in Nat
    PROVE  Following(names, j, S, limit) \in 0..limit
<1> DEFINE Sound(n) == j + n <= Len(names) + 1 /\ \A m \in j..(j + n - 1) : names[m] \in S
           Ends1(n) == n = limit \/ j + n > Len(names) \/ names[j + n] \notin S
           T == {n \in 0..limit : Sound(n)}
<1>1. \E n \in 0..limit : Sound(n) /\ Ends1(n)
  <2> SUFFICES ASSUME \A n \in 0..limit : ~(Sound(n) /\ Ends1(n)) PROVE FALSE
    OBVIOUS
  <2>1. 0 \in T
    OBVIOUS
  <2>2. ASSUME NEW n \in 1..limit, n - 1 \in T
        PROVE  n \in T
    <3>1. n - 1 \in 0..limit /\ Sound(n - 1) /\ ~Ends1(n - 1)
      BY <2>2
    <3>2. j + (n - 1) <= Len(names) /\ names[j + (n - 1)] \in S
      BY <3>1
    <3>3. ASSUME NEW m \in j..(j + n - 1)
          PROVE  names[m] \in S
      <4>1. CASE m = j + (n - 1)
        BY <3>2, <4>1
      <4>2. CASE m # j + (n - 1)
        <5>1. m \in j..(j + (n - 1) - 1)
          BY <4>2
        <5> QED BY <3>1, <5>1
      <4> QED BY <4>1, <4>2
    <3>4. j + n <= Len(names) + 1
      BY <3>2
    <3> QED BY <3>3, <3>4
  <2> HIDE DEF T
  <2>3. \A n \in 0..limit : n \in T
    BY <2>1, <2>2, UpTo
  <2>4. limit \in 0..limit /\ Sound(limit)
    BY <2>3 DEF T
  <2> QED BY <2>4
<1>2. Following(names, j, S, limit) = CHOOSE n \in 0..limit : Sound(n) /\ Ends1(n)
  BY Zenon DEF Following
<1> HIDE DEF Sound, Ends1
<1> QED BY <1>1, <1>2

LEMMA AlignedStep ==
    ASSUME NEW seq, NEW names, Len(names) \in Nat, NEW acc, NEW call, NEW A, NEW S,
           call.positions \in Seq(A), Len(call.positions) # 0,
           \A a, b \in 1..Len(call.positions) : call.positions[a] = call.positions[b] => a = b,
           acc.met => Divides(acc.out, S) /\ acc.j = Len(acc.out) + 1,
           S \cap Listed(call.positions) = {}, Aligned(seq, names, acc, call).met
    PROVE  /\ Divides(Aligned(seq, names, acc, call).out, S \cup Listed(call.positions))
           /\ Aligned(seq, names, acc, call).j = Len(Aligned(seq, names, acc, call).out) + 1
<1> DEFINE p == call.positions
           nested == UNION {ToSet(seq[x].chain) : x \in ToSet(p)} \ {call.name}
           n == IF acc.j > Len(names) THEN 0 ELSE Following(names, acc.j, nested, Len(p) - 1)
           x == Aligned(seq, names, acc, call)
           Fits == /\ names[acc.j + n] = call.name
                   /\ \A m \in DOMAIN SharesOf(p, n) :
                          ChainMeets(seq[SharesOf(p, n)[m][1]], names[acc.j + m - 1])
<1>1. x = IF acc.met /\ acc.j + n <= Len(names) /\ Fits
          THEN [met |-> TRUE, out |-> acc.out \o SharesOf(p, n), j |-> acc.j + n + 1]
          ELSE [met |-> FALSE, out |-> acc.out, j |-> acc.j]
  BY Zenon DEF Aligned
<1> HIDE DEF x, nested, Fits
<1>2. /\ acc.met /\ acc.j + n <= Len(names)
      /\ x.out = acc.out \o SharesOf(p, n) /\ x.j = acc.j + n + 1
  <2>1. x.met
    BY DEF x
  <2> HIDE DEF n
  <2> QED BY <1>1, <2>1
<1>3. Divides(acc.out, S) /\ acc.j = Len(acc.out) + 1 /\ Len(acc.out) \in Nat
  BY <1>2, LenProperties DEF Divides
<1>4. Len(p) \in Nat /\ Len(p) - 1 \in Nat
  BY LenProperties
<1>5. n \in 0..(Len(p) - 1)
  <2>1. CASE acc.j > Len(names)
    BY <1>4, <2>1
  <2>2. CASE ~(acc.j > Len(names))
    <3>1. acc.j \in 1..Len(names)
      BY <1>3, <2>2
    <3>2. Following(names, acc.j, nested, Len(p) - 1) \in 0..(Len(p) - 1)
      BY <1>4, <3>1, FollowingWithin
    <3> QED BY <2>2, <3>2
  <2> QED BY <2>1, <2>2
<1> HIDE DEF n
<1>6. Divides(SharesOf(p, n), Listed(p)) /\ Len(SharesOf(p, n)) = n + 1
  <2>1. p \in Seq(A) /\ n \in Nat /\ n < Len(p) /\ \A a, b \in 1..Len(p) : p[a] = p[b] => a = b
    BY <1>4, <1>5
  <2> HIDE DEF p
  <2> QED BY <2>1, SharesDivide
<1>7. /\ Divides(acc.out \o SharesOf(p, n), S \cup Listed(p))
      /\ Len(acc.out \o SharesOf(p, n)) = Len(acc.out) + Len(SharesOf(p, n))
  <2> DEFINE ss == acc.out
             tt == SharesOf(p, n)
             L == Listed(p)
  <2>1. Divides(ss, S) /\ Divides(tt, L) /\ S \cap L = {}
    BY <1>3, <1>6
  <2> HIDE DEF ss, tt, L
  <2>2. Divides(ss \o tt, S \cup L) /\ Len(ss \o tt) = Len(ss) + Len(tt)
    BY <2>1, JoinDivides
  <2> QED BY <2>2 DEF ss, tt, L
<1>8. Divides(x.out, S \cup Listed(p))
  BY <1>2, <1>7
<1>9. x.j = Len(x.out) + 1
  <2>1. Len(x.out) = Len(acc.out) + (n + 1)
    BY <1>2, <1>6, <1>7
  <2>2. n \in Nat
    BY <1>4, <1>5
  <2> DEFINE l == Len(acc.out)
             k == acc.j
  <2>3. l \in Nat /\ k = l + 1 /\ x.j = k + n + 1 /\ Len(x.out) = l + (n + 1)
    BY <1>2, <1>3, <2>1
  <2> HIDE DEF l, k, p
  <2>4. k + n + 1 = (l + (n + 1)) + 1
    BY <2>2, <2>3
  <2> QED BY <2>3, <2>4
<1> QED BY <1>8, <1>9 DEF x

\* An alignment that is met gives each call of the pass a share of its own of
\* the issued operations, and leaves none.
LEMMA AlignmentDivides ==
    ASSUME NEW seq \in Seq(Ops), NEW names, Len(names) \in Nat, AlignCalls(seq, names).met
    PROVE  /\ Divides(AlignCalls(seq, names).out, IssuedAt(seq))
           /\ Len(AlignCalls(seq, names).out) = Len(names)
<1> DEFINE cc == RecordedCalls(seq, ToSet(names))
           N == Len(cc)
           A == IssuedAt(seq)
           pp == [n \in 1..Len(cc) |-> cc[n].positions]
           U(n) == UNION {Listed(pp[i]) : i \in 1..n}
<1>1. N \in Nat /\ Divides(pp, A)
  BY CallsDivide
<1>2. PICK f : /\ Aligning(seq, names, cc, N, f)
               /\ AlignCalls(seq, names) = [met |-> f[N].met /\ f[N].j = Len(names) + 1, out |-> f[N].out]
  <2> HIDE DEF cc
  <2>1. cc = RecordedCalls(seq, ToSet(names)) /\ Len(cc) \in Nat
    BY <1>1 DEF cc
  <2> QED BY <2>1, AlignIs
<1>3. /\ f[0] = Fresh
      /\ \A n \in 1..N : f[n] = Aligned(seq, names, f[n - 1], cc[n])
  <2> HIDE DEF cc, N
  <2>1. \A n \in 0..N : f[n] = IF n = 0 THEN Fresh ELSE Aligned(seq, names, f[n - 1], cc[n])
    BY <1>2, Zenon DEF Aligning
  <2> QED BY <1>1, <2>1
<1>4. \A n \in 1..N : cc[n].positions = pp[n]
  OBVIOUS
<1>5. Len(pp) = N
  <2> HIDE DEF cc
  <2> QED BY <1>1
<1> HIDE DEF cc, N, pp, A
<1>6. /\ pp \in Seq(Seq(A)) /\ \A n \in 1..N : pp[n] \in Seq(A) /\ Len(pp[n]) # 0
      /\ \A n \in 1..N : \A a, b \in 1..Len(pp[n]) : pp[n][a] = pp[n][b] => a = b
      /\ \A n, m \in 1..N : n # m => Listed(pp[n]) \cap Listed(pp[m]) = {}
      /\ \A x \in A : \E n \in 1..N : x \in Listed(pp[n])
      /\ \A n \in 1..N : Listed(pp[n]) \subseteq A
  <2>1. /\ pp \in Seq(Seq(A)) /\ \A n \in 1..N : Len(pp[n]) # 0
        /\ \A n, m \in 1..N : \A a \in 1..Len(pp[n]) : \A b \in 1..Len(pp[m]) :
               pp[n][a] = pp[m][b] => n = m /\ a = b
        /\ \A x \in A : \E n \in 1..N : \E a \in 1..Len(pp[n]) : pp[n][a] = x
    BY <1>1, <1>5 DEF Divides
  <2>2. \A n \in 1..N : pp[n] \in Seq(A)
    BY <1>5, <2>1, ElementOfSeq
  <2>3. \A n \in 1..N : \A a \in 1..Len(pp[n]) : pp[n][a] \in A
    BY <2>2, ElementOfSeq
  <2>4. ASSUME NEW n \in 1..N, NEW m \in 1..N, n # m
        PROVE  Listed(pp[n]) \cap Listed(pp[m]) = {}
    <3> SUFFICES ASSUME NEW x, x \in Listed(pp[n]), x \in Listed(pp[m]) PROVE FALSE
      OBVIOUS
    <3>1. PICK a \in 1..Len(pp[n]) : pp[n][a] = x
      BY DEF Listed
    <3>2. PICK b \in 1..Len(pp[m]) : pp[m][b] = x
      BY DEF Listed
    <3>3. pp[n][a] = pp[m][b]
      BY <3>1, <3>2, Zenon
    <3>4. \A c \in 1..Len(pp[n]) : \A d \in 1..Len(pp[m]) : pp[n][c] = pp[m][d] => n = m
      BY <2>1, Zenon
    <3> QED BY <2>4, <3>3, <3>4, Zenon
  <2>7. ASSUME NEW n \in 1..N, NEW a \in 1..Len(pp[n]), NEW b \in 1..Len(pp[n]), pp[n][a] = pp[n][b]
        PROVE  a = b
    BY <2>1, <2>7
  <2>5. \A x \in A : \E n \in 1..N : x \in Listed(pp[n])
    BY <2>1 DEF Listed
  <2>6. \A n \in 1..N : Listed(pp[n]) \subseteq A
    BY <2>3 DEF Listed
  <2> QED BY <2>1, <2>2, <2>4, <2>5, <2>6, <2>7
<1> DEFINE T == {n \in 0..N : f[n].met => Divides(f[n].out, U(n)) /\ f[n].j = Len(f[n].out) + 1}
<1>7. 0 \in T
  <2>1. U(0) = {}
    OBVIOUS
  <2>2. Divides(<<>>, {})
    BY EmptySeq DEF Divides
  <2>3. f[0].out = <<>> /\ f[0].j = 1 /\ Len(<<>>) = 0
    BY <1>3 DEF Fresh
  <2> HIDE DEF U
  <2> HIDE DEF T
  <2>4. Divides(f[0].out, U(0)) /\ f[0].j = Len(f[0].out) + 1
    <3>1. Divides(f[0].out, U(0))
      BY <2>1, <2>2, <2>3, Zenon
    <3>2. Len(f[0].out) = 0
      BY <2>3, Zenon
    <3> QED BY <2>3, <3>1, <3>2
  <2>5. 0 \in 0..N
    BY <1>1
  <2> QED BY <2>4, <2>5 DEF T
<1>8. ASSUME NEW n \in 1..N, n - 1 \in T
      PROVE  n \in T
  <2> SUFFICES ASSUME f[n].met
               PROVE  Divides(f[n].out, U(n)) /\ f[n].j = Len(f[n].out) + 1
    OBVIOUS
  <2>1. f[n] = Aligned(seq, names, f[n - 1], cc[n]) /\ cc[n].positions = pp[n]
    BY <1>3, <1>4
  <2>2. f[n - 1].met => Divides(f[n - 1].out, U(n - 1)) /\ f[n - 1].j = Len(f[n - 1].out) + 1
    BY <1>8
  <2>3. U(n - 1) \cap Listed(pp[n]) = {} /\ U(n) = U(n - 1) \cup Listed(pp[n])
    <3>1. \A i \in 1..(n - 1) : i \in 1..N /\ i # n
      BY <1>1
    <3>2. \A i \in 1..(n - 1) : Listed(pp[i]) \cap Listed(pp[n]) = {}
      BY <1>6, <3>1
    <3>3. 1..n = (1..(n - 1)) \cup {n}
      BY <1>1
    <3> QED BY <3>2, <3>3
  <2> HIDE DEF U, T
  <2> DEFINE acc == f[n - 1]
             call == cc[n]
             S == U(n - 1)
  <2>4. /\ call.positions \in Seq(A) /\ Len(call.positions) # 0
        /\ \A a, b \in 1..Len(call.positions) : call.positions[a] = call.positions[b] => a = b
        /\ acc.met => Divides(acc.out, S) /\ acc.j = Len(acc.out) + 1
        /\ S \cap Listed(call.positions) = {} /\ Aligned(seq, names, acc, call).met
    BY <1>6, <2>1, <2>2, <2>3
  <2> HIDE DEF acc, call, S
  <2>5. /\ Divides(Aligned(seq, names, acc, call).out, S \cup Listed(call.positions))
        /\ Aligned(seq, names, acc, call).j = Len(Aligned(seq, names, acc, call).out) + 1
    BY <2>4, AlignedStep
  <2> QED BY <2>1, <2>3, <2>5 DEF acc, call, S
<1>9. f[N].met => Divides(f[N].out, U(N)) /\ f[N].j = Len(f[N].out) + 1
  <2> HIDE DEF T
  <2>1. \A n \in 0..N : n \in T
    BY <1>1, <1>7, <1>8, UpTo
  <2>2. N \in 0..N
    BY <1>1
  <2> QED BY <2>1, <2>2 DEF T
<1>10. U(N) = A
  BY <1>6
<1> HIDE DEF U, T
<1>11. f[N].met /\ f[N].j = Len(names) + 1 /\ AlignCalls(seq, names).out = f[N].out
  <2> DEFINE b == f[N].met /\ f[N].j = Len(names) + 1
             o == f[N].out
  <2>1. AlignCalls(seq, names) = [met |-> b, out |-> o]
    BY <1>2
  <2> HIDE DEF b, o
  <2>2. AlignCalls(seq, names).met = b /\ AlignCalls(seq, names).out = o
    BY <2>1
  <2>3. b
    BY <2>2
  <2> QED BY <2>2, <2>3 DEF b, o
<1>12. Divides(f[N].out, A) /\ f[N].j = Len(f[N].out) + 1
  BY <1>9, <1>10, <1>11
<1>13. Len(f[N].out) \in Nat
  BY <1>12, LenProperties DEF Divides
<1>14. Len(f[N].out) = Len(names)
  BY <1>11, <1>12, <1>13
<1> QED BY <1>11, <1>12, <1>14 DEF A

(***************************************************************************)
(* Times charged.                                                          *)
(***************************************************************************)
LEMMA SameCount ==
    ASSUME NEW S, NEW T, IsFiniteSet(S), NEW f \in [S -> T],
           \A a, b \in S : f[a] = f[b] => a = b, \A t \in T : \E s \in S : f[s] = t
    PROVE  IsFiniteSet(T) /\ Cardinality(T) = Cardinality(S)
<1>1. f \in Bijection(S, T)
  BY DEF Bijection, Injection, Surjection, IsInjective
<1>2. ExistsBijection(S, T)
  BY <1>1 DEF ExistsBijection
<1> QED BY <1>2, FS_Bijection

\* A set listed has as many members as its list.
LEMMA ListedCount ==
    ASSUME NEW K \in SUBSET Nat, NEW P, Lists(P, K)
    PROVE  IsFiniteSet(K) /\ Cardinality(K) = Len(P)
<1>1. /\ Len(P) \in Nat /\ Listed(P) = K /\ \A a \in 1..Len(P) : P[a] \in K
      /\ \A a, b \in 1..Len(P) : P[a] = P[b] => a = b
  BY ListsEach
<1> DEFINE f == [a \in 1..Len(P) |-> P[a]]
<1>2. f \in [1..Len(P) -> K] /\ \A a \in 1..Len(P) : f[a] = P[a]
  BY <1>1
<1> HIDE DEF f
<1>3. \A a, b \in 1..Len(P) : f[a] = f[b] => a = b
  BY <1>1, <1>2
<1>4. \A t \in K : \E a \in 1..Len(P) : f[a] = t
  BY <1>1, <1>2 DEF Listed
<1>5. IsFiniteSet(1..Len(P)) /\ Cardinality(1..Len(P)) = Len(P)
  <2> DEFINE n == Len(P)
  <2>1. n \in Nat
    BY <1>1
  <2> HIDE DEF n
  <2>2. IsFiniteSet(1..n) /\ Cardinality(1..n) = n
    BY <2>1, FS_Interval
  <2> QED BY <2>2 DEF n
<1> DEFINE S == 1..Len(P)
<1>6. /\ IsFiniteSet(S) /\ f \in [S -> K] /\ \A a, b \in S : f[a] = f[b] => a = b
      /\ \A t \in K : \E a \in S : f[a] = t
  BY <1>2, <1>3, <1>4, <1>5
<1> HIDE DEF S
<1>7. IsFiniteSet(K) /\ Cardinality(K) = Cardinality(S)
  BY <1>6, SameCount
<1> QED BY <1>5, <1>7 DEF S

\* The operations past the first of their call.
Rest(ss) == UNION {ToSet(Tail(ss[n])) : n \in DOMAIN ss}

LEMMA RestCounted ==
    ASSUME NEW S, IsFiniteSet(S), NEW ss, Divides(ss, S)
    PROVE  /\ DOMAIN ss = 1..Len(ss) /\ Len(ss) \in Nat /\ \A n \in 1..Len(ss) : ss[n][1] \in S
           /\ Rest(ss) \subseteq S /\ IsFiniteSet(Rest(ss))
           /\ Cardinality(Rest(ss)) = Cardinality(S) - Len(ss)
<1> DEFINE N == Len(ss)
           Firsts == {ss[n][1] : n \in 1..N}
           R == Rest(ss)
<1>1. /\ ss \in Seq(Seq(S)) /\ \A n \in 1..N : Len(ss[n]) # 0
      /\ \A n, m \in 1..N : \A a \in 1..Len(ss[n]) : \A b \in 1..Len(ss[m]) :
             ss[n][a] = ss[m][b] => n = m /\ a = b
      /\ \A x \in S : \E n \in 1..N : \E a \in 1..Len(ss[n]) : ss[n][a] = x
  BY DEF Divides
<1>2. N \in Nat /\ DOMAIN ss = 1..N /\ \A n \in 1..N : ss[n] \in Seq(S) /\ Len(ss[n]) \in Nat
  BY <1>1, LenProperties, ElementOfSeq
<1> HIDE DEF N
<1>3. \A n \in 1..N : 1 \in 1..Len(ss[n]) /\ \A a \in 1..Len(ss[n]) : ss[n][a] \in S
  <2> SUFFICES ASSUME NEW n \in 1..N
               PROVE  1 \in 1..Len(ss[n]) /\ \A a \in 1..Len(ss[n]) : ss[n][a] \in S
    OBVIOUS
  <2>1. ss[n] \in Seq(S) /\ Len(ss[n]) \in Nat /\ Len(ss[n]) # 0
    BY <1>1, <1>2
  <2> DEFINE s == ss[n]
  <2>2. s \in Seq(S) /\ Len(s) \in Nat /\ Len(s) # 0
    BY <2>1
  <2> HIDE DEF s
  <2>3. 1 \in 1..Len(s) /\ \A a \in 1..Len(s) : s[a] \in S
    BY <2>2, ElementOfSeq
  <2> QED BY <2>3 DEF s
<1>4. ASSUME NEW n \in 1..N
      PROVE  ToSet(Tail(ss[n])) = {ss[n][a] : a \in 2..Len(ss[n])}
  <2> DEFINE s == ss[n]
             t == Tail(s)
  <2>1. s \in Seq(S) /\ s # <<>> /\ Len(s) \in Nat
    BY <1>1, <1>2, EmptySeq
  <2> HIDE DEF s
  <2>2. t \in Seq(S) /\ Len(t) = Len(s) - 1 /\ \A i \in 1..(Len(s) - 1) : t[i] = s[i + 1]
    BY <2>1, HeadTailProperties
  <2> HIDE DEF t
  <2>3. DOMAIN t = 1..(Len(s) - 1)
    BY <2>2, LenProperties
  <2>4. ToSet(t) = {t[i] : i \in 1..(Len(s) - 1)}
    BY <2>3 DEF ToSet
  <2>5. \A i \in 1..(Len(s) - 1) : i + 1 \in 2..Len(s)
    BY <2>1
  <2>6. \A a \in 2..Len(s) : a - 1 \in 1..(Len(s) - 1) /\ t[a - 1] = s[a]
    BY <2>1, <2>2
  <2>7. ToSet(t) \subseteq {s[a] : a \in 2..Len(s)}
    BY <2>2, <2>4, <2>5
  <2>8. {s[a] : a \in 2..Len(s)} \subseteq ToSet(t)
    BY <2>4, <2>6
  <2> QED BY <2>7, <2>8 DEF t, s
<1>5. R = UNION {{ss[n][a] : a \in 2..Len(ss[n])} : n \in 1..N}
  BY <1>2, <1>4 DEF Rest
<1> HIDE DEF R
<1>6. R \subseteq S
  BY <1>3, <1>5
<1>7. ASSUME NEW x \in S
      PROVE  x \in Firsts \/ x \in R
  <2>1. PICK n \in 1..N : \E a \in 1..Len(ss[n]) : ss[n][a] = x
    BY <1>1
  <2>2. PICK a \in 1..Len(ss[n]) : ss[n][a] = x
    BY <2>1
  <2>3. CASE a = 1
    BY <2>2, <2>3
  <2>4. CASE a # 1
    <3>1. a \in 2..Len(ss[n])
      BY <1>2, <2>4
    <3> QED BY <1>5, <2>2, <3>1
  <2> QED BY <2>3, <2>4
<1>8. ASSUME NEW x, x \in Firsts, x \in R
      PROVE  FALSE
  <2>1. PICK n \in 1..N : ss[n][1] = x
    BY <1>8
  <2>2. PICK m \in 1..N : \E b \in 2..Len(ss[m]) : ss[m][b] = x
    BY <1>5, <1>8
  <2>3. PICK b \in 2..Len(ss[m]) : ss[m][b] = x
    BY <2>2
  <2>4. b \in 1..Len(ss[m]) /\ b # 1 /\ 1 \in 1..Len(ss[n])
    BY <1>3
  <2> QED BY <1>1, <2>1, <2>3, <2>4
<1>9. IsFiniteSet(Firsts) /\ Cardinality(Firsts) = N
  <2> DEFINE f == [n \in 1..N |-> ss[n][1]]
             D == 1..N
  <2>1. IsFiniteSet(D) /\ Cardinality(D) = N
    BY <1>2, FS_Interval
  <2>2. f \in [D -> Firsts] /\ \A n \in D : f[n] = ss[n][1]
    OBVIOUS
  <2>3. \A t \in Firsts : \E n \in D : f[n] = t
    OBVIOUS
  <2>4. \A n, m \in D : ss[n][1] = ss[m][1] => n = m
    BY <1>1, <1>3
  <2> HIDE DEF f, D, Firsts
  <2>5. \A n, m \in D : f[n] = f[m] => n = m
    BY <2>2, <2>4
  <2>6. IsFiniteSet(Firsts) /\ Cardinality(Firsts) = Cardinality(D)
    BY <2>1, <2>2, <2>3, <2>5, SameCount
  <2> QED BY <2>1, <2>6
<1>10. Firsts \subseteq S
  BY <1>3
<1> HIDE DEF Firsts
<1>11. IsFiniteSet(R) /\ Cardinality(R) \in Nat
  BY <1>6, FS_Subset, FS_CardinalityType
<1>12. S = Firsts \cup R /\ Firsts \cap R = {}
  BY <1>6, <1>7, <1>8, <1>10
<1>13. Cardinality(S) = N + Cardinality(R)
  <2>1. Cardinality(Firsts \cup R) = Cardinality(Firsts) + Cardinality(R) - Cardinality(Firsts \cap R)
    BY <1>9, <1>11, FS_Union
  <2>2. Cardinality(Firsts \cap R) = 0
    BY <1>12, FS_EmptySet
  <2> QED BY <1>2, <1>9, <1>11, <1>12, <2>1, <2>2
<1> QED BY <1>2, <1>3, <1>6, <1>11, <1>13 DEF R, N

\* The times h of the operation at p, which has the shares sh and regions marks.
Charging(h, sh, marks, p) ==
    /\ \A n : <<"gap", n>> \in h <=> n \in DOMAIN sh /\ sh[n][1] = p
    /\ \A n : <<"launch", n>> \in h <=> n \in DOMAIN sh /\ sh[n][1] = p
    /\ \A q : <<"floor", q>> \in h <=> q = p /\ p \in Rest(sh)
    /\ \A m : <<"mark", m>> \in h <=> m \in DOMAIN marks /\ marks[m] = p

LEMMA HostCostsAre ==
    ASSUME NEW seq, NEW sh, NEW p \in DOMAIN seq
    PROVE  Charging(HostCosts(seq, sh)[p], sh, Places(seq, Markers(seq)), p)
<1> DEFINE marks == Places(seq, Markers(seq))
           h == HostCosts(seq, sh)[p]
           G == {<<"gap", n>> : n \in {n \in DOMAIN sh : sh[n][1] = p}}
           L == {<<"launch", n>> : n \in {n \in DOMAIN sh : sh[n][1] = p}}
           F == {<<"floor", p>> : n \in {n \in DOMAIN sh : p \in ToSet(Tail(sh[n]))}}
           M == {<<"mark", m>> : m \in {m \in DOMAIN marks : marks[m] = p}}
<1>1. h = ((G \cup L) \cup F) \cup M
  BY DEF HostCosts
<1> HIDE DEF h, marks
<1>2. /\ \A n : <<"gap", n>> \in G <=> n \in DOMAIN sh /\ sh[n][1] = p
      /\ \A n : <<"gap", n>> \notin L /\ <<"gap", n>> \notin F /\ <<"gap", n>> \notin M
  OBVIOUS
<1>3. /\ \A n : <<"launch", n>> \in L <=> n \in DOMAIN sh /\ sh[n][1] = p
      /\ \A n : <<"launch", n>> \notin G /\ <<"launch", n>> \notin F /\ <<"launch", n>> \notin M
  OBVIOUS
<1>4. /\ \A q : <<"floor", q>> \in F <=> q = p /\ p \in Rest(sh)
      /\ \A q : <<"floor", q>> \notin G /\ <<"floor", q>> \notin L /\ <<"floor", q>> \notin M
  BY DEF Rest
<1>5. /\ \A m : <<"mark", m>> \in M <=> m \in DOMAIN marks /\ marks[m] = p
      /\ \A m : <<"mark", m>> \notin G /\ <<"mark", m>> \notin L /\ <<"mark", m>> \notin F
  OBVIOUS
<1> HIDE DEF G, L, F, M
<1>6. Charging(h, sh, marks, p)
  BY <1>1, <1>2, <1>3, <1>4, <1>5 DEF Charging
<1> QED BY <1>6 DEF h, marks

\* What the operation at p is charged, by time, the shares being sh.
Costing(cost, seq, sh, p) ==
    LET marks == Places(seq, Markers(seq))
    IN /\ \A n : <<"gap", n>> \in cost <=> n \in DOMAIN sh /\ sh[n][1] = p
       /\ \A n : <<"launch", n>> \in cost <=> n \in DOMAIN sh /\ sh[n][1] = p
       /\ \A q : <<"floor", q>> \in cost <=> q = p /\ p \in Rest(sh)
       /\ \A m : <<"mark", m>> \in cost <=>
              /\ IsIssue(seq[p]) /\ m \in DOMAIN marks /\ marks[m] < p
              /\ NoneIssued(seq, marks[m], p - 1)

LEMMA CostsAre ==
    ASSUME NEW seq \in Seq(Ops), NEW sh, Divides(sh, IssuedAt(seq)), NEW k,
           k \in 1..Len(RecursionPositions(seq))
    PROVE  Costing(ToOperations(seq, HostCosts(seq, sh)).ops[k].cost, seq, sh, RecursionPositions(seq)[k])
<1> DEFINE marks == Places(seq, Markers(seq))
           where == RecursionPositions(seq)
           p == where[k]
           host == HostCosts(seq, sh)
           A == IssuedAt(seq)
           cost == ToOperations(seq, host).ops[k].cost
           C == Carried(seq, host, p)
<1>1. cost = IF IsIssue(seq[p]) THEN host[p] \cup C ELSE {}
  <2>1. cost = CostOf(seq, host, p)
    <3> HIDE DEF host
    <3> QED BY OperationsMatch
  <2> QED BY <2>1 DEF CostOf
<1>2. p \in DOMAIN seq
  <2> DEFINE K == DOMAIN seq \ Markers(seq)
  <2>1. K \in SUBSET (1..Len(seq)) /\ where = Places(seq, K)
    BY LenProperties DEF RecursionPositions
  <2> HIDE DEF K, where
  <2>2. Lists(where, K)
    BY <2>1, KeptAtPlaces
  <2>3. where[k] \in K
    <3>1. where \in Seq(K)
      BY <2>2 DEF Lists
    <3>2. k \in 1..Len(where)
      BY DEF where
    <3> QED BY <3>1, <3>2, ElementOfSeq
  <2> QED BY <2>3 DEF K
<1>3. Lists(marks, Markers(seq)) /\ Markers(seq) \in SUBSET (1..Len(seq)) /\ DOMAIN seq = 1..Len(seq)
  <2>1. Markers(seq) \in SUBSET (1..Len(seq)) /\ DOMAIN seq = 1..Len(seq)
    BY LenProperties DEF Markers
  <2> QED BY <2>1, KeptAtPlaces
<1>4. marks \in Seq(Markers(seq)) /\ \A m \in DOMAIN marks : marks[m] \in Markers(seq)
  <2>1. marks \in Seq(Markers(seq)) /\ DOMAIN marks = 1..Len(marks)
    BY <1>3, LenProperties DEF Lists
  <2> QED BY <2>1, ElementOfSeq
<1>5. /\ \A n \in DOMAIN sh : sh[n][1] \in A
      /\ Rest(sh) \subseteq A
      /\ \A q \in A : IsIssue(seq[q])
      /\ \A q \in Markers(seq) : q \notin A /\ q \in DOMAIN seq
  <2>1. A \in SUBSET (1..Len(seq)) /\ Len(seq) \in Nat
    BY <1>3, LenProperties DEF IssuedAt
  <2>2. IsFiniteSet(A)
    <3> DEFINE N == Len(seq)
    <3>1. N \in Nat /\ A \subseteq 1..N
      BY <2>1
    <3> HIDE DEF A, N
    <3>2. IsFiniteSet(1..N)
      BY <3>1, FS_Interval
    <3> QED BY <3>1, <3>2, FS_Subset
  <2>3. (\A n \in DOMAIN sh : sh[n][1] \in A) /\ Rest(sh) \subseteq A
    <3> HIDE DEF A
    <3>1. Divides(sh, A)
      BY DEF A
    <3>2. DOMAIN sh = 1..Len(sh) /\ (\A n \in 1..Len(sh) : sh[n][1] \in A) /\ Rest(sh) \subseteq A
      BY <2>2, <3>1, RestCounted
    <3> QED BY <3>2
  <2>4. \A q \in A : IsIssue(seq[q])
    BY DEF IssuedAt
  <2>5. \A q \in Markers(seq) : q \notin A /\ q \in DOMAIN seq
    BY DEF Markers, IssuedAt, IsHost, IsIssue
  <2> QED BY <2>3, <2>4, <2>5
<1>6. ~IsIssue(seq[p]) => p \notin A
  BY <1>5
<1>7. \A q \in DOMAIN seq : Charging(host[q], sh, marks, q)
  BY HostCostsAre, Zenon
<1>8. \A c : c \in C <=> \E q \in Markers(seq) : q < p /\ NoneIssued(seq, q, p - 1) /\ c \in host[q]
  <2> HIDE DEF host, p
  <2> QED BY DEF Carried
<1> HIDE DEF cost, host, marks, where, A, C, p
<1>9. /\ \A n : <<"gap", n>> \notin C /\ <<"launch", n>> \notin C
      /\ \A x : <<"floor", x>> \notin C
  <2>1. \A q \in Markers(seq) : /\ \A n : <<"gap", n>> \notin host[q] /\ <<"launch", n>> \notin host[q]
                                /\ \A x : <<"floor", x>> \notin host[q]
    <3> TAKE q \in Markers(seq)
    <3>1. q \notin A /\ Charging(host[q], sh, marks, q)
      BY <1>5, <1>7
    <3> QED BY <1>5, <3>1 DEF Charging
  <2> QED BY <1>8, <2>1
<1>10. \A m : <<"mark", m>> \in C <=>
                  m \in DOMAIN marks /\ marks[m] < p /\ NoneIssued(seq, marks[m], p - 1)
  <2> TAKE m
  <2>1. ASSUME <<"mark", m>> \in C
        PROVE  m \in DOMAIN marks /\ marks[m] < p /\ NoneIssued(seq, marks[m], p - 1)
    <3>1. PICK q \in Markers(seq) : q < p /\ NoneIssued(seq, q, p - 1) /\ <<"mark", m>> \in host[q]
      BY <1>8, <2>1
    <3>2. Charging(host[q], sh, marks, q)
      BY <1>5, <1>7
    <3>3. m \in DOMAIN marks /\ marks[m] = q
      BY <3>1, <3>2 DEF Charging
    <3> QED BY <3>1, <3>3
  <2>2. ASSUME m \in DOMAIN marks, marks[m] < p, NoneIssued(seq, marks[m], p - 1)
        PROVE  <<"mark", m>> \in C
    <3>1. marks[m] \in Markers(seq) /\ marks[m] \in DOMAIN seq
      BY <1>4, <1>5, <2>2
    <3>2. Charging(host[marks[m]], sh, marks, marks[m])
      BY <1>7, <3>1
    <3>3. <<"mark", m>> \in host[marks[m]]
      BY <2>2, <3>2 DEF Charging
    <3> QED BY <1>8, <2>2, <3>1, <3>3
  <2> QED BY <2>1, <2>2
<1>11. Charging(host[p], sh, marks, p)
  BY <1>2, <1>7
<1>12. IsIssue(seq[p]) => \A m : <<"mark", m>> \notin host[p]
  <2> SUFFICES ASSUME NEW m, <<"mark", m>> \in host[p] PROVE ~IsIssue(seq[p])
    OBVIOUS
  <2>1. p \in Markers(seq)
    BY <1>4, <1>11 DEF Charging
  <2> QED BY <2>1 DEF Markers, IsHost, IsIssue
<1>13. (\E n \in DOMAIN sh : sh[n][1] = p) \/ p \in Rest(sh) => IsIssue(seq[p])
  BY <1>5
<1>14. \A n : (<<"gap", n>> \in cost <=> n \in DOMAIN sh /\ sh[n][1] = p)
               /\ (<<"launch", n>> \in cost <=> n \in DOMAIN sh /\ sh[n][1] = p)
  BY <1>1, <1>9, <1>11, <1>13 DEF Charging
<1>15. \A q : <<"floor", q>> \in cost <=> q = p /\ p \in Rest(sh)
  BY <1>1, <1>9, <1>11, <1>13 DEF Charging
<1>16. \A m : <<"mark", m>> \in cost <=>
                  /\ IsIssue(seq[p]) /\ m \in DOMAIN marks /\ marks[m] < p
                  /\ NoneIssued(seq, marks[m], p - 1)
  BY <1>1, <1>10, <1>12
<1>17. Costing(cost, seq, sh, p)
  BY <1>14, <1>15, <1>16 DEF Costing, marks
<1> QED BY <1>17 DEF cost, host, where, p

\* What ops charge, by time, where the calls of the pass have the shares sh.
Costed(ops, seq, sh) ==
    LET where == RecursionPositions(seq)
    IN /\ DOMAIN ops = 1..Len(where)
       /\ \A k \in 1..Len(where) : Costing(ops[k].cost, seq, sh, where[k])

LEMMA BaseCosted ==
    ASSUME NEW seq \in Seq(Ops), NEW sh, Divides(sh, IssuedAt(seq))
    PROVE  Costed(ToOperations(seq, HostCosts(seq, sh)).ops, seq, sh)
<1> DEFINE where == RecursionPositions(seq)
           host == HostCosts(seq, sh)
           ops == ToOperations(seq, host).ops
<1>1. DOMAIN ops = 1..Len(where)
  <2> HIDE DEF host
  <2> QED BY OperationsMatch DEF Matches
<1>2. ASSUME NEW k \in 1..Len(where)
      PROVE  Costing(ops[k].cost, seq, sh, where[k])
  BY CostsAre, Zenon
<1> HIDE DEF where, ops
<1>3. Costed(ops, seq, sh)
  BY <1>1, <1>2 DEF Costed, where
<1> QED BY <1>3 DEF ops

\* The operations charged a time, and those charged a floor.
ChargedOf(ops, c) == {k \in DOMAIN ops : c \in ops[k].cost}
Floored(ops, seq) == {k \in DOMAIN ops : \E p \in DOMAIN seq : <<"floor", p>> \in ops[k].cost}

LEMMA OneMember ==
    ASSUME NEW S, NEW x \in S, \A y \in S : y = x
    PROVE  Cardinality(S) = 1
<1>1. S = {x}
  OBVIOUS
<1> QED BY <1>1, FS_Singleton

\* A call's gap and launch are charged at the first operation of its share.
LEMMA OneLaunch ==
    ASSUME NEW seq \in Seq(Ops), NEW sh, Divides(sh, IssuedAt(seq)), NEW ops, Costed(ops, seq, sh),
           NEW n \in 1..Len(sh)
    PROVE  /\ Cardinality(ChargedOf(ops, <<"gap", n>>)) = 1
           /\ Cardinality(ChargedOf(ops, <<"launch", n>>)) = 1
<1> DEFINE where == RecursionPositions(seq)
           K == DOMAIN seq \ Markers(seq)
           A == IssuedAt(seq)
           p == sh[n][1]
<1>1. PICK e : Numbers(e, seq)
  BY NumbersExist
<1>2. /\ \A q \in K : e[q] \in 1..Len(where) /\ where[e[q]] = q
      /\ \A k \in 1..Len(where) : where[k] \in K /\ e[where[k]] = k
  BY <1>1 DEF Numbers
<1>3. A \in SUBSET K /\ IsFiniteSet(A)
  <2>1. A \in SUBSET K
    BY DEF IssuedAt, Markers, IsIssue, IsHost
  <2>2. K \in SUBSET (1..Len(seq)) /\ Len(seq) \in Nat
    BY LenProperties
  <2>3. IsFiniteSet(1..Len(seq))
    <3> DEFINE N == Len(seq)
    <3>1. N \in Nat
      BY <2>2
    <3> HIDE DEF N
    <3> QED BY <3>1, FS_Interval
  <2> HIDE DEF K, A
  <2>4. A \subseteq 1..Len(seq)
    BY <2>1, <2>2
  <2> QED BY <2>1, <2>3, <2>4, FS_Subset
<1> HIDE DEF A, K, where
<1>4. DOMAIN sh = 1..Len(sh) /\ p \in A
  <2>1. Divides(sh, A)
    BY DEF A
  <2> QED BY <1>3, <2>1, RestCounted
<1> HIDE DEF p
<1>5. e[p] \in 1..Len(where) /\ where[e[p]] = p
  BY <1>2, <1>3, <1>4
<1>6. /\ DOMAIN ops = 1..Len(where)
      /\ \A k \in 1..Len(where) :
             /\ <<"gap", n>> \in ops[k].cost <=> where[k] = p
             /\ <<"launch", n>> \in ops[k].cost <=> where[k] = p
  <2>1. DOMAIN ops = 1..Len(where)
    BY DEF Costed, where
  <2>2. ASSUME NEW k \in 1..Len(where)
        PROVE  /\ <<"gap", n>> \in ops[k].cost <=> where[k] = p
               /\ <<"launch", n>> \in ops[k].cost <=> where[k] = p
    <3>1. Costing(ops[k].cost, seq, sh, where[k])
      BY DEF Costed, where
    <3>2. n \in DOMAIN sh
      BY <1>4
    <3> QED BY <3>1, <3>2 DEF p, Costing
  <2> QED BY <2>1, <2>2
<1>7. \A k \in 1..Len(where) : where[k] = p <=> k = e[p]
  BY <1>2, <1>5
<1> DEFINE G == {k \in DOMAIN ops : <<"gap", n>> \in ops[k].cost}
           L == {k \in DOMAIN ops : <<"launch", n>> \in ops[k].cost}
<1>8. e[p] \in G /\ e[p] \in L /\ (\A y \in G : y = e[p]) /\ (\A y \in L : y = e[p])
  BY <1>5, <1>6, <1>7
<1> HIDE DEF G, L
<1>9. Cardinality(G) = 1 /\ Cardinality(L) = 1
  BY <1>8, OneMember
<1> QED BY <1>9 DEF G, L, ChargedOf

\* A region's mark is charged at the first operation issued after it.
LEMMA OneMark ==
    ASSUME NEW seq \in Seq(Ops), NEW sh, Divides(sh, IssuedAt(seq)), NEW ops, Costed(ops, seq, sh),
           Carried(seq, HostCosts(seq, sh), Len(seq) + 1) = {},
           NEW m \in 1..Len(Places(seq, Markers(seq)))
    PROVE  Cardinality(ChargedOf(ops, <<"mark", m>>)) = 1
<1> DEFINE where == RecursionPositions(seq)
           marks == Places(seq, Markers(seq))
           K == DOMAIN seq \ Markers(seq)
           N == Len(seq)
           host == HostCosts(seq, sh)
           q == marks[m]
<1>1. PICK e : Numbers(e, seq)
  BY NumbersExist
<1>2. /\ \A x \in K : e[x] \in 1..Len(where) /\ where[e[x]] = x
      /\ \A k \in 1..Len(where) : where[k] \in K /\ e[where[k]] = k
  BY <1>1 DEF Numbers
<1>3. Markers(seq) \in SUBSET (1..N) /\ N \in Nat /\ DOMAIN seq = 1..N /\ K \subseteq 1..N
  BY LenProperties DEF Markers
<1>4. Lists(marks, Markers(seq))
  BY <1>3, KeptAtPlaces
<1> HIDE DEF marks
<1>5. DOMAIN marks = 1..Len(marks) /\ \A i \in 1..Len(marks) : marks[i] \in Markers(seq)
  <2>1. Markers(seq) \in SUBSET Nat
    BY <1>3
  <2> QED BY <1>4, <2>1, ListsEach
<1>6. m \in DOMAIN marks /\ q \in Markers(seq) /\ q \in 1..N /\ IsHost(seq[q])
  <2>1. m \in 1..Len(marks)
    BY DEF marks
  <2> QED BY <1>3, <1>5, <2>1 DEF Markers
<1> DEFINE T == {x \in q..N : IsIssue(seq[x])}
<1>7. T # {}
  <2>1. Charging(host[q], sh, marks, q)
    BY <1>3, <1>6, HostCostsAre, Zenon DEF marks
  <2>2. <<"mark", m>> \in host[q]
    BY <1>6, <2>1 DEF Charging
  <2>3. ASSUME NoneIssued(seq, q, (N + 1) - 1)
        PROVE  FALSE
    <3>1. q < N + 1
      BY <1>3, <1>6
    <3> HIDE DEF host, q
    <3>2. <<"mark", m>> \in Carried(seq, host, N + 1)
      BY <1>6, <2>2, <2>3, <3>1 DEF Carried
    <3> QED BY <3>2 DEF host
  <2>4. (N + 1) - 1 = N
    BY <1>3
  <2> QED BY <2>3, <2>4 DEF NoneIssued
<1>8. T \in SUBSET Nat
  BY <1>3, <1>6
<1>9. PICK x \in T : \A y \in T : x <= y
  <2> HIDE DEF T
  <2> QED BY <1>7, <1>8, HasLeast
<1>10. x \in 1..N /\ IsIssue(seq[x]) /\ x > q /\ x \in K
  <2>1. x \in q..N /\ IsIssue(seq[x])
    BY <1>9
  <2>2. ~IsHost(seq[x])
    BY <2>1 DEF IsIssue, IsHost
  <2>3. x # q /\ x \notin Markers(seq)
    BY <1>6, <2>2 DEF Markers
  <2> QED BY <1>3, <1>6, <2>1, <2>3
<1>11. NoneIssued(seq, q, x - 1)
  <2> SUFFICES ASSUME NEW y \in q..(x - 1), IsIssue(seq[y]) PROVE FALSE
    BY DEF NoneIssued
  <2>1. y \in q..N /\ y < x
    BY <1>3, <1>6, <1>10
  <2>2. y \in T
    BY <2>1
  <2> QED BY <1>6, <1>9, <1>10, <2>1, <2>2
<1>12. DOMAIN ops = 1..Len(where)
  BY DEF Costed
<1>13. ASSUME NEW k \in 1..Len(where)
       PROVE  <<"mark", m>> \in ops[k].cost <=>
                  IsIssue(seq[where[k]]) /\ q < where[k] /\ NoneIssued(seq, q, where[k] - 1)
  <2>1. Costing(ops[k].cost, seq, sh, where[k])
    BY DEF Costed
  <2>2. \A i : <<"mark", i>> \in ops[k].cost <=>
                   /\ IsIssue(seq[where[k]]) /\ i \in DOMAIN marks /\ marks[i] < where[k]
                   /\ NoneIssued(seq, marks[i], where[k] - 1)
    <3> HIDE DEF where
    <3> QED BY <2>1, Zenon DEF Costing, marks
  <2> HIDE DEF where
  <2> QED BY <1>6, <2>2
<1> DEFINE M == {k \in DOMAIN ops : <<"mark", m>> \in ops[k].cost}
<1> HIDE DEF where, K, q, T
<1>14. e[x] \in M
  BY <1>2, <1>10, <1>11, <1>12, <1>13
<1>15. ASSUME NEW k \in M
       PROVE  k = e[x]
  <2>1. k \in 1..Len(where) /\ IsIssue(seq[where[k]]) /\ q < where[k] /\ NoneIssued(seq, q, where[k] - 1)
    BY <1>12, <1>13
  <2> DEFINE y == where[k]
  <2>2. y \in 1..N /\ e[y] = k
    BY <1>2, <1>3, <2>1
  <2>3. y \in q..N
    BY <1>3, <1>6, <2>1, <2>2
  <2>4. y \in T
    BY <2>1, <2>3 DEF T
  <2>5. x <= y
    BY <1>9, <2>4
  <2>6. ~(x < y)
    <3>1. x < y => x \in q..(y - 1)
      BY <1>6, <1>10, <2>2
    <3>2. NoneIssued(seq, q, y - 1)
      BY <2>1
    <3> QED BY <1>10, <3>1, <3>2 DEF NoneIssued
  <2> HIDE DEF y
  <2>7. y = x
    BY <1>10, <2>2, <2>5, <2>6
  <2> QED BY <2>2, <2>7
<1> HIDE DEF M
<1>16. Cardinality(M) = 1
  BY <1>14, <1>15, OneMember
<1> QED BY <1>16 DEF M, ChargedOf

\* The operations past the first of their call are charged a floor each.
LEMMA FloorsCounted ==
    ASSUME NEW seq \in Seq(Ops), NEW sh, Divides(sh, IssuedAt(seq)), NEW ops, Costed(ops, seq, sh)
    PROVE  /\ Cardinality(Floored(ops, seq)) = Cardinality(IssuedAt(seq)) - Len(sh)
           /\ DOMAIN sh = 1..Len(sh) /\ Len(sh) \in Nat
<1> DEFINE where == RecursionPositions(seq)
           K == DOMAIN seq \ Markers(seq)
           A == IssuedAt(seq)
           R == Rest(sh)
           F == {k \in DOMAIN ops : \E p \in DOMAIN seq : <<"floor", p>> \in ops[k].cost}
<1>1. PICK e : Numbers(e, seq)
  BY NumbersExist
<1>2. /\ \A x \in K : e[x] \in 1..Len(where) /\ where[e[x]] = x
      /\ \A k \in 1..Len(where) : where[k] \in K /\ e[where[k]] = k
  BY <1>1 DEF Numbers
<1>3. A \in SUBSET K /\ K \in SUBSET DOMAIN seq /\ IsFiniteSet(A)
  <2>1. A \in SUBSET K
    BY DEF IssuedAt, Markers, IsIssue, IsHost
  <2>2. K \in SUBSET (1..Len(seq)) /\ Len(seq) \in Nat
    BY LenProperties
  <2>3. IsFiniteSet(1..Len(seq))
    <3> DEFINE N == Len(seq)
    <3>1. N \in Nat
      BY <2>2
    <3> HIDE DEF N
    <3> QED BY <3>1, FS_Interval
  <2>4. A \subseteq 1..Len(seq)
    <3> HIDE DEF K, A
    <3> QED BY <2>1, <2>2
  <2>5. IsFiniteSet(A)
    <3> HIDE DEF A
    <3> QED BY <2>3, <2>4, FS_Subset
  <2> QED BY <2>1, <2>5
<1> HIDE DEF A, K
<1>4. /\ DOMAIN sh = 1..Len(sh) /\ Len(sh) \in Nat /\ R \subseteq A /\ IsFiniteSet(R)
      /\ Cardinality(R) = Cardinality(A) - Len(sh)
  <2>1. Divides(sh, A)
    BY DEF A
  <2> QED BY <1>3, <2>1, RestCounted
<1>5. DOMAIN ops = 1..Len(where) /\ \A k \in 1..Len(where) : Costing(ops[k].cost, seq, sh, where[k])
  BY DEF Costed
<1> HIDE DEF where, R
<1>6. ASSUME NEW k \in 1..Len(where)
      PROVE  \A p : <<"floor", p>> \in ops[k].cost <=> p = where[k] /\ where[k] \in R
  <2>1. Costing(ops[k].cost, seq, sh, where[k])
    BY <1>5
  <2> QED BY <2>1, Zenon DEF Costing, R
<1>7. \A k : k \in F <=> k \in 1..Len(where) /\ where[k] \in R
  BY <1>2, <1>3, <1>5, <1>6
<1> DEFINE f == [x \in R |-> e[x]]
<1>8. \A x \in R : x \in K /\ f[x] = e[x] /\ f[x] \in F /\ where[f[x]] = x
  BY <1>2, <1>3, <1>4, <1>7
<1>9. \A k \in F : \E x \in R : f[x] = k
  BY <1>2, <1>7, <1>8
<1>10. f \in [R -> F]
  BY <1>8
<1> HIDE DEF f, F
<1>11. \A x, y \in R : f[x] = f[y] => x = y
  BY <1>8
<1>12. Cardinality(F) = Cardinality(R)
  BY <1>4, <1>9, <1>10, <1>11, SameCount
<1> QED BY <1>4, <1>12 DEF F, A, Floored

\* The regions of a recording are its markers.
LEMMA RegionsCounted ==
    ASSUME NEW path \in Seq(Events)
    PROVE  /\ Regions(path) = Len(Places(Recorded(path), Markers(Recorded(path))))
           /\ Regions(path) \in Nat
<1> DEFINE seq == Recorded(path)
           G == Given(path)
           N == Len(path)
           Hosts == {i \in DOMAIN path : path[i].kind = "host"}
           f == [i \in Hosts |-> End(G, i)]
           M == Markers(seq)
<1>1. G \in Seq(Seq(Ops)) /\ Len(G) = N /\ seq \in Seq(Ops) /\ seq = FlattenSeq(G)
  BY RecordedTypes DEF Given, Recorded
<1>2. DOMAIN path = 1..N /\ N \in Nat /\ DOMAIN seq = 1..Len(seq) /\ Len(seq) \in Nat
  BY <1>1, LenProperties
<1> HIDE DEF G, N, seq
<1>3. /\ \A i \in 1..N : /\ \A k \in 1..Len(G[i]) : IsHost(G[i][k]) <=> path[i].kind = "host"
                         /\ path[i].kind = "host" => Len(G[i]) = 1
  BY HostFacts DEF G, N
<1>4. /\ \A n \in 0..N : End(G, n) \in Nat /\ End(G, n) <= Len(seq)
      /\ \A n \in 1..N : End(G, n) = End(G, n - 1) + Len(G[n]) /\ Len(G[n]) \in Nat
      /\ \A n \in 1..N : \A k \in 1..Len(G[n]) : seq[End(G, n - 1) + k] = G[n][k]
      /\ \A p \in 1..Len(seq) : \E n \in 1..N : \E k \in 1..Len(G[n]) : p = End(G, n - 1) + k
  <2>1. /\ \A n \in 0..Len(G) : End(G, n) \in Nat
        /\ \A n \in 1..Len(G) : End(G, n) = End(G, n - 1) + Len(G[n]) /\ Len(G[n]) \in Nat
        /\ \A n \in 0..Len(G) : End(G, n) <= Len(FlattenSeq(G))
    BY <1>1, FlattenIndex
  <2>2. /\ \A n \in 1..Len(G) : \A k \in 1..Len(G[n]) : FlattenSeq(G)[End(G, n - 1) + k] = G[n][k]
        /\ \A p \in 1..Len(FlattenSeq(G)) :
               \E n \in 1..Len(G) : \E k \in 1..Len(G[n]) : p = End(G, n - 1) + k
    BY <1>1, FlattenIndex
  <2> QED BY <1>1, <2>1, <2>2
<1>5. \A m \in 0..N : \A n \in m..N : End(G, m) <= End(G, n)
  BY <1>1, EndsGrow
<1>6. ASSUME NEW i \in Hosts
      PROVE  i \in 1..N /\ End(G, i) = End(G, i - 1) + 1 /\ End(G, i) \in M
  <2>1. i \in 1..N /\ path[i].kind = "host"
    BY <1>2
  <2>2. Len(G[i]) = 1 /\ 1 \in 1..Len(G[i]) /\ IsHost(G[i][1])
    BY <1>3, <2>1
  <2>3. i \in 0..N /\ End(G, i) = End(G, i - 1) + 1 /\ seq[End(G, i - 1) + 1] = G[i][1]
    <3>1. End(G, i) = End(G, i - 1) + Len(G[i])
      BY <1>4, <2>1
    <3>2. seq[End(G, i - 1) + 1] = G[i][1]
      BY <1>4, <2>1, <2>2, Zenon
    <3> QED BY <1>2, <2>1, <2>2, <3>1, <3>2
  <2>4. End(G, i) \in 1..Len(seq)
    <3>1. i - 1 \in 0..N
      BY <1>2, <2>1
    <3>2. End(G, i - 1) \in Nat /\ End(G, i) \in Nat /\ End(G, i) <= Len(seq)
      BY <1>4, <2>3, <3>1
    <3> QED BY <1>2, <2>3, <3>2
  <2> QED BY <1>2, <2>1, <2>2, <2>3, <2>4 DEF Markers
<1>7. ASSUME NEW i \in Hosts, NEW j \in Hosts, i < j
      PROVE  End(G, i) < End(G, j)
  <2>1. i \in 1..N /\ j \in 1..N /\ End(G, j) = End(G, j - 1) + 1
    BY <1>6
  <2>2. i \in 0..N /\ j - 1 \in i..N /\ j - 1 \in 0..N
    BY <1>2, <1>7, <2>1
  <2>3. End(G, i) <= End(G, j - 1) /\ End(G, i) \in Nat /\ End(G, j - 1) \in Nat
    BY <1>4, <1>5, <2>2
  <2> QED BY <2>1, <2>3
<1>8. ASSUME NEW p \in M
      PROVE  \E i \in Hosts : End(G, i) = p
  <2>1. p \in 1..Len(seq) /\ IsHost(seq[p])
    BY <1>2 DEF Markers
  <2>2. PICK n \in 1..N : \E k \in 1..Len(G[n]) : p = End(G, n - 1) + k
    BY <1>4, <2>1
  <2>3. PICK k \in 1..Len(G[n]) : p = End(G, n - 1) + k
    BY <2>2
  <2>4. seq[p] = G[n][k]
    BY <1>4, <2>3
  <2>5. path[n].kind = "host" /\ Len(G[n]) = 1
    BY <1>3, <2>1, <2>4
  <2>6. k = 1 /\ End(G, n) = End(G, n - 1) + 1
    <3>1. End(G, n) = End(G, n - 1) + Len(G[n])
      BY <1>4
    <3> QED BY <2>5, <3>1
  <2> QED BY <1>2, <2>3, <2>5, <2>6
<1>9. IsFiniteSet(Hosts)
  <2>1. IsFiniteSet(1..N)
    BY <1>2, FS_Interval
  <2>2. Hosts \subseteq 1..N
    BY <1>2
  <2> HIDE DEF Hosts
  <2> QED BY <2>1, <2>2, FS_Subset
<1>10. \A i \in Hosts : i \in Nat
  BY <1>2
<1> HIDE DEF M, Hosts
<1>11. f \in [Hosts -> M] /\ \A i \in Hosts : f[i] = End(G, i)
  BY <1>6
<1> HIDE DEF f
<1>12. \A i, j \in Hosts : f[i] = f[j] => i = j
  <2> SUFFICES ASSUME NEW i \in Hosts, NEW j \in Hosts, i # j PROVE f[i] # f[j]
    OBVIOUS
  <2>1. i \in Nat /\ j \in Nat /\ End(G, i) \in Nat /\ End(G, j) \in Nat
    BY <1>4, <1>6, <1>10
  <2>2. i < j \/ j < i
    BY <2>1
  <2>3. End(G, i) < End(G, j) \/ End(G, j) < End(G, i)
    BY <1>7, <2>2
  <2> QED BY <1>11, <2>1, <2>3
<1>13. \A p \in M : \E i \in Hosts : f[i] = p
  BY <1>8, <1>11
<1>14. Cardinality(M) = Cardinality(Hosts)
  BY <1>9, <1>11, <1>12, <1>13, SameCount
<1>15. Cardinality(M) = Len(Places(seq, M)) /\ Cardinality(Hosts) \in Nat
  <2>1. M \in SUBSET (1..Len(seq))
    BY <1>2 DEF M, Markers
  <2>2. Lists(Places(seq, M), M)
    BY <1>1, <2>1, KeptAtPlaces DEF seq
  <2>3. M \in SUBSET Nat
    BY <2>1
  <2> QED BY <1>9, <2>2, <2>3, ListedCount, FS_CardinalityType
<1>16. Regions(path) = Cardinality(Hosts)
  BY DEF Regions, Hosts
<1> QED BY <1>14, <1>15, <1>16 DEF M, seq

\* The calls of a null pass are a sequence.
LEMMA NullCallsTypes ==
    ASSUME NEW path \in Seq(Events), NEW seq
    PROVE  DOMAIN NullCalls(path, seq) = 1..Len(NullCalls(path, seq)) /\ Len(NullCalls(path, seq)) \in Nat
<1> DEFINE shown(i) == IF path[i].issues = <<>> \/ Served(path[i]) THEN <<>>
                       ELSE Shown(path[i], Launching(seq))
           part(i) == [k \in DOMAIN shown(i) |-> [name |-> shown(i)[k], by |-> i]]
           S == [name : STRING, by : Nat]
           ss == [i \in DOMAIN path |-> part(i)]
<1>1. DOMAIN path = 1..Len(path) /\ Len(path) \in Nat
  BY LenProperties
<1>2. ASSUME NEW i \in 1..Len(path)
      PROVE  part(i) \in Seq(S)
  <2>1. shown(i) \in Seq(STRING)
    <3>1. Shown(path[i], Launching(seq)) \in Seq(STRING)
      BY ShownTypes
    <3> QED BY <3>1, EmptySeq
  <2> DEFINE c == shown(i)
  <2>2. part(i) = [k \in DOMAIN c |-> [name |-> c[k], by |-> i]]
    BY Zenon
  <2>3. c \in Seq(STRING)
    BY <2>1
  <2> HIDE DEF c
  <2>4. DOMAIN c = 1..Len(c) /\ Len(c) \in Nat /\ \A k \in 1..Len(c) : c[k] \in STRING
    BY <2>3, LenProperties, ElementOfSeq
  <2>5. part(i) \in [1..Len(c) -> S]
    <3>1. i \in Nat
      OBVIOUS
    <3> HIDE DEF part
    <3> QED BY <2>2, <2>4, <3>1
  <2> HIDE DEF part, S
  <2> QED BY <2>4, <2>5
<1>3. NullCalls(path, seq) = FlattenSeq(ss)
  BY DEF NullCalls
<1>4. ss = [i \in 1..Len(path) |-> part(i)]
  BY <1>1
<1> HIDE DEF part, S
<1>5. ss \in [1..Len(path) -> Seq(S)]
  BY <1>2, <1>4
<1> HIDE DEF ss
<1>6. ss \in Seq(Seq(S))
  BY <1>1, <1>5
<1>7. NullCalls(path, seq) \in Seq(S)
  BY <1>3, <1>6, FlattenIndex
<1> QED BY <1>7, LenProperties

\* What the calls met are charged, when they were the sequence's.
LEMMA AssignedCharges ==
    ASSUME NEW seq \in Seq(Ops), NEW met, DOMAIN met = 1..Len(met), Len(met) \in Nat,
           Assigned(seq, met).met, NEW ops, ops = Assigned(seq, met).ops
    PROVE  /\ \A n \in 1..Len(met) : /\ Cardinality(ChargedOf(ops, <<"gap", n>>)) = 1
                                     /\ Cardinality(ChargedOf(ops, <<"launch", n>>)) = 1
           /\ \A m \in 1..Len(Places(seq, Markers(seq))) :
                  Cardinality(ChargedOf(ops, <<"mark", m>>)) = 1
           /\ Cardinality(Floored(ops, seq)) = Len(Issued(seq)) - Len(met)
<1> DEFINE names == [n \in DOMAIN met |-> met[n].name]
           aligned == AlignCalls(seq, names)
           sh == aligned.out
           host == HostCosts(seq, sh)
           all == ToOperations(seq, host)
           a == aligned.met /\ all.left = {}
           A == IssuedAt(seq)
<1>1. Assigned(seq, met) = [met |-> a, ops |-> all.ops]
  BY DEF Assigned
<1>2. names \in Seq({met[n].name : n \in 1..Len(met)}) /\ Len(names) = Len(met)
  OBVIOUS
<1> HIDE DEF names
<1>3. Len(names) \in Nat
  BY <1>2
<1>4. aligned.met /\ all.left = {} /\ ops = all.ops
  <2> DEFINE o == all.ops
  <2>1. Assigned(seq, met) = [met |-> a, ops |-> o]
    BY <1>1
  <2> HIDE DEF a, o
  <2>2. Assigned(seq, met).met = a /\ Assigned(seq, met).ops = o
    BY <2>1
  <2>3. a /\ ops = o
    BY <2>2
  <2> QED BY <2>3 DEF a, o
<1>5. Divides(sh, A) /\ Len(sh) = Len(met)
  BY <1>2, <1>3, <1>4, AlignmentDivides
<1>6. all.left = Carried(seq, host, Len(seq) + 1)
  BY DEF ToOperations
<1> HIDE DEF a, aligned, sh
<1>7. Costed(ops, seq, sh)
  BY <1>4, <1>5, BaseCosted
<1>8. Carried(seq, HostCosts(seq, sh), Len(seq) + 1) = {}
  BY <1>4, <1>6
<1> HIDE DEF host, all, A
<1>9. Divides(sh, IssuedAt(seq))
  BY <1>5 DEF A
<1>10. \A n \in 1..Len(met) : /\ Cardinality(ChargedOf(ops, <<"gap", n>>)) = 1
                             /\ Cardinality(ChargedOf(ops, <<"launch", n>>)) = 1
  <2> SUFFICES ASSUME NEW n \in 1..Len(met)
               PROVE  /\ Cardinality(ChargedOf(ops, <<"gap", n>>)) = 1
                      /\ Cardinality(ChargedOf(ops, <<"launch", n>>)) = 1
    OBVIOUS
  <2>1. n \in 1..Len(sh)
    BY <1>5
  <2> QED BY <1>7, <1>9, <2>1, OneLaunch
<1>11. \A m \in 1..Len(Places(seq, Markers(seq))) : Cardinality(ChargedOf(ops, <<"mark", m>>)) = 1
  BY <1>7, <1>8, <1>9, OneMark
<1>12. Cardinality(Floored(ops, seq)) = Cardinality(A) - Len(sh)
  BY <1>7, <1>9, FloorsCounted DEF A
<1>13. Cardinality(A) = Len(Issued(seq))
  <2>1. A \in SUBSET (1..Len(seq))
    BY LenProperties DEF IssuedAt, A
  <2>2. Lists(Places(seq, A), A)
    BY <2>1, KeptAtPlaces
  <2>3. A \in SUBSET Nat
    BY <2>1
  <2>4. Cardinality(A) = Len(Places(seq, A))
    BY <2>2, <2>3, ListedCount
  <2> QED BY <2>4 DEF A, Issued
<1> QED BY <1>5, <1>10, <1>11, <1>12, <1>13

\* A base that was just priced is the recording's, as the pass that priced it
\* met its calls and ran its regions.
Priced ==
    stage = "priced" =>
        /\ other \in Seq(Events) /\ Regions(other) = Regions(recorded)
        /\ Assigned(sequence, NullCalls(other, sequence)).met
        /\ base = Assigned(sequence, NullCalls(other, sequence)).ops

LEMMA PricedStep == PassesMet /\ Priced /\ [InjectionNext]_injectionVars => Priced'
<1> SUFFICES ASSUME PassesMet, Priced, [InjectionNext]_injectionVars PROVE Priced'
  OBVIOUS
<1>1. CASE Refuse
  BY <1>1 DEF Refuse, Priced
<1>2. CASE Price
  <2>1. PICK path \in Detours(recorded) :
            LET assigned == Assigned(sequence, NullCalls(path, sequence))
            IN IF /\ Interactions(path) = Interactions(recorded)
                  /\ Regions(path) = Regions(recorded)
                  /\ assigned.met
               THEN /\ stage' = "priced" /\ base' = assigned.ops /\ other' = path
                    /\ UNCHANGED <<recorded, sequence>>
               ELSE Refuse
    BY <1>2, Zenon DEF Price
  <2>2. path \in Seq(Events)
    BY DetoursTypes DEF PassesMet
  <2> DEFINE assigned == Assigned(sequence, NullCalls(path, sequence))
  <2>3. CASE ~Refuse
    <3>1. /\ Regions(path) = Regions(recorded) /\ assigned.met /\ base' = assigned.ops /\ other' = path
          /\ recorded' = recorded /\ sequence' = sequence
      <4> HIDE DEF assigned
      <4>1. IF Interactions(path) = Interactions(recorded) /\ Regions(path) = Regions(recorded) /\ assigned.met
            THEN /\ stage' = "priced" /\ base' = assigned.ops /\ other' = path
                 /\ UNCHANGED <<recorded, sequence>>
            ELSE Refuse
        BY <2>1, Zenon DEF assigned
      <4> QED BY <2>3, <4>1
    <3>2. other' \in Seq(Events) /\ Regions(other)' = Regions(recorded)'
      BY <2>2, <3>1 DEF Regions
    <3>3. Assigned(sequence', NullCalls(other', sequence')) = assigned
      BY <3>1
    <3> HIDE DEF assigned
    <3>4. /\ Assigned(sequence', NullCalls(other', sequence')).met
          /\ base' = Assigned(sequence', NullCalls(other', sequence')).ops
      BY <3>1, <3>3
    <3> QED BY <3>2, <3>4, Zenon DEF Priced
  <2> QED BY <1>1, <2>3
<1>3. CASE UNCHANGED injectionVars
  BY <1>3 DEF injectionVars, Priced, Regions
<1>4. CASE Calibrate \/ Schedule \/ Begin \/ Event \/ Finish
  <2>1. stage' # "priced"
    BY <1>4 DEF Calibrate, Schedule, Begin, Event, Finish, Refuse
  <2> QED BY <2>1 DEF Priced
<1> QED BY <1>2, <1>3, <1>4 DEF InjectionNext

\* Every time a null pass measured is charged to one operation of the base
\* exactly, and every operation past the first of a call to one floor,
\* whatever path the pass took (host_profile.py:83-94, op_sequence.py:1085).
THEOREM TimesChargedHolds == InjectionSpec => []TimesCharged
<1>1. InjectionInit => Priced
  BY DEF InjectionInit, Priced
<1>2. PassesMet /\ Priced => TimesCharged
  <2> SUFFICES ASSUME PassesMet, Priced, stage = "priced"
               PROVE  LET met == NullCalls(other, sequence)
                          times == ({"gap", "launch"} \X DOMAIN met) \cup ({"mark"} \X (1..Regions(other)))
                          floors == {k \in DOMAIN base : \E p \in DOMAIN sequence : <<"floor", p>> \in base[k].cost}
                      IN /\ \A t \in times : Cardinality(Charges(t)) = 1
                         /\ Cardinality(floors) = Len(Issued(sequence)) - Len(met)
    BY DEF TimesCharged
  <2> DEFINE met == NullCalls(other, sequence)
             calls_times == {"gap", "launch"} \X DOMAIN met
             marks_times == {"mark"} \X (1..Regions(other))
  <2>1. /\ recorded \in Seq(Events) /\ sequence = Recorded(recorded) /\ other \in Seq(Events)
        /\ Regions(other) = Regions(recorded) /\ Assigned(sequence, met).met
        /\ base = Assigned(sequence, met).ops
    BY DEF PassesMet, Priced
  <2>2. sequence \in Seq(Ops) /\ DOMAIN met = 1..Len(met) /\ Len(met) \in Nat
    BY <2>1, RecordedTypes, NullCallsTypes
  <2>3. Regions(other) = Len(Places(sequence, Markers(sequence)))
    BY <2>1, RegionsCounted
  <2> HIDE DEF met
  <2>4. /\ \A n \in 1..Len(met) : /\ Cardinality(ChargedOf(base, <<"gap", n>>)) = 1
                                  /\ Cardinality(ChargedOf(base, <<"launch", n>>)) = 1
        /\ \A m \in 1..Len(Places(sequence, Markers(sequence))) :
               Cardinality(ChargedOf(base, <<"mark", m>>)) = 1
        /\ Cardinality(Floored(base, sequence)) = Len(Issued(sequence)) - Len(met)
    BY <2>1, <2>2, AssignedCharges
  <2>5. \A t : Charges(t) = ChargedOf(base, t)
    BY DEF Charges, ChargedOf
  <2>6. ASSUME NEW t \in calls_times
        PROVE  Cardinality(Charges(t)) = 1
    <3>1. PICK n \in 1..Len(met) : t = <<"gap", n>> \/ t = <<"launch", n>>
      BY <2>2, <2>6
    <3> QED BY <2>4, <2>5, <3>1
  <2>7. ASSUME NEW t \in marks_times
        PROVE  Cardinality(Charges(t)) = 1
    <3>1. PICK m \in 1..Len(Places(sequence, Markers(sequence))) : t = <<"mark", m>>
      BY <2>3, <2>7
    <3> QED BY <2>4, <2>5, <3>1
  <2> QED BY <2>4, <2>6, <2>7 DEF met, Floored
<1> QED BY PassesMetInit, PassesMetStep, PricedStep, <1>1, <1>2, PTL DEF InjectionSpec

(***************************************************************************)
(* The accuracy runner.  The argument is of Held: what the file holds and  *)
(* what the run holds beside it.  Measuring adds a row to it, dying cuts   *)
(* it back to the file, and nothing else changes it.                       *)
(***************************************************************************)
Active == run.phase # "idle"
Buffer == IF Active THEN run.buffer ELSE <<>>
Held == rows \o Buffer

ActiveRuns ==
    [arm: Arms, todo: SUBSET (1..Len(Grid)), buffer: Seq(RowRecords),
     checked: Heads, stamp: Heads, phase: {"planned", "measure", "replace"}]

Types ==
    /\ TypeOK
    /\ Active => run \in ActiveRuns /\ runs \in 1..MaxRuns
    /\ ~Active => run = Idle
    /\ run.phase = "replace" => tmp = Held

\* What the columns of a row tell of the command line it was measured under
Tells(r) ==
    /\ r.decode_pinned = (r.ran.pin # None)
    /\ r.key.backend # "dense" =>
           r.score_source = r.ran.score_source /\ r.score_source # None
    /\ r.key.backend = "xattention" => r.xattn = r.ran.xattn /\ r.xattn # None
    /\ r.run <= runs

OnceIn(s) == \A i, j \in 1..Len(s) : s[i].key = s[j].key => i = j

RegimeIn(s) == \A i, j \in 1..Len(s) :
    /\ (s[i].ran.pin = None) = (s[j].ran.pin = None)
    /\ "dense" \notin {s[i].key.backend, s[j].key.backend} =>
           s[i].ran.score_source = s[j].ran.score_source
    /\ s[i].key.backend = "xattention" /\ s[j].key.backend = "xattention" =>
           s[i].ran.xattn = s[j].ran.xattn

\* What a row q may stand before a row r on: one stamp in a run, and what the
\* later run checked in two
SameStamp(q, r) == q.git_commit = r.git_commit /\ q.git_dirty = r.git_dirty
AddedTo(q, waiver, checked) ==
    /\ waiver.mixed \/ q.git_commit = checked.git_commit
    /\ waiver.dirty \/ ~(q.git_dirty \/ checked.git_dirty)
Follows(q, r) ==
    /\ q.run = r.run => SameStamp(q, r)
    /\ q.run # r.run => AddedTo(q, r.ran.waiver, r.checked)
CommitIn(s) == \A i, j \in 1..Len(s) : i < j => Follows(s[i], s[j])

Sound(s) ==
    /\ \A i \in 1..Len(s) : Tells(s[i])
    /\ OnceIn(s) /\ RegimeIn(s) /\ CommitIn(s)

\* A row of an earlier run is one the code may be continued from; a row of
\* this one carries its stamp, and is there only once that is read
Continues(r, active) ==
    /\ r.run = runs => active.phase # "planned" /\ SameStamp(r, active.stamp)
    /\ r.run # runs => AddedTo(r, active.arm.waiver, active.checked)

\* A run has what it asked for or has it to do; what it has to do is missing;
\* and every row there is goes with the rows it will add
Goes ==
    /\ \A n \in run.todo : Grid[n].backend \in run.arm.backends
    /\ \A n \in run.todo, i \in 1..Len(Held) : Held[i].key # Grid[n]
    /\ \A n \in 1..Len(Grid) : Grid[n].backend \in run.arm.backends =>
           n \in run.todo \/ \E i \in 1..Len(Held) : Held[i].key = Grid[n]
    /\ \A i \in 1..Len(Held) :
           SameRegime(Held[i].ran, run.arm, Held[i].key)
           /\ Continues(Held[i], run)

IInv == Types /\ Sound(Held) /\ (Active => Goes)

----------------------------------------------------------------------------
LEMMA ArmFacts ==
    ASSUME NEW arm \in Arms
    PROVE  /\ arm.pin \in Pins
           /\ arm.score_source \in Scorers \cup {XATTN_SCORE_SOURCE}
           /\ arm.score_source # None
           /\ arm.xattn \in Taus \cup {None}
           /\ "xattention" \in arm.backends => arm.xattn \in Taus /\ arm.xattn # None
BY NoneAssumption DEF Arms

\* A row measured under an arm, with an arm's cell, tells the arm.
LEMMA RowIs ==
    ASSUME NEW arm \in Arms, NEW k \in Keys, k.backend \in arm.backends,
           NEW stamp \in Heads, NEW checked \in Heads, runs \in 1..MaxRuns
    PROVE  LET row == Row(arm, k, stamp, checked)
           IN  /\ row \in RowRecords /\ Tells(row)
               /\ row.key = k /\ row.ran = arm /\ row.run = runs
               /\ SameStamp(row, stamp) /\ row.checked = checked
<1> DEFINE row == Row(arm, k, stamp, checked)
<1>1. /\ row.key = k /\ row.ran = arm /\ row.run = runs
      /\ SameStamp(row, stamp) /\ row.checked = checked
      /\ row.decode_pinned = (arm.pin # None)
      /\ row.score_source = IF k.backend = "dense" THEN None ELSE arm.score_source
      /\ row.xattn = IF k.backend = "xattention" THEN arm.xattn ELSE None
      /\ row.decode_backend = IF k.backend = "dense" \/ arm.pin = None
                              THEN DENSE_DECODE_BACKEND ELSE arm.pin
  BY DEF Row, SameStamp
<1>2. row \in RowRecords
  BY ArmFacts DEF Row, RowRecords, Heads
<1>3. Tells(row)
  BY <1>1, ArmFacts, RunAssumption DEF Tells
<1> QED BY <1>1, <1>2, <1>3

\* A file is as good as the longest one it was cut from.
LEMMA CutSound ==
    ASSUME NEW s \in Seq(RowRecords), NEW t \in Seq(RowRecords),
           Len(s) <= Len(t), \A i \in 1..Len(s) : s[i] = t[i], Sound(t)
    PROVE  Sound(s)
<1>1. Len(s) \in Nat /\ Len(t) \in Nat /\ 1..Len(s) \subseteq 1..Len(t)
  BY LenProperties
<1>2. \A i \in 1..Len(s) : Tells(s[i])
  BY <1>1 DEF Sound
<1>3. OnceIn(s)
  BY <1>1 DEF Sound, OnceIn
<1>4. RegimeIn(s)
  BY <1>1 DEF Sound, RegimeIn
<1>5. CommitIn(s)
  BY <1>1 DEF Sound, CommitIn
<1> QED BY <1>2, <1>3, <1>4, <1>5 DEF Sound

LEMMA HeldFacts ==
    ASSUME Types
    PROVE  /\ rows \in Seq(RowRecords) /\ Buffer \in Seq(RowRecords)
           /\ Held \in Seq(RowRecords) /\ Len(rows) <= Len(Held)
           /\ \A i \in 1..Len(rows) : rows[i] = Held[i]
           /\ ~Active => Held = rows
<1>1. rows \in Seq(RowRecords) /\ Buffer \in Seq(RowRecords)
  BY DEF Types, TypeOK, Buffer, ActiveRuns
<1>2. Len(rows) \in Nat /\ Len(Buffer) \in Nat
  BY <1>1
<1> QED BY <1>1, <1>2, ConcatProperties, ConcatEmptySeq DEF Held, Buffer

----------------------------------------------------------------------------
\* What is held changes by a row measured, or falls back to the file.
Same == Held' = Held /\ rows' \in {rows, Held}
Added == \E n \in run.todo :
    /\ run.phase = "measure" /\ rows' = rows
    /\ run' = [run EXCEPT !.todo = @ \ {n},
                          !.buffer = Append(@, Row(run.arm, Grid[n], run.stamp, run.checked))]
    /\ Held' = Append(Held, Row(run.arm, Grid[n], run.stamp, run.checked))
Cut == run' = Idle /\ Held' = rows /\ rows' = rows

LEMMA InitTypes == Init => Types
BY RunAssumption, EmptySeq DEF Init, Types, TypeOK, Active, Idle

LEMMA StartTypes ==
    ASSUME Types, Start
    PROVE  Types' /\ Same
<1>1. PICK arm \in Arms :
        run' = [arm |-> arm, todo |-> plan(arm), buffer |-> <<>>,
                checked |-> head, stamp |-> head, phase |-> "planned"]
  BY DEF Start
<1>2. /\ ~Active /\ runs < MaxRuns /\ runs' = runs + 1
      /\ UNCHANGED <<rows, tmp, head, moves>>
  BY DEF Start, Active, Idle
<1>3. plan(arm) \in SUBSET (1..Len(Grid)) /\ head \in Heads
  BY DEF plan, Types, TypeOK
<1>4. run' \in ActiveRuns /\ run'.phase = "planned" /\ run'.buffer = <<>>
  BY <1>1, <1>3, EmptySeq DEF ActiveRuns
<1>5. Active' /\ Buffer' = <<>> /\ Buffer = <<>>
  BY <1>2, <1>4 DEF Active, Buffer
<1>6. Held' = Held
  BY <1>2, <1>5 DEF Held
<1>7. runs' \in 1..MaxRuns /\ Len(run'.buffer) <= checkpoint_every
  BY <1>2, <1>4, RunAssumption, EmptySeq DEF Types, TypeOK
<1>8. TypeOK'
  BY <1>2, <1>4, <1>7 DEF Types, TypeOK, ActiveRuns
<1> QED BY <1>2, <1>4, <1>5, <1>6, <1>7, <1>8 DEF Types, Same

LEMMA MeasureTypes ==
    ASSUME Types, Measure, Goes
    PROVE  Types' /\ Added
<1>1. PICK n \in run.todo :
        run' = [run EXCEPT !.todo = @ \ {n},
                           !.buffer = Append(@, Row(run.arm, Grid[n], run.stamp, run.checked))]
  BY DEF Measure
<1> DEFINE row == Row(run.arm, Grid[n], run.stamp, run.checked)
<1>2. /\ run.phase = "measure" /\ Active /\ Len(run.buffer) < checkpoint_every
      /\ UNCHANGED <<rows, tmp, head, runs, moves>>
  BY DEF Measure, Active
<1>3. run \in ActiveRuns /\ runs \in 1..MaxRuns
  BY <1>2 DEF Types
<1>4. n \in 1..Len(Grid) /\ Grid[n] \in Keys /\ Grid[n].backend \in run.arm.backends
  BY <1>3 DEF ActiveRuns, Keys, Goes
<1>5. row \in RowRecords
  BY <1>3, <1>4, RowIs DEF ActiveRuns
<1> HIDE DEF row
<1>6. /\ Append(run.buffer, row) \in Seq(RowRecords)
      /\ Len(Append(run.buffer, row)) = Len(run.buffer) + 1
      /\ Len(run.buffer) \in Nat
  BY <1>3, <1>5, AppendProperties DEF ActiveRuns
<1>7. /\ run' \in ActiveRuns /\ run'.phase = "measure"
      /\ run'.buffer = Append(run.buffer, row)
  BY <1>1, <1>2, <1>3, <1>6 DEF ActiveRuns, row
<1>8. Held' = rows \o Append(run.buffer, row) /\ Held = rows \o run.buffer
  BY <1>2, <1>7 DEF Held, Buffer, Active
<1>9. Held' = Append(Held, row)
  <2>1. rows \in Seq(RowRecords) /\ run.buffer \in Seq(RowRecords)
    BY <1>3 DEF Types, TypeOK, ActiveRuns
  <2> QED BY <1>5, <1>8, <2>1
<1>10. Len(run'.buffer) <= checkpoint_every
  BY <1>2, <1>6, <1>7, RunAssumption
<1>11. TypeOK'
  BY <1>2, <1>7, <1>10 DEF Types, TypeOK, ActiveRuns
<1>12. Types'
  BY <1>2, <1>3, <1>7, <1>11 DEF Types, Active
<1> QED BY <1>1, <1>2, <1>9, <1>12 DEF Added, row

LEMMA OtherTypes ==
    ASSUME Types, Capture \/ WriteTmp \/ Replace \/ Return \/ MoveHead
    PROVE  Types' /\ Same
<1>1. CASE Capture
  <2>1. run \in ActiveRuns /\ head \in Heads /\ Active
    BY <1>1 DEF Capture, Types, TypeOK, Active
  <2>2. /\ run' \in ActiveRuns /\ run'.phase = "measure" /\ run'.buffer = run.buffer
        /\ UNCHANGED <<rows, tmp, head, runs, moves>>
    BY <1>1, <2>1 DEF Capture, ActiveRuns
  <2>3. Held' = Held
    BY <2>1, <2>2 DEF Held, Buffer, Active
  <2> QED BY <2>1, <2>2, <2>3 DEF Types, TypeOK, ActiveRuns, Active, Idle, Same
<1>2. CASE WriteTmp
  <2>1. run \in ActiveRuns /\ Active
    BY <1>2 DEF WriteTmp, Types, Active
  <2>2. /\ run' \in ActiveRuns /\ run'.phase = "replace" /\ run'.buffer = run.buffer
        /\ UNCHANGED <<rows, head, runs, moves>>
    BY <1>2, <2>1 DEF WriteTmp, ActiveRuns
  <2>3. Held' = Held /\ tmp' = Held /\ Held \in Seq(RowRecords)
    BY <1>2, <2>1, <2>2, HeldFacts DEF Held, Buffer, Active, WriteTmp
  <2>4. TypeOK'
    BY <2>1, <2>2, <2>3 DEF Types, TypeOK, ActiveRuns, Active, Idle
  <2>5. Active' /\ runs' \in 1..MaxRuns
    BY <2>1, <2>2 DEF Types, Active
  <2> QED BY <2>2, <2>3, <2>4, <2>5 DEF Types, Same
<1>3. CASE Replace
  <2>1. run \in ActiveRuns /\ Active /\ tmp = Held /\ Held \in Seq(RowRecords)
    BY <1>3, HeldFacts DEF Replace, Types, Active
  <2>2. /\ run' \in ActiveRuns /\ run'.phase = "measure" /\ run'.buffer = <<>>
        /\ rows' = Held /\ tmp' = None /\ UNCHANGED <<head, runs, moves>>
    BY <1>3, <2>1, EmptySeq DEF Replace, ActiveRuns
  <2>3. Held' = Held
    BY <2>1, <2>2, ConcatEmptySeq DEF Held, Buffer, Active
  <2>4. Len(run'.buffer) <= checkpoint_every
    BY <2>2, EmptySeq, RunAssumption
  <2>5. TypeOK'
    BY <2>1, <2>2, <2>4 DEF Types, TypeOK, ActiveRuns
  <2>6. Active' /\ runs' \in 1..MaxRuns
    BY <2>1, <2>2 DEF Types, Active
  <2> QED BY <2>2, <2>3, <2>5, <2>6 DEF Types, Same
<1>4. CASE Return
  <2>1. /\ run' = Idle /\ ~Active' /\ UNCHANGED <<rows, tmp, head, runs, moves>>
        /\ Active /\ run.buffer = <<>>
    BY <1>4 DEF Return, Active, Idle
  <2>2. Held' = Held
    BY <2>1 DEF Held, Buffer
  <2> QED BY <2>1, <2>2 DEF Types, TypeOK, Active, Idle, Same
<1>5. CASE MoveHead
  <2>1. /\ head' \in Heads /\ moves' = moves + 1 /\ moves < MaxMoves
        /\ UNCHANGED <<rows, tmp, run, runs>>
    BY <1>5 DEF MoveHead
  <2>2. Held' = Held /\ Active' = Active
    BY <2>1 DEF Held, Buffer, Active
  <2>3. moves' \in 0..MaxMoves
    BY <2>1, RunAssumption DEF Types, TypeOK
  <2> QED BY <2>1, <2>2, <2>3 DEF Types, TypeOK, Same
<1> QED BY <1>1, <1>2, <1>3, <1>4, <1>5

LEMMA DieTypes ==
    ASSUME Types, Die
    PROVE  Types' /\ Cut
<1>1. /\ run' = Idle /\ ~Active' /\ Buffer' = <<>> /\ tmp' \in {tmp, None}
      /\ UNCHANGED <<rows, head, runs, moves>>
  BY DEF Die, Active, Idle, Buffer
<1>2. rows \in Seq(RowRecords)
  BY DEF Types, TypeOK
<1>3. Held' = rows
  BY <1>1, <1>2, ConcatEmptySeq DEF Held
<1> QED BY <1>1, <1>3 DEF Types, TypeOK, Active, Idle, Cut

----------------------------------------------------------------------------
\* What is held stays sound, and goes with the run, whatever the step.
LEMMA SameSound ==
    ASSUME IInv, Held' = Held, runs' \in {runs, runs + 1}
    PROVE  Sound(Held)'
<1>1. runs \in Nat
  BY RunAssumption DEF IInv, Types, TypeOK
<1>2. \A i \in 1..Len(Held) : Held[i].run <= runs
  BY DEF IInv, Sound, Tells
<1>3. \A i \in 1..Len(Held) : Held[i].run \in 1..MaxRuns
  <2>1. \A i \in 1..Len(Held) : Held[i] \in RowRecords
    BY HeldFacts, ElementOfSeq DEF IInv
  <2> QED BY <2>1 DEF RowRecords
<1>4. \A i \in 1..Len(Held) : Held[i].run <= runs'
  BY <1>1, <1>2, <1>3, RunAssumption
<1>5. \A i \in 1..Len(Held') : Tells(Held[i])'
  BY <1>4 DEF IInv, Sound, Tells
<1> QED BY <1>5 DEF IInv, Sound, OnceIn, RegimeIn, CommitIn

LEMMA AddedSound ==
    ASSUME IInv, Goes, Added, runs' = runs, Active
    PROVE  Sound(Held)'
<1>1. PICK n \in run.todo : Held' = Append(Held, Row(run.arm, Grid[n], run.stamp, run.checked))
  BY DEF Added
<1> DEFINE row == Row(run.arm, Grid[n], run.stamp, run.checked)
<1>2. /\ run \in ActiveRuns /\ runs \in 1..MaxRuns
      /\ n \in 1..Len(Grid) /\ Grid[n] \in Keys /\ Grid[n].backend \in run.arm.backends
  BY DEF IInv, Types, ActiveRuns, Keys, Goes
<1>3. /\ row \in RowRecords /\ Tells(row)
      /\ row.key = Grid[n] /\ row.ran = run.arm /\ row.run = runs
      /\ SameStamp(row, run.stamp) /\ row.checked = run.checked
  BY <1>2, RowIs DEF ActiveRuns
<1> HIDE DEF row
<1> DEFINE L == Len(Held)
<1>4. /\ Held \in Seq(RowRecords) /\ L \in Nat /\ Held' = Append(Held, row)
      /\ Len(Held') = L + 1 /\ Held'[L + 1] = row
      /\ \A i \in 1..L : Held'[i] = Held[i]
  BY <1>1, <1>3, HeldFacts, AppendProperties DEF IInv, row
<1> HIDE DEF L
<1>5. \A i \in 1..(L + 1) : i \in 1..L \/ i = L + 1
  BY <1>4
<1>6. \A i \in 1..L :
         /\ Tells(Held[i]) /\ Held[i].key # row.key
         /\ SameRegime(Held[i].ran, row.ran, Held[i].key)
         /\ Follows(Held[i], row)
  BY <1>2, <1>3 DEF IInv, Sound, Goes, Continues, Follows, SameStamp, L
<1>7. \A i \in 1..Len(Held') : Tells(Held[i])'
  <2>1. \A i \in 1..(L + 1) : Tells(Held'[i])
    BY <1>3, <1>4, <1>5, <1>6
  <2> QED BY <2>1, <1>4 DEF Tells
<1>8. OnceIn(Held)'
  BY <1>4, <1>5, <1>6 DEF IInv, Sound, OnceIn, L
<1>9. RegimeIn(Held)'
  BY <1>4, <1>5, <1>6 DEF IInv, Sound, RegimeIn, SameRegime, L
<1>10. CommitIn(Held)'
  <2> SUFFICES ASSUME NEW i \in 1..(L + 1), NEW j \in 1..(L + 1), i < j
               PROVE  Follows(Held'[i], Held'[j])
    BY <1>4 DEF CommitIn, Follows, SameStamp, AddedTo
  <2>1. i \in 1..L
    BY <1>4
  <2>2. CASE j \in 1..L
    BY <2>1, <2>2, <1>4 DEF IInv, Sound, CommitIn, L
  <2>3. CASE j = L + 1
    BY <2>1, <2>3, <1>4, <1>6
  <2> QED BY <2>2, <2>3, <1>5
<1> QED BY <1>7, <1>8, <1>9, <1>10 DEF Sound

LEMMA CutSoundNext ==
    ASSUME IInv, Held' = rows, runs' = runs
    PROVE  Sound(Held)'
<1>1. Sound(rows)
  BY HeldFacts, CutSound DEF IInv
<1> QED BY <1>1 DEF Sound, Tells, OnceIn, RegimeIn, CommitIn

\* The four refusals, of what the file holds, are what a run needs.
LEMMA ChecksSuffice ==
    ASSUME IInv, ~Active, NEW arm \in Arms,
           check_decode_pin_continuity(arm), check_code_continuity(arm, head),
           check_score_source_continuity(arm), check_xattn_threshold_continuity(arm)
    PROVE  \A i \in 1..Len(Held) :
               /\ SameRegime(Held[i].ran, arm, Held[i].key)
               /\ AddedTo(Held[i], arm.waiver, head)
<1> SUFFICES ASSUME NEW i \in 1..Len(Held)
             PROVE  /\ SameRegime(Held[i].ran, arm, Held[i].key)
                    /\ AddedTo(Held[i], arm.waiver, head)
  OBVIOUS
<1> DEFINE r == Held[i]
<1>1. rows = Held /\ r \in RowsAt /\ rows # <<>>
  BY HeldFacts DEF IInv, RowsAt
<1>2. r \in RowRecords /\ Tells(r)
  BY HeldFacts, ElementOfSeq DEF IInv, Sound
<1> HIDE DEF r
<1>3. (r.ran.pin = None) = (arm.pin = None)
  <2>1. {q.decode_pinned : q \in RowsAt} = {arm.pin # None}
    BY <1>1 DEF check_decode_pin_continuity
  <2>2. r.decode_pinned = (arm.pin # None)
    BY <1>1, <2>1
  <2> QED BY <1>2, <2>2 DEF Tells
<1>4. ASSUME r.key.backend # "dense" PROVE r.ran.score_source = arm.score_source
  <2>1. r.score_source # None /\ r.score_source = r.ran.score_source
    BY <1>2, <1>4 DEF Tells
  <2>2. r.score_source \in Values("score_source")
    BY <1>1, <2>1 DEF Values
  <2> QED BY <2>1, <2>2 DEF check_score_source_continuity
<1>5. ASSUME r.key.backend = "xattention" PROVE r.ran.xattn = arm.xattn
  <2>1. r.xattn # None /\ r.xattn = r.ran.xattn
    BY <1>2, <1>5 DEF Tells
  <2>2. r.xattn \in Values("xattn")
    BY <1>1, <2>1 DEF Values
  <2> QED BY <2>1, <2>2 DEF check_xattn_threshold_continuity
<1>6. r.git_commit \in Values("git_commit")
  BY <1>1, <1>2, NoneAssumption DEF Values, RowRecords
<1>7. arm.waiver.mixed \/ r.git_commit = head.git_commit
  BY <1>1, <1>6 DEF check_code_continuity
<1>8. arm.waiver.dirty \/ ~(r.git_dirty \/ head.git_dirty)
  <2>1. r.git_dirty => r.git_dirty = TRUE
    BY <1>2 DEF RowRecords
  <2>2. r.git_dirty = TRUE => TRUE \in Values("git_dirty")
    BY <1>1, NoneAssumption DEF Values
  <2> QED BY <1>1, <2>1, <2>2 DEF check_code_continuity
<1> QED BY <1>3, <1>4, <1>5, <1>7, <1>8 DEF SameRegime, AddedTo, r

----------------------------------------------------------------------------
LEMMA StartGoes ==
    ASSUME IInv, Start, Types', Same
    PROVE  Goes'
<1>1. PICK arm \in Arms :
        /\ check_decode_pin_continuity(arm) /\ check_code_continuity(arm, head)
        /\ check_score_source_continuity(arm) /\ check_xattn_threshold_continuity(arm)
        /\ run' = [arm |-> arm, todo |-> plan(arm), buffer |-> <<>>,
                   checked |-> head, stamp |-> head, phase |-> "planned"]
  BY DEF Start
<1>2. ~Active /\ UNCHANGED <<rows, head>> /\ Held' = Held
  BY DEF Start, Active, Idle, Same
<1>3. rows = Held
  BY <1>2, HeldFacts DEF IInv
<1>4. load_done_keys = {Held[i].key : i \in 1..Len(Held)}
  BY <1>3 DEF load_done_keys, RowsAt
<1>5. \A n \in plan(arm) : /\ Grid[n].backend \in arm.backends
                           /\ \A i \in 1..Len(Held) : Held[i].key # Grid[n]
  BY <1>4 DEF plan
<1>6. \A n \in 1..Len(Grid) : Grid[n].backend \in arm.backends =>
          n \in plan(arm) \/ \E i \in 1..Len(Held) : Held[i].key = Grid[n]
  BY <1>4 DEF plan
<1>7. \A i \in 1..Len(Held) :
          /\ SameRegime(Held[i].ran, arm, Held[i].key)
          /\ AddedTo(Held[i], arm.waiver, head)
  BY <1>1, <1>2, ChecksSuffice
<1>8. \A i \in 1..Len(Held) : Held[i].run # runs'
  <2>1. \A i \in 1..Len(Held) : Held[i] \in RowRecords /\ Tells(Held[i])
    BY HeldFacts, ElementOfSeq DEF IInv, Sound
  <2>2. runs' = runs + 1 /\ runs \in Nat
    BY RunAssumption DEF Start, IInv, Types, TypeOK
  <2> QED BY <2>1, <2>2, RunAssumption DEF RowRecords, Tells
<1> DEFINE next == [arm |-> arm, todo |-> plan(arm), buffer |-> <<>>,
                    checked |-> head, stamp |-> head, phase |-> "planned"]
<1>9. next.arm = arm /\ next.todo = plan(arm) /\ next.checked = head /\ run' = next
  BY <1>1
<1> HIDE DEF next
<1>10. \A i \in 1..Len(Held) : Continues(Held[i], run)'
  BY <1>2, <1>7, <1>8, <1>9 DEF Continues
<1> QED BY <1>2, <1>5, <1>6, <1>7, <1>9, <1>10 DEF Goes

LEMMA AddedGoes ==
    ASSUME IInv, Goes, Active, Added, UNCHANGED <<head, runs>>
    PROVE  Goes'
<1>1. PICK n \in run.todo :
        /\ run.phase = "measure"
        /\ run' = [run EXCEPT !.todo = @ \ {n},
                              !.buffer = Append(@, Row(run.arm, Grid[n], run.stamp, run.checked))]
        /\ Held' = Append(Held, Row(run.arm, Grid[n], run.stamp, run.checked))
  BY DEF Added
<1> DEFINE row == Row(run.arm, Grid[n], run.stamp, run.checked)
<1>2. /\ run \in ActiveRuns /\ runs \in 1..MaxRuns
      /\ n \in 1..Len(Grid) /\ Grid[n] \in Keys /\ Grid[n].backend \in run.arm.backends
  BY <1>1 DEF IInv, Types, ActiveRuns, Keys, Goes
<1>3. /\ row \in RowRecords /\ row.key = Grid[n] /\ row.ran = run.arm /\ row.run = runs
      /\ SameStamp(row, run.stamp)
  BY <1>2, RowIs DEF ActiveRuns
<1>4. /\ run'.todo = run.todo \ {n} /\ run'.phase = "measure"
      /\ run'.arm = run.arm /\ run'.stamp = run.stamp
      /\ run'.checked = run.checked /\ run.todo \subseteq 1..Len(Grid)
  BY <1>1, <1>2 DEF ActiveRuns
<1> HIDE DEF row
<1>5. /\ Held \in Seq(RowRecords) /\ Len(Held) \in Nat
      /\ Len(Held') = Len(Held) + 1 /\ Held'[Len(Held) + 1] = row
      /\ \A i \in 1..Len(Held) : Held'[i] = Held[i]
  BY <1>1, <1>3, HeldFacts, AppendProperties DEF IInv, row
<1>6. \A i \in 1..Len(Held') : i \in 1..Len(Held) \/ i = Len(Held) + 1
  BY <1>5
<1>7. 1..Len(Held) \subseteq 1..Len(Held') /\ Len(Held) + 1 \in 1..Len(Held')
  BY <1>5
<1>8. \A m \in run'.todo : /\ Grid[m].backend \in run'.arm.backends
                           /\ \A i \in 1..Len(Held') : Held'[i].key # Grid[m]
  <2> SUFFICES ASSUME NEW m \in run.todo, m # n
               PROVE  /\ Grid[m].backend \in run.arm.backends
                      /\ \A i \in 1..Len(Held') : Held'[i].key # Grid[m]
    BY <1>4
  <2>1. Grid[m] # Grid[n]
    BY <1>2, <1>4, GridAssumption
  <2> QED BY <2>1, <1>3, <1>5, <1>6 DEF Goes
<1>9. \A m \in 1..Len(Grid) : Grid[m].backend \in run'.arm.backends =>
          m \in run'.todo \/ \E i \in 1..Len(Held') : Held'[i].key = Grid[m]
  <2> SUFFICES ASSUME NEW m \in 1..Len(Grid), Grid[m].backend \in run.arm.backends,
                      m \notin run'.todo
               PROVE  \E i \in 1..Len(Held') : Held'[i].key = Grid[m]
    BY <1>4
  <2>1. CASE m = n
    BY <2>1, <1>3, <1>5, <1>7
  <2>2. CASE m # n
    <3>1. PICK i \in 1..Len(Held) : Held[i].key = Grid[m]
      BY <2>2, <1>4 DEF Goes
    <3> QED BY <3>1, <1>5, <1>7
  <2> QED BY <2>1, <2>2
<1>10. \A i \in 1..Len(Held') : /\ SameRegime(Held'[i].ran, run'.arm, Held'[i].key)
                                /\ Continues(Held'[i], run')
  <2>1. SameRegime(row.ran, run.arm, row.key) /\ Continues(row, run')
    BY <1>3, <1>4 DEF SameRegime, Continues
  <2>2. \A i \in 1..Len(Held) : Continues(Held[i], run')
    BY <1>1, <1>4 DEF Goes, Continues
  <2> QED BY <2>1, <2>2, <1>4, <1>5, <1>6 DEF Goes
<1>11. \A i \in 1..Len(Held') : Continues(Held[i], run)'
  BY <1>10 DEF Continues
<1> QED BY <1>4, <1>8, <1>9, <1>10, <1>11 DEF Goes

LEMMA OtherGoes ==
    ASSUME IInv, Goes, Active, Held' = Held, Capture \/ WriteTmp \/ Replace \/ MoveHead
    PROVE  Goes'
<1>1. run \in ActiveRuns
  BY DEF IInv, Types
<1>2. /\ run'.arm = run.arm /\ run'.todo = run.todo
      /\ run'.checked = run.checked /\ runs' = runs
      /\ \/ run.phase = "planned" \/ run' = run
         \/ run'.stamp = run.stamp /\ run'.phase # "planned"
  <2>1. CASE Capture
    BY <1>1, <2>1 DEF Capture, ActiveRuns
  <2>2. CASE WriteTmp \/ Replace
    BY <1>1, <2>2 DEF WriteTmp, Replace, ActiveRuns
  <2>3. CASE MoveHead
    BY <1>1, <2>3 DEF MoveHead
  <2> QED BY <2>1, <2>2, <2>3
<1> QED BY <1>2 DEF Goes, Continues

LEMMA NextIInv ==
    ASSUME IInv, [Next]_vars
    PROVE  IInv'
<1>1. CASE Start
  <2>1. Types' /\ Same /\ Held' = Held /\ runs' = runs + 1
    BY <1>1, StartTypes DEF IInv, Start, Same
  <2>2. Goes'
    BY <1>1, <2>1, StartGoes
  <2> QED BY <2>1, <2>2, SameSound DEF IInv
<1>2. CASE Measure
  <2>1. Active /\ Goes /\ UNCHANGED <<head, runs>>
    BY <1>2 DEF Measure, Active, IInv
  <2>2. Types' /\ Added
    BY <1>2, <2>1, MeasureTypes DEF IInv
  <2> QED BY <2>1, <2>2, AddedSound, AddedGoes DEF IInv
<1>3. CASE Capture \/ WriteTmp \/ Replace
  <2>1. Active /\ Goes /\ runs' = runs
    BY <1>3 DEF Capture, WriteTmp, Replace, Active, IInv
  <2>2. Types' /\ Held' = Held
    BY <1>3, OtherTypes DEF IInv, Same
  <2> QED BY <1>3, <2>1, <2>2, SameSound, OtherGoes DEF IInv
<1>4. CASE MoveHead
  <2>1. Types' /\ Held' = Held /\ runs' = runs /\ Active' = Active
    BY <1>4, OtherTypes DEF IInv, Same, MoveHead, Active
  <2>2. Active => Goes'
    BY <1>4, <2>1, OtherGoes DEF IInv
  <2> QED BY <2>1, <2>2, SameSound DEF IInv
<1>5. CASE Return
  <2>1. Types' /\ Held' = Held /\ runs' = runs /\ ~Active'
    BY <1>5, OtherTypes DEF IInv, Same, Return, Active, Idle
  <2> QED BY <2>1, SameSound DEF IInv
<1>6. CASE Die
  <2>1. Types' /\ Held' = rows /\ runs' = runs /\ ~Active'
    BY <1>6, DieTypes DEF IInv, Cut, Die, Active, Idle
  <2> QED BY <2>1, CutSoundNext DEF IInv
<1>7. CASE UNCHANGED vars
  <2>1. Held' = Held /\ runs' = runs /\ Active' = Active
    BY <1>7 DEF vars, Held, Buffer, Active
  <2>2. Types'
    BY <1>7, <2>1 DEF vars, IInv, Types, TypeOK
  <2>3. Active => Goes'
    BY <1>7, <2>1 DEF vars, IInv, Goes, Continues
  <2> QED BY <2>1, <2>2, <2>3, SameSound DEF IInv
<1> QED BY <1>1, <1>2, <1>3, <1>4, <1>5, <1>6, <1>7 DEF Next

LEMMA InitIInv == Init => IInv
<1> SUFFICES ASSUME Init PROVE IInv
  OBVIOUS
<1>1. Types /\ ~Active /\ rows = <<>>
  BY InitTypes DEF Init, Active, Idle
<1>2. Len(Held) = 0
  BY <1>1, HeldFacts, EmptySeq
<1> QED BY <1>1, <1>2 DEF IInv, Sound, OnceIn, RegimeIn, CommitIn

THEOREM RunInvariant == Spec => []IInv
BY InitIInv, NextIInv, PTL DEF Spec

\* Every variable keeps its shape, and no buffer outgrows checkpoint_every.
THEOREM RunTypes == Spec => []TypeOK
<1>1. IInv => TypeOK
  BY DEF IInv, Types
<1> QED BY <1>1, RunInvariant, PTL

\* No cell is in the file twice, whatever was killed when.
THEOREM RunOneRowPerCell == Spec => []OneRowPerCell
<1>1. IInv => OneRowPerCell
  BY HeldFacts, CutSound DEF IInv, Sound, OnceIn, OneRowPerCell
<1> QED BY <1>1, RunInvariant, PTL

\* One file, one regime.
THEOREM RunOneRegime == Spec => []OneRegime
<1>1. IInv => OneRegime
  <2> SUFFICES ASSUME IInv PROVE OneRegime
    OBVIOUS
  <2>1. RegimeIn(rows)
    BY HeldFacts, CutSound DEF IInv, Sound
  <2> QED BY <2>1 DEF RegimeIn, OneRegime, RowsAt
<1> QED BY <1>1, RunInvariant, PTL

\* Rows of one run carry one stamp; a run adds only to rows of the commit, and
\* the clean tree, it checked, but for a waiver, whatever the repository did
\* between its check and its stamp.
THEOREM RunOneCommit == Spec => []OneCommit
<1>1. IInv => OneCommit
  BY HeldFacts, CutSound DEF IInv, Sound, CommitIn, Follows, SameStamp, AddedTo,
     OneCommit
<1> QED BY <1>1, RunInvariant, PTL

\* The rows banked stay, in their order, at every step.
THEOREM RunRowsSurvive == Spec => RowsSurvive
<1>1. IInv /\ [Next]_vars => [IsPrefix(rows, rows')]_vars
  <2> SUFFICES ASSUME IInv, Next PROVE IsPrefix(rows, rows')
    OBVIOUS
  <2>1. rows' = rows \/ rows' = Held
    <3>1. CASE Replace
      BY <3>1, OtherTypes DEF IInv, Same
    <3>2. CASE ~Replace
      BY <3>2 DEF Next, Start, Capture, Measure, WriteTmp, Return, Die, MoveHead
    <3> QED BY <3>1, <3>2
  <2>2. /\ rows \in Seq(RowRecords) /\ rows' \in Seq(RowRecords)
        /\ Len(rows) <= Len(rows') /\ \A i \in 1..Len(rows) : rows'[i] = rows[i]
    BY <2>1, HeldFacts DEF IInv
  <2>3. SubSeq(rows, 1, Len(rows)) = SubSeq(rows', 1, Len(rows))
    BY <2>2
  <2> QED BY <2>2, <2>3 DEF IsPrefix
<1> QED BY <1>1, RunInvariant, PTL DEF Spec, RowsSurvive

\* A run that returns has a row for each of its cells, measured as it asked.
THEOREM RunReturnMeasured == Spec => ReturnMeasured
<1>1. IInv /\ [Next]_vars => [Return => Measured(run.arm)]_vars
  <2> SUFFICES ASSUME IInv, Return PROVE Measured(run.arm)
    OBVIOUS
  <2>1. Active /\ Goes /\ run.todo = {} /\ Buffer = <<>>
    BY DEF Return, Active, IInv, Buffer
  <2>2. Held = rows
    BY <2>1, HeldFacts, ConcatEmptySeq DEF IInv, Held
  <2> SUFFICES ASSUME NEW k \in Keys, k.backend \in run.arm.backends
               PROVE  \E r \in RowsAt : r.key = k /\ SameRegime(r.ran, run.arm, k)
    BY DEF Measured
  <2>3. PICK n \in 1..Len(Grid) : k = Grid[n]
    BY DEF Keys
  <2>4. PICK i \in 1..Len(Held) : Held[i].key = k
    BY <2>1, <2>3 DEF Goes
  <2> QED BY <2>1, <2>2, <2>4 DEF Goes, RowsAt
<1> QED BY <1>1, RunInvariant, PTL DEF Spec, ReturnMeasured
=============================================================================
