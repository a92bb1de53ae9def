-------------------------- MODULE Recursion_proofs --------------------------
(***************************************************************************)
(* The recursion's schedule is in order, its two ways of counting the      *)
(* launch queue agree, and every time it computes is the earliest one that *)
(* the pipeline allows, for every arm, cost table and queue depth.         *)
(***************************************************************************)
EXTENDS RecursionProps, TLAPS, FiniteSetTheorems,
        NaturalsInduction, WellFoundedInduction

(***************************************************************************)
(* The inductive invariant.  LastLaunches says what the proof turns on:    *)
(* look back m places from operation i.  Either a synchronisation lies in  *)
(* that window, and then everything at or before the far end of it, and    *)
(* the m-th last launch, was over when the host last returned; or the      *)
(* window is launches only, and the m-th last launch IS D_(i-m).           *)
(***************************************************************************)
Started == pc \in {"recurse", "done"}

SyncDrains ==
    Started /\ waits => \A j \in 1..(i - 1) : IsSync(j) => D[j] = H[j]

LaunchCount == Started => Len(launches) <= i - 1

LastLaunches ==
    Started /\ waits =>
        \A m \in Nat \ {0} :
            \/ /\ \E j \in 1..(i - 1) : j >= i - m /\ IsSync(j)
               /\ m <= Len(launches) =>
                      launches[Len(launches) - m + 1] <= H[i - 1]
            \/ /\ \A j \in 1..(i - 1) : j >= i - m => ~IsSync(j)
               /\ m <= i - 1 =>
                      /\ m <= Len(launches)
                      /\ launches[Len(launches) - m + 1] = D[i - m]
               /\ m > i - 1 => m > Len(launches)

LaunchesDone ==
    Started => \A x \in 1..Len(launches) : i > 1 /\ launches[x] <= D[i - 1]

Accepted ==
    IF Started THEN Priceable /\ Recursable ELSE i = 1 /\ launches = <<>>

IndInv ==
    /\ TypeOK /\ Accepted /\ InOrder
    /\ SyncDrains /\ LaunchCount /\ LaunchesDone /\ LastLaunches

\* What price accepts costs a natural number, s_0 included.
LEMMA PricedTypes ==
    ASSUME ops \in Seq(Operation), Priceable
    PROVE  \A j \in 1..N : /\ ops[j].host \in Nat
                           /\ ops[j].device \in Nat
                           /\ ops[j].link \in Nat
                           /\ S0(ops[j]) \in Nat
<1> TAKE j \in 1..N
<1> DEFINE op == ops[j]
<1>1. op \in Operation
  BY DEF N
<1>2. CheckOperation(op) /\ CheckSyncCost(op)
  BY DEF Priceable
<1>3. op.host \in Nat /\ op.device \in Nat /\ op.link \in Nat
  BY <1>1, <1>2 DEF Operation, CheckOperation
<1>4. ASSUME op.kind = "sync" PROVE S0(op) \in Nat
  <2>1. SyncCosts[op.mechanism] \in Cost
    BY <1>2, <1>4, ConstantsAssumption DEF CheckSyncCost
  <2>2. CASE op.payload = 0
    BY <2>1, <2>2, <1>4 DEF S0, Cost
  <2>3. CASE op.payload # 0
    <3>1. Pace(op) \in Nat /\ op.payload \in Nat
      BY <2>1, <2>3, <1>1, <1>2, <1>4 DEF Pace, Cost, CheckSyncCost, Operation
    <3>2. op.payload * Pace(op) \in Nat
      BY <3>1
    <3> QED BY <3>2, <2>1, <2>3, <1>4 DEF S0, Cost
  <2> QED BY <2>2, <2>3
<1>5. S0(op) \in Nat
  BY <1>4 DEF S0
<1> QED BY <1>3, <1>5

\* The time at which the host is free to go on, whatever holds it back.
LEMMA IssueTypes ==
    ASSUME IndInv, Issuing
    PROVE  /\ i \in 1..N
           /\ Before(H) \in Nat /\ Before(D) \in Nat
           /\ HostReady \in Nat /\ HostReady >= Before(H)
           /\ IssueAt \in Nat /\ IssueAt >= HostReady
           /\ s[i] \in Nat /\ ops[i].link \in Nat /\ ops[i].device \in Nat
<1> USE DEF IndInv
<1>1. i \in 1..N /\ N \in Nat /\ Started
  BY DEF Issuing, TypeOK, N, Started
<1>2. Before(H) \in Nat /\ Before(D) \in Nat
  BY <1>1 DEF Before, TypeOK, Started
<1>3. ops[i].host \in Nat /\ ops[i].link \in Nat /\ ops[i].device \in Nat
  BY <1>1, PricedTypes DEF Accepted, TypeOK
<1>4. HostReady \in Nat /\ HostReady >= Before(H)
  BY <1>2, <1>3 DEF HostReady
<1>5. QueueBound \in Nat
  <2>1. depth = None \/ (depth \in Int /\ depth >= 1)
    BY <1>1, ConstantsAssumption DEF Accepted, Recursable, TypeOK
  <2>2. CASE waits /\ depth # None /\ i > depth
    <3>1. i - depth \in 1..N
      BY <2>1, <2>2, <1>1
    <3> QED BY <3>1, <2>2, <1>1 DEF QueueBound, TypeOK, Started
  <2>3. CASE ~waits /\ ~IsSync(i) /\ depth # None /\ Len(launches) >= depth
    <3>1. Len(launches) - depth + 1 \in 1..Len(launches)
      BY <2>1, <2>3 DEF TypeOK
    <3> QED BY <3>1, <2>3 DEF QueueBound, TypeOK
  <2> QED BY <2>2, <2>3 DEF QueueBound
<1>6. IssueAt \in Nat /\ IssueAt >= HostReady
  BY <1>4, <1>5 DEF IssueAt, Larger
<1>7. s[i] \in Nat
  BY <1>1 DEF TypeOK, Started
<1> QED BY <1>1, <1>2, <1>3, <1>4, <1>6, <1>7

\* A recorded operation leaves the schedule typed and in order, as long as
\* it is issued after the last one and done after it and after the last.
LEMMA RecordInOrder ==
    ASSUME IndInv, Issuing,
           NEW issued \in Nat, NEW done \in Nat, NEW waited \in Nat,
           Record(issued, done, waited),
           issued >= IssueAt, done >= issued, done >= Before(D),
           launches' \in Seq(Nat)
    PROVE  /\ TypeOK' /\ Accepted' /\ InOrder' /\ pc' = "recurse"
           /\ i \in 1..N /\ i' = i + 1
           /\ H'[i] = issued /\ D'[i] = done
           /\ \A j \in 1..(i - 1) : H'[j] = H[j] /\ D'[j] = D[j]
           /\ H'[i] >= Before(H)
<1> USE DEF IndInv
<1>0. i \in 1..N /\ N \in Nat /\ pc = "recurse" /\ Started
  BY IssueTypes DEF Issuing, TypeOK, N, Started
<1>1. /\ pc' = "recurse" /\ i' = i + 1 /\ ops' = ops /\ s' = s
      /\ depth' = depth /\ waits' = waits /\ N' = N
  BY <1>0 DEF Issuing, Record, input, N
<1>2. /\ H \in [1..N -> Nat] /\ D \in [1..N -> Nat]
      /\ stall \in [1..N -> Nat] /\ wait \in [1..N -> Nat]
  BY <1>0 DEF TypeOK, Started
<1>3. IssueAt - HostReady \in Nat
  BY IssueTypes
<1>4. /\ H' \in [1..N -> Nat] /\ D' \in [1..N -> Nat]
      /\ stall' \in [1..N -> Nat] /\ wait' \in [1..N -> Nat]
  BY <1>2, <1>3, <1>0 DEF Record
<1>5. /\ H'[i] = issued /\ D'[i] = done
      /\ \A j \in 1..(i - 1) : H'[j] = H[j] /\ D'[j] = D[j]
  BY <1>0, <1>2, SMTT(60) DEF Record
<1>6. TypeOK'
  <2>1. /\ ops' \in Seq(Operation) /\ depth' \in QueueDepths /\ waits' \in BOOLEAN
        /\ s \in [1..N -> Nat]
    BY <1>0, <1>1 DEF TypeOK
  <2>2. i' \in Nat \ {0} /\ i' \in 1..(N + 1)
    BY <1>0, <1>1
  <2> QED BY <2>1, <2>2, <1>1, <1>4 DEF TypeOK
<1>7. Accepted'
  BY <1>0, <1>1 DEF Accepted, Started, Priceable, Recursable, OneStream,
     ClosingIsLast, IsClosed, IsSync, N
<1>8. \A m \in 1..i : H'[m] <= H'[i] /\ D'[m] <= D'[i]
  <2> TAKE m \in 1..i
  <2>1. CASE m = i
    BY <2>1, <1>5
  <2>2. CASE m # i
    <3>1. m \in 1..(i - 1) /\ i - 1 \in 1..(i - 1) /\ i > 1
      BY <2>2, <1>0
    <3>2. H[m] <= H[i - 1] /\ D[m] <= D[i - 1]
      BY <3>1, <1>0 DEF InOrder, Started
    <3>3. Before(H) = H[i - 1] /\ Before(D) = D[i - 1]
      BY <3>1, <1>0 DEF Before
    <3>4. H[i - 1] <= issued /\ D[i - 1] <= done
      BY <3>3, IssueTypes
    <3>5. H[m] \in Nat /\ D[m] \in Nat /\ H[i - 1] \in Nat /\ D[i - 1] \in Nat
      BY <3>1, <1>0, <1>2, SMTT(60)
    <3> QED BY <3>1, <3>2, <3>4, <3>5, <1>5
  <2> QED BY <2>1, <2>2
<1>9. InOrder'
  <2> SUFFICES ASSUME NEW j \in 1..i
               PROVE  /\ H'[j] <= D'[j]
                      /\ \A m \in 1..j : H'[m] <= H'[j] /\ D'[m] <= D'[j]
    BY <1>0, <1>1 DEF InOrder
  <2>1. CASE j = i
    BY <2>1, <1>5, <1>8
  <2>2. CASE j # i
    <3>1. j \in 1..(i - 1)
      BY <2>2, <1>0
    <3>2. \A m \in 1..j : m \in 1..(i - 1)
      BY <3>1, <1>0
    <3> QED BY <3>1, <3>2, <1>0, <1>5 DEF InOrder, Started
  <2> QED BY <2>1, <2>2
<1>10. H'[i] >= Before(H)
  BY <1>5, IssueTypes
<1> QED BY <1>0, <1>1, <1>5, <1>6, <1>7, <1>9, <1>10

\* The two ways of counting the queue, at the operation about to be issued.
LEMMA CountsAgree == IndInv => QueueCountsAgree
<1> USE DEF IndInv
<1> SUFFICES ASSUME IndInv, Issuing, waits, depth # None
             PROVE  LET byLaunches == IF Len(launches) >= depth
                                      THEN launches[Len(launches) - depth + 1]
                                      ELSE 0
                    IN  IssueAt = Larger(HostReady, byLaunches)
  BY DEF QueueCountsAgree
<1> DEFINE L == Len(launches)
           back == launches[L - depth + 1]
<1>1. /\ Started /\ i \in 1..N /\ N \in Nat /\ L \in Nat /\ L <= i - 1
      /\ H \in [1..N -> Nat] /\ D \in [1..N -> Nat]
  BY IssueTypes, SMTT(60) DEF Issuing, Started, TypeOK, LaunchCount, N
<1>2. depth \in Nat \ {0}
  BY <1>1, ConstantsAssumption DEF Accepted, Recursable, TypeOK
<1>3. IssueAt = Larger(HostReady, IF i > depth THEN D[i - depth] ELSE 0)
  BY DEF IssueAt, QueueBound
<1>4. HostReady \in Nat /\ (i > 1 => H[i - 1] <= HostReady)
  BY IssueTypes DEF Before
<1>5. L >= depth => back \in Nat
  <2>1. L >= depth => L - depth + 1 \in 1..L
    BY <1>1, <1>2
  <2> QED BY <2>1 DEF TypeOK
<1>6. CASE /\ \E j \in 1..(i - 1) : j >= i - depth /\ IsSync(j)
           /\ depth <= L => back <= H[i - 1]
  <2>1. PICK j \in 1..(i - 1) : j >= i - depth /\ IsSync(j)
    BY <1>6
  <2>2. D[j] = H[j] /\ H[j] <= H[i - 1] /\ i > 1
    <3>1. i - 1 \in 1..(i - 1) /\ j \in 1..(i - 1)
      BY <2>1, <1>1
    <3> QED BY <3>1, <2>1, <1>1 DEF SyncDrains, InOrder, Started
  <2>3. i > depth => D[i - depth] <= H[i - 1]
    <3>1. ASSUME i > depth PROVE D[i - depth] <= D[j]
      <4>1. i - depth \in 1..j
        BY <3>1, <2>1, <1>2, <1>1
      <4> QED BY <4>1, <2>1, <1>1 DEF InOrder, Started
    <3>2. i > depth => D[i - depth] \in Nat /\ H[i - 1] \in Nat /\ D[j] \in Nat
      BY <1>1, <1>2, <2>1
    <3> QED BY <3>1, <3>2, <2>2
  <2>4. H[i - 1] \in Nat /\ (i > depth => D[i - depth] \in Nat)
    BY <1>1, <1>2, <2>2, SMTT(60)
  <2>5. Larger(HostReady, IF i > depth THEN D[i - depth] ELSE 0) = HostReady
    BY <2>2, <2>3, <2>4, <1>4 DEF Larger
  <2>6. Larger(HostReady, IF L >= depth THEN back ELSE 0) = HostReady
    <3>1. L >= depth => back \in Nat /\ back <= HostReady
      <4> HIDE DEF back
      <4> QED BY <2>2, <2>4, <1>4, <1>5, <1>6, <1>1, <1>2, SMTT(60)
    <3> HIDE DEF back
    <3> QED BY <3>1, <1>4 DEF Larger
  <2> QED BY <2>5, <2>6, <1>3
<1>7. CASE /\ \A j \in 1..(i - 1) : j >= i - depth => ~IsSync(j)
           /\ depth <= i - 1 => depth <= L /\ back = D[i - depth]
           /\ depth > i - 1 => depth > L
  <2>1. CASE depth <= i - 1
    BY <2>1, <1>7, <1>3, <1>1, <1>2
  <2>2. CASE depth > i - 1
    BY <2>2, <1>7, <1>3, <1>1, <1>2
  <2> QED BY <2>1, <2>2, <1>1, <1>2
<1> QED BY <1>1, <1>2, <1>6, <1>7 DEF LastLaunches

\* A launch extends the record of launches by its own completion time.
LEMMA LaunchStep == IndInv /\ Launch => IndInv'
<1> USE DEF IndInv
<1> SUFFICES ASSUME IndInv, Launch PROVE IndInv'
  OBVIOUS
<1> DEFINE done == Larger(IssueAt, Before(D)) + ops[i].link + ops[i].device
           L == Len(launches)
<1>1. Issuing /\ ~IsSync(i) /\ Record(IssueAt, done, 0)
      /\ launches' = Append(launches, done)
  BY DEF Launch
<1>2. done \in Nat /\ done >= IssueAt /\ done >= Before(D) /\ IssueAt \in Nat
  <2>1. /\ IssueAt \in Nat /\ Before(D) \in Nat
        /\ ops[i].link \in Nat /\ ops[i].device \in Nat
    BY <1>1, IssueTypes
  <2> QED BY <2>1 DEF Larger
<1>3. /\ launches' \in Seq(Nat) /\ L \in Nat /\ Len(launches') = L + 1
      /\ launches'[L + 1] = done
      /\ \A x \in 1..L : launches'[x] = launches[x] /\ launches[x] \in Nat
  <2>1. launches \in Seq(Nat)
    BY DEF TypeOK
  <2> HIDE DEF done
  <2> QED BY <2>1, <1>1, <1>2
<1>4. /\ TypeOK' /\ Accepted' /\ InOrder' /\ pc' = "recurse"
      /\ i \in 1..N /\ i' = i + 1 /\ H'[i] = IssueAt /\ D'[i] = done
      /\ \A j \in 1..(i - 1) : H'[j] = H[j] /\ D'[j] = D[j]
      /\ H'[i] >= Before(H)
  <2>1. IssueAt >= IssueAt /\ 0 \in Nat
    BY <1>2
  <2> HIDE DEF done
  <2> QED BY <1>1, <1>2, <1>3, <2>1, RecordInOrder
<1>5. Started /\ Started' /\ waits' = waits /\ ops' = ops /\ N \in Nat
      /\ D \in [1..N -> Nat] /\ H \in [1..N -> Nat]
  BY <1>1, <1>4 DEF Issuing, Started, Record, input, TypeOK, N
<1>6. \A j \in 1..N : IsSync(j)' <=> IsSync(j)
  BY <1>5 DEF IsSync
<1> HIDE DEF done
<1>7. SyncDrains'
  <2> SUFFICES ASSUME waits, NEW j \in 1..i, IsSync(j) PROVE D'[j] = H'[j]
    BY <1>4, <1>5, <1>6 DEF SyncDrains
  <2>1. j \in 1..(i - 1)
    BY <1>1, <1>4
  <2> QED BY <2>1, <1>4, <1>5 DEF SyncDrains
<1>8. LaunchCount'
  BY <1>3, <1>4, <1>5 DEF LaunchCount
<1>9. LaunchesDone'
  <2> SUFFICES ASSUME NEW x \in 1..(L + 1) PROVE launches'[x] <= D'[i]
    BY <1>3, <1>4 DEF LaunchesDone
  <2>1. CASE x = L + 1
    BY <2>1, <1>2, <1>3, <1>4
  <2>2. CASE x # L + 1
    <3>1. x \in 1..L
      BY <2>2, <1>3
    <3>2. launches[x] <= D[i - 1] /\ Before(D) = D[i - 1] /\ i > 1
      BY <3>1, <1>5, <1>4 DEF LaunchesDone, Before
    <3>3. launches[x] \in Nat /\ D[i - 1] \in Nat
      BY <3>1, <3>2, <1>3, <1>4, <1>5
    <3> QED BY <3>1, <3>2, <3>3, <1>2, <1>3, <1>4
  <2> QED BY <2>1, <2>2
<1>10. LastLaunches'
  <2> SUFFICES ASSUME waits, NEW m \in Nat \ {0}
               PROVE
               \/ /\ \E j \in 1..(i' - 1) : j >= i' - m /\ IsSync(j)'
                  /\ m <= Len(launches') =>
                        launches'[Len(launches') - m + 1] <= H'[i' - 1]
               \/ /\ \A j \in 1..(i' - 1) : j >= i' - m => ~IsSync(j)'
                  /\ m <= i' - 1 =>
                        /\ m <= Len(launches')
                        /\ launches'[Len(launches') - m + 1] = D'[i' - m]
                  /\ m > i' - 1 => m > Len(launches')
    BY <1>5 DEF LastLaunches
  <2>0. /\ i' - 1 = i /\ i' - m = i + 1 - m
        /\ Len(launches') = L + 1 /\ Len(launches') - m + 1 = L + 1 - m + 1
    BY <1>3, <1>4
  <2> SUFFICES
               \/ /\ \E j \in 1..i : j >= i + 1 - m /\ IsSync(j)
                  /\ m <= L + 1 => launches'[L + 1 - m + 1] <= H'[i]
               \/ /\ \A j \in 1..i : j >= i + 1 - m => ~IsSync(j)
                  /\ m <= i =>
                        m <= L + 1 /\ launches'[L + 1 - m + 1] = D'[i + 1 - m]
                  /\ m > i => m > L + 1
    <3>1. \A j \in 1..i : IsSync(j)' <=> IsSync(j)
      BY <1>4, <1>5, <1>6
    <3> QED BY <2>0, <3>1
  <2>1. CASE m = 1
    <3>1. \A j \in 1..i : j >= i + 1 - m => j = i
      BY <2>1, <1>4
    <3> QED BY <3>1, <2>1, <1>1, <1>3, <1>4
  <2>2. CASE m # 1
    <3> DEFINE p == m - 1
    <3>1. p \in Nat \ {0} /\ i + 1 - m = i - p /\ L + 1 - m + 1 = L - p + 1
      BY <2>2, <1>3, <1>4
    <3>2. p <= L => launches'[L - p + 1] = launches[L - p + 1]
                    /\ launches[L - p + 1] \in Nat
      <4>1. p <= L => L - p + 1 \in 1..L
        BY <3>1, <1>3
      <4> QED BY <4>1, <1>3
    <3>3. CASE /\ \E j \in 1..(i - 1) : j >= i - p /\ IsSync(j)
               /\ p <= L => launches[L - p + 1] <= H[i - 1]
      <4>1. PICK j \in 1..(i - 1) : j >= i - p /\ IsSync(j)
        BY <3>3
      <4>2. j \in 1..i /\ i > 1
        BY <4>1, <1>4
      <4>3. H[i - 1] \in Nat /\ H[i - 1] <= H'[i] /\ H'[i] \in Nat
        BY <4>2, <1>2, <1>4, <1>5 DEF Before
      <4>4. p <= L => launches[L - p + 1] <= H'[i]
        BY <3>2, <3>3, <4>3
      <4> HIDE DEF p
      <4> QED BY <3>1, <3>2, <4>1, <4>2, <4>4
    <3>4. CASE /\ \A j \in 1..(i - 1) : j >= i - p => ~IsSync(j)
               /\ p <= i - 1 => p <= L /\ launches[L - p + 1] = D[i - p]
               /\ p > i - 1 => p > L
      <4>1. \A j \in 1..i : j >= i - p => ~IsSync(j)
        BY <3>4, <1>1, <1>4
      <4>2. ASSUME m <= i
            PROVE  m <= L + 1 /\ launches'[L - p + 1] = D'[i - p]
        <5>1. p <= i - 1 /\ i - p \in 1..(i - 1)
          BY <4>2, <3>1, <1>4
        <5> QED BY <5>1, <3>2, <3>4, <1>3, <1>4
      <4>3. m > i => m > L + 1
        BY <3>4, <1>3, <1>4
      <4> QED BY <3>1, <4>1, <4>2, <4>3
    <3> QED BY <3>1, <3>3, <3>4, <1>5 DEF LastLaunches
  <2> QED BY <2>1, <2>2
<1> QED BY <1>4, <1>7, <1>8, <1>9, <1>10

\* A synchronisation that waits leaves nothing pending behind it; the one
\* that does not wait is the ablation's, where the queue claims are void.
LEMMA SyncStep == IndInv /\ (Synchronise \/ PassSync) => IndInv'
<1> USE DEF IndInv
<1> SUFFICES ASSUME IndInv, Synchronise \/ PassSync PROVE IndInv'
  OBVIOUS
<1> DEFINE start == Larger(IssueAt, Before(D))
<1>1. Issuing /\ IsSync(i) /\ launches' = launches
  BY DEF Synchronise, PassSync
<1>2. /\ IssueAt \in Nat /\ Before(D) \in Nat /\ s[i] \in Nat
      /\ start \in Nat /\ start >= IssueAt /\ start >= Before(D)
  BY <1>1, IssueTypes DEF Larger
<1>3. PICK issued \in Nat, done \in Nat, waited \in Nat :
         /\ Record(issued, done, waited)
         /\ issued >= IssueAt /\ done >= issued /\ done >= Before(D)
         /\ waits => issued = done
  <2>1. CASE Synchronise
    <3>1. Record(start + s[i], start + s[i], start - IssueAt)
      BY <2>1 DEF Synchronise
    <3>2. start + s[i] \in Nat /\ start - IssueAt \in Nat
          /\ start + s[i] >= IssueAt /\ start + s[i] >= Before(D)
          /\ start + s[i] >= start + s[i]
      BY <1>2
    <3> HIDE DEF start
    <3> QED BY <3>1, <3>2
  <2>2. CASE PassSync
    <3> DEFINE t == IssueAt + s[i]
               done == Larger(t, Before(D))
    <3>1. Record(t, done, 0) /\ ~waits
      BY <2>2 DEF PassSync
    <3>2. t \in Nat /\ t >= IssueAt
      BY <1>2
    <3>3. done \in Nat /\ done >= t /\ done >= Before(D)
      BY <3>2, <1>2 DEF Larger
    <3> HIDE DEF t, done
    <3> QED BY <3>1, <3>2, <3>3
  <2> QED BY <2>1, <2>2
<1>4. /\ TypeOK' /\ Accepted' /\ InOrder' /\ pc' = "recurse"
      /\ i \in 1..N /\ i' = i + 1 /\ H'[i] = issued /\ D'[i] = done
      /\ \A j \in 1..(i - 1) : H'[j] = H[j] /\ D'[j] = D[j]
      /\ H'[i] >= Before(H)
  <2>1. launches' \in Seq(Nat)
    BY <1>1 DEF TypeOK
  <2> QED BY <1>1, <1>3, <2>1, RecordInOrder
<1>5. Started /\ Started' /\ waits' = waits /\ ops' = ops /\ N \in Nat
      /\ D \in [1..N -> Nat] /\ H \in [1..N -> Nat]
  BY <1>1, <1>3, <1>4 DEF Issuing, Started, Record, input, TypeOK, N
<1>6. \A j \in 1..N : IsSync(j)' <=> IsSync(j)
  BY <1>5 DEF IsSync
<1>7. SyncDrains'
  <2> SUFFICES ASSUME waits, NEW j \in 1..i, IsSync(j) PROVE D'[j] = H'[j]
    BY <1>4, <1>5, <1>6 DEF SyncDrains
  <2>1. CASE j = i
    BY <2>1, <1>3, <1>4
  <2>2. CASE j # i
    <3>1. j \in 1..(i - 1)
      BY <2>2, <1>4
    <3> QED BY <3>1, <1>4, <1>5 DEF SyncDrains
  <2> QED BY <2>1, <2>2
<1>8. Len(launches) \in Nat /\ Len(launches) <= i - 1
      /\ \A x \in 1..Len(launches) : launches[x] \in Nat
  BY <1>5 DEF TypeOK, LaunchCount
<1>9. LaunchCount'
  BY <1>1, <1>4, <1>5, <1>8 DEF LaunchCount
<1>10. \A x \in 1..Len(launches) : launches[x] <= done
  <2> TAKE x \in 1..Len(launches)
  <2>1. i > 1 /\ launches[x] <= D[i - 1] /\ Before(D) = D[i - 1]
    BY <1>5, <1>4 DEF LaunchesDone, Before
  <2>2. launches[x] \in Nat /\ D[i - 1] \in Nat
    BY <2>1, <1>4, <1>5, <1>8
  <2> QED BY <2>1, <2>2, <1>3
<1>11. LaunchesDone'
  <2> SUFFICES ASSUME NEW x \in 1..Len(launches)
               PROVE  launches[x] <= D'[i]
    BY <1>1, <1>4 DEF LaunchesDone
  <2> QED BY <1>4, <1>10
<1>12. LastLaunches'
  <2> SUFFICES ASSUME waits, NEW m \in Nat \ {0}
               PROVE
               /\ \E j \in 1..(i' - 1) : j >= i' - m /\ IsSync(j)'
               /\ m <= Len(launches') =>
                     launches'[Len(launches') - m + 1] <= H'[i' - 1]
    BY <1>5 DEF LastLaunches
  <2>1. i' - 1 = i /\ i' - m = i + 1 - m
    BY <1>4
  <2>2. \E j \in 1..i : j >= i + 1 - m /\ IsSync(j)'
    <3>1. i \in 1..i /\ i >= i + 1 - m
      BY <1>4
    <3>2. PICK j \in 1..N : j = i /\ IsSync(j)
      BY <1>1, <1>4
    <3>3. IsSync(j)'
      BY <3>2, <1>6
    <3> QED BY <3>1, <3>2, <3>3
  <2>3. ASSUME m <= Len(launches)
        PROVE  launches[Len(launches) - m + 1] <= H'[i]
    <3>1. Len(launches) - m + 1 \in 1..Len(launches)
      BY <2>3, <1>8
    <3> QED BY <3>1, <1>3, <1>4, <1>5, <1>10
  <2> QED BY <2>1, <2>2, <2>3, <1>1
<1> QED BY <1>4, <1>7, <1>9, <1>11, <1>12

\* Before the first operation the schedule is empty and every claim holds.
LEMMA PriceStep == IndInv /\ Price => IndInv'
<1> USE DEF IndInv
<1> SUFFICES ASSUME IndInv, Price PROVE IndInv'
  OBVIOUS
<1> SUFFICES ASSUME Priceable, Recursable,
                    pc' = "recurse", i' = i, launches' = launches,
                    ops' = ops, depth' = depth, waits' = waits,
                    s' = [j \in 1..N |-> S0(ops[j])],
                    H' = [j \in 1..N |-> 0], D' = [j \in 1..N |-> 0],
                    stall' = [j \in 1..N |-> 0], wait' = [j \in 1..N |-> 0]
             PROVE  IndInv'
  <2>1. CASE Priceable /\ Recursable
    BY <2>1 DEF Price, input
  <2>2. CASE ~(Priceable /\ Recursable)
    <3>0. Refuse /\ ~Started
      BY <2>2 DEF Price, Started
    <3>1. /\ pc' = "refused" /\ ~Started /\ i' = i /\ launches' = launches
          /\ ops' = ops /\ depth' = depth /\ waits' = waits
      BY <3>0 DEF Refuse, timeline, input
    <3> QED BY <3>1 DEF TypeOK, Accepted, InOrder, SyncDrains, LaunchCount,
               LaunchesDone, LastLaunches, Started
  <2> QED BY <2>1, <2>2
<1>1. i = 1 /\ launches = <<>> /\ N \in Nat /\ Started' /\ N' = N
  BY DEF Price, Accepted, Started, TypeOK, N
<1>2. TypeOK'
  <2>1. s' \in [1..N -> Nat]
    BY PricedTypes DEF TypeOK
  <2>2. launches' \in Seq(Nat) /\ i' \in 1..(N + 1)
    BY <1>1
  <2>3. /\ ops' \in Seq(Operation) /\ depth' \in QueueDepths
        /\ waits' \in BOOLEAN /\ i' \in Nat \ {0}
    BY DEF TypeOK
  <2> QED BY <1>1, <2>1, <2>2, <2>3 DEF TypeOK
<1>3. Accepted'
  BY <1>1 DEF Accepted, Started, Priceable, Recursable, OneStream,
     ClosingIsLast, IsClosed, IsSync, N
<1>4. Len(launches') = 0 /\ i' = 1
  BY <1>1
<1>5. InOrder' /\ SyncDrains' /\ LaunchCount' /\ LaunchesDone'
  BY <1>4 DEF InOrder, SyncDrains, LaunchCount, LaunchesDone
<1>6. LastLaunches'
  BY <1>4 DEF LastLaunches
<1> QED BY <1>2, <1>3, <1>5, <1>6

LEMMA InitIndInv == Init => IndInv
<1> SUFFICES ASSUME Init PROVE IndInv
  OBVIOUS
<1>1. ops \in Seq(Operation)
  <2>1. PICK n \in 0..MaxOps : ops \in [1..n -> Operations]
    BY DEF Init
  <2>2. n \in Nat /\ ops \in [1..n -> Operation]
    BY <2>1, ConstantsAssumption
  <2> QED BY <2>2
<1> QED BY <1>1 DEF Init, IndInv, TypeOK, Accepted, InOrder, SyncDrains,
           LaunchCount, LaunchesDone, LastLaunches, Started

\* The invariant of every behaviour of the recursion.
THEOREM RecursionInvariant == Spec => []IndInv
<1>1. IndInv /\ [Next]_vars => IndInv'
  <2> SUFFICES ASSUME IndInv, [Next]_vars PROVE IndInv'
    OBVIOUS
  <2>1. CASE ClosePrefill
    <3>1. ~Started /\ i' = i /\ launches' = launches
          /\ depth' = depth /\ waits' = waits
          /\ pc' \in {"price", "refused"}
      BY <2>1 DEF ClosePrefill, Refuse, Started, timeline, input
    <3>2. ops' \in Seq(Operation)
      <4>1. ClosingSync \in Operation
        BY DEF ClosingSync, Operation, Kinds, PricedMechanisms, PayloadFree
      <4>2. ops' \in {ops, Append(ops, ClosingSync)}
        BY <2>1 DEF ClosePrefill, Refuse
      <4>3. ops \in Seq(Operation)
        BY DEF IndInv, TypeOK
      <4> QED BY <4>1, <4>2, <4>3
    <3> QED BY <3>1, <3>2 DEF IndInv, TypeOK, Accepted, InOrder, SyncDrains,
               LaunchCount, LaunchesDone, LastLaunches, Started
  <2>2. CASE Price
    BY <2>2, PriceStep
  <2>3. CASE Launch
    BY <2>3, LaunchStep
  <2>4. CASE Synchronise \/ PassSync
    BY <2>4, SyncStep
  <2>5. CASE Return \/ UNCHANGED vars
    <3>1. /\ Started' = Started /\ ops' = ops /\ depth' = depth
          /\ waits' = waits /\ i' = i /\ H' = H /\ D' = D /\ s' = s
          /\ stall' = stall /\ wait' = wait /\ launches' = launches
          /\ pc' \in {pc, "done"}
      BY <2>5 DEF Return, vars, timeline, input, Started
    <3>2. TypeOK'
      BY <3>1 DEF IndInv, TypeOK, Started, N
    <3>3. Accepted'
      BY <3>1 DEF IndInv, Accepted, Priceable, Recursable, OneStream,
         ClosingIsLast, IsClosed, IsSync, N, Started
    <3>4. InOrder'
      BY <3>1 DEF IndInv, InOrder, Started
    <3>5. SyncDrains' /\ LaunchCount' /\ LaunchesDone'
      BY <3>1 DEF IndInv, SyncDrains, LaunchCount, LaunchesDone, IsSync
    <3>6. LastLaunches'
      BY <3>1 DEF IndInv, LastLaunches, IsSync
    <3> QED BY <3>2, <3>3, <3>4, <3>5, <3>6 DEF IndInv
  <2> QED BY <2>1, <2>2, <2>3, <2>4, <2>5 DEF Next
<1> QED BY <1>1, InitIndInv, PTL DEF Spec

\* The variables keep their types, every accepted cost being a natural.
THEOREM RecursionTypes == Spec => []TypeOK
<1>1. IndInv => TypeOK
  BY DEF IndInv
<1> QED BY <1>1, RecursionInvariant, PTL

\* Host and device stay in program order, the device never before the host.
THEOREM RecursionInOrder == Spec => []InOrder
<1>1. IndInv => InOrder
  BY DEF IndInv
<1> QED BY <1>1, RecursionInvariant, PTL

\* The recursion may count operations where the queue counts launches.
THEOREM RecursionQueue == Spec => []QueueCountsAgree
  BY CountsAgree, RecursionInvariant, PTL

(***************************************************************************)
(* The refinement of Pipeline.  The recursion never counts what is pending *)
(* at a time: it looks one completion up.  PendingCounted says why that is *)
(* enough, in the ablation too, where QueueCountsAgree is void: fewer than *)
(* n launches are unfinished at time t exactly when the n-th last launch   *)
(* there was, if any, is over.                                             *)
(***************************************************************************)
Late(t) == {j \in 1..(i - 1) : ~IsSync(j) /\ D[j] > t}

NthLastOver(n, t) ==
    Len(launches) < n \/ launches[Len(launches) - n + 1] <= t

PendingCounted ==
    Started => \A n \in Nat \ {0}, t \in Nat :
                   Cardinality(Late(t)) < n <=> NthLastOver(n, t)

LEMMA LateFinite ==
    ASSUME i \in Nat, NEW t
    PROVE  IsFiniteSet(Late(t)) /\ Cardinality(Late(t)) \in Nat
<1>1. IsFiniteSet(1..(i - 1)) /\ Late(t) \subseteq 1..(i - 1)
  BY FS_Interval DEF Late
<1>2. IsFiniteSet(Late(t))
  BY <1>1, FS_Subset
<1> QED BY <1>2, FS_CardinalityType

\* A launch is the newest pending one, or leaves nothing pending at all.
LEMMA LaunchCounted ==
    IndInv /\ IndInv' /\ PendingCounted /\ Launch => PendingCounted'
<1> SUFFICES ASSUME IndInv, IndInv', PendingCounted, Launch,
                    NEW n \in Nat \ {0}, NEW t \in Nat
             PROVE  (Cardinality(Late(t)) < n <=> NthLastOver(n, t))'
  BY DEF PendingCounted
<1> DEFINE L == Len(launches)
           done == Larger(IssueAt, Before(D)) + ops[i].link + ops[i].device
<1>1. /\ Issuing /\ ~IsSync(i) /\ Record(IssueAt, done, 0)
      /\ launches' = Append(launches, done)
  BY DEF Launch
<1>2. /\ Started /\ Started' /\ i \in 1..N /\ i' = i + 1 /\ ops' = ops
      /\ N \in Nat /\ D \in [1..N -> Nat] /\ D' = [D EXCEPT ![i] = done]
      /\ L \in Nat /\ launches \in Seq(Nat)
  <2>1. /\ Started /\ D \in [1..N -> Nat] /\ N \in Nat
        /\ L \in Nat /\ launches \in Seq(Nat)
    BY <1>1 DEF Issuing, Started, IndInv, TypeOK, N
  <2>2. /\ pc' = pc /\ i' = i + 1 /\ ops' = ops /\ D' = [D EXCEPT ![i] = done]
    BY <1>1 DEF Record
  <2>3. i \in 1..N
    BY <1>1, IssueTypes
  <2> QED BY <2>1, <2>2, <2>3 DEF Started
<1>3. done \in Nat
  BY <1>1, IssueTypes, SMTT(60) DEF Larger
<1> HIDE DEF done
<1>4. /\ Len(launches') = L + 1 /\ launches'[L + 1] = done
      /\ \A x \in 1..L : launches'[x] = launches[x] /\ launches[x] \in Nat
  BY <1>1, <1>2, <1>3
<1>5. /\ D'[i] = done
      /\ \A j \in 1..(i - 1) : D'[j] = D[j] /\ D'[j] <= done /\ D[j] \in Nat
  <2>1. D'[i] = done /\ \A j \in 1..(i - 1) : D'[j] = D[j] /\ D[j] \in Nat
    BY <1>2
  <2>2. i \in 1..(i' - 1) /\ \A j \in 1..(i - 1) : j \in 1..i
    BY <1>2
  <2>3. \A j \in 1..(i - 1) : D'[j] <= D'[i]
    BY <2>2, <1>2 DEF IndInv, InOrder, Started
  <2> QED BY <2>1, <2>3
<1>6. \A j \in 1..i : IsSync(j)' <=> IsSync(j)
  BY <1>2 DEF IsSync
<1>7. CASE done <= t
  <2>1. Late(t)' = {}
    <3> SUFFICES ASSUME NEW j \in 1..i, D'[j] > t PROVE FALSE
      BY <1>2 DEF Late
    <3>1. CASE j = i
      BY <3>1, <1>3, <1>5, <1>7
    <3>2. CASE j # i
      <4>1. j \in 1..(i - 1)
        BY <3>2, <1>2
      <4> QED BY <4>1, <1>3, <1>5, <1>7
    <3> QED BY <3>1, <3>2
  <2>2. Cardinality(Late(t)') = 0
    BY <2>1, FS_EmptySet
  <2>3. ASSUME ~(L + 1 < n) PROVE launches'[L + 1 - n + 1] <= t
    <3>1. CASE n = 1
      BY <3>1, <1>2, <1>4, <1>7
    <3>2. CASE n # 1
      <4>1. L + 1 - n + 1 \in 1..L
        BY <2>3, <3>2, <1>2
      <4>2. launches[L + 1 - n + 1] <= D[i - 1] /\ i > 1
        BY <4>1, <1>2 DEF IndInv, LaunchesDone
      <4>3. i - 1 \in 1..(i - 1)
        BY <4>2, <1>2
      <4> HIDE DEF L
      <4> QED BY <4>1, <4>2, <4>3, <1>3, <1>4, <1>5, <1>7
    <3> QED BY <3>1, <3>2
  <2> QED BY <2>2, <2>3, <1>4 DEF NthLastOver
<1>8. CASE done > t
  <2>1. Late(t)' = Late(t) \cup {i} /\ i \notin Late(t)
    <3>1. \A j \in 1..i : j = i \/ j \in 1..(i - 1)
      BY <1>2
    <3>2. \A j \in 1..(i - 1) : j \in 1..i /\ j # i
      BY <1>2
    <3>3. i \in 1..i /\ i' - 1 = i
      BY <1>2
    <3> QED BY <3>1, <3>2, <3>3, <1>1, <1>5, <1>6, <1>8 DEF Late
  <2>2. /\ IsFiniteSet(Late(t)) /\ Cardinality(Late(t)) \in Nat
    BY <1>2, LateFinite
  <2>3. Cardinality(Late(t)') = Cardinality(Late(t)) + 1
    BY <2>1, <2>2, FS_AddElement
  <2>4. CASE n = 1
    BY <2>2, <2>3, <2>4, <1>2, <1>3, <1>4, <1>8 DEF NthLastOver
  <2>5. CASE n # 1
    <3> DEFINE p == n - 1
    <3>1. p \in Nat \ {0} /\ L + 1 - n + 1 = L - p + 1
      BY <2>5, <1>2
    <3>2. Cardinality(Late(t)) < p <=> NthLastOver(p, t)
      BY <3>1, <1>2 DEF PendingCounted
    <3>3. Cardinality(Late(t)') < n <=> Cardinality(Late(t)) < p
      BY <2>2, <2>3
    <3>4. NthLastOver(n, t)' <=> NthLastOver(p, t)
      <4>1. L + 1 < n <=> L < p
        BY <1>2
      <4>2. ~(L < p) => launches'[L - p + 1] = launches[L - p + 1]
        <5>1. ~(L < p) => L - p + 1 \in 1..L
          BY <3>1, <1>2
        <5> QED BY <5>1, <1>4
      <4>3. NthLastOver(n, t)' <=> L + 1 < n \/ launches'[L + 1 - n + 1] <= t
        BY <1>4 DEF NthLastOver
      <4>4. NthLastOver(p, t) <=> L < p \/ launches[L - p + 1] <= t
        BY DEF NthLastOver
      <4> HIDE DEF p, L
      <4> QED BY <4>1, <4>2, <4>3, <4>4, <3>1
    <3> QED BY <3>2, <3>3, <3>4
  <2> QED BY <2>4, <2>5
<1> QED BY <1>3, <1>7, <1>8

\* A synchronisation is no launch: it leaves the pending ones as they were.
LEMMA SyncCounted ==
    IndInv /\ IndInv' /\ PendingCounted /\ (Synchronise \/ PassSync)
        => PendingCounted'
<1> SUFFICES ASSUME IndInv, IndInv', PendingCounted, Synchronise \/ PassSync,
                    NEW n \in Nat \ {0}, NEW t \in Nat
             PROVE  (Cardinality(Late(t)) < n <=> NthLastOver(n, t))'
  BY DEF PendingCounted
<1>1. /\ Issuing /\ IsSync(i) /\ launches' = launches
      /\ pc' = pc /\ i' = i + 1 /\ ops' = ops
      /\ \E done : D' = [D EXCEPT ![i] = done]
  BY DEF Synchronise, PassSync, Record
<1>2. /\ Started /\ i \in 1..N /\ N \in Nat /\ D \in [1..N -> Nat]
  BY <1>1, IssueTypes DEF Issuing, Started, IndInv, TypeOK, N
<1>3. Late(t)' = Late(t)
  <2>1. \A j \in 1..(i - 1) : j \in 1..i /\ D'[j] = D[j]
    BY <1>1, <1>2
  <2>2. \A j \in 1..i : j = i \/ j \in 1..(i - 1)
    BY <1>2
  <2>3. \A j \in 1..i : IsSync(j)' <=> IsSync(j)
    BY <1>1 DEF IsSync
  <2>4. i' - 1 = i
    BY <1>1, <1>2
  <2> QED BY <2>1, <2>2, <2>3, <2>4, <1>1 DEF Late
<1>4. NthLastOver(n, t)' <=> NthLastOver(n, t)
  BY <1>1 DEF NthLastOver
<1> QED BY <1>2, <1>3, <1>4 DEF PendingCounted

\* Where nothing has been issued nothing is pending.
LEMMA EmptyCounted == i = 1 /\ launches = <<>> => PendingCounted
<1> SUFFICES ASSUME i = 1, launches = <<>>, NEW n \in Nat \ {0}, NEW t \in Nat
             PROVE  Cardinality(Late(t)) < n <=> NthLastOver(n, t)
  BY DEF PendingCounted
<1>1. Late(t) = {}
  BY DEF Late
<1>2. Cardinality(Late(t)) = 0
  BY <1>1, FS_EmptySet
<1> QED BY <1>2 DEF NthLastOver

LEMMA CountedInvariant == Spec => [](IndInv /\ PendingCounted)
<1>1. Init => PendingCounted
  BY EmptyCounted DEF Init
<1>0. (i = 1 /\ launches = <<>>)' => PendingCounted'
  BY EmptyCounted, PTL
<1>2. IndInv /\ IndInv' /\ PendingCounted /\ [Next]_vars => PendingCounted'
  <2> SUFFICES ASSUME IndInv, IndInv', PendingCounted, [Next]_vars
               PROVE  PendingCounted'
    OBVIOUS
  <2>1. CASE Launch
    BY <2>1, LaunchCounted
  <2>2. CASE Synchronise \/ PassSync
    BY <2>2, SyncCounted
  <2>3. CASE Price
    <3>1. i' = i /\ launches' = launches /\ ~Started
      BY <2>3 DEF Price, Refuse, timeline, Started
    <3>2. i = 1 /\ launches = <<>>
      BY <3>1 DEF IndInv, Accepted
    <3> QED BY <3>1, <3>2, <1>0
  <2>4. CASE ClosePrefill
    BY <2>4 DEF ClosePrefill, Refuse, PendingCounted, Started
  <2>5. CASE Return \/ UNCHANGED vars
    <3>1. /\ ops' = ops /\ i' = i /\ D' = D /\ launches' = launches
          /\ Started' => Started
      BY <2>5 DEF Return, vars, timeline, input, Started
    <3> QED BY <3>1 DEF PendingCounted, Late, NthLastOver, IsSync
  <2> QED BY <2>1, <2>2, <2>3, <2>4, <2>5 DEF Next
<1> QED BY <1>1, <1>2, RecursionInvariant, PTL DEF Spec

(***************************************************************************)
(* Every time computed with a max is the earliest the pipeline allows.     *)
(***************************************************************************)
LEMMA DeviceFreeFrom ==
    ASSUME IndInv, Issuing, NEW t \in Nat
    PROVE  Physical!DeviceFree(t) <=> t >= Before(D)
<1>1. /\ i \in 1..N /\ N \in Nat /\ D \in [1..N -> Nat]
      /\ \A j \in 1..(i - 1) : \A m \in 1..j : D[m] <= D[j]
  BY IssueTypes DEF Issuing, IndInv, TypeOK, InOrder, N
<1>2. Physical!DeviceFree(t) <=> \A j \in 1..(i - 1) : D[j] <= t
  BY DEF Physical!DeviceFree, Physical!Past
<1>3. CASE i = 1
  BY <1>2, <1>3 DEF Before
<1>4. CASE i # 1
  <2>1. i - 1 \in 1..(i - 1) /\ Before(D) = D[i - 1]
    BY <1>1, <1>4 DEF Before
  <2>2. \A j \in 1..(i - 1) : D[j] \in Nat /\ D[j] <= D[i - 1]
    BY <2>1, <1>1
  <2> QED BY <2>1, <2>2, <1>2
<1> QED BY <1>3, <1>4

\* Pipeline counts with its own instance of FiniteSets.
LEMMA SameCount == \A S : Physical!Cardinality(S) = Cardinality(S)
  BY DEF Cardinality, Physical!Cardinality

\* What the queue asks of a launch: the depth-th last one to be over.
LEMMA QueueFreeFrom ==
    ASSUME IndInv, PendingCounted, Issuing, ~IsSync(i), depth # None,
           NEW t \in Nat, t >= HostReady
    PROVE  Cardinality(Physical!Pending(t)) < depth <=> t >= IssueAt
<1> DEFINE L == Len(launches)
           back == launches[L - depth + 1]
           byLaunches == IF L >= depth THEN back ELSE 0
<1>1. /\ Started /\ L \in Nat /\ launches \in Seq(Nat)
      /\ depth \in Nat \ {0}
  <2>1. Started /\ depth \in QueueDepths /\ Recursable
    BY DEF Issuing, Started, IndInv, TypeOK, Accepted
  <2> QED BY <2>1, ConstantsAssumption DEF Recursable, IndInv, TypeOK
<1>2. Physical!Pending(t) = Late(t)
  BY DEF Physical!Pending, Physical!Past, Physical!IsLaunch, Late, IsSync
<1>3. Cardinality(Late(t)) < depth <=> NthLastOver(depth, t)
  BY <1>1 DEF PendingCounted
<1>4. byLaunches \in Nat
  <2>1. L >= depth => L - depth + 1 \in 1..L
    BY <1>1
  <2> QED BY <2>1, <1>1
<1>5. IssueAt = Larger(HostReady, byLaunches)
  <2>1. CASE waits
    BY <2>1, CountsAgree DEF QueueCountsAgree
  <2>2. CASE ~waits
    BY <2>2 DEF IssueAt, QueueBound
  <2> QED BY <2>1, <2>2
<1>6. NthLastOver(depth, t) <=> t >= byLaunches
  <2>1. NthLastOver(depth, t) <=> L < depth \/ back <= t
    BY DEF NthLastOver
  <2>2. CASE L < depth
    BY <2>1, <2>2, <1>1
  <2>3. CASE ~(L < depth)
    <3>1. byLaunches = back /\ back \in Nat
      BY <2>3, <1>1, <1>4
    <3> HIDE DEF byLaunches, back
    <3> QED BY <2>1, <2>3, <3>1, <1>1
  <2> QED BY <2>2, <2>3
<1> HIDE DEF byLaunches
<1> QED BY <1>2, <1>3, <1>4, <1>5, <1>6, IssueTypes DEF Larger

\* A waiting synchronise waits for more than the queue could.
LEMMA SyncBound ==
    ASSUME IndInv, Issuing, IsSync(i)
    PROVE  /\ ~waits => IssueAt = HostReady
           /\ Larger(IssueAt, Before(D)) = Larger(HostReady, Before(D))
<1>1. /\ Started /\ i \in 1..N /\ N \in Nat /\ D \in [1..N -> Nat]
      /\ \A j \in 1..(i - 1) : \A m \in 1..j : D[m] <= D[j]
      /\ HostReady \in Nat /\ Before(D) \in Nat
  BY IssueTypes, SMTT(60) DEF Issuing, Started, IndInv, TypeOK, InOrder, N
<1>2. depth = None \/ depth \in Nat \ {0}
  BY <1>1, ConstantsAssumption DEF IndInv, TypeOK, Accepted, Recursable
<1>3. QueueBound \in Nat /\ QueueBound <= Before(D)
  <2>1. CASE waits /\ depth # None /\ i > depth
    <3>1. i - 1 \in 1..(i - 1) /\ i - depth \in 1..(i - 1) /\ i # 1
      BY <2>1, <1>1, <1>2
    <3>2. D[i - depth] <= D[i - 1] /\ D[i - depth] \in Nat
      BY <3>1, <1>1
    <3> QED BY <2>1, <3>1, <3>2 DEF QueueBound, Before
  <2>2. CASE ~(waits /\ depth # None /\ i > depth)
    BY <2>2, <1>1 DEF QueueBound
  <2> QED BY <2>1, <2>2
<1>4. ~waits => QueueBound = 0
  BY DEF QueueBound
<1> QED BY <1>1, <1>3, <1>4 DEF IssueAt, Larger

\* When the host may move on, in closed form.
Free == IF IsSync(i) /\ (waits \/ i = N)
        THEN Larger(IssueAt, Before(D)) ELSE IssueAt

LEMMA MayIssueFrom ==
    ASSUME IndInv, PendingCounted, Issuing, NEW t \in Nat
    PROVE  Free \in Nat /\ (Physical!MayIssue(t) <=> t >= Free)
<1>0. /\ i \in 1..N /\ N \in Nat /\ Len(ops) = N
      /\ HostReady \in Nat /\ IssueAt \in Nat /\ Before(D) \in Nat
      /\ IssueAt >= HostReady
  BY IssueTypes DEF N, IndInv, TypeOK
<1> DEFINE hostDone == IF i = 1 THEN t >= ops[i].host
                       ELSE t >= H[i - 1] + ops[i].host
<1>1. hostDone <=> t >= HostReady
  <2>1. CASE i = 1
    <3>1. ops[i].host \in Nat
      BY <1>0, PricedTypes DEF Issuing, IndInv, Accepted, Started, TypeOK
    <3> QED BY <2>1, <3>1 DEF HostReady, Before
  <2>2. CASE i # 1
    BY <2>2 DEF HostReady, Before
  <2> QED BY <2>1, <2>2
<1>2. Physical!MayIssue(t) <=>
        /\ t >= HostReady
        /\ ~IsSync(i) /\ depth # None
               => Cardinality(Physical!Pending(t)) < depth
        /\ IsSync(i) /\ (waits \/ i = N) => Physical!DeviceFree(t)
  <2>1. Physical!MayIssue(t) <=>
          /\ hostDone
          /\ Physical!IsLaunch(i) /\ depth # None
                 => Cardinality(Physical!Pending(t)) < depth
          /\ Physical!WaitsHere => Physical!DeviceFree(t)
    BY SameCount DEF Physical!MayIssue, Physical!DeviceFree
  <2>2. /\ Physical!IsLaunch(i) <=> ~IsSync(i)
        /\ Physical!WaitsHere <=> IsSync(i) /\ (waits \/ i = N)
    BY DEF Physical!IsLaunch, Physical!WaitsHere, Physical!Count, IsSync, N
  <2> HIDE DEF hostDone
  <2> QED BY <1>1, <2>1, <2>2
<1>3. CASE IsSync(i) /\ (waits \/ i = N)
  BY <1>0, <1>2, <1>3, SyncBound, DeviceFreeFrom DEF Free, Larger
<1>4. CASE IsSync(i) /\ ~(waits \/ i = N)
  BY <1>0, <1>2, <1>4, SyncBound DEF Free
<1>5. CASE ~IsSync(i) /\ depth = None
  <2>1. IssueAt = HostReady
    BY <1>0, <1>5 DEF IssueAt, QueueBound, Larger
  <2> QED BY <2>1, <1>0, <1>2, <1>5 DEF Free
<1>6. CASE ~IsSync(i) /\ depth # None
  <2>1. t >= HostReady => (Cardinality(Physical!Pending(t)) < depth <=> t >= IssueAt)
    BY <1>6, QueueFreeFrom
  <2> QED BY <2>1, <1>0, <1>2, <1>6 DEF Free
<1> QED BY <1>3, <1>4, <1>5, <1>6

LEMMA EarliestIssue ==
    ASSUME IndInv, PendingCounted, Issuing
    PROVE  Physical!Earliest(Free, Physical!MayIssue)
<1>1. Free \in Nat
  BY MayIssueFrom
<1>2. Physical!MayIssue(Free)
  BY <1>1, MayIssueFrom
<1>3. ASSUME NEW u \in 0..(Free - 1) PROVE ~Physical!MayIssue(u)
  <2>1. u \in Nat /\ ~(u >= Free)
    BY <1>1
  <2> QED BY <2>1, MayIssueFrom
<1> QED BY <1>2, <1>3 DEF Physical!Earliest

\* The steps of the recursion are steps of the schedule.
LEMMA LaunchRefines ==
    IndInv /\ PendingCounted /\ Launch => Physical!Schedule
<1> SUFFICES ASSUME IndInv, PendingCounted, Launch PROVE Physical!Schedule
  OBVIOUS
<1> DEFINE start == Larger(IssueAt, Before(D))
           done == start + ops[i].link + ops[i].device
<1>1. /\ Issuing /\ ~IsSync(i) /\ Record(IssueAt, done, 0)
  BY DEF Launch
<1>2. /\ i \in 1..N /\ N \in Nat /\ H \in [1..N -> Nat] /\ D \in [1..N -> Nat]
      /\ IssueAt \in Nat /\ Before(D) \in Nat /\ start \in Nat
      /\ ops[i].link \in Nat /\ ops[i].device \in Nat
  <2>1. /\ H \in [1..N -> Nat] /\ D \in [1..N -> Nat] /\ N \in Nat
    BY <1>1 DEF Issuing, IndInv, TypeOK, N
  <2> QED BY <2>1, <1>1, IssueTypes DEF Larger
<1>3. H'[i] = IssueAt /\ D'[i] = done
  BY <1>1, <1>2 DEF Record
<1>4. \A j \in Physical!Past : H'[j] = H[j] /\ D'[j] = D[j]
  BY <1>1, <1>2 DEF Record, Physical!Past
<1>5. D'[i] - ops[i].link - ops[i].device = start
  <2>1. \A a, x, y \in Nat : a + x + y - x - y = a
    OBVIOUS
  <2>2. done - ops[i].link - ops[i].device = start
    <3>1. start \in Nat /\ ops[i].link \in Nat /\ ops[i].device \in Nat
      BY <1>2
    <3> HIDE DEF start
    <3> QED BY <2>1, <3>1
  <2> HIDE DEF done
  <2> QED BY <1>3, <2>2
<1>6. Physical!Earliest(H'[i], Physical!MayIssue)
  <2>1. H'[i] = Free
    BY <1>1, <1>3 DEF Free
  <2> QED BY <2>1, <1>1, EarliestIssue
<1>7. /\ start >= H'[i] /\ Physical!DeviceFree(start)
      /\ \A u \in 0..(start - 1) : ~(u >= H'[i] /\ Physical!DeviceFree(u))
  <2>1. start >= H'[i] /\ start >= Before(D)
    BY <1>2, <1>3 DEF Larger
  <2>2. Physical!DeviceFree(start)
    BY <1>1, <1>2, <2>1, DeviceFreeFrom
  <2>3. ASSUME NEW u \in 0..(start - 1), u >= H'[i], Physical!DeviceFree(u)
        PROVE  FALSE
    <3>1. u \in Nat /\ u < start
      BY <1>2
    <3>2. u >= Before(D)
      BY <1>1, <2>3, <3>1, DeviceFreeFrom
    <3> QED BY <1>2, <1>3, <2>3, <3>1, <3>2 DEF Larger
  <2> QED BY <2>1, <2>2, <2>3
<1>8. Physical!ScheduleLaunch
  <2>1. pc = "recurse" /\ i <= Physical!Count /\ Physical!IsLaunch(i)
    BY <1>1 DEF Issuing, N, IsSync, Physical!Count, Physical!IsLaunch
  <2> HIDE DEF start, done
  <2> QED BY <1>5, <1>6, <1>7, <2>1 DEF Physical!ScheduleLaunch, Physical!Earliest
<1>9. /\ i' = i + 1 /\ (pc' = "recurse") = (pc = "recurse")
      /\ ops' = ops /\ s' = s /\ depth' = depth /\ waits' = waits
  BY <1>1 DEF Record, input
<1> QED BY <1>4, <1>8, <1>9 DEF Physical!Schedule

LEMMA SyncRefines ==
    IndInv /\ PendingCounted /\ (Synchronise \/ PassSync) => Physical!Schedule
<1> SUFFICES ASSUME IndInv, PendingCounted, Synchronise \/ PassSync
             PROVE  Physical!Schedule
  OBVIOUS
<1>1. Issuing /\ IsSync(i)
  BY DEF Synchronise, PassSync
<1>2. /\ i \in 1..N /\ N \in Nat /\ H \in [1..N -> Nat] /\ D \in [1..N -> Nat]
      /\ IssueAt \in Nat /\ Before(D) \in Nat /\ s[i] \in Nat /\ Free \in Nat
  <2>1. /\ H \in [1..N -> Nat] /\ D \in [1..N -> Nat] /\ N \in Nat
    BY <1>1 DEF Issuing, IndInv, TypeOK, N
  <2> QED BY <2>1, <1>1, IssueTypes, MayIssueFrom
<1>3. PICK waited :
        LET t == Free + s[i]
        IN  Record(t, IF waits \/ i = N THEN t ELSE Larger(t, Before(D)), waited)
  <2>1. CASE Synchronise
    BY <1>1, <2>1 DEF Synchronise, Free
  <2>2. CASE PassSync
    <3>1. i # N /\ ~waits
      BY <2>2, <1>2 DEF PassSync
    <3> QED BY <1>1, <2>2, <3>1 DEF PassSync, Free
  <2> QED BY <2>1, <2>2
<1> DEFINE t == Free + s[i]
           done == IF waits \/ i = N THEN t ELSE Larger(t, Before(D))
<1>4. Record(t, done, waited)
  BY <1>3
<1>5. t \in Nat /\ done \in Nat /\ done >= t /\ done >= Before(D)
      /\ (done = t \/ done = Before(D))
  <2>1. t \in Nat
    BY <1>2
  <2>2. CASE waits \/ i = N
    BY <2>1, <2>2, <1>1, <1>2 DEF Free, Larger
  <2>3. CASE ~(waits \/ i = N)
    <3> HIDE DEF t
    <3> QED BY <2>1, <2>3, <1>2 DEF Larger
  <2> QED BY <2>2, <2>3
<1>6. H'[i] = t /\ D'[i] = done
  BY <1>2, <1>4 DEF Record
<1>7. \A j \in Physical!Past : H'[j] = H[j] /\ D'[j] = D[j]
  BY <1>2, <1>4 DEF Record, Physical!Past
<1>8. Physical!Earliest(H'[i] - s[i], Physical!MayIssue)
  <2>1. H'[i] - s[i] = Free
    BY <1>2, <1>6
  <2> QED BY <2>1, <1>1, EarliestIssue
<1>9. /\ D'[i] >= H'[i] /\ Physical!DeviceFree(D'[i])
      /\ \A u \in 0..(D'[i] - 1) : ~(u >= H'[i] /\ Physical!DeviceFree(u))
  <2> HIDE DEF t, done
  <2>1. Physical!DeviceFree(done)
    BY <1>1, <1>5, DeviceFreeFrom
  <2>2. ASSUME NEW u \in 0..(done - 1), u >= t, Physical!DeviceFree(u)
        PROVE  FALSE
    <3>1. u \in Nat /\ u < done
      BY <1>5
    <3>2. u >= Before(D)
      BY <1>1, <2>2, <3>1, DeviceFreeFrom
    <3> QED BY <1>2, <1>5, <2>2, <3>1, <3>2
  <2> QED BY <1>5, <1>6, <2>1, <2>2
<1>10. Physical!ScheduleSync
  <2>1. pc = "recurse" /\ i <= Physical!Count /\ ~Physical!IsLaunch(i)
    BY <1>1 DEF Issuing, N, IsSync, Physical!Count, Physical!IsLaunch
  <2> HIDE DEF t, done
  <2> QED BY <1>8, <1>9, <2>1 DEF Physical!ScheduleSync, Physical!Earliest
<1>11. /\ i' = i + 1 /\ (pc' = "recurse") = (pc = "recurse")
       /\ ops' = ops /\ s' = s /\ depth' = depth /\ waits' = waits
  BY <1>4 DEF Record, input
<1> QED BY <1>7, <1>10, <1>11 DEF Physical!Schedule

\* Every time the recursion returns is the earliest the pipeline allows:
\* its launches never exceed the queue, and nothing waits for longer than
\* the queue, the device or a synchronise makes it.
THEOREM RecursionRefines == Spec => Implements
<1>1. Init => Physical!Init
  BY DEF Init, Physical!Init
<1>2. IndInv /\ PendingCounted /\ [Next]_vars => [Physical!Next]_Physical!vars
  <2> SUFFICES ASSUME IndInv, PendingCounted, [Next]_vars
               PROVE  Physical!Next \/ UNCHANGED Physical!vars
    OBVIOUS
  <2>1. CASE Launch
    BY <2>1, LaunchRefines DEF Physical!Next
  <2>2. CASE Synchronise \/ PassSync
    BY <2>2, SyncRefines DEF Physical!Next
  <2>3. CASE ClosePrefill \/ Price
    <3>1. ~Started /\ i' = i /\ depth' = depth /\ waits' = waits
      BY <2>3 DEF ClosePrefill, Price, Refuse, input, timeline, Started
    <3>2. i = 1 /\ pc # "recurse"
      BY <3>1 DEF IndInv, Accepted, Started
    <3> QED BY <3>1, <3>2 DEF Physical!Next, Physical!Prepare
  <2>4. CASE Return
    BY <2>4 DEF Return, Physical!Next, Physical!Stop, Physical!Count, N,
       input, timeline
  <2>5. CASE UNCHANGED vars
    BY <2>5 DEF vars, Physical!vars
  <2> QED BY <2>1, <2>2, <2>3, <2>4, <2>5 DEF Next
<1> QED BY <1>1, <1>2, CountedInvariant, PTL DEF Spec, Implements, Physical!Spec

(***************************************************************************)
(* Where the ticks went.  Total is a recursive function, so that what it   *)
(* sums is shown by the least counterexample there could be.               *)
(***************************************************************************)
\* What the inductions below rest on: no counterexample is the least one.
LEMMA HasLeast ==
    ASSUME NEW S \in SUBSET Nat, S # {}
    PROVE  \E x \in S : \A y \in S : x <= y
<1> DEFINE R == {ss \in Nat \X Nat : ss[1] < ss[2]}
<1>1. IsWellFoundedOn(R, Nat)
  BY NatLessThanWellFounded DEF OpToRel
<1>2. \A x, y \in Nat : <<y, x>> \in R <=> y < x
  OBVIOUS
<1> HIDE DEF R
<1>3. PICK x \in S : \A y \in S : ~(<<y, x>> \in R)
  BY <1>1, WFMin
<1>4. ASSUME NEW y \in S
      PROVE  x <= y
  <2>1. x \in Nat /\ y \in Nat /\ ~(y < x)
    BY <1>2, <1>3
  <2> QED BY <2>1
<1> QED BY <1>4

\* t holds the sums of f's first 0, 1, ... n entries, as Total computes them.
SumsTo(f, n, t) == t = [m \in 0..n |-> IF m = 0 THEN 0 ELSE t[m - 1] + f[m]]

LEMMA SumExists ==
    ASSUME NEW f, NEW n \in Nat
    PROVE  \E t : SumsTo(f, n, t)
<1> DEFINE Bad == {k \in Nat : ~\E t : SumsTo(f, k, t)}
<1> SUFFICES ASSUME Bad # {} PROVE FALSE
  OBVIOUS
<1>1. PICK k \in Bad : \A x \in Bad : k <= x
  BY HasLeast
<1>2. CASE k = 0
  <2> DEFINE t == [m \in 0..0 |-> 0]
  <2>1. \A m \in 0..0 : m = 0
    OBVIOUS
  <2>2. t = [m \in 0..0 |-> IF m = 0 THEN 0 ELSE t[m - 1] + f[m]]
    BY <2>1
  <2> QED BY <1>2, <2>2, <1>1 DEF SumsTo
<1>3. CASE k # 0
  <2>1. k - 1 \in Nat /\ k - 1 \notin Bad
    BY <1>1, <1>3
  <2>2. PICK t : SumsTo(f, k - 1, t)
    BY <2>1
  <2> DEFINE u == [m \in 0..k |-> IF m < k THEN t[m] ELSE t[k - 1] + f[k]]
  <2>3. \A m \in 0..k : u[m] = IF m = 0 THEN 0 ELSE u[m - 1] + f[m]
    <3> TAKE m \in 0..k
    <3>1. CASE m = k
      <4>1. u[m] = t[k - 1] + f[k] /\ k - 1 \in 0..k /\ k - 1 < k
        BY <3>1, <1>3, <1>1
      <4> QED BY <4>1, <3>1, <1>3
    <3>2. CASE m # k /\ m # 0
      <4>1. m \in 0..(k - 1) /\ m < k /\ m - 1 \in 0..k /\ m - 1 < k
        BY <3>2, <1>1
      <4>2. u[m] = t[m] /\ u[m - 1] = t[m - 1]
        BY <4>1
      <4>3. t[m] = t[m - 1] + f[m]
        BY <4>1, <2>2, <3>2 DEF SumsTo
      <4> QED BY <4>2, <4>3, <3>2
    <3>3. CASE m # k /\ m = 0
      <4>1. 0 \in 0..(k - 1) /\ m < k
        BY <3>3, <1>1, <1>3
      <4>2. t[0] = 0
        BY <4>1, <2>2 DEF SumsTo
      <4> QED BY <4>1, <4>2, <3>3
    <3> QED BY <3>1, <3>2, <3>3
  <2>4. u = [m \in 0..k |-> IF m = 0 THEN 0 ELSE u[m - 1] + f[m]]
    BY <2>3
  <2> HIDE DEF u
  <2> QED BY <2>4, <1>1 DEF SumsTo
<1> QED BY <1>2, <1>3

LEMMA TotalIs ==
    ASSUME NEW f, NEW n \in Nat
    PROVE  \E t : SumsTo(f, n, t) /\ Total(f, n) = t[n]
<1> DEFINE t == CHOOSE t : t = [m \in 0..n |-> IF m = 0 THEN 0 ELSE t[m - 1] + f[m]]
<1>1. Total(f, n) = t[n]
  BY DEF Total
<1>2. SumsTo(f, n, t)
  BY SumExists DEF SumsTo
<1> QED BY <1>1, <1>2

LEMMA SumsAgree ==
    ASSUME NEW n \in Nat, NEW k \in Nat, n <= k, NEW f, NEW g, NEW t, NEW u,
           SumsTo(f, n, t), SumsTo(g, k, u), \A j \in 1..n : f[j] = g[j]
    PROVE  \A m \in 0..n : t[m] = u[m]
<1> DEFINE Bad == {m \in 0..n : t[m] # u[m]}
<1> SUFFICES ASSUME Bad # {} PROVE FALSE
  OBVIOUS
<1>1. PICK m \in Bad : \A x \in Bad : m <= x
  <2>1. Bad \in SUBSET Nat
    OBVIOUS
  <2> HIDE DEF Bad
  <2> QED BY <2>1, HasLeast
<1>2. m \in 0..n /\ m \in 0..k /\ t[m] # u[m]
  BY <1>1
<1>3. CASE m = 0
  BY <1>2, <1>3 DEF SumsTo
<1>4. CASE m # 0
  <2>1. m - 1 \in 0..n /\ m - 1 \notin Bad /\ m \in 1..n
    BY <1>1, <1>2, <1>4
  <2>2. t[m] = t[m - 1] + f[m] /\ u[m] = u[m - 1] + g[m]
    BY <1>2, <1>4 DEF SumsTo
  <2> QED BY <2>1, <2>2, <1>2
<1> QED BY <1>3, <1>4

\* The two equations of a sum, and that it looks no further than it sums.
LEMMA TotalStep ==
    ASSUME NEW f, NEW n \in Nat
    PROVE  /\ Total(f, 0) = 0
           /\ Total(f, n + 1) = Total(f, n) + f[n + 1]
<1>1. Total(f, 0) = 0
  BY TotalIs DEF SumsTo
<1>2. PICK t : SumsTo(f, n, t) /\ Total(f, n) = t[n]
  BY TotalIs
<1>3. PICK u : SumsTo(f, n + 1, u) /\ Total(f, n + 1) = u[n + 1]
  BY TotalIs
<1>4. u[n] = t[n]
  <2>1. n + 1 \in Nat /\ n <= n + 1 /\ n \in 0..n
    OBVIOUS
  <2>2. \A m \in 0..n : t[m] = u[m]
    BY <2>1, <1>2, <1>3, SumsAgree
  <2> QED BY <2>1, <2>2
<1>5. u[n + 1] = u[n] + f[n + 1]
  <2>1. n + 1 \in 0..(n + 1) /\ n + 1 # 0 /\ n + 1 - 1 = n
    OBVIOUS
  <2> QED BY <2>1, <1>3 DEF SumsTo
<1> QED BY <1>1, <1>2, <1>3, <1>4, <1>5

LEMMA TotalSame ==
    ASSUME NEW n \in Nat, NEW f, NEW g, \A j \in 1..n : f[j] = g[j]
    PROVE  Total(f, n) = Total(g, n)
<1>1. PICK t : SumsTo(f, n, t) /\ Total(f, n) = t[n]
  BY TotalIs
<1>2. PICK u : SumsTo(g, n, u) /\ Total(g, n) = u[n]
  BY TotalIs
<1>3. n <= n /\ n \in 0..n
  OBVIOUS
<1>4. \A m \in 0..n : t[m] = u[m]
  BY <1>1, <1>2, <1>3, SumsAgree
<1> QED BY <1>1, <1>2, <1>3, <1>4

LEMMA TotalNat ==
    ASSUME NEW n \in Nat, NEW f, \A j \in 1..n : f[j] \in Nat
    PROVE  Total(f, n) \in Nat
<1> DEFINE Bad == {m \in 0..n : Total(f, m) \notin Nat}
<1> SUFFICES ASSUME Bad # {} PROVE FALSE
  OBVIOUS
<1>1. PICK m \in Bad : \A x \in Bad : m <= x
  <2>1. Bad \in SUBSET Nat
    OBVIOUS
  <2> HIDE DEF Bad
  <2> QED BY <2>1, HasLeast
<1>2. m # 0
  BY <1>1, TotalStep
<1>3. m - 1 \in Nat /\ m - 1 \notin Bad /\ m - 1 \in 0..n /\ m \in 1..n
  BY <1>1, <1>2
<1>4. Total(f, m - 1 + 1) = Total(f, m - 1) + f[m - 1 + 1] /\ m - 1 + 1 = m
  BY <1>3, TotalStep
<1> QED BY <1>1, <1>3, <1>4

(***************************************************************************)
(* While the recursion runs, the host's last return is what was spent so   *)
(* far: its own work, s_0, the stalls and the waits.                       *)
(***************************************************************************)
Spent(n) ==
    Total(HostCosts, n) + Total(s, n) + Total(stall, n) + Total(wait, n)

Accounted ==
    /\ Started => /\ Before(H) = Spent(i - 1)
                  /\ \A j \in 1..N : ~IsSync(j) => s[j] = 0
    /\ pc = "done" => i = N + 1

\* An operation is issued after the last one, its own host time, the stall
\* the queue makes, the wait and its s_0.
LEMMA StepAccounted ==
    ASSUME IndInv, Accounted, Issuing,
           NEW issued, NEW done, NEW waited \in Nat,
           Record(issued, done, waited),
           issued = IssueAt + waited + s[i]
    PROVE  Accounted'
<1> DEFINE delay == IssueAt - HostReady
<1>1. /\ Started /\ N \in Nat /\ i \in 1..N /\ pc = "recurse"
      /\ H \in [1..N -> Nat] /\ s \in [1..N -> Nat]
      /\ stall \in [1..N -> Nat] /\ wait \in [1..N -> Nat]
  <2>1. /\ Started /\ pc = "recurse" /\ N \in Nat
        /\ H \in [1..N -> Nat] /\ s \in [1..N -> Nat]
        /\ stall \in [1..N -> Nat] /\ wait \in [1..N -> Nat]
    BY DEF Issuing, Started, IndInv, TypeOK, N
  <2> QED BY <2>1, IssueTypes
<1>2. /\ pc' = pc /\ i' = i + 1 /\ ops' = ops /\ s' = s /\ N' = N
      /\ H' = [H EXCEPT ![i] = issued]
      /\ stall' = [stall EXCEPT ![i] = delay]
      /\ wait' = [wait EXCEPT ![i] = waited]
  BY DEF Record, N
<1>3. /\ IssueAt \in Nat /\ HostReady \in Nat /\ IssueAt >= HostReady
      /\ HostReady = Before(H) + ops[i].host /\ Before(H) \in Nat
      /\ ops[i].host \in Nat
  <2>1. ops[i].host \in Nat
    BY <1>1, PricedTypes DEF IndInv, Accepted, TypeOK
  <2> QED BY <2>1, IssueTypes DEF HostReady
<1>4. HostCosts' = HostCosts /\ HostCosts[i] = ops[i].host
      /\ \A j \in 1..N : HostCosts[j] \in Nat
  <2>1. \A j \in 1..N : ops[j].host \in Nat
    BY <1>1, PricedTypes DEF IndInv, Accepted, TypeOK
  <2> QED BY <2>1, <1>1, <1>2 DEF HostCosts
<1>5. i - 1 \in Nat /\ i - 1 + 1 = i /\ i' - 1 = i
  BY <1>1, <1>2
<1>6. /\ Total(HostCosts', i) = Total(HostCosts, i - 1) + ops[i].host
      /\ Total(s', i) = Total(s, i - 1) + s[i]
  <2>1. \A f : Total(f, i - 1 + 1) = Total(f, i - 1) + f[i - 1 + 1]
    BY <1>5, TotalStep
  <2> QED BY <2>1, <1>2, <1>4, <1>5
<1>7. Total(stall', i) = Total(stall, i - 1) + delay
  <2>1. Total(stall', i) = Total(stall', i - 1) + stall'[i]
    BY <1>5, TotalStep
  <2>2. stall'[i] = delay /\ \A j \in 1..(i - 1) : stall'[j] = stall[j]
    BY <1>1, <1>2
  <2>3. Total(stall', i - 1) = Total(stall, i - 1)
    BY <2>2, <1>5, TotalSame
  <2> QED BY <2>1, <2>2, <2>3
<1>8. Total(wait', i) = Total(wait, i - 1) + waited
  <2>1. Total(wait', i) = Total(wait', i - 1) + wait'[i]
    BY <1>5, TotalStep
  <2>2. wait'[i] = waited /\ \A j \in 1..(i - 1) : wait'[j] = wait[j]
    BY <1>1, <1>2
  <2>3. Total(wait', i - 1) = Total(wait, i - 1)
    BY <2>2, <1>5, TotalSame
  <2> QED BY <2>1, <2>2, <2>3
<1>9. /\ Total(HostCosts, i - 1) \in Nat /\ Total(s, i - 1) \in Nat
      /\ Total(stall, i - 1) \in Nat /\ Total(wait, i - 1) \in Nat
  <2>1. \A j \in 1..(i - 1) : j \in 1..N
    BY <1>1
  <2> QED BY <2>1, <1>1, <1>4, <1>5, TotalNat
<1>10. Before(H)' = issued
  BY <1>1, <1>2, <1>5 DEF Before
<1>11. Before(H) = Spent(i - 1)
  BY <1>1 DEF Accounted
<1>12. Spent(i - 1)' = Before(H) + ops[i].host + s[i] + delay + waited
  <2>1. s[i] \in Nat
    BY <1>1
  <2>3. delay \in Nat
    BY <1>3
  <2>2. Spent(i - 1)' = Total(HostCosts', i) + Total(s', i)
                         + Total(stall', i) + Total(wait', i)
    BY <1>5 DEF Spent
  <2> HIDE DEF delay
  <2> QED BY <1>3, <1>6, <1>7, <1>8, <1>9, <1>11, <2>1, <2>2, <2>3 DEF Spent
<1>13. Before(H)' = Spent(i - 1)'
  <2>1. s[i] \in Nat
    BY <1>1
  <2> QED BY <1>3, <1>10, <1>12, <2>1
<1>14. \A j \in 1..N : ~IsSync(j)' => s'[j] = 0
  BY <1>1, <1>2 DEF Accounted, IsSync
<1> QED BY <1>1, <1>2, <1>13, <1>14 DEF Accounted

\* The Timeline's parts add up to the time of the last return: no stall and
\* no wait is lost or counted twice.
THEOREM RecursionAccounts == Spec => []HostTimeAccounted
<1>1. Init => Accounted
  BY DEF Init, Accounted, Started
<1>2. IndInv /\ Accounted /\ [Next]_vars => Accounted'
  <2> SUFFICES ASSUME IndInv, Accounted, [Next]_vars PROVE Accounted'
    OBVIOUS
  <2>1. CASE Launch
    <3> DEFINE done == Larger(IssueAt, Before(D)) + ops[i].link + ops[i].device
    <3>1. Issuing /\ ~IsSync(i) /\ Record(IssueAt, done, 0)
      BY <2>1 DEF Launch
    <3>2. s[i] = 0 /\ IssueAt \in Nat
      BY <3>1, IssueTypes DEF Accounted, Issuing, Started
    <3>3. IssueAt = IssueAt + 0 + s[i] /\ 0 \in Nat
      BY <3>2
    <3> HIDE DEF done
    <3> QED BY <3>1, <3>3, StepAccounted
  <2>2. CASE Synchronise
    <3> DEFINE start == Larger(IssueAt, Before(D))
    <3>1. Issuing /\ Record(start + s[i], start + s[i], start - IssueAt)
      BY <2>2 DEF Synchronise
    <3>2. start \in Nat /\ start >= IssueAt /\ IssueAt \in Nat /\ s[i] \in Nat
      BY <3>1, IssueTypes DEF Larger
    <3>3. start + s[i] = IssueAt + (start - IssueAt) + s[i]
          /\ start - IssueAt \in Nat
      BY <3>2
    <3> HIDE DEF start
    <3> QED BY <3>1, <3>3, StepAccounted
  <2>3. CASE PassSync
    <3> DEFINE t == IssueAt + s[i]
    <3>1. Issuing /\ Record(t, Larger(t, Before(D)), 0)
      BY <2>3 DEF PassSync
    <3>2. t = IssueAt + 0 + s[i] /\ 0 \in Nat
      BY <3>1, IssueTypes
    <3> HIDE DEF t
    <3> QED BY <3>1, <3>2, StepAccounted
  <2>4. CASE Price
    <3>1. CASE Priceable /\ Recursable
      <4>1. /\ pc' = "recurse" /\ i' = i /\ i = 1 /\ ops' = ops
            /\ s' = [j \in 1..N |-> S0(ops[j])]
        BY <2>4, <3>1 DEF Price, input, IndInv, Accepted, Started
      <4>2. Before(H)' = 0
        BY <4>1 DEF Before
      <4>3. Spent(i - 1)' = 0
        <5>1. i' - 1 = 0 /\ \A f : Total(f, 0) = 0
          BY <4>1, TotalStep
        <5> QED BY <5>1 DEF Spent
      <4>4. \A j \in 1..N' : ~IsSync(j)' => s'[j] = 0
        BY <4>1 DEF IsSync, S0, N
      <4> QED BY <4>1, <4>2, <4>3, <4>4 DEF Accounted
    <3>2. CASE ~(Priceable /\ Recursable)
      BY <2>4, <3>2 DEF Price, Refuse, Accounted, Started
    <3> QED BY <3>1, <3>2
  <2>5. CASE ClosePrefill
    BY <2>5 DEF ClosePrefill, Refuse, Accounted, Started
  <2>6. CASE Return
    <3>1. pc = "recurse" /\ Started /\ i > N /\ i \in 1..(N + 1) /\ N \in Nat
      BY <2>6 DEF Return, Started, IndInv, TypeOK, N
    <3>2. pc' = "done" /\ UNCHANGED <<ops, s, i, H, stall, wait>>
      BY <2>6 DEF Return, input, timeline
    <3>3. i' = N' + 1
      BY <3>1, <3>2 DEF N
    <3> QED BY <3>1, <3>2, <3>3 DEF Accounted, Started, Spent, HostCosts,
               IsSync, N, Before
  <2>7. CASE UNCHANGED vars
    BY <2>7 DEF vars, Accounted, Started, Spent, HostCosts, IsSync, N, Before
  <2> QED BY <2>1, <2>2, <2>3, <2>4, <2>5, <2>6, <2>7 DEF Next
<1>3. IndInv /\ Accounted => HostTimeAccounted
  <2> SUFFICES ASSUME IndInv, Accounted, pc = "done"
               PROVE  H[N] = Spent(N)
    BY DEF HostTimeAccounted, Spent
  <2>1. /\ Started /\ i = N + 1 /\ N \in Nat /\ N # 0
    BY DEF Accounted, IndInv, Accepted, Started, Priceable, TypeOK, N
  <2>2. i - 1 = N /\ i # 1
    BY <2>1
  <2> QED BY <2>1, <2>2 DEF Accounted, Before
<1> QED BY <1>1, <1>2, <1>3, RecursionInvariant, PTL DEF Spec
=============================================================================
