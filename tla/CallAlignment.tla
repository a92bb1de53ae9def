--------------------------- MODULE CallAlignment ---------------------------
(***************************************************************************)
(* A prefill runs once under the profiler, and is read as a sequence of    *)
(* operations (components/op_sequence.py).  Later passes run it again and  *)
(* see only the calls its dispatcher makes.  Which call belongs to which   *)
(* operations is found twice in this code: host_profile.py goes by the     *)
(* call each operation was recorded in, and delay_injector.py divides a    *)
(* stretch of operations evenly among the calls it meets.                  *)
(*                                                                         *)
(* A pass is a sequence of events.  A call [shows, issues] shows the       *)
(* dispatcher some operators, those it nests first, and makes CUDA calls   *)
(* [api, chain], each under a chain of operators, the outermost first; an  *)
(* empty call makes none.  The other event is a host-compute region.  All  *)
(* is in one layer: the code keeps (operator, layer) together wherever it  *)
(* compares one.                                                           *)
(***************************************************************************)
EXTENDS Naturals, SequencesExt

CONSTANTS OutOfPlace    \* [in-place operator -> its out-of-place form]

HostCompute == [kind |-> "host", shows |-> <<>>, issues |-> <<>>]

Kind(api) == CASE api = "launch" -> "kernel" [] api = "copy" -> "copy" [] api = "wait" -> "sync"

\* The elements of seq at the places of K, and those places, in order
Kept(seq, K) == FlattenSeq([n \in DOMAIN seq |-> IF n \in K THEN <<seq[n]>> ELSE <<>>])
Places(seq, K) == Kept([n \in DOMAIN seq |-> n], K)

\* parse_trace: a wait of the operator whose copy it follows is one
\* synchronisation with the copy
Joins(issues, k) ==
    /\ k \in 2..Len(issues) /\ issues[k].api = "wait" /\ issues[k - 1].api = "copy"
    /\ issues[k].chain # <<>> /\ Last(issues[k].chain) = Last(issues[k - 1].chain)

OpsOf(e, i) ==
    LET kind(k) == IF Joins(e.issues, k + 1) THEN "sync" ELSE Kind(e.issues[k].api)
    IN IF e.kind = "host" THEN <<[kind |-> "host", chain |-> <<>>, call |-> i]>>
       ELSE Kept([k \in DOMAIN e.issues |->
                     [kind |-> kind(k), chain |-> e.issues[k].chain, call |-> i]],
                 {k \in DOMAIN e.issues : ~Joins(e.issues, k)})

\* The recorded OpSequence
Recorded(path) == FlattenSeq([i \in DOMAIN path |-> OpsOf(path[i], i)])

IsHost(op) == op.kind = "host"
IsIssue(op) == op.kind \in {"kernel", "copy"}
IssuedAt(seq) == {p \in DOMAIN seq : IsIssue(seq[p])}
Issued(seq) == Places(seq, IssuedAt(seq))
AtenOp(op) == Last(op.chain)
Names(seq) == {AtenOp(seq[p]) : p \in IssuedAt(seq)}

(***************************************************************************)
(* delay_injector.py: an operation is its innermost operator's, and equal  *)
(* neighbours, waits between them or not, are one stretch.                 *)
(***************************************************************************)
OpNames(seq) ==
    LET issued == Issued(seq) IN [m \in DOMAIN issued |-> AtenOp(seq[issued[m]])]

\* The places where names differs from its neighbour before
Turns(names) == {n \in DOMAIN names : n = 1 \/ names[n] # names[n - 1]}

Stretches(names) ==
    LET starts == Places(names, Turns(names))
    IN [r \in DOMAIN starts |->
           [first |-> starts[r],
            last |-> IF r < Len(starts) THEN starts[r + 1] - 1 ELSE Len(names)]]
Size(stretch) == stretch.last - stretch.first + 1

\* call_positions raises where the calls do not meet the sequence: stretch by
\* stretch, the same operator, and its operations divide evenly
CallsMeet(seq, calls) ==
    LET names == OpNames(seq)
        ops == Stretches(names)
        met == Stretches(calls)
    IN /\ Len(ops) = Len(met)
       /\ \A r \in DOMAIN met :
              /\ names[ops[r].first] = calls[met[r].first]
              /\ Size(ops[r]) % Size(met[r]) = 0

\* call_positions: the positions each call issued
CallPositions(seq, calls) ==
    LET issued == Issued(seq)
        ops == Stretches(OpNames(seq))
        met == Stretches(calls)
        stretch(c) == CHOOSE r \in DOMAIN met : c \in met[r].first..met[r].last
        k(r) == Size(ops[r]) \div Size(met[r])
        first(c, r) == ops[r].first + (c - met[r].first) * k(r)
        positions(c, r) == SubSeq(issued, first(c, r), first(c, r) + k(r) - 1)
    IN [c \in DOMAIN calls |-> positions(c, stretch(c))]

\* What the injector's observer reports of an event and of a pass: calls by
\* the names of the recorded operations, whether they issue anything or not
Shown(e, names) == Kept(e.shows, {k \in DOMAIN e.shows : e.shows[k] \in names})
Observed(path, names) == FlattenSeq([i \in DOMAIN path |-> Shown(path[i], names)])

(***************************************************************************)
(* host_profile.py: an operation is met at the outermost operator of its   *)
(* chain that the pass issued, and belongs to that operator's call.        *)
(***************************************************************************)
Form(n) == IF n \in DOMAIN OutOfPlace THEN OutOfPlace[n] ELSE n

\* launching_names
Launching(seq) ==
    UNION {ToSet(seq[p].chain) \cup {Form(n) : n \in ToSet(seq[p].chain)} :
              p \in IssuedAt(seq)}

\* An interaction with the host, which the null pass serves from the tape
Served(e) == \E k \in DOMAIN e.issues : e.issues[k].api = "wait"

\* What the null pass meets, [name, by]: an empty call makes no launch
NullCalls(path, seq) ==
    LET shown(i) == IF path[i].issues = <<>> \/ Served(path[i]) THEN <<>>
                    ELSE Shown(path[i], Launching(seq))
    IN FlattenSeq([i \in DOMAIN path |->
           [k \in DOMAIN shown(i) |-> [name |-> shown(i)[k], by |-> i]]])

\* met_at, as a place in the operation's chain
MetAt(op, issued) ==
    LET own == {n \in DOMAIN op.chain : op.chain[n] \in issued}
        form == {n \in DOMAIN op.chain :
                    op.chain[n] \in DOMAIN OutOfPlace /\ Form(op.chain[n]) \in issued}
        as(n) == [name |-> n, of |-> n]
    IN IF own # {} THEN as(op.chain[Min(own)])
       ELSE IF form # {} THEN [as(op.chain[Min(form)]) EXCEPT !.name = Form(@)]
       ELSE as(AtenOp(op))

\* recorded_calls, with call_instance: [met, positions], by first position
RecordedCalls(seq, issued) ==
    LET key(p) == [call |-> seq[p].call, met |-> MetAt(seq[p], issued)]
        issuedAt == IssuedAt(seq)
        of(p) == {q \in issuedAt : key(q) = key(p)}
        firsts == Places(seq, {p \in issuedAt : \A q \in of(p) : p <= q})
    IN [n \in DOMAIN firsts |->
           [name |-> key(firsts[n]).met.name,
            positions |-> Places(seq, of(firsts[n]))]]

ChainMeets(op, name) == name \in ToSet(op.chain) \cup {Form(n) : n \in ToSet(op.chain)}

\* How many of names, from the j-th on, are to members of S, up to limit
Following(names, j, S, limit) ==
    CHOOSE n \in 0..limit :
        /\ j + n <= Len(names) + 1
        /\ \A m \in j..(j + n - 1) : names[m] \in S
        /\ n = limit \/ j + n > Len(names) \/ names[j + n] \notin S

\* The positions pos of a recorded call as the calls of the pass price them:
\* its first n one each, for the calls it nests come first, the others its own
SharesOf(pos, n) ==
    [m \in 1..(n + 1) |-> IF m = n + 1 THEN SubSeq(pos, n + 1, Len(pos)) ELSE <<pos[m]>>]

\* One recorded call more, and j is the next of names
Aligned(seq, names, acc, call) ==
    LET pos == call.positions
        nested == UNION {ToSet(seq[p].chain) : p \in ToSet(pos)} \ {call.name}
        n == IF acc.j > Len(names) THEN 0
             ELSE Following(names, acc.j, nested, Len(pos) - 1)
        own == acc.j + n
        shares == SharesOf(pos, n)
    IN IF /\ acc.met /\ own <= Len(names) /\ names[own] = call.name
          /\ \A m \in DOMAIN shares : ChainMeets(seq[shares[m][1]], names[acc.j + m - 1])
       THEN [met |-> TRUE, out |-> acc.out \o shares, j |-> own + 1]
       ELSE [met |-> FALSE, out |-> acc.out, j |-> acc.j]

\* align_calls: the positions each call of the pass prices, in order
AlignCalls(seq, names) ==
    LET calls == RecordedCalls(seq, ToSet(names))
        after[n \in 0..Len(calls)] ==
            IF n = 0 THEN [met |-> TRUE, out |-> <<>>, j |-> 1]
            ELSE Aligned(seq, names, after[n - 1], calls[n])
        all == after[Len(calls)]
    IN [met |-> all.met /\ all.j = Len(names) + 1, out |-> all.out]
=============================================================================
