--------------------------- MODULE DelayInjection ---------------------------
(***************************************************************************)
(* Gate A's delay injection, from a recorded prefill to a timed variant of *)
(* it (predict/delay_injection.py, components/delay_injector.py): the null *)
(* pass prices the recording's operations, a calibration pass finds which  *)
(* calls issue them, a plan puts synchronisations after some of them, and  *)
(* a pass of the prefill performs them from its calls.  Each of these runs *)
(* the prefill again and may take another path than the recording did.     *)
(* The times are the null pass's: the bare timer's, which the predictions  *)
(* read, are put at the same operations, call by call.                     *)
(***************************************************************************)
EXTENDS CallAlignment, FiniteSets

CONSTANTS
    Calls,        \* the calls a prefill can make
    MaxEvents,    \* bound: events of a prefill
    MaxCount      \* bound: injections of a variant

ASSUME CallsAssumption ==
    \A c \in Calls :
        /\ c.kind = "call" /\ c.shows \in Seq(STRING)
        /\ c.issues \in Seq([api: {"launch", "copy", "wait"}, chain: Seq(STRING)])
        /\ \A k \in DOMAIN c.issues :
              c.issues[k].api \in {"launch", "copy"} => c.issues[k].chain # <<>>   \* _check_issuable

VARIABLES
    stage,
    recorded,     \* the recorded prefill
    sequence,     \* its OpSequence, sequence.json
    base,         \* its operations with what is charged at each: [op, cost]
    other,        \* the pass that priced it, while stage is "priced"
    launching,    \* the operators the observer reports
    calls,        \* the calibration pass's calls
    issuedBy,     \* the positions each of them issued (call_positions)
    sites,        \* the variant's: indices into base, START for before them
    schedule,     \* [start, after]: injections before the calls and after each
    pass, at,     \* the pass under way, its next event
    cursor,       \* calls of the pass seen so far (_Cursor)
    executed      \* what the device was given: operations, and Injected

injectionVars == <<stage, recorded, sequence, base, other, launching, calls, issuedBy, sites, schedule, pass, at, cursor, executed>>

START == 0
Injected == [kind |-> "injected", chain |-> <<>>, call |-> 0]
NoSchedule == [start |-> 0, after |-> <<>>]

Paths == UNION {[1..n -> Calls \cup {HostCompute}] : n \in 1..MaxEvents}

\* A pass takes the recorded path, or leaves an event out, or repeats one
Detours(path) ==
    {path} \cup {RemoveAt(path, i) : i \in DOMAIN path}
           \cup {InsertAt(path, i, path[i]) : i \in DOMAIN path}

Reset ==
    /\ base' = <<>> /\ other' = <<>> /\ launching' = {} /\ calls' = <<>> /\ issuedBy' = <<>> /\ sites' = <<>>
    /\ schedule' = NoSchedule /\ pass' = <<>> /\ at' = 0 /\ cursor' = 0 /\ executed' = <<>>

Refuse == stage' = "refused" /\ Reset /\ UNCHANGED <<recorded, sequence>>

----------------------------------------------------------------------------
\* Host costs, as the set of times charged at an operation: of the pass's
\* n-th call the gap before it and its launch, of its n-th region the mark
Markers(seq) == {p \in DOMAIN seq : IsHost(seq[p])}

\* align: the first operation of a call's share, and one floor for each other
HostCosts(seq, shares) ==
    LET marks == Places(seq, Markers(seq))
    IN [p \in DOMAIN seq |->
           {<<"gap", n>> : n \in {n \in DOMAIN shares : shares[n][1] = p}}
           \cup {<<"launch", n>> : n \in {n \in DOMAIN shares : shares[n][1] = p}}
           \cup {<<"floor", p>> : n \in {n \in DOMAIN shares : p \in ToSet(Tail(shares[n]))}}
           \cup {<<"mark", m>> : m \in {m \in DOMAIN marks : marks[m] = p}}]

\* mutant: a kernel takes what was carried, and leaves it for the next too
NoneCopied(seq, p, q) == \A x \in p..q : seq[x].kind # "copy"

\* to_operations: a marker is no operation, and its time goes to the next
\* one that is not a synchronisation
NoneIssued(seq, p, q) == \A x \in p..q : ~IsIssue(seq[x])

Carried(seq, host, p) ==
    UNION {host[q] : q \in {q \in Markers(seq) : q < p /\ NoneIssued(seq, q, p - 1)}}

ToOperations(seq, host) ==
    LET cost(p) == IF IsIssue(seq[p]) THEN host[p] \cup Carried(seq, host, p) ELSE {}
    IN [ops |-> Kept([p \in DOMAIN seq |-> [op |-> seq[p], cost |-> cost(p)]],
                     DOMAIN seq \ Markers(seq)),
        left |-> Carried(seq, host, Len(seq) + 1)]

Regions(path) == Cardinality({i \in DOMAIN path : path[i].kind = "host"})

\* TapeReplayer: the interactions of the pass must be the tape's, in order
Interactions(path) ==
    LET served == Kept(path, {i \in DOMAIN path : Served(path[i])})
    IN [n \in DOMAIN served |-> served[n].shows]

\* assign and to_operations: whether the calls are the sequence's, and what
\* each operation is charged
Assigned(seq, met) ==
    LET aligned == AlignCalls(seq, [n \in DOMAIN met |-> met[n].name])
        ops == ToOperations(seq, HostCosts(seq, aligned.out))
    IN [met |-> aligned.met /\ ops.left = {}, ops |-> ops.ops]

\* null_pass, and what comes of it
Price ==
    /\ stage = "recorded"
    /\ \E path \in Detours(recorded) :
          LET assigned == Assigned(sequence, NullCalls(path, sequence))
          IN IF /\ Interactions(path) = Interactions(recorded)
                /\ Regions(path) = Regions(recorded)
                /\ assigned.met
             THEN /\ stage' = "priced" /\ base' = assigned.ops /\ other' = path
                  /\ UNCHANGED <<recorded, sequence, launching, calls, issuedBy, sites,
                                 schedule, pass, at, cursor, executed>>
             ELSE Refuse

\* calibrate: an untimed pass, its calls checked against the recording
Calibrate ==
    /\ stage = "priced"
    /\ \E path \in Detours(recorded) :
          LET seen == Observed(path, Names(sequence))
          IN IF CallsMeet(sequence, seen)
             THEN /\ stage' = "calibrated" /\ other' = <<>>
                  /\ launching' = Names(sequence) /\ calls' = seen /\ issuedBy' = CallPositions(sequence, seen)
                  /\ UNCHANGED <<recorded, sequence, base, sites, schedule,
                                 pass, at, cursor, executed>>
             ELSE Refuse

----------------------------------------------------------------------------
\* recursion_positions: where the base's operations are in the recording
RecursionPositions(seq) == Places(seq, DOMAIN seq \ Markers(seq))

\* plan_variants: busy sites are some of the issued operations, spread over
\* those still running when the host went on; an idle variant has one site
BusySites == {s \in DOMAIN base : IsIssue(base[s].op)}
Plans ==
    {<<>>} \cup {[n \in 1..c |-> s] : s \in {START} \cup DOMAIN base, c \in 1..MaxCount}
    \cup {s \in UNION {[1..c -> BusySites] : c \in 1..MaxCount} :
             \A m, n \in DOMAIN s : m < n => s[m] < s[n]}

Times(s, n) == Cardinality({m \in DOMAIN s : s[m] = n})

\* inject: the variant the recursion predicts
Inject(ops, s) ==
    LET injections(k) == [n \in 1..Times(s, k) |-> Injected]
    IN injections(START)
       \o FlattenSeq([k \in DOMAIN ops |-> <<ops[k].op>> \o injections(k)])

\* mutant: a site is taken for its call by the first operation the call issues
AfterFirst(issued, p) == issued[1] = p

\* schedule_for: a site that ends a call is the call's
Ends(issued, p) == Last(issued) = p

\* schedule_for, _base_matches: the plan's sites as calls to inject after
Schedule ==
    /\ stage = "calibrated"
    /\ \E s \in Plans :
          LET where == RecursionPositions(sequence)
              at_end(m, c) == s[m] # START /\ Ends(issuedBy[c], where[s[m]])
          IN IF /\ Len(base) = Len(where)
                /\ \A m \in DOMAIN s : s[m] = START \/ \E c \in DOMAIN calls : at_end(m, c)
             THEN /\ stage' = "scheduled" /\ sites' = s
                  /\ schedule' = [start |-> Times(s, START),
                                  after |-> [c \in DOMAIN calls |->
                                                Cardinality({m \in DOMAIN s : at_end(m, c)})]]
                  /\ UNCHANGED <<recorded, sequence, base, other, launching, calls,
                                 issuedBy, pass, at, cursor, executed>>
             ELSE Refuse

----------------------------------------------------------------------------
\* injected_prefill: one pass, its calls met one by one (_Cursor)
Fire(n) == [m \in 1..n |-> Injected]

Begin ==
    /\ stage \in {"scheduled", "measured"}
    /\ \E path \in Detours(recorded) : pass' = path
    /\ stage' = "running" /\ at' = 1 /\ cursor' = 0
    /\ executed' = Fire(schedule.start)
    /\ UNCHANGED <<recorded, sequence, base, other, launching, calls, issuedBy, sites, schedule>>

\* What an event gives the device: a host-compute region gives it nothing
Executed(e, i) == IF e.kind = "host" THEN <<>> ELSE OpsOf(e, i)

\* An event runs, and the observer reports the calls it showed once they
\* returned: the next of the calibration's, or the pass is refused
Event ==
    /\ stage = "running" /\ at <= Len(pass)
    /\ LET e == pass[at]
           seen == Shown(e, launching)
           fired == FlattenSeq([n \in DOMAIN seen |-> Fire(schedule.after[cursor + n])])
       IN IF /\ cursor + Len(seen) <= Len(calls)
             /\ SubSeq(calls, cursor + 1, cursor + Len(seen)) = seen
          THEN /\ executed' = executed \o Executed(e, at) \o fired
               /\ at' = at + 1 /\ cursor' = cursor + Len(seen)
               /\ UNCHANGED <<stage, recorded, sequence, base, other, launching, calls, issuedBy, sites, schedule, pass>>
          ELSE Refuse

\* mutant: the pass need not have made every call
FinishedEarly == TRUE

\* finish
Finished ==
    /\ cursor = Len(calls)
    /\ Cardinality({k \in DOMAIN executed : executed[k] = Injected}) = Len(sites)

Finish ==
    /\ stage = "running" /\ at = Len(pass) + 1
    /\ IF Finished
       THEN /\ stage' = "measured"
            /\ UNCHANGED <<recorded, sequence, base, other, launching, calls, issuedBy, sites, schedule, pass, at, cursor, executed>>
       ELSE Refuse

InjectionInit ==
    /\ stage = "recorded" /\ recorded \in Paths /\ sequence = Recorded(recorded)
    /\ base = <<>> /\ other = <<>> /\ launching = {} /\ calls = <<>> /\ issuedBy = <<>> /\ sites = <<>>
    /\ schedule = NoSchedule /\ pass = <<>> /\ at = 0 /\ cursor = 0 /\ executed = <<>>

InjectionNext == Price \/ Calibrate \/ Schedule \/ Begin \/ Event \/ Finish

InjectionSpec == InjectionInit /\ [][InjectionNext]_injectionVars

----------------------------------------------------------------------------
Charges(c) == {k \in DOMAIN base : c \in base[k].cost}

\* Every time the null pass measured is charged to exactly one operation,
\* and every operation past the first of a call to one floor.
TimesCharged ==
    stage = "priced" =>
        LET met == NullCalls(other, sequence)
            times == ({"gap", "launch"} \X DOMAIN met) \cup ({"mark"} \X (1..Regions(other)))
            floors == {k \in DOMAIN base : \E p \in DOMAIN sequence : <<"floor", p>> \in base[k].cost}
        IN /\ \A t \in times : Cardinality(Charges(t)) = 1
           /\ Cardinality(floors) = Len(Issued(sequence)) - Len(met)

\* On the recorded path a call's time is at an operation that call issued, or
\* that a call nesting it issued.
ChargedToItsCall ==
    stage = "priced" /\ other = recorded =>
        LET met == NullCalls(other, sequence)
        IN \A n \in DOMAIN met : \A k \in Charges(<<"launch", n>>) : base[k].op.call = met[n].by

\* The times of the null pass are charged once, each where it was spent
\* (host_profile.py:83-94, op_sequence.py:1085).
ChargedOnce == TimesCharged /\ ChargedToItsCall

\* The even division is a guess except where a call the observer sees
\* issues work, under that operator alone, all calls to one operator as
\* much, and no other call issues any; what a call that issues work waits
\* for, if anything, is not between its last operation and its return
Uniform(path) ==
    LET names == Names(Recorded(path))
        seen(i) == Shown(path[i], names)
        work(i) == {k \in DOMAIN OpsOf(path[i], i) : IsIssue(OpsOf(path[i], i)[k])}
    IN \A i, k \in DOMAIN path :
          /\ seen(i) # <<>> => work(i) # {}
          /\ \A n \in work(i) : seen(i) = <<AtenOp(OpsOf(path[i], i)[n])>>
          /\ work(i) # {} => Len(OpsOf(path[i], i)) \in work(i)
          /\ seen(i) = seen(k) => Cardinality(work(i)) = Cardinality(work(k))

\* A measured variant is the predicted one: the device was given the recorded
\* operations with each injection after the operation the plan names, when
\* the pass took the recorded path and calls are uniform
\* (delay_injector.py:28-36).
VariantAsPredicted ==
    stage = "measured" /\ pass = recorded /\ Uniform(recorded)
        => executed = Inject(base, sites)

\* A pass that finished made the calibration's calls, and between equal
\* neighbours the recording's, and performed every injection
\* (delay_injector.py:22-24).
MadeTheCalls ==
    stage = "measured" =>
        LET merged(names) == Kept(names, Turns(names))
        IN /\ Observed(pass, launching) = calls
           /\ merged(Observed(pass, launching)) = merged(OpNames(sequence))
           /\ Times(executed, Injected) = Len(sites)
=============================================================================
