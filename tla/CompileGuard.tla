---------------------------- MODULE CompileGuard ----------------------------
(***************************************************************************)
(* attnbench/compile_guard.py, and what it watches: torch.compile keeps a  *)
(* variant of a function for each shape it is called at, up to a limit,    *)
(* and past it runs the function eagerly.  It says so once in a process.   *)
(* A kernel run eagerly gives right answers and is not the kernel that is  *)
(* named, so no verdict and no time of such a process may count.           *)
(***************************************************************************)
EXTENDS Integers, FiniteSets

CONSTANTS
    Compiled,         \* the backends that go through torch.compile
    RECOMPILE_LIMIT   \* variants kept of one function

ASSUME LimitAssumption == RECOMPILE_LIMIT \in Nat

VARIABLES
    cache,      \* the variants of this process: <<backend, config>>
    stopped,    \* the backends torch gave up compiling, and said so
    reasons     \* _PROCESS_REASONS is not empty

guardVars == <<cache, stopped, reasons>>

Variants(b) == Cardinality({v \in cache : v[1] = b})

\* Calls of S at c that torch does not compile: nothing cached, and no room
Uncompiled(S, c) ==
    {b \in S \cap Compiled :
        <<b, c>> \notin cache /\ (b \in stopped \/ Variants(b) >= RECOMPILE_LIMIT)}

\* The backends S are called at c, and those in eager run uncompiled.  What
\* was cached before torch gave up may or may not be used after
Called(S, c, eager) ==
    /\ Uncompiled(S, c) \subseteq eager
    /\ eager \subseteq Uncompiled(S, c) \cup (S \cap stopped)
    /\ cache' = cache \cup {<<b, c>> : b \in (S \cap Compiled) \ Uncompiled(S, c)}
    /\ stopped' = stopped \cup Uncompiled(S, c)

\* Torch's one message, at the call that crosses the limit
Announced(S, c) == Uncompiled(S, c) \ stopped # {}

\* mutant: nothing listens outside a guarded region
HeardInGuard(S, c, guarded) == guarded /\ Announced(S, c)

\* _install_global_catcher: the message is heard wherever it is said
Heard(S, c, guarded) == Announced(S, c)

Watch(S, c, guarded) == reasons' = (reasons \/ Heard(S, c, guarded))

\* guard(): the record starts with what the process has seen already
FellBack(S, c) == reasons \/ Announced(S, c)

\* reset_process_state is for tests: only a new process starts afresh
NewProcess == cache' = {} /\ stopped' = {} /\ reasons' = FALSE

GuardInit == cache = {} /\ stopped = {} /\ reasons = FALSE
=============================================================================
