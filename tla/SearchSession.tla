--------------------------- MODULE SearchSession ---------------------------
(***************************************************************************)
(* What an unknown-value ("C-level") search session promises a client:     *)
(* a session has at most one committed baseline, the generation-0 snapshot *)
(* commits it, and every refinement either replaces the baseline by the    *)
(* survivors of the filter that was asked for, one generation later, or    *)
(* leaves it exactly as it was.  Cancellations, I/O failures, a vanished process and *)
(* a failed promotion are all stuttering steps here.                       *)
(***************************************************************************)
EXTENDS SearchDomain

(***************************************************************************)
(* `next' is a correct filter of `prev': each candidate of `prev' either   *)
(* survives with a current value that passes the comparison, or had some   *)
(* current value that fails it; nothing outside `prev' appears.            *)
(***************************************************************************)
IsFilter(op, v, prev, next) ==
    \A s \in Slots :
        \/ /\ prev[s] = Absent
           /\ next[s] = Absent
        \/ /\ prev[s] # Absent
           /\ next[s] # Absent
           /\ searchCompareUnsigned(op, prev[s], next[s], v)
        \/ /\ prev[s] # Absent
           /\ next[s] = Absent
           /\ \E cur \in Values : ~searchCompareUnsigned(op, prev[s], cur, v)

VARIABLES open,       \* a session exists
          baseline,   \* its committed generation, if any
          request     \* the last refinement asked for: operation and value

NoBaseline == [committed |-> FALSE, gen |-> 0, cands |-> NoCands]
NoRequest  == <<"begin", 0>>

vars == <<open, baseline, request>>

Init == open = FALSE /\ baseline = NoBaseline /\ request = NoRequest

Begin == ~open /\ open' = TRUE /\ request' = NoRequest /\ UNCHANGED baseline

\* A refinement is accepted.
Ask ==
    /\ open /\ baseline.committed
    /\ request' \in RefineOps \X Values
    /\ UNCHANGED <<open, baseline>>

\* baseline' is generation `gen' with some candidate set.
Commits(gen) ==
    /\ baseline'.committed
    /\ baseline'.gen = gen
    /\ baseline' = [committed |-> TRUE, gen |-> gen, cands |-> baseline'.cands]
    /\ baseline'.cands \in Cands

Snapshot ==
    /\ open /\ ~baseline.committed
    /\ Commits(0)
    /\ UNCHANGED <<open, request>>

Refine ==
    /\ open /\ baseline.committed
    /\ Commits(baseline.gen + 1)
    /\ IsFilter(request[1], request[2], baseline.cands, baseline'.cands)
    /\ UNCHANGED <<open, request>>

\* An explicit close, or the restart of the sysmodule.
Discard == open' = FALSE /\ baseline' = NoBaseline /\ request' = NoRequest

Next == Begin \/ Ask \/ Snapshot \/ Refine \/ Discard

Spec == Init /\ [][Next]_vars
=============================================================================
