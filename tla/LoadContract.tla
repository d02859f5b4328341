---------------------------- MODULE LoadContract ----------------------------
(***************************************************************************)
(* What one load of a universe promises its screener, whether one thread   *)
(* fetches or a pool does: one item per row, in input order; the circuit   *)
(* breaker skips a row only after K fetches in a row have failed, and once *)
(* they have, all but the few rows already handed out are skipped; the     *)
(* failures remembered after a complete load name exactly the rows that    *)
(* gave no frame.                                                          *)
(***************************************************************************)
EXTENDS Integers, Sequences

CONSTANTS N,    \* the mapped rows of the universe
          K     \* max_consecutive_failures, 0 for no breaker

VARIABLES items,        \* the items delivered so far
          slack,        \* the rows that may be in flight when the breaker trips
          failures,     \* last_failures: rows
          over          \* the load has ended

vars == <<items, slack, failures, over>>

Kinds == {"frame", "quarantined", "failure", "breaker"}

\* K fetches in a row have failed, the last of them at position p.
TrippedAt(s, p) == K > 0 /\ p >= K /\ \A i \in (p - K + 1)..p : s[i] = "failure"

Tripped(s)    == \E p \in 1..Len(s) : TrippedAt(s, p)
Exhausted(s)  == \E p \in 1..Len(s) : TrippedAt(s, p) /\ Len(s) >= p + slack
FailedRows(s) == {i \in 1..Len(s) : s[i] # "frame"}

Init ==
    /\ items = <<>> /\ slack \in Nat
    /\ failures = {} /\ over = FALSE

Deliver ==
    /\ ~over /\ Len(items) < N
    /\ \E k \in Kinds :
        /\ k = "breaker" => Tripped(items)
        /\ Exhausted(items) => k = "breaker"
        /\ items' = Append(items, k)
    /\ UNCHANGED <<slack, failures, over>>

Complete ==
    /\ ~over /\ Len(items) = N
    /\ over' = TRUE /\ failures' = FailedRows(items)
    /\ UNCHANGED <<items, slack>>

\* The screener stops reading: nothing is remembered.
Abandon ==
    /\ ~over /\ over' = TRUE
    /\ UNCHANGED <<items, slack, failures>>

Next == Deliver \/ Complete \/ Abandon
Spec == Init /\ [][Next]_vars
=============================================================================
