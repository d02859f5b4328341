------------------------ MODULE UniverseLoad_proofs -------------------------
(***************************************************************************)
(* Machine-checked theorems about UniverseLoad, for any number of rows,    *)
(* any breaker threshold and any worker counts: the invariants its runs    *)
(* check, and that one thread and a pool keep the same LoadContract.       *)
(***************************************************************************)
EXTENDS UniverseLoad, FiniteSetTheorems, SequenceTheorems, TLAPS

Kinds == {"breaker"} \cup Outcomes
States == {"idle", "queued", "running", "cancelled"} \cup Outcomes

TrippedAt(s, p) == Contract!TrippedAt(s, p)

-----------------------------------------------------------------------------
(* The inductive invariant.                                                *)

\* A row the screener has an item for is out of the pool.
TakenRowsLeftThePool == \A i \in Rows : i <= Len(items) => fetch[i] \notin {"queued", "running"}

\* A row is fetched only when it is submitted, or, with one worker, pulled.
OthersUntouched ==
    IF Parallel THEN \A i \in Rows : i > submitted => fetch[i] = "idle"
                ELSE \A i \in Rows : i > Len(items) => fetch[i] = "idle"

\* While the breaker is closed, the streak is exactly the run of failures at the end
\* of what the screener received, and too short to open it.
StreakIsTheTail ==
    /\ streak <= Len(items)
    /\ ~tripped => /\ \A i \in (Len(items) - streak + 1)..Len(items) : items[i] = "failure"
                   /\ streak < Len(items) => items[Len(items) - streak] # "failure"
                   /\ K > 0 => streak < K

\* The breaker is open exactly when K failures in a row were received.
BreakerIsItsHistory == tripped <=> \E p \in 1..Len(items) : TrippedAt(items, p)

\* What was submitted when the breaker opened, at p, is all that is ever submitted.
SubmissionsStop ==
    \A p \in 1..Len(items) : TrippedAt(items, p) =>
        IF Parallel THEN submitted < p + Window
                    ELSE \A i \in Rows : i > p => fetch[i] = "idle"

\* Before the first pull there is nothing; only a complete load is done, and then what
\* it remembers is exactly what the screener received.
Ends ==
    /\ phase = "new" => items = <<>> /\ streak = 0 /\ tripped = FALSE
    /\ phase = "done" =>
        /\ Len(items) = N
        /\ failures = {i \in Rows : items[i] # "frame"}
        /\ reports.fatal = {i \in Rows : items[i] = "quarantined"}
        /\ reports.usable = {i \in Rows : items[i] = "frame"}
    /\ phase # "done" => failures = {} /\ reports = NoReports

LoadInv ==
    /\ TypeOK /\ TakenRowsLeftThePool /\ OthersUntouched /\ StreakIsTheTail
    /\ BreakerIsItsHistory /\ SubmissionsStop /\ Ends /\ NoFetchOutlivesTheLoad

-----------------------------------------------------------------------------
(* Lemmas about the model's operators.                                     *)

\* What the names of outcomes and states are, and what the window is.
LEMMA Words ==
  ASSUME TypeOK
  PROVE  /\ "frame" \in Outcomes /\ Outcomes \subseteq {"frame", "quarantined", "failure"}
         /\ N \in Nat /\ K \in Nat /\ workers \in Nat /\ workers >= 1
         /\ Window \in Nat /\ Window >= 2 /\ (~Parallel => workers = 1)
         /\ IsFiniteSet(Rows)
  BY LoadAssumption, FS_Interval DEF TypeOK, Outcomes, Window, Parallel, Rows

\* Whether the breaker's condition held at p does not depend on what is received later.
LEMMA AppendKeepsTrips ==
  ASSUME NEW S, NEW s \in Seq(S), NEW k \in S, NEW p \in 1..Len(s)
  PROVE  TrippedAt(Append(s, k), p) <=> TrippedAt(s, p)
<1>1. \A i \in 1..Len(s) : Append(s, k)[i] = s[i]
  BY AppendProperties
<1>2. K > 0 /\ p >= K => (p - K + 1)..p \subseteq 1..Len(s)
  BY LoadAssumption
<1> QED BY <1>1, <1>2 DEF TrippedAt, Contract!TrippedAt

\* An item is received and counted: the streak stays the tail, and the breaker opens
\* exactly when the item completes K failures in a row.
LEMMA Received ==
  ASSUME TypeOK, StreakIsTheTail, BreakerIsItsHistory, Len(items) < N,
         NEW kind \in Kinds, kind = "breaker" => tripped, Yield(kind), Counted(kind)
  PROVE  /\ items' \in Seq(Kinds) /\ Len(items') = Len(items) + 1
         /\ \A p \in 1..Len(items) : TrippedAt(items', p) <=> TrippedAt(items, p)
         /\ streak' \in 0..N /\ tripped' \in BOOLEAN /\ (tripped => tripped')
         /\ StreakIsTheTail' /\ BreakerIsItsHistory'
<1> DEFINE n == Len(items)
<1>0. /\ items \in Seq(Kinds) /\ n \in Nat /\ N \in Nat /\ K \in Nat
      /\ streak \in 0..N /\ tripped \in BOOLEAN
  BY Words DEF TypeOK, Kinds
<1>1. /\ items' \in Seq(Kinds) /\ Len(items') = n + 1 /\ items'[n + 1] = kind
      /\ \A i \in 1..n : items'[i] = items[i]
  BY <1>0, AppendProperties DEF Yield
<1>2. \A p \in 1..n : TrippedAt(items', p) <=> TrippedAt(items, p)
  BY <1>0, AppendKeepsTrips DEF Yield
<1>3. streak' <= n + 1 /\ streak' \in 0..N /\ tripped' \in BOOLEAN /\ (tripped => tripped')
  BY <1>0 DEF Counted, StreakIsTheTail
<1>c. tripped' <=> tripped \/ (K > 0 /\ streak' >= K)
  BY Zenon DEF Counted
<1>4. ASSUME ~tripped
      PROVE  /\ \A i \in (n + 1 - streak' + 1)..(n + 1) : items'[i] = "failure"
             /\ streak' < n + 1 => items'[n + 1 - streak'] # "failure"
  <2>0. kind # "breaker"
    BY <1>4
  <2>1. CASE kind = "failure"
    <3>1. streak' = streak + 1
      BY <2>1 DEF Counted
    <3>2. ASSUME NEW i \in (n + 1 - streak' + 1)..(n + 1) PROVE items'[i] = "failure"
      <4>1. i = n + 1 \/ i \in (n - streak + 1)..n
        BY <1>0, <3>1
      <4>2. ASSUME i \in (n - streak + 1)..n PROVE items[i] = "failure" /\ i \in 1..n
        BY <1>0, <1>4, <4>2 DEF StreakIsTheTail
      <4> QED BY <1>1, <2>1, <4>1, <4>2
    <3>3. ASSUME streak' < n + 1 PROVE items'[n + 1 - streak'] # "failure"
      <4>1. streak < n /\ n - streak \in 1..n /\ n + 1 - streak' = n - streak
        BY <1>0, <3>1, <3>3
      <4> QED BY <1>1, <1>4, <4>1 DEF StreakIsTheTail
    <3> QED BY <3>2, <3>3
  <2>2. CASE kind # "failure"
    <3>1. streak' = 0
      BY <2>0, <2>2 DEF Counted
    <3> QED BY <1>0, <1>1, <2>2, <3>1
  <2> QED BY <2>1, <2>2
<1>5. StreakIsTheTail'
  BY <1>0, <1>1, <1>3, <1>4, <1>c DEF StreakIsTheTail
<1>6. ASSUME ~tripped PROVE tripped' <=> TrippedAt(items', n + 1)
  <2>1. ASSUME tripped' PROVE TrippedAt(items', n + 1)
    <3>1. K > 0 /\ streak' >= K
      BY <1>6, <1>c, <2>1
    <3>2. (n + 1 - K + 1)..(n + 1) \subseteq (n + 1 - streak' + 1)..(n + 1)
      BY <1>0, <1>3, <3>1
    <3> QED BY <1>0, <1>3, <1>4, <1>6, <3>1, <3>2 DEF TrippedAt, Contract!TrippedAt
  <2>2. ASSUME TrippedAt(items', n + 1) PROVE tripped'
    <3>1. /\ K > 0 /\ n + 1 >= K
          /\ \A i \in (n + 1 - K + 1)..(n + 1) : items'[i] = "failure"
      BY <1>0, <2>2 DEF TrippedAt, Contract!TrippedAt
    <3>2. ASSUME streak' < K PROVE FALSE
      <4>1. streak' < n + 1 /\ n + 1 - streak' \in (n + 1 - K + 1)..(n + 1)
        BY <1>0, <1>3, <3>1, <3>2
      <4> QED BY <1>4, <1>6, <3>1, <4>1
    <3> QED BY <1>0, <1>3, <1>c, <3>1, <3>2
  <2> QED BY <2>1, <2>2
<1>7. BreakerIsItsHistory'
  <2>1. (\E p \in 1..Len(items') : TrippedAt(items', p)) <=>
          \/ \E p \in 1..n : TrippedAt(items, p)
          \/ TrippedAt(items', n + 1)
    BY <1>0, <1>1, <1>2
  <2> QED BY <1>0, <1>3, <1>6, <2>1 DEF BreakerIsItsHistory
<1> QED BY <1>1, <1>2, <1>3, <1>5, <1>7

-----------------------------------------------------------------------------
(* Every step keeps the invariant.                                         *)

\* A step that starts no fetch keeps the pool within its workers.
LEMMA NoMoreRunning ==
  ASSUME TypeOK, UNCHANGED workers,
         \A i \in Rows : fetch'[i] = "running" => fetch[i] = "running"
  PROVE  (Cardinality(InState("running")) <= workers)'
<1>1. IsFiniteSet(InState("running")) /\ InState("running")' \in SUBSET InState("running")
  BY Words, FS_Subset DEF InState
<1>2. Cardinality(InState("running")') <= Cardinality(InState("running"))
  BY <1>1, FS_Subset
<1>3. Cardinality(InState("running")) \in Nat /\ Cardinality(InState("running")') \in Nat
  BY <1>1, FS_Subset, FS_CardinalityType
<1> QED BY <1>2, <1>3, Words DEF TypeOK

\* An item is delivered: what the action must have done to the pool for the invariant
\* to survive.
LEMMA YieldKeeps ==
  ASSUME LoadInv, phase = "open", Len(items) < N,
         NEW kind \in Kinds, kind = "breaker" => tripped, Yield(kind), Counted(kind),
         fetch' \in [Rows -> States],
         \A i \in Rows : fetch'[i] = "running" => fetch[i] = "running",
         submitted' \in 0..N, Parallel => submitted' <= Len(items) + 1 + Window,
         tripped' => submitted' = submitted,
         TakenRowsLeftThePool', OthersUntouched',
         ~Parallel /\ tripped => \A i \in Rows : fetch[i] = "idle" => fetch'[i] = "idle"
  PROVE  LoadInv'
<1>0. TypeOK /\ UNCHANGED <<workers, phase, reports, failures>> /\ Parallel' = Parallel
      /\ Window' = Window
  BY DEF LoadInv, Yield, Parallel, Window
<1>1. /\ items' \in Seq(Kinds) /\ Len(items') = Len(items) + 1
      /\ \A p \in 1..Len(items) : TrippedAt(items', p) <=> TrippedAt(items, p)
      /\ streak' \in 0..N /\ tripped' \in BOOLEAN /\ (tripped => tripped')
      /\ StreakIsTheTail' /\ BreakerIsItsHistory'
  BY Received DEF LoadInv
<1>2. Len(items) \in Nat /\ submitted \in Nat
  BY DEF LoadInv, TypeOK
<1>3. TypeOK'
  <2>1. (Cardinality(InState("running")) <= workers)'
    BY <1>0, NoMoreRunning
  <2> QED BY <1>0, <1>1, <1>2, <2>1, Words DEF TypeOK, Kinds, States
<1>4. ASSUME NEW p \in 1..(Len(items) + 1), TrippedAt(items', p)
      PROVE  IF Parallel THEN submitted' < p + Window
                         ELSE \A i \in Rows : i > p => fetch'[i] = "idle"
  <2>1. tripped' /\ submitted' = submitted
    BY <1>1, <1>4 DEF BreakerIsItsHistory
  <2>2. CASE p \in 1..Len(items)
    <3>1. TrippedAt(items, p) /\ tripped
      BY <1>1, <1>4, <2>2 DEF LoadInv, BreakerIsItsHistory
    <3> QED BY <2>1, <2>2, <3>1 DEF LoadInv, SubmissionsStop
  <2>3. CASE p = Len(items) + 1
    <3>1. CASE Parallel
      BY <1>0, <1>2, <2>1, <2>3, <3>1, Words DEF TypeOK
    <3>2. CASE ~Parallel
      BY <1>0, <1>1, <2>3, <3>2 DEF OthersUntouched
    <3> QED BY <3>1, <3>2
  <2> QED BY <1>2, <2>2, <2>3
<1>5. SubmissionsStop'
  BY <1>0, <1>1, <1>4 DEF SubmissionsStop
<1>6. Ends' /\ NoFetchOutlivesTheLoad'
  BY <1>0 DEF LoadInv, Ends, NoFetchOutlivesTheLoad
<1> QED BY <1>1, <1>3, <1>5, <1>6 DEF LoadInv

\* One worker: the row pulled is fetched, or skipped when the breaker is open.
LEMMA FetchNextKeeps == LoadInv /\ FetchNext => LoadInv'
<1> SUFFICES ASSUME LoadInv, FetchNext PROVE LoadInv'
  OBVIOUS
<1>0. TypeOK /\ phase = "open" /\ ~Parallel /\ submitted' = submitted /\ workers' = workers
  BY DEF LoadInv, FetchNext, Yield
<1>1. PICK kind \in IF tripped THEN {"breaker"} ELSE Outcomes :
        /\ Yield(kind) /\ Counted(kind)
        /\ fetch' = [fetch EXCEPT ![Head1] = IF kind = "breaker" THEN "idle" ELSE kind]
  BY DEF FetchNext
<1>2. kind \in Kinds /\ (kind = "breaker" => tripped) /\ (tripped => kind = "breaker")
  BY <1>0, <1>1, Words DEF Kinds
<1>3. /\ Len(items) \in Nat /\ Head1 = Len(items) + 1 /\ Len(items) < N
      /\ Len(items') = Len(items) + 1
      /\ fetch \in [Rows -> States] /\ submitted \in 0..N
  BY <1>0, <1>1, Words, AppendProperties DEF FetchNext, Head1, TypeOK, Yield, Kinds, States
<1>4. /\ fetch' \in [Rows -> States]
      /\ \A i \in Rows : i # Head1 => fetch'[i] = fetch[i]
      /\ fetch'[Head1] = IF kind = "breaker" THEN "idle" ELSE kind
  <2>1. Head1 \in Rows
    BY <1>0, <1>3, Words DEF Rows
  <2>2. (IF kind = "breaker" THEN "idle" ELSE kind) \in States
    BY <1>2 DEF States, Kinds
  <2> QED BY <1>1, <1>3, <2>1, <2>2
<1>5. fetch'[Head1] \notin {"queued", "running"}
  BY <1>0, <1>2, <1>4, Words DEF Kinds
<1>6. \A i \in Rows : fetch'[i] = "running" => fetch[i] = "running"
  BY <1>4, <1>5
<1>7. TakenRowsLeftThePool'
  BY <1>3, <1>4, <1>5 DEF LoadInv, TakenRowsLeftThePool, Rows
<1>8. OthersUntouched'
  BY <1>0, <1>3, <1>4 DEF LoadInv, OthersUntouched, Rows, Parallel
<1>9. tripped => \A i \in Rows : fetch[i] = "idle" => fetch'[i] = "idle"
  BY <1>2, <1>4
<1> QED BY <1>0, <1>1, <1>2, <1>3, <1>4, <1>6, <1>7, <1>8, <1>9, YieldKeeps

\* The oldest row is cancelled before it starts.
LEMMA TakeCancelledKeeps == LoadInv /\ TakeCancelled => LoadInv'
<1> SUFFICES ASSUME LoadInv, TakeCancelled PROVE LoadInv'
  OBVIOUS
<1>0. /\ TypeOK /\ phase = "open" /\ Parallel /\ submitted' = submitted /\ tripped
      /\ fetch[Head1] = "queued" /\ fetch' = [fetch EXCEPT ![Head1] = "cancelled"]
      /\ Yield("breaker") /\ Counted("breaker") /\ "breaker" \in Kinds
      /\ Parallel' = Parallel
  BY DEF LoadInv, TakeCancelled, Yield, Kinds, Parallel
<1>1. /\ Len(items) \in Nat /\ Head1 = Len(items) + 1 /\ Len(items) < N
      /\ Len(items') = Len(items) + 1 /\ Head1 <= submitted
      /\ fetch \in [Rows -> States] /\ submitted \in 0..N
  BY <1>0, Words, AppendProperties DEF TakeCancelled, Head1, TypeOK, Yield, Kinds, States
<1>2. /\ fetch' \in [Rows -> States] /\ fetch'[Head1] = "cancelled"
      /\ \A i \in Rows : i # Head1 => fetch'[i] = fetch[i]
  <2>1. Head1 \in Rows /\ "cancelled" \in States
    BY <1>0, <1>1, Words DEF Rows, States
  <2> QED BY <1>0, <1>1, <2>1
<1>3. \A i \in Rows : fetch'[i] = "running" => fetch[i] = "running"
  BY <1>2
<1>4. TakenRowsLeftThePool'
  BY <1>1, <1>2 DEF LoadInv, TakenRowsLeftThePool, Rows
<1>5. OthersUntouched'
  BY <1>0, <1>1, <1>2 DEF LoadInv, OthersUntouched, Rows
<1>6. submitted' <= Len(items) + 1 + Window
  BY <1>0, <1>1, Words DEF TypeOK
<1> QED BY <1>0, <1>1, <1>2, <1>3, <1>4, <1>5, <1>6, YieldKeeps

\* The oldest row's result is delivered, and the next row is submitted unless the
\* breaker is open.
LEMMA TakeResultKeeps == LoadInv /\ TakeResult => LoadInv'
<1> SUFFICES ASSUME LoadInv, TakeResult PROVE LoadInv'
  OBVIOUS
<1>0. /\ TypeOK /\ phase = "open" /\ Parallel
      /\ fetch[Head1] \in {"frame", "quarantined", "failure"}
      /\ fetch' = [i \in Rows |-> IF submitted < i /\ i <= submitted' THEN "queued" ELSE fetch[i]]
      /\ Yield(fetch[Head1]) /\ Counted(fetch[Head1]) /\ SubmitMore
      /\ Parallel' = Parallel
  BY DEF LoadInv, TakeResult, Yield, Parallel
<1>1. /\ Len(items) \in Nat /\ Head1 = Len(items) + 1 /\ Head1 <= submitted /\ Len(items) < N
      /\ fetch \in [Rows -> States] /\ submitted \in 0..N /\ Head1 \in Rows
  BY <1>0, Words DEF TakeResult, Head1, TypeOK, Kinds, States, Rows
<1>2. fetch[Head1] \in Outcomes /\ fetch[Head1] \in Kinds /\ fetch[Head1] # "breaker"
  <2>1. fetch[Head1] \in States
    BY <1>1
  <2> QED BY <1>0, <2>1 DEF States, Kinds
<1>3. Len(items') = Len(items) + 1
  BY <1>0, <1>2, AppendProperties DEF Yield, TypeOK, Kinds
<1>4. submitted' \in submitted..N /\ submitted' <= submitted + 1 /\ (tripped' => submitted' = submitted)
  <2>1. /\ submitted' = submitted \/ submitted' = MinOf(submitted + 1, N)
        /\ tripped' => submitted' = submitted
    BY Zenon, <1>0 DEF SubmitMore
  <2> QED BY <1>0, <1>1, <2>1, Words DEF MinOf
<1>5. /\ fetch' \in [Rows -> States]
      /\ \A i \in Rows : fetch'[i] = "running" => fetch[i] = "running"
      /\ \A i \in Rows : i <= submitted => fetch'[i] = fetch[i]
      /\ \A i \in Rows : i > submitted' => fetch'[i] = fetch[i]
  <2>1. "queued" \in States /\ \A i \in Rows : fetch[i] \in States
    BY <1>1 DEF States
  <2>2. \A i \in Rows : fetch'[i] = IF submitted < i /\ i <= submitted' THEN "queued" ELSE fetch[i]
    BY <1>0
  <2>3. \A i \in Rows : i \in Nat
    BY DEF Rows
  <2>4. fetch' \in [Rows -> States]
    BY <1>0, <2>1
  <2> QED BY <1>1, <1>4, <2>2, <2>3, <2>4
<1>6. TakenRowsLeftThePool'
  <2> SUFFICES ASSUME NEW i \in Rows, i <= Len(items) + 1
               PROVE  fetch'[i] \notin {"queued", "running"}
    BY <1>3 DEF TakenRowsLeftThePool
  <2>1. i <= submitted /\ (i = Head1 \/ i <= Len(items))
    BY <1>1 DEF Rows
  <2> QED BY <1>0, <1>5, <2>1 DEF LoadInv, TakenRowsLeftThePool
<1>7. OthersUntouched'
  BY <1>0, <1>1, <1>4, <1>5 DEF LoadInv, OthersUntouched, Rows
<1>8. submitted' \in 0..N /\ submitted' <= Len(items) + 1 + Window
  BY <1>0, <1>1, <1>4, Words DEF TypeOK
<1> QED BY <1>0, <1>1, <1>2, <1>4, <1>5, <1>6, <1>7, <1>8, YieldKeeps

\* A row that was never submitted is skipped.
LEMMA SkipRestKeeps == LoadInv /\ SkipRest => LoadInv'
<1> SUFFICES ASSUME LoadInv, SkipRest PROVE LoadInv'
  OBVIOUS
<1>0. /\ TypeOK /\ phase = "open" /\ Parallel /\ tripped /\ Len(items) >= submitted
      /\ submitted' = submitted /\ fetch' = fetch
      /\ Yield("breaker") /\ Counted("breaker") /\ "breaker" \in Kinds
      /\ Parallel' = Parallel
  BY DEF LoadInv, SkipRest, Yield, Kinds, Parallel
<1>1. /\ Len(items) \in Nat /\ Len(items) < N /\ Len(items') = Len(items) + 1
      /\ fetch \in [Rows -> States] /\ submitted \in 0..N
  BY <1>0, Words, AppendProperties DEF SkipRest, Head1, TypeOK, Yield, Kinds, States
<1>2. TakenRowsLeftThePool'
  <2> SUFFICES ASSUME NEW i \in Rows, i <= Len(items) + 1
               PROVE  fetch[i] \notin {"queued", "running"}
    BY <1>0, <1>1 DEF TakenRowsLeftThePool
  <2>1. i <= Len(items) \/ i > submitted
    BY <1>0, <1>1 DEF Rows
  <2> QED BY <1>0, <2>1 DEF LoadInv, TakenRowsLeftThePool, OthersUntouched
<1>3. OthersUntouched'
  BY <1>0 DEF LoadInv, OthersUntouched
<1>4. submitted' <= Len(items) + 1 + Window
  BY <1>0, <1>1, Words DEF TypeOK
<1> QED BY <1>0, <1>1, <1>2, <1>3, <1>4, YieldKeeps

\* The first pull fills the window of a parallel load.
LEMMA OpenKeeps == LoadInv /\ Open => LoadInv'
<1> SUFFICES ASSUME LoadInv, Open PROVE LoadInv'
  OBVIOUS
<1>0. /\ TypeOK /\ phase = "new" /\ phase' = "open" /\ items = <<>> /\ Len(items) = 0
      /\ reports' = NoReports /\ UNCHANGED <<workers, items, streak, tripped, failures>>
      /\ Parallel' = Parallel /\ Window' = Window
      /\ fetch' = [i \in Rows |-> IF i <= submitted' THEN "queued" ELSE "idle"]
      /\ submitted' = IF Parallel THEN MinOf(Window, N) ELSE 0
  BY DEF LoadInv, Open, Ends, Parallel, Window
<1>1. submitted' \in 0..N /\ submitted' <= Window /\ (~Parallel => submitted' = 0)
  BY <1>0, Words DEF MinOf
<1>2. /\ fetch' \in [Rows -> States]
      /\ \A i \in Rows : fetch'[i] # "running"
      /\ \A i \in Rows : i > submitted' => fetch'[i] = "idle"
  BY <1>0, <1>1 DEF Rows, States
<1>3. (Cardinality(InState("running")) <= workers)'
  BY <1>0, <1>2, NoMoreRunning
<1>4. TypeOK'
  <2>1. reports'.fatal \subseteq Rows /\ reports'.usable \subseteq Rows
    BY <1>0 DEF NoReports
  <2>2. (Parallel => submitted <= Len(items) + Window)'
    BY <1>0, <1>1, Words
  <2> QED BY <1>0, <1>1, <1>2, <1>3, <2>1, <2>2 DEF TypeOK, States
<1>5. TakenRowsLeftThePool' /\ OthersUntouched'
  BY <1>0, <1>1, <1>2 DEF TakenRowsLeftThePool, OthersUntouched, Rows
<1>6. StreakIsTheTail' /\ BreakerIsItsHistory' /\ SubmissionsStop'
  BY <1>0 DEF LoadInv, StreakIsTheTail, BreakerIsItsHistory, SubmissionsStop
<1>7. Ends' /\ NoFetchOutlivesTheLoad'
  BY <1>0 DEF LoadInv, Ends, NoFetchOutlivesTheLoad
<1> QED BY <1>4, <1>5, <1>6, <1>7 DEF LoadInv

\* A thread starts or ends the fetch of a row that was submitted.
LEMMA PoolKeeps == LoadInv /\ Pool => LoadInv'
<1> SUFFICES ASSUME LoadInv, NEW i \in Rows, StartFetch(i) \/ EndFetch(i) PROVE LoadInv'
  BY DEF Pool
<1>0. /\ TypeOK /\ Parallel' = Parallel /\ Window' = Window
      /\ UNCHANGED <<workers, phase, submitted, items, streak, tripped, reports, failures>>
  BY DEF LoadInv, StartFetch, EndFetch, Parallel, Window
<1>1. PICK state \in States :
        /\ fetch[i] \in {"queued", "running"} /\ fetch' = [fetch EXCEPT ![i] = state]
        /\ state = "running" => Cardinality(InState("running")) < workers
  BY Words, <1>0 DEF StartFetch, EndFetch, States
<1>2. /\ fetch \in [Rows -> States] /\ fetch' \in [Rows -> States] /\ fetch'[i] = state
      /\ \A j \in Rows : j # i => fetch'[j] = fetch[j]
  BY <1>0, <1>1 DEF TypeOK, States
<1>3. ~(i <= Len(items)) /\ (Parallel => ~(i > submitted)) /\ Parallel
  BY <1>0, <1>1, Words DEF LoadInv, TakenRowsLeftThePool, OthersUntouched, Rows, TypeOK
<1>4. (Cardinality(InState("running")) <= workers)'
  <2>1. CASE state = "running"
    <3>1. InState("running")' = InState("running") \cup {i}
      BY <1>2, <2>1 DEF InState
    <3>2. IsFiniteSet(InState("running"))
      BY <1>0, Words, FS_Subset DEF InState
    <3>3. Cardinality(InState("running")) \in Nat
      BY <3>2, FS_CardinalityType
    <3>4. /\ Cardinality(InState("running")') \in Nat
          /\ Cardinality(InState("running")') <= Cardinality(InState("running")) + 1
      BY <3>1, <3>2, <3>3, FS_AddElement
    <3> QED BY <1>0, <1>1, <2>1, <3>3, <3>4, Words
  <2>2. CASE state # "running"
    BY <1>0, <1>2, <2>2, NoMoreRunning
  <2> QED BY <2>1, <2>2
<1>5. TypeOK'
  BY <1>0, <1>2, <1>4 DEF TypeOK, States
<1>6. TakenRowsLeftThePool' /\ OthersUntouched' /\ SubmissionsStop'
  BY <1>0, <1>2, <1>3 DEF LoadInv, TakenRowsLeftThePool, OthersUntouched, SubmissionsStop
<1>7. StreakIsTheTail' /\ BreakerIsItsHistory' /\ Ends'
  BY <1>0 DEF LoadInv, StreakIsTheTail, BreakerIsItsHistory, Ends
<1>8. NoFetchOutlivesTheLoad'
  <2>1. i \in InState("queued") \cup InState("running")
    BY <1>1 DEF InState
  <2> QED BY <1>0, <2>1 DEF LoadInv, NoFetchOutlivesTheLoad
<1> QED BY <1>5, <1>6, <1>7, <1>8 DEF LoadInv

\* The end of a load: everything it handed to the pool has come back.
LEMMA EndKeeps == LoadInv /\ (Remember \/ Closed \/ Abandon \/ Ended) => LoadInv'
<1> SUFFICES ASSUME LoadInv, Remember \/ Closed \/ Abandon \/ Ended PROVE LoadInv'
  OBVIOUS
<1>0. /\ TypeOK /\ Parallel' = Parallel /\ Window' = Window
      /\ UNCHANGED <<workers, submitted, fetch, items, streak, tripped>>
      /\ InState("queued")' = InState("queued") /\ InState("running")' = InState("running")
  BY DEF LoadInv, Remember, Closed, Abandon, Ended, vars, Parallel, Window, InState
<1>1. TypeOK'
  BY <1>0 DEF TypeOK, Remember, Closed, Abandon, Ended, vars
<1>2. TakenRowsLeftThePool' /\ OthersUntouched' /\ SubmissionsStop' /\ StreakIsTheTail'
      /\ BreakerIsItsHistory'
  BY <1>0 DEF LoadInv, TakenRowsLeftThePool, OthersUntouched, SubmissionsStop,
              StreakIsTheTail, BreakerIsItsHistory
<1>3. Ends'
  BY <1>0 DEF LoadInv, Ends, Remember, Closed, Abandon, Ended, vars
<1>4. NoFetchOutlivesTheLoad'
  <2>1. CASE Remember
    <3>1. \A i \in Rows : fetch[i] \notin {"queued", "running"}
      BY <2>1, Words, <1>0 DEF Remember, Rows, LoadInv, TakenRowsLeftThePool
    <3> QED BY <1>0, <3>1 DEF NoFetchOutlivesTheLoad, InState
  <2>2. CASE Closed
    BY <1>0, <2>2 DEF Closed, NoFetchOutlivesTheLoad
  <2>3. CASE Abandon
    BY <2>3 DEF Abandon, NoFetchOutlivesTheLoad
  <2>4. CASE Ended
    BY <1>0, <2>4 DEF Ended, vars, LoadInv, NoFetchOutlivesTheLoad
  <2> QED BY <2>1, <2>2, <2>3, <2>4
<1> QED BY <1>1, <1>2, <1>3, <1>4 DEF LoadInv

-----------------------------------------------------------------------------
(* The invariants of the load.                                             *)

\* Before the first pull the invariant holds.
LEMMA LoadInit == Init => LoadInv
<1> SUFFICES ASSUME Init PROVE LoadInv
  OBVIOUS
<1>0. /\ items = <<>> /\ Len(items) = 0 /\ phase = "new" /\ submitted = 0 /\ streak = 0
      /\ tripped = FALSE /\ reports = NoReports /\ failures = {} /\ workers \in WorkerCounts
      /\ fetch = [i \in Rows |-> "idle"]
  BY DEF Init, NewFetches
<1>1. InState("running") = {}
  BY <1>0 DEF InState
<1>2. TypeOK
  <2>1. /\ N \in Nat /\ K \in Nat /\ workers \in Nat /\ Window \in Nat
        /\ items \in Seq({"breaker"} \cup Outcomes)
    BY <1>0, LoadAssumption DEF Window
  <2>2. reports.fatal \subseteq Rows /\ reports.usable \subseteq Rows
    BY <1>0 DEF NoReports
  <2>3. Cardinality(InState("running")) <= workers
    <3>1. Cardinality(InState("running")) = 0
      BY <1>1, FS_EmptySet, Zenon
    <3> QED BY <2>1, <3>1
  <2>4. fetch \in [Rows -> {"idle", "queued", "running", "cancelled"} \cup Outcomes]
    BY <1>0
  <2>5. Parallel => submitted <= Len(items) + Window
    BY <1>0, <2>1
  <2>6. /\ workers \in WorkerCounts /\ phase \in {"new", "open", "closing", "closed", "done"}
        /\ submitted \in 0..N /\ streak \in 0..N /\ tripped \in BOOLEAN
        /\ Len(items) <= N /\ failures \subseteq Rows
    <3>1. submitted \in 0..N /\ streak \in 0..N /\ Len(items) <= N
      BY <1>0, <2>1
    <3> QED BY <1>0, <3>1, Zenon
  <2> QED BY <2>1, <2>2, <2>3, <2>4, <2>5, <2>6, Zenon DEF TypeOK
<1>3. TakenRowsLeftThePool /\ OthersUntouched
  BY <1>0 DEF TakenRowsLeftThePool, OthersUntouched
<1>4. StreakIsTheTail /\ BreakerIsItsHistory /\ SubmissionsStop
  BY <1>0, <1>2, Words DEF StreakIsTheTail, BreakerIsItsHistory, SubmissionsStop
<1>5. Ends /\ NoFetchOutlivesTheLoad
  BY <1>0 DEF Ends, NoFetchOutlivesTheLoad
<1> QED BY <1>2, <1>3, <1>4, <1>5 DEF LoadInv

\* Every step keeps it.
LEMMA LoadStep == LoadInv /\ [Next]_vars => LoadInv'
<1> SUFFICES ASSUME LoadInv, [Next]_vars PROVE LoadInv'
  OBVIOUS
<1>1. CASE Next
  BY <1>1, OpenKeeps, FetchNextKeeps, TakeCancelledKeeps, TakeResultKeeps, SkipRestKeeps,
     PoolKeeps, EndKeeps DEF Next, Generate
<1>2. CASE UNCHANGED vars
  BY <1>2 DEF vars, LoadInv, TypeOK, TakenRowsLeftThePool, OthersUntouched, StreakIsTheTail,
              BreakerIsItsHistory, SubmissionsStop, Ends, NoFetchOutlivesTheLoad, InState,
              Parallel, Window
<1> QED BY <1>1, <1>2

\* The inductive invariant holds of every load.
THEOREM LoadInvariant == Spec => []LoadInv
  BY LoadInit, LoadStep, PTL DEF Spec

\* Every variable keeps its type, the pool never runs more fetches than it has workers,
\* and the rows handed out stay within a window of what the screener has read.
THEOREM TypeCorrect == Spec => []TypeOK
<1>1. LoadInv => TypeOK
  BY DEF LoadInv
<1> QED BY <1>1, LoadInvariant, PTL

\* However a load ends, complete or abandoned, no fetch of it is left in the pool.
THEOREM FetchesEndWithTheLoad == Spec => []NoFetchOutlivesTheLoad
<1>1. LoadInv => NoFetchOutlivesTheLoad
  BY DEF LoadInv
<1> QED BY <1>1, LoadInvariant, PTL

\* No row a window or more beyond the failure that opened the breaker is requested.
THEOREM BreakerStopsTraffic == Spec => []BreakerBoundsTraffic
<1>1. ASSUME LoadInv, NEW p \in 1..Len(items), TrippedAt(items, p),
             NEW i \in Rows, i >= p + Window
      PROVE  fetch[i] = "idle"
  <2>1. /\ i \in Int /\ p \in Int /\ Window \in Nat /\ Window >= 2 /\ submitted \in Int
    BY <1>1, Words DEF LoadInv, TypeOK, Rows
  <2>2. CASE Parallel
    <3>1. submitted < p + Window
      BY <1>1, <2>2 DEF LoadInv, SubmissionsStop
    <3> QED BY <1>1, <2>1, <2>2, <3>1 DEF LoadInv, OthersUntouched
  <2>3. CASE ~Parallel
    BY <1>1, <2>1, <2>3 DEF LoadInv, SubmissionsStop
  <2> QED BY <2>2, <2>3
<1>2. LoadInv => BreakerBoundsTraffic
  BY <1>1 DEF BreakerBoundsTraffic, TrippedAt
<1> QED BY <1>2, LoadInvariant, PTL

-----------------------------------------------------------------------------
(* The refinement of LoadContract.                                         *)

\* A delivered item is one the contract allows: a skip only after the breaker's
\* condition was met, and nothing else once the rows in flight have been read.
LEMMA YieldIsDeliver ==
  ASSUME LoadInv, phase = "open", Len(items) < N,
         NEW kind \in Kinds, kind = "breaker" => tripped, Yield(kind),
         IF Parallel THEN kind = "breaker" \/ Len(items) < submitted
                     ELSE tripped => kind = "breaker"
  PROVE  Contract!Deliver
<1>0. /\ TypeOK /\ Len(items) \in Nat /\ submitted \in Nat /\ Parallel' = Parallel
      /\ Window' = Window /\ Window \in Nat
      /\ phase' = phase /\ failures' = failures /\ workers' = workers
  BY Words DEF LoadInv, TypeOK, Yield, Parallel, Window
<1>1. kind \in Contract!Kinds
  BY <1>0, Words DEF Kinds, Contract!Kinds
<1>2. kind = "breaker" => Contract!Tripped(items)
  BY DEF LoadInv, BreakerIsItsHistory, TrippedAt, Contract!Tripped
<1>3. ASSUME Contract!Exhausted(items) PROVE kind = "breaker"
  <2>1. PICK p \in 1..Len(items) :
          /\ TrippedAt(items, p)
          /\ Len(items) >= p + (IF Parallel THEN Window - 1 ELSE 0)
    BY <1>3 DEF Contract!Exhausted, TrippedAt
  <2>2. CASE Parallel
    <3>1. submitted < p + Window
      BY <2>1, <2>2 DEF LoadInv, SubmissionsStop
    <3>2. ~(Len(items) < submitted)
      BY <1>0, <2>1, <2>2, <3>1
    <3> QED BY <2>2, <3>2
  <2>3. CASE ~Parallel
    BY <2>1, <2>3 DEF LoadInv, BreakerIsItsHistory
  <2> QED BY <2>2, <2>3
<1>4. items' = Append(items, kind)
  BY DEF Yield
<1> QED BY <1>0, <1>1, <1>2, <1>3, <1>4 DEF Contract!Deliver

\* Every step of a load is a step of the contract, or one it does not see.
LEMMA StepRefines ==
  ASSUME LoadInv, [Next]_vars
  PROVE  [Contract!Next]_(Contract!vars)
<1>0. TypeOK /\ N \in Nat /\ Len(items) \in Nat
  BY Words DEF LoadInv, TypeOK
<1>1. ASSUME UNCHANGED <<workers, items, failures>>,
             (phase \in {"closing", "closed", "done"})' = (phase \in {"closing", "closed", "done"})
      PROVE  UNCHANGED Contract!vars
  BY <1>1 DEF Contract!vars, Parallel, Window
<1>2. CASE Open \/ Pool \/ Closed \/ Ended \/ UNCHANGED vars
  BY <1>1, <1>2 DEF Open, Pool, StartFetch, EndFetch, Closed, Ended, vars
<1>3. CASE FetchNext
  <2>1. PICK kind \in IF tripped THEN {"breaker"} ELSE Outcomes : Yield(kind)
    BY <1>3 DEF FetchNext
  <2>2. kind \in Kinds /\ (kind = "breaker" => tripped) /\ (tripped => kind = "breaker")
    BY <1>0, <2>1, Words DEF Kinds
  <2>3. phase = "open" /\ Len(items) < N /\ ~Parallel
    BY <1>0, <1>3 DEF FetchNext, Head1
  <2> QED BY <2>1, <2>2, <2>3, YieldIsDeliver DEF Contract!Next
<1>4. CASE TakeCancelled \/ SkipRest
  <2>1. /\ phase = "open" /\ Parallel /\ tripped /\ Yield("breaker") /\ "breaker" \in Kinds
        /\ Len(items) < N
    BY <1>0, <1>4 DEF TakeCancelled, SkipRest, Head1, Kinds, TypeOK
  <2> QED BY <2>1, YieldIsDeliver DEF Contract!Next
<1>5. CASE TakeResult
  <2>1. /\ phase = "open" /\ Parallel /\ Yield(fetch[Head1]) /\ Len(items) < submitted
        /\ Len(items) < N /\ Head1 \in Rows
        /\ fetch[Head1] \in {"frame", "quarantined", "failure"}
    BY <1>0, <1>5 DEF TakeResult, Head1, TypeOK, Rows
  <2>2. fetch[Head1] \in Kinds /\ fetch[Head1] # "breaker"
    <3>1. fetch[Head1] \in {"idle", "queued", "running", "cancelled"} \cup Outcomes
      BY <1>0, <2>1 DEF TypeOK
    <3> QED BY <2>1, <3>1 DEF Kinds
  <2> QED BY <2>1, <2>2, YieldIsDeliver DEF Contract!Next
<1>6. CASE Remember
  <2>1. /\ phase = "open" /\ phase' = "done" /\ Len(items) = N
        /\ failures' = {i \in Rows : items[i] # "frame"}
        /\ UNCHANGED <<workers, items>>
    BY <1>6 DEF Remember
  <2>2. failures' = Contract!FailedRows(items)
    BY <2>1 DEF Contract!FailedRows, Rows
  <2>3. Parallel' = Parallel /\ Window' = Window
    BY <2>1 DEF Parallel, Window
  <2> QED BY <2>1, <2>2, <2>3 DEF Contract!Next, Contract!Complete
<1>7. CASE Abandon
  <2>1. /\ phase = "open" /\ phase' = "closing" /\ UNCHANGED <<workers, items, failures>>
    BY <1>7 DEF Abandon
  <2>2. Parallel' = Parallel /\ Window' = Window
    BY <2>1 DEF Parallel, Window
  <2> QED BY <2>1, <2>2 DEF Contract!Next, Contract!Abandon
<1> QED BY <1>2, <1>3, <1>4, <1>5, <1>6, <1>7 DEF Next, Generate

\* One fetching thread and a pool of any size make the screener the same promise.
THEOREM LoadImplementsContract == Spec => RefinesContract
<1>1. Init => Contract!Init
  <2> SUFFICES ASSUME Init PROVE Contract!Init
    OBVIOUS
  <2>1. TypeOK /\ items = <<>> /\ failures = {} /\ phase = "new"
    BY LoadInit DEF Init, LoadInv
  <2> QED BY <2>1, Words DEF Contract!Init
<1>2. LoadInv /\ [Next]_vars => [Contract!Next]_(Contract!vars)
  BY StepRefines
<1> QED BY <1>1, <1>2, LoadInvariant, PTL DEF Spec, RefinesContract, Contract!Spec
=============================================================================
