------------------------ MODULE ForwardReturns_proofs ------------------------
(***************************************************************************)
(* Machine-checked theorems about ForwardReturns, for any number of        *)
(* workers and signals, any calendar, horizons, grace days and faults:     *)
(* what concurrent, failing and replayed batches write is right, and a     *)
(* completed measurement never changes.                                    *)
(***************************************************************************)
EXTENDS ForwardReturns, FiniteSetTheorems, WellFoundedInduction, TLAPS

-----------------------------------------------------------------------------
(* The inductive invariant.                                                *)

\* A receipt that may stand for key k: the dates and the benchmark agree with the
\* status, and a computed one measures the horizon.
Good(k, r) ==
    /\ r \in Receipt
    /\ r.status \in Terminal <=> r.computed # 0
    /\ r.status = "COMPUTED" <=> r.exit # 0
    /\ r.benchmark = "value" => r.status = "COMPUTED" /\ r.benchOn = r.exit /\ ~r.retry
    /\ r.retry => r.status = "COMPUTED" /\ r.benchmark = "missing"
    /\ r.status = "COMPUTED" =>
        /\ Cardinality({d \in Trading : SignalDate[k[1]] < d /\ d <= r.exit}) = k[2]
        /\ r.exit <= r.computed
        /\ r.entry \in Trading /\ r.exit \in Trading

\* What a terminal receipt says, its successor says too.
Extends(new, old) ==
    old.status \in Terminal =>
        /\ new.status = old.status
        /\ new.entry = old.entry /\ new.exit = old.exit /\ new.computed = old.computed
        /\ old.benchmark = "value" => new.benchmark = "value" /\ new.benchOn = old.benchOn

Calendar == today \in Days /\ published \in Days /\ published <= today

Table == rows \in [Keys -> Receipt] /\ \A k \in Keys : Good(k, rows[k])

\* A transaction holds its keys alone, and what it has written extends what is committed.
Transactions ==
    /\ uncommitted = [w \in Workers |-> uncommitted[w]]
    /\ \A w \in Workers : DOMAIN uncommitted[w] \subseteq Keys
    /\ \A w \in Workers : \A k \in DOMAIN uncommitted[w] :
            Good(k, uncommitted[w][k]) /\ Extends(uncommitted[w][k], rows[k])
    /\ \A w, v \in Workers : \A k \in DOMAIN uncommitted[w] :
            k \in DOMAIN uncommitted[v] => v = w

Candidates    == [signal : Signals, place : Nat]
Items      == [signal : Signals, place : Nat, stock : SUBSET Horizons,
               retry : SUBSET Horizons,
               facts : UNION {[Range(HorizonsOf[w]) -> Receipt] : w \in Workers}]
Statements == [kind : {"stock", "benchmark", "mark"}, key : Keys, place : Nat, row : Receipt]
Counts     == Keys \X Terminal

LocalStates ==
    [asOf : Days \cup {0}, chosen : SUBSET Candidates, items : SUBSET Items,
     writes : SUBSET Statements, tally : SUBSET Counts, counted : SUBSET Counts]

Batches == batch \in [Workers -> LocalStates]

\* An item asks for horizons of its worker, and the benchmark of a computed receipt
\* whose stock leg is still the one it was read with.
ItemOK(w, x, table) ==
    /\ x.stock \cup x.retry \subseteq Range(HorizonsOf[w])
    /\ \A h \in x.retry : /\ x.facts[h] \in Receipt
                          /\ x.facts[h].status = "COMPUTED"
                          /\ Extends(table[<<x.signal, h>>], x.facts[h])

\* A statement writes a good receipt, or a benchmark over the stock leg it is about.
StatementOK(x, table) ==
    /\ x.kind = "stock" => Good(x.key, x.row)
    /\ x.kind = "benchmark" =>
        /\ table[x.key].status = "COMPUTED"
        /\ x.row.benchmark = "value" => x.row.benchOn = table[x.key].exit /\ ~x.row.retry
        /\ x.row.retry => x.row.benchmark = "missing"

Steps == InTransaction \cup {"idle", "select", "measure", "receipt", "mark", "marked"}

\* Where a worker is, and what it must have at hand there.
Controls ==
    /\ pc \in [Workers -> Steps]
    /\ \A w \in Workers : pc[w] \notin {"idle", "select", "measure"} => batch[w].items # {}
    /\ \A w \in Workers : pc[w] \in {"probe", "insert", "rewrite"} => Writing(w, "stock")

Work ==
    /\ \A w \in Workers : \A x \in batch[w].items : ItemOK(w, x, rows)
    /\ \A w \in Workers : \A x \in batch[w].writes : StatementOK(x, rows)

\* What is tallied is what the transaction sees, what is counted is committed.
Counting ==
    /\ \A w \in Workers : \A c \in batch[w].tally : Seen(w, c[1]).status = c[2]
    /\ CountedIsDurable

ForwardInv ==
    Calendar /\ Table /\ Transactions /\ Batches /\ Controls /\ Work /\ Counting

-----------------------------------------------------------------------------
(* The smallest number, and the n-th of a set of numbers.                  *)

\* Every set of natural numbers that is not empty has a least one.
LEMMA Least ==
  ASSUME NEW T, T \subseteq Nat, T # {}
  PROVE  \E m \in T : \A n \in T : m <= n
<1>1. IsWellFoundedOn(OpToRel(<, Nat), Nat)
  BY NatLessThanWellFounded
<1>2. PICK m \in T : \A n \in T : ~(<<n, m>> \in OpToRel(<, Nat))
  BY <1>1, WFMin
<1>3. \A n \in T : ~(n < m)
  BY <1>2 DEF OpToRel
<1> QED BY <1>3

\* A list that is not empty has a first record.
LEMMA FirstIsThere ==
  ASSUME NEW list, list # {}, \A x \in list : x.place \in Nat
  PROVE  First(list) \in list
<1>1. PICK m \in {x.place : x \in list} : \A n \in {x.place : x \in list} : m <= n
  <2> DEFINE T == {x.place : x \in list}
  <2>1. T \subseteq Nat /\ T # {}
    OBVIOUS
  <2> HIDE DEF T
  <2>2. \E m \in T : \A n \in T : m <= n
    BY <2>1, Least
  <2> QED BY <2>2 DEF T
<1>2. \E x \in list : \A y \in list : x.place <= y.place
  BY <1>1
<1> QED BY <1>2 DEF First

UpTo(A, d) == {e \in A : e <= d}

\* Among the numbers up to L that are in A there is an n-th one.
LEMMA NthIsThere ==
  ASSUME NEW L \in Nat, NEW A, A \subseteq 0 .. L, NEW n \in Nat \ {0},
         n <= Cardinality(A)
  PROVE  \E d \in A : Cardinality(UpTo(A, d)) = n
<1> USE DEF UpTo
<1> DEFINE Below(m) == {e \in A : e < m}
           T == {m \in Nat : n <= Cardinality(UpTo(A, m))}
<1>0. \A e \in A : e \in Nat /\ 0 <= e /\ e <= L
  OBVIOUS
<1>1. IsFiniteSet(A)
  <2>1. IsFiniteSet(0 .. L) /\ A \in SUBSET (0 .. L)
    BY FS_Interval
  <2> QED BY <2>1, FS_Subset
<1>2. \A m \in Nat : /\ IsFiniteSet(UpTo(A, m)) /\ Cardinality(UpTo(A, m)) \in Nat
                     /\ IsFiniteSet(Below(m)) /\ Cardinality(Below(m)) \in Nat
  <2> TAKE m \in Nat
  <2>1. UpTo(A, m) \in SUBSET A /\ Below(m) \in SUBSET A
    OBVIOUS
  <2> HIDE DEF UpTo, Below
  <2> QED BY <1>1, <2>1, FS_Subset, FS_CardinalityType
<1>3. UpTo(A, L) = A
  BY <1>0
<1>4. L \in T
  BY <1>3
<1>5. PICK m \in T : \A k \in T : m <= k
  <2>1. T \subseteq Nat /\ T # {}
    BY <1>4
  <2> HIDE DEF T
  <2> QED BY <2>1, Least
<1>6. m \in Nat /\ n <= Cardinality(UpTo(A, m))
  OBVIOUS
<1>7. Cardinality(Below(m)) < n
  <2>1. CASE m = 0
    <3>1. Below(m) = {}
      <4>1. \A e \in A : ~(e < m)
        BY <1>0, <2>1
      <4> QED BY <4>1
    <3>2. Cardinality(Below(m)) = 0
      BY <3>1, FS_EmptySet
    <3> QED BY <3>2
  <2>2. CASE m # 0
    <3>1. m - 1 \in Nat /\ Below(m) = UpTo(A, m - 1)
      <4>1. m - 1 \in Nat /\ \A e \in A : e < m <=> e <= m - 1
        BY <1>0, <1>6, <2>2
      <4> QED BY <4>1
    <3>2. m - 1 \notin T
      <4>1. ~(m <= m - 1)
        BY <1>6
      <4> HIDE DEF T
      <4> QED BY <1>5, <4>1
    <3>3. ~(n <= Cardinality(UpTo(A, m - 1)))
      BY <3>1, <3>2
    <3>4. Cardinality(Below(m)) = Cardinality(UpTo(A, m - 1))
      BY <3>1
    <3> HIDE DEF UpTo, Below
    <3> QED BY <1>2, <1>6, <3>1, <3>3, <3>4
  <2> QED BY <2>1, <2>2
<1>8. m \in A
  <2>1. SUFFICES ASSUME m \notin A PROVE FALSE
    OBVIOUS
  <2>2. \A e \in A : e <= m <=> e < m
    BY <1>0, <1>6, <2>1
  <2>3. UpTo(A, m) = Below(m)
    BY <2>2
  <2>4. Cardinality(UpTo(A, m)) = Cardinality(Below(m))
    BY <2>3
  <2> HIDE DEF UpTo, Below
  <2> QED BY <1>2, <1>6, <1>7, <2>4
<1>9. Cardinality(UpTo(A, m)) = Cardinality(Below(m)) + 1
  <2>1. UpTo(A, m) = Below(m) \cup {m} /\ m \notin Below(m)
    <3>1. ~(m < m) /\ m <= m /\ \A e \in A : e <= m <=> e < m \/ e = m
      BY <1>0, <1>6
    <3> QED BY <1>8, <3>1
  <2> HIDE DEF UpTo, Below
  <2> QED BY <1>2, <1>6, <2>1, FS_AddElement
<1>10. Cardinality(UpTo(A, m)) = n
  <2> HIDE DEF UpTo, Below
  <2> QED BY <1>2, <1>6, <1>7, <1>9
<1> QED BY <1>8, <1>10

-----------------------------------------------------------------------------
(* The constants.                                                          *)

\* Days are positive numbers, and signals are made on trading days.
LEMMA Dates ==
  /\ LastDay \in Nat /\ \A d \in Days : d \in Nat /\ d # 0 /\ d <= LastDay
  /\ Trading \subseteq Days
  /\ \A s \in Signals : SignalDate[s] \in Trading
<1>1. /\ LastDay \in Nat /\ Trading \subseteq Days
      /\ SignalDate \in [Signals -> Trading]
  BY ForwardAssumption
<1>2. \A s \in Signals : SignalDate[s] \in Trading
  BY <1>1
<1> QED BY <1>1, <1>2 DEF Days

\* A worker's horizons are positive numbers, each with its place.
LEMMA Places ==
  ASSUME NEW w \in Workers, NEW h \in Range(HorizonsOf[w])
  PROVE  /\ h \in Nat \ {0} /\ h \in Horizons
         /\ PlaceOf(w, h) \in Nat /\ Len(HorizonsOf[w]) + PlaceOf(w, h) \in Nat
<1>1. HorizonsOf[w] \in Seq(Nat \ {0})
  BY ForwardAssumption
<1>2. /\ Len(HorizonsOf[w]) \in Nat /\ DOMAIN HorizonsOf[w] = 1 .. Len(HorizonsOf[w])
      /\ \A i \in 1 .. Len(HorizonsOf[w]) : HorizonsOf[w][i] \in Nat \ {0}
  BY <1>1
<1>3. PICK i \in DOMAIN HorizonsOf[w] : HorizonsOf[w][i] = h
  BY DEF Range
<1>4. PlaceOf(w, h) \in DOMAIN HorizonsOf[w]
  BY <1>3 DEF PlaceOf
<1>5. PlaceOf(w, h) \in Nat
  BY <1>2, <1>4
<1> QED BY <1>2, <1>3, <1>5 DEF Horizons

\* The values of a function with a finite domain are finitely many.
LEMMA FiniteRange ==
  ASSUME NEW f, f = [x \in DOMAIN f |-> f[x]], IsFiniteSet(DOMAIN f)
  PROVE  IsFiniteSet(Range(f))
<1>1. f \in Surjection(DOMAIN f, Range(f))
  BY DEF Surjection, Range
<1> QED BY <1>1, FS_Surjection

\* There are finitely many receipts.
LEMMA KeysFinite == IsFiniteSet(Keys)
<1>1. \A w \in Workers : IsFiniteSet(Range(HorizonsOf[w]))
  <2> TAKE w \in Workers
  <2> DEFINE f == HorizonsOf[w]
  <2>1. f \in Seq(Nat \ {0})
    BY ForwardAssumption
  <2>2. Len(f) \in Nat /\ DOMAIN f = 1 .. Len(f) /\ f = [i \in DOMAIN f |-> f[i]]
    BY <2>1
  <2>3. IsFiniteSet(DOMAIN f)
    BY <2>2, FS_Interval
  <2> HIDE DEF f
  <2>4. IsFiniteSet(Range(f))
    BY <2>2, <2>3, FiniteRange
  <2> QED BY <2>4 DEF f
<1>2. IsFiniteSet({Range(HorizonsOf[w]) : w \in Workers})
  <2> DEFINE T == {Range(HorizonsOf[w]) : w \in Workers}
             g == [w \in Workers |-> Range(HorizonsOf[w])]
  <2>1. T = Range(g)
    BY DEF Range
  <2>2. g = [w \in DOMAIN g |-> g[w]] /\ IsFiniteSet(DOMAIN g)
    BY ForwardAssumption
  <2> HIDE DEF g, T
  <2>3. IsFiniteSet(T)
    BY <2>1, <2>2, FiniteRange
  <2> QED BY <2>3 DEF T
<1>3. IsFiniteSet(Horizons)
  BY <1>1, <1>2, FS_UNION DEF Horizons
<1> QED BY <1>3, ForwardAssumption, FS_Product DEF Keys

\* The wall clock starts on the day of the first signal.
LEMMA FirstDay == Min({SignalDate[s] : s \in Signals}) \in Trading
<1> DEFINE T == {SignalDate[s] : s \in Signals}
<1>0. Signals # {}
  BY ForwardAssumption
<1>1. T \subseteq Nat /\ T # {} /\ T \subseteq Trading
  BY <1>0, Dates
<1> HIDE DEF T
<1>2. \E m \in T : \A n \in T : m <= n
  BY <1>1, Least
<1>3. Min(T) \in T
  BY <1>2 DEF Min
<1> QED BY <1>1, <1>3 DEF T

-----------------------------------------------------------------------------
(* What is measured.                                                       *)

\* The n-th bar after the signal is where the candles have at least n of them, and
\* measures n trading days when the candles have no gap.
LEMMA BarIsThere ==
  ASSUME NEW s \in Signals, NEW asOf \in Days \cup {0}, published \in Days,
         NEW n \in Nat \ {0},
         n <= Cardinality({d \in Frame(s, asOf) : d > SignalDate[s]})
  PROVE  LET exit == BarAfter(Frame(s, asOf), s, n)
         IN  /\ exit \in Trading /\ exit \in Days /\ exit <= published
             /\ Cardinality({d \in Trading : SignalDate[s] < d /\ d <= exit}) = n
<1> DEFINE frame == Frame(s, asOf)
           A == {d \in frame : d > SignalDate[s]}
           exit == BarAfter(frame, s, n)
<1>1. /\ LastDay \in Nat /\ \A d \in Trading : d \in Nat /\ d <= LastDay
      /\ SignalDate[s] \in Nat /\ asOf \in Nat /\ published \in Nat
  BY Dates
<1>2. A \subseteq 0 .. LastDay /\ n <= Cardinality(A)
  <2>1. A \subseteq Trading
    BY DEF Frame
  <2>2. Trading \subseteq 0 .. LastDay
    BY <1>1
  <2> QED BY <2>1, <2>2
<1>3. PICK d \in A : Cardinality(UpTo(A, d)) = n
  <2> HIDE DEF A
  <2>1. LastDay \in Nat /\ n \in Nat \ {0}
    BY <1>1
  <2> QED BY <1>2, <2>1, NthIsThere
<1>4. \A x : UpTo(A, x) = {e \in frame : e > SignalDate[s] /\ e <= x}
  BY DEF UpTo
<1>5. d \in frame /\ d > SignalDate[s]
      /\ Cardinality({e \in frame : e > SignalDate[s] /\ e <= d}) = n
  <2> HIDE DEF frame
  <2> QED BY <1>3, <1>4
<1>6. exit \in frame /\ exit > SignalDate[s]
      /\ Cardinality({e \in frame : e > SignalDate[s] /\ e <= exit}) = n
  <2> HIDE DEF frame
  <2> QED BY <1>5 DEF BarAfter
<1>7. exit \in Trading /\ exit <= asOf /\ exit <= published
  <2> HIDE DEF exit
  <2> QED BY <1>6 DEF Frame
<1>8. {e \in frame : e > SignalDate[s] /\ e <= exit}
        = {e \in Trading : SignalDate[s] < e /\ e <= exit}
  <2> HIDE DEF exit
  <2>1. \A e \in Trading : SignalDate[s] < e /\ e <= exit =>
            SignalDate[s] <= e /\ e <= asOf /\ e <= published
    BY <1>1, <1>7
  <2>2. \A e \in Trading : SignalDate[s] < e <=> e > SignalDate[s]
    BY <1>1
  <2> QED BY <2>1, <2>2 DEF Frame
<1>9. exit \in Days
  BY Dates, <1>7
<1> HIDE DEF frame, exit
<1>10. exit = BarAfter(Frame(s, asOf), s, n)
  BY DEF exit, frame
<1> QED BY <1>6, <1>7, <1>8, <1>9, <1>10

\* A measurement is a good receipt, and has no benchmark yet.
LEMMA MeasuredGood ==
  ASSUME Calendar, NEW s \in Signals, NEW h \in Nat \ {0}, NEW asOf \in Days \cup {0},
         NEW outcome
  PROVE  LET r == StockPoint(s, h, asOf, outcome)
         IN  Good(<<s, h>>, r) /\ r.benchmark = "none" /\ ~r.retry
<1> DEFINE k == <<s, h>>
           r == StockPoint(s, h, asOf, outcome)
           frame == Frame(s, asOf)
           Ended == [Absent EXCEPT !.status = "INSUFFICIENT_DATA", !.computed = today]
           Done == [Absent EXCEPT !.status = "COMPUTED", !.computed = today,
                        !.entry = BarAfter(frame, s, 1), !.exit = BarAfter(frame, s, h)]
<1>1. today \in Days /\ today # 0 /\ 0 \in Days \cup {0} /\ published \in Days
  BY Dates DEF Calendar
<1>2. Good(k, Pending) /\ Pending.benchmark = "none" /\ ~Pending.retry
  BY DEF Good, Pending, Absent, Receipt, Terminal
<1>3. Good(k, Ended) /\ Ended.benchmark = "none" /\ ~Ended.retry
  BY <1>1 DEF Good, Absent, Receipt, Terminal
<1>4. ASSUME ~(Cardinality({d \in frame : d > SignalDate[s]}) < h)
      PROVE  Good(k, Done) /\ Done.benchmark = "none" /\ ~Done.retry
  <2> DEFINE exit == BarAfter(frame, s, h)
             entry == BarAfter(frame, s, 1)
             A == {d \in frame : d > SignalDate[s]}
  <2>1. IsFiniteSet(A) /\ Cardinality(A) \in Nat
    <3>1. A \subseteq 1 .. LastDay /\ LastDay \in Nat
      BY Dates DEF Frame, Days
    <3>2. IsFiniteSet(1 .. LastDay) /\ A \in SUBSET (1 .. LastDay)
      BY <3>1, FS_Interval
    <3> HIDE DEF A
    <3> QED BY <3>2, FS_Subset, FS_CardinalityType
  <2>2. h <= Cardinality(A) /\ 1 <= Cardinality(A) /\ 1 \in Nat \ {0}
    <3> HIDE DEF A
    <3>1. ~(Cardinality(A) < h)
      BY <1>4 DEF A
    <3> QED BY <2>1, <3>1
  <2>3. /\ exit \in Trading /\ exit \in Days /\ exit <= published
        /\ Cardinality({d \in Trading : SignalDate[s] < d /\ d <= exit}) = h
    BY Zenon, <1>1, <2>2, BarIsThere
  <2>4. entry \in Trading /\ entry \in Days
    BY Zenon, <1>1, <2>2, BarIsThere
  <2>5. exit <= today /\ exit # 0
    BY <1>1, <2>3, Dates DEF Calendar
  <2> HIDE DEF exit, entry, frame
  <2>6. Done = [Absent EXCEPT !.status = "COMPUTED", !.computed = today,
                    !.entry = entry, !.exit = exit]
    BY DEF exit, entry
  <2> HIDE DEF Done
  <2>7. /\ Done \in Receipt /\ Done.status = "COMPUTED" /\ Done.computed = today
        /\ Done.entry = entry /\ Done.exit = exit /\ Done.benchmark = "none" /\ ~Done.retry
    BY <1>1, <2>3, <2>4, <2>6 DEF Absent, Receipt, Terminal
  <2>8. k[1] = s /\ k[2] = h
    OBVIOUS
  <2>9. Cardinality({d \in Trading : SignalDate[k[1]] < d /\ d <= Done.exit}) = k[2]
    BY Zenon, <2>3, <2>7, <2>8
  <2> HIDE DEF k
  <2> QED BY <1>1, <2>3, <2>4, <2>5, <2>7, <2>9 DEF Good, Terminal
<1>5. r \in {Pending, Ended}
      \/ (r = Done /\ ~(Cardinality({d \in frame : d > SignalDate[s]}) < h))
  <2> HIDE DEF Done, Ended, frame
  <2> DEFINE few == Cardinality({d \in frame : d > SignalDate[s]}) < h
  <2> HIDE DEF few
  <2> DEFINE m == Measured(frame, s, h, asOf)
  <2>1. m = IF frame = {} THEN Pending
            ELSE IF SignalDate[s] \notin frame THEN Ended
            ELSE IF few THEN IF Max(frame) + MissingGrace >= asOf THEN Pending ELSE Ended
            ELSE Done
    BY Zenon DEF Measured, Done, Ended, few
  <2> HIDE DEF m
  <2>3. m \in {Pending, Ended} \/ (m = Done /\ ~few)
    BY <2>1
  <2>2. r \in {Pending, Ended} \/ r = m
    BY Zenon DEF StockPoint, frame, Ended, m
  <2> QED BY Zenon, <2>2, <2>3 DEF few
<1> HIDE DEF Done, Ended, frame, r, k
<1>6. Good(k, r) /\ r.benchmark = "none" /\ ~r.retry
  BY Zenon, <1>2, <1>3, <1>4, <1>5
<1> QED BY <1>6 DEF r, k

\* The benchmark leg leaves the stock leg alone, and is measured over its dates.
LEMMA BenchmarkKeepsStock ==
  ASSUME NEW r \in Receipt, NEW s, NEW asOf, NEW outcome
  PROVE  LET b == WithBenchmark(r, s, asOf, outcome)
         IN  /\ b \in Receipt
             /\ b.status = r.status /\ b.entry = r.entry /\ b.exit = r.exit
             /\ b.computed = r.computed
             /\ r.status # "COMPUTED" => b = r
             /\ r.status = "COMPUTED" =>
                    /\ b.benchmark = "value" => b.benchOn = r.exit /\ ~b.retry
                    /\ b.retry => b.benchmark = "missing"
<1> DEFINE frame == Frame(s, asOf)
           b == WithBenchmark(r, s, asOf, outcome)
           found == outcome # "benchmark" /\ r.entry \in frame /\ r.exit \in frame
           None == [r EXCEPT !.benchmark = "none", !.benchOn = 0, !.retry = FALSE]
           Value == [r EXCEPT !.benchmark = "value", !.benchOn = r.exit, !.retry = FALSE]
           Missing == [r EXCEPT !.benchmark = "missing", !.benchOn = 0, !.retry = TRUE]
           Right(x) ==
             /\ x \in Receipt
             /\ x.status = r.status /\ x.entry = r.entry /\ x.exit = r.exit
             /\ x.computed = r.computed
             /\ r.status # "COMPUTED" => x = r
             /\ r.status = "COMPUTED" =>
                    /\ x.benchmark = "value" => x.benchOn = r.exit /\ ~x.retry
                    /\ x.retry => x.benchmark = "missing"
<1>1. b = IF r.status # "COMPUTED" THEN r
          ELSE IF outcome = "unconfigured" THEN None
          ELSE IF found THEN Value ELSE Missing
  <2>1. CASE found
    BY <2>1 DEF WithBenchmark
  <2>2. CASE ~found
    BY <2>2 DEF WithBenchmark
  <2> QED BY <2>1, <2>2
<1>2. ASSUME r.status # "COMPUTED" PROVE Right(r)
  BY <1>2
<1>3. ASSUME r.status = "COMPUTED" PROVE Right(None) /\ Right(Value) /\ Right(Missing)
  BY <1>3 DEF Receipt
<1> HIDE DEF b, Right, None, Value, Missing, found
<1>4. Right(b)
  BY Zenon, <1>1, <1>2, <1>3
<1> QED BY <1>4 DEF Right, b

\* A stock statement carries a good receipt.
LEMMA StockStatementGood ==
  ASSUME Calendar, NEW s \in Signals, NEW h \in Nat \ {0}, NEW asOf \in Days \cup {0},
         NEW stock, NEW index
  PROVE  Good(<<s, h>>, WithBenchmark(StockPoint(s, h, asOf, stock), s, asOf, index))
<1> DEFINE r == StockPoint(s, h, asOf, stock)
           b == WithBenchmark(r, s, asOf, index)
           k == <<s, h>>
<1>1. Good(k, r) /\ r.benchmark = "none" /\ ~r.retry
  BY Zenon, MeasuredGood
<1>2. r \in Receipt
  BY <1>1 DEF Good
<1> HIDE DEF r, k
<1>3. /\ b \in Receipt
      /\ b.status = r.status /\ b.entry = r.entry /\ b.exit = r.exit
      /\ b.computed = r.computed
      /\ r.status # "COMPUTED" => b = r
      /\ r.status = "COMPUTED" =>
            /\ b.benchmark = "value" => b.benchOn = r.exit /\ ~b.retry
            /\ b.retry => b.benchmark = "missing"
  BY Zenon, <1>2, BenchmarkKeepsStock
<1> HIDE DEF b
<1>4. Good(k, b)
  BY <1>1, <1>3 DEF Good
<1> QED BY <1>4 DEF b, r, k

\* A benchmark-only statement carries a benchmark over the dates of the receipt read.
LEMMA RetriedOK ==
  ASSUME NEW r \in Receipt, r.status = "COMPUTED", NEW s, NEW asOf, NEW outcome
  PROVE  LET b == Retried(r, s, asOf, outcome)
         IN  /\ b \in Receipt
             /\ b.benchmark = "value" => b.benchOn = r.exit /\ ~b.retry
             /\ b.retry => b.benchmark = "missing"
<1> DEFINE computed == [r EXCEPT !.status = "COMPUTED"]
           again == WithBenchmark(computed, s, asOf, outcome)
           soon == asOf - r.computed <= BenchmarkGrace
           b == [again EXCEPT !.retry = @ /\ soon]
<1>1. computed = r
  BY DEF Receipt
<1>2. computed \in Receipt
  BY <1>1
<1> HIDE DEF computed
<1>3. /\ again \in Receipt
      /\ computed.status = "COMPUTED" =>
            /\ again.benchmark = "value" => again.benchOn = computed.exit /\ ~again.retry
            /\ again.retry => again.benchmark = "missing"
  BY Zenon, <1>2, BenchmarkKeepsStock
<1>4. Retried(r, s, asOf, outcome) = b
  BY Zenon DEF Retried, computed
<1> HIDE DEF again, soon
<1>5. /\ b \in Receipt
      /\ b.benchmark = "value" => b.benchOn = r.exit /\ ~b.retry
      /\ b.retry => b.benchmark = "missing"
  BY <1>1, <1>3 DEF Receipt
<1> QED BY <1>4, <1>5

-----------------------------------------------------------------------------
(* Transactions.                                                           *)

\* Extension is reflexive and transitive.
LEMMA ExtendsOrder ==
  /\ \A r : Extends(r, r)
  /\ \A r, q, p : Extends(r, q) /\ Extends(q, p) => Extends(r, p)
  BY DEF Extends

\* What a statement sees is good, and extends what is committed.
LEMMA SeenGood ==
  ASSUME Table, Transactions, NEW w \in Workers, NEW k \in Keys
  PROVE  /\ Good(k, Seen(w, k)) /\ Seen(w, k) \in Receipt
         /\ Extends(Seen(w, k), rows[k])
<1>1. Good(k, Seen(w, k)) /\ Extends(Seen(w, k), rows[k])
  BY ExtendsOrder DEF Seen, Table, Transactions
<1>2. Seen(w, k) \in Receipt
  BY <1>1 DEF Good
<1> QED BY <1>1, <1>2

\* A transaction that writes keys no other holds, each with a good extension of what is
\* committed, stays in order.
LEMMA TransactionWrites ==
  ASSUME Transactions, NEW w \in Workers, NEW f, NEW D \in SUBSET Keys,
         DOMAIN f = DOMAIN uncommitted[w] \cup D,
         uncommitted' = [uncommitted EXCEPT ![w] = f], rows' = rows,
         \A k \in D : Holders(w, k) = {},
         \A k \in DOMAIN f : Good(k, f[k]) /\ Extends(f[k], rows[k])
  PROVE  Transactions'
<1>1. \A v \in Workers : uncommitted'[v] = IF v = w THEN f ELSE uncommitted[v]
  BY DEF Transactions
<1>2. uncommitted' = [v \in Workers |-> uncommitted'[v]]
  BY DEF Transactions
<1>3. \A v \in Workers : DOMAIN uncommitted'[v] \subseteq Keys
  BY <1>1 DEF Transactions
<1>4. \A v \in Workers : \A k \in DOMAIN uncommitted'[v] :
            Good(k, uncommitted'[v][k]) /\ Extends(uncommitted'[v][k], rows'[k])
  BY <1>1 DEF Transactions
<1>5. \A v \in Workers : \A k \in D : k \in DOMAIN uncommitted[v] => v = w
  BY DEF Holders
<1>6. \A u, v \in Workers : \A k \in DOMAIN uncommitted'[u] :
            k \in DOMAIN uncommitted'[v] => v = u
  BY <1>1, <1>5 DEF Transactions
<1> QED BY <1>2, <1>3, <1>4, <1>6 DEF Transactions, Good

\* A transaction that ends, its keys published or not, leaves the others in order.
LEMMA TransactionEnds ==
  ASSUME Transactions, NEW w \in Workers,
         uncommitted' = [uncommitted EXCEPT ![w] = Nothing],
         \A k \in Keys : k \notin DOMAIN uncommitted[w] => Extends(rows[k], rows'[k])
  PROVE  Transactions'
<1>1. \A v \in Workers : uncommitted'[v] = IF v = w THEN Nothing ELSE uncommitted[v]
  BY DEF Transactions
<1>2. uncommitted' = [v \in Workers |-> uncommitted'[v]]
  BY DEF Transactions
<1>3. DOMAIN Nothing = {}
  BY DEF Nothing
<1>4. \A v \in Workers : DOMAIN uncommitted'[v] \subseteq Keys
  BY <1>1, <1>3 DEF Transactions
<1>5. \A v \in Workers : \A k \in DOMAIN uncommitted'[v] :
            Good(k, uncommitted'[v][k]) /\ Extends(uncommitted'[v][k], rows'[k])
  BY <1>1, <1>3, ExtendsOrder DEF Transactions
<1>6. \A u, v \in Workers : \A k \in DOMAIN uncommitted'[u] :
            k \in DOMAIN uncommitted'[v] => v = u
  BY <1>1, <1>3 DEF Transactions
<1> QED BY <1>2, <1>4, <1>5, <1>6 DEF Transactions, Good

\* Two receipts that say the same, whenever they were attempted.
SameFacts(r, q) ==
    /\ r.status = q.status /\ r.entry = q.entry /\ r.exit = q.exit
    /\ r.computed = q.computed /\ r.benchmark = q.benchmark /\ r.benchOn = q.benchOn
    /\ r.retry = q.retry

\* A commit publishes what the transaction sees, and changes no more than the ranks of
\* the attempts.
LEMMA CommitPublishes ==
  ASSUME Table, Transactions, NEW w \in Workers
  PROVE  /\ Committed(w) \in [Keys -> Receipt]
         /\ \A k \in Keys : SameFacts(Committed(w)[k], Seen(w, k))
<1> DEFINE newest == 1 + Max({rows[k].at : k \in Keys})
           all == [k \in Keys |-> IF k \in DOMAIN uncommitted[w]
                                  THEN [uncommitted[w][k] EXCEPT !.at = newest]
                                  ELSE rows[k]]
           times == {all[k].at : k \in Keys} \cup {0}
           rank == [k \in Keys |-> Cardinality({t \in times : t < all[k].at})]
           now == [k \in Keys |-> [all[k] EXCEPT !.at = rank[k]]]
<1>1. Committed(w) = now
  BY Zenon DEF Committed, Ranked
<1>2. IsFiniteSet(times)
  <2> DEFINE at == [k \in Keys |-> all[k].at]
  <2> HIDE DEF all
  <2>1. times = Range(at) \cup {0}
    BY DEF Range
  <2>2. at = [k \in DOMAIN at |-> at[k]] /\ IsFiniteSet(DOMAIN at)
    BY KeysFinite
  <2> HIDE DEF at
  <2>3. IsFiniteSet(Range(at))
    BY <2>2, FiniteRange
  <2> HIDE DEF times
  <2> QED BY <2>1, <2>3, FS_AddElement
<1>3. \A k \in Keys : rank[k] \in Nat
  <2> TAKE k \in Keys
  <2> HIDE DEF times
  <2>1. {t \in times : t < all[k].at} \in SUBSET times
    OBVIOUS
  <2>2. Cardinality({t \in times : t < all[k].at}) \in Nat
    BY <1>2, <2>1, FS_Subset, FS_CardinalityType
  <2> QED BY <2>2
<1>4. \A k \in Keys : /\ now[k] = [Seen(w, k) EXCEPT !.at = rank[k]]
                      /\ Seen(w, k) \in Receipt
  <2> TAKE k \in Keys
  <2>1. Seen(w, k) \in Receipt
    BY SeenGood
  <2> HIDE DEF newest, rank
  <2>2. \A r \in Receipt : \A x : [[r EXCEPT !.at = newest] EXCEPT !.at = x] = [r EXCEPT !.at = x]
    BY DEF Receipt
  <2>3. CASE k \in DOMAIN uncommitted[w]
    BY <2>1, <2>2, <2>3 DEF Seen
  <2>4. CASE k \notin DOMAIN uncommitted[w]
    BY <2>1, <2>4 DEF Seen
  <2> QED BY <2>1, <2>3, <2>4
<1> HIDE DEF rank, times
<1>5. \A k \in Keys : now[k] \in Receipt /\ SameFacts(now[k], Seen(w, k))
  <2> TAKE k \in Keys
  <2> HIDE DEF now
  <2> QED BY <1>3, <1>4 DEF SameFacts, Receipt
<1>6. now \in [Keys -> Receipt]
  <2>1. now = [k \in Keys |-> now[k]]
    BY Zenon
  <2> HIDE DEF now
  <2> QED BY <1>5, <2>1
<1> HIDE DEF now
<1> QED BY <1>1, <1>5, <1>6

\* A receipt that says the same is as good, and extends the same.
LEMMA SameFactsAsGood ==
  ASSUME NEW r \in Receipt, NEW q, SameFacts(r, q)
  PROVE  /\ \A k : Good(k, q) => Good(k, r)
         /\ \A p : Extends(q, p) => Extends(r, p)
         /\ \A p : Extends(p, q) => Extends(p, r)
<1>1. \A k : Good(k, q) => Good(k, r)
  BY DEF SameFacts, Good
<1> QED BY <1>1 DEF SameFacts, Extends

\* What a statement of v sees after the step.
SeenNext(v, k) ==
    IF k \in DOMAIN uncommitted'[v] THEN uncommitted'[v][k] ELSE rows'[k]

\* The effect of a commit on the table.
LEMMA CommitKeeps ==
  ASSUME Table, Transactions, NEW w \in Workers, rows' = Committed(w),
         uncommitted' = [uncommitted EXCEPT ![w] = Nothing]
  PROVE  /\ Table' /\ Transactions'
         /\ \A k \in Keys : /\ Extends(rows'[k], rows[k])
                            /\ rows'[k].status = Seen(w, k).status
                            /\ rows[k].status \in Terminal => rows'[k].status = rows[k].status
         /\ \A v \in Workers : \A k \in Keys :
                Seen(v, k).status \in Terminal => SeenNext(v, k).status = Seen(v, k).status
<1>1. /\ rows' \in [Keys -> Receipt]
      /\ \A k \in Keys : rows'[k] \in Receipt /\ SameFacts(rows'[k], Seen(w, k))
  BY CommitPublishes
<1>2. \A k \in Keys : Good(k, Seen(w, k)) /\ Extends(Seen(w, k), rows[k])
  BY SeenGood
<1>3. \A k \in Keys : Good(k, rows'[k]) /\ Extends(rows'[k], rows[k])
  BY <1>1, <1>2, SameFactsAsGood
<1>4. Table'
  BY <1>1, <1>3 DEF Table, Good
<1>5. \A k \in Keys : k \notin DOMAIN uncommitted[w] => Extends(rows[k], rows'[k])
  <2> TAKE k \in Keys
  <2> HAVE k \notin DOMAIN uncommitted[w]
  <2>1. Seen(w, k) = rows[k]
    BY DEF Seen
  <2> QED BY <1>1, <2>1, ExtendsOrder, SameFactsAsGood
<1>6. Transactions'
  BY <1>5, TransactionEnds
<1>7. \A k \in Keys : /\ rows'[k].status = Seen(w, k).status
                      /\ rows[k].status \in Terminal => rows'[k].status = rows[k].status
  BY <1>1, <1>2 DEF SameFacts, Extends
<1>8. ASSUME NEW v \in Workers, NEW k \in Keys, Seen(v, k).status \in Terminal
      PROVE  SeenNext(v, k).status = Seen(v, k).status
  <2>1. uncommitted'[v] = IF v = w THEN Nothing ELSE uncommitted[v]
    BY DEF Transactions
  <2>2. DOMAIN Nothing = {}
    BY DEF Nothing
  <2>3. CASE v = w
    BY <1>7, <2>1, <2>2, <2>3 DEF SeenNext
  <2>4. CASE v # w /\ k \in DOMAIN uncommitted[v]
    BY <2>1, <2>4 DEF Seen, SeenNext
  <2>5. CASE v # w /\ k \notin DOMAIN uncommitted[v]
    <3>1. Seen(v, k) = rows[k] /\ SeenNext(v, k) = rows'[k]
      BY <2>1, <2>5 DEF Seen, SeenNext
    <3> QED BY <1>7, <1>8, <3>1
  <2> QED BY <2>3, <2>4, <2>5
<1> QED BY <1>3, <1>4, <1>6, <1>7, <1>8

-----------------------------------------------------------------------------
(* The locals of a batch.                                                  *)

\* An item's horizons are keys.
LEMMA ItemKeys ==
  ASSUME NEW w \in Workers, NEW x \in Items, x.stock \cup x.retry \subseteq Range(HorizonsOf[w]),
         NEW h \in x.stock \cup x.retry
  PROVE  <<x.signal, h>> \in Keys /\ h \in Range(HorizonsOf[w])
  BY Places DEF Items, Keys

\* What is right of a table is right of one that extends it.
LEMMA WorkGrows ==
  ASSUME NEW table, NEW next, \A k \in Keys : Extends(next[k], table[k])
  PROVE  /\ \A w \in Workers : \A x \in Items : ItemOK(w, x, table) => ItemOK(w, x, next)
         /\ \A x \in Statements : StatementOK(x, table) => StatementOK(x, next)
<1>1. ASSUME NEW w \in Workers, NEW x \in Items, ItemOK(w, x, table)
      PROVE  ItemOK(w, x, next)
  <2>1. x.stock \cup x.retry \subseteq Range(HorizonsOf[w])
    BY <1>1 DEF ItemOK
  <2>2. \A h \in x.retry : <<x.signal, h>> \in Keys
    BY <2>1, ItemKeys
  <2>3. ASSUME NEW h \in x.retry PROVE Extends(next[<<x.signal, h>>], x.facts[h])
    <3>1. Extends(table[<<x.signal, h>>], x.facts[h])
      BY <1>1 DEF ItemOK
    <3>2. Extends(next[<<x.signal, h>>], table[<<x.signal, h>>])
      BY <2>2
    <3> QED BY <3>1, <3>2, ExtendsOrder
  <2> QED BY <1>1, <2>3 DEF ItemOK
<1>2. ASSUME NEW x \in Statements, StatementOK(x, table) PROVE StatementOK(x, next)
  <2>1. Extends(next[x.key], table[x.key])
    BY DEF Statements
  <2>2. table[x.key].status = "COMPUTED" =>
            next[x.key].status = "COMPUTED" /\ next[x.key].exit = table[x.key].exit
    BY <2>1 DEF Extends, Terminal
  <2> QED BY <1>2, <2>2 DEF StatementOK
<1> QED BY <1>1, <1>2

\* One worker moves to a step with new locals: what is to be shown of them.
LEMMA WorkerMoves ==
  ASSUME Batches, Controls, Work, Counting,
         NEW w \in Workers, NEW b \in LocalStates, NEW step \in Steps,
         batch' = [batch EXCEPT ![w] = b], pc' = [pc EXCEPT ![w] = step],
         \A k \in Keys : Extends(rows'[k], rows[k]),
         \A v \in Workers \ {w} : \A k \in Keys :
            Seen(v, k).status \in Terminal => SeenNext(v, k).status = Seen(v, k).status,
         \A x \in b.items : ItemOK(w, x, rows'),
         \A x \in b.writes : StatementOK(x, rows'),
         \A c \in b.tally : SeenNext(w, c[1]).status = c[2],
         \A c \in b.counted : rows'[c[1]].status = c[2],
         step \notin {"idle", "select", "measure"} => b.items # {},
         step \in {"probe", "insert", "rewrite"} => b.writes # {} /\ First(b.writes).kind = "stock"
  PROVE  Batches' /\ Controls' /\ Work' /\ Counting'
<1>1. /\ \A v \in Workers : batch'[v] = IF v = w THEN b ELSE batch[v]
      /\ \A v \in Workers : pc'[v] = IF v = w THEN step ELSE pc[v]
  BY DEF Batches, Controls
<1>2. Batches'
  BY DEF Batches, LocalStates, Items, Statements, Candidates, Counts
<1>3. Controls'
  <2>1. pc' \in [Workers -> Steps]
    BY DEF Controls
  <2>2. \A v \in Workers : pc'[v] \notin {"idle", "select", "measure"} => batch'[v].items # {}
    BY <1>1 DEF Controls
  <2>3. ASSUME NEW v \in Workers, pc'[v] \in {"probe", "insert", "rewrite"}
        PROVE  Writing(v, "stock")'
    <3>1. CASE v = w
      BY <1>1, <2>3, <3>1 DEF Writing, Current
    <3>2. CASE v # w
      BY <1>1, <2>3, <3>2 DEF Writing, Current, Controls
    <3> QED BY <3>1, <3>2
  <2> QED BY <2>1, <2>2, <2>3 DEF Controls
<1>4. Work'
  <2>1. \A v \in Workers \ {w} : \A x \in batch[v].items : x \in Items /\ ItemOK(v, x, rows')
    BY WorkGrows DEF Work, Batches, LocalStates
  <2>2. \A v \in Workers \ {w} : \A x \in batch[v].writes :
            x \in Statements /\ StatementOK(x, rows')
    BY WorkGrows DEF Work, Batches, LocalStates
  <2>3. \A v \in Workers : \A x \in batch'[v].items : ItemOK(v, x, rows')
    BY <1>1, <2>1
  <2>4. \A v \in Workers : \A x \in batch'[v].writes : StatementOK(x, rows')
    BY <1>1, <2>2
  <2> QED BY <2>3, <2>4 DEF Work, ItemOK, StatementOK, Good
<1>5. Counting'
  <2>1. ASSUME NEW v \in Workers, NEW c \in batch'[v].tally
        PROVE  SeenNext(v, c[1]).status = c[2]
    <3>1. CASE v = w
      BY <1>1, <2>1, <3>1
    <3>2. CASE v # w
      <4>1. c \in batch[v].tally /\ c \in Counts
        BY <1>1, <2>1, <3>2 DEF Batches, LocalStates
      <4>2. c[1] \in Keys /\ c[2] \in Terminal /\ Seen(v, c[1]).status = c[2]
        BY <4>1 DEF Counts, Counting
      <4> QED BY <3>2, <4>2
    <3> QED BY <3>1, <3>2
  <2>2. ASSUME NEW v \in Workers, NEW c \in batch'[v].counted
        PROVE  rows'[c[1]].status = c[2]
    <3>1. CASE v = w
      BY <1>1, <2>2, <3>1
    <3>2. CASE v # w
      <4>1. c \in batch[v].counted /\ c \in Counts
        BY <1>1, <2>2, <3>2 DEF Batches, LocalStates
      <4>2. c[1] \in Keys /\ c[2] \in Terminal /\ rows[c[1]].status = c[2]
        BY <4>1 DEF Counts, Counting, CountedIsDurable
      <4> QED BY <4>2 DEF Extends
    <3> QED BY <3>1, <3>2
  <2> QED BY <2>1, <2>2 DEF Counting, CountedIsDurable, Seen, SeenNext
<1> QED BY <1>2, <1>3, <1>4, <1>5

\* When nothing is written, everyone sees what was there.
LEMMA NothingWritten ==
  ASSUME UNCHANGED <<rows, uncommitted>>, Table, Transactions
  PROVE  /\ \A k \in Keys : Extends(rows'[k], rows[k])
         /\ \A v \in Workers : \A k \in Keys : SeenNext(v, k) = Seen(v, k)
         /\ Table' /\ Transactions'
<1>1. \A k \in Keys : Extends(rows'[k], rows[k])
  BY ExtendsOrder
<1>2. \A v \in Workers : \A k \in Keys : SeenNext(v, k) = Seen(v, k)
  BY DEF Seen, SeenNext
<1>3. Table'
  BY DEF Table, Good
<1>4. Transactions'
  BY DEF Transactions, Good, Extends
<1> QED BY <1>1, <1>2, <1>3, <1>4

\* Locals that are reset are in order.
LEMMA ResetLocals ==
  /\ Locals \in LocalStates
  /\ Locals.items = {} /\ Locals.writes = {} /\ Locals.tally = {} /\ Locals.counted = {}
  BY DEF Locals, LocalStates

-----------------------------------------------------------------------------
(* Every step keeps the invariant.                                         *)

\* A worker moves and writes nothing.
LEMMA QuietMove ==
  ASSUME ForwardInv, NEW w \in Workers, NEW b \in LocalStates, NEW step \in Steps,
         batch' = [batch EXCEPT ![w] = b], pc' = [pc EXCEPT ![w] = step],
         UNCHANGED <<today, published, rows, uncommitted>>,
         \A x \in b.items : ItemOK(w, x, rows),
         \A x \in b.writes : StatementOK(x, rows),
         \A c \in b.tally : c[1] \in Keys /\ Seen(w, c[1]).status = c[2],
         \A c \in b.counted : rows[c[1]].status = c[2],
         step \notin {"idle", "select", "measure"} => b.items # {},
         step \in {"probe", "insert", "rewrite"} => b.writes # {} /\ First(b.writes).kind = "stock"
  PROVE  ForwardInv'
<1>1. Calendar' /\ Table' /\ Transactions'
  BY NothingWritten DEF ForwardInv, Calendar
<1>2. /\ Batches /\ Controls /\ Work /\ Counting /\ rows' = rows
      /\ \A k \in Keys : Extends(rows'[k], rows[k])
      /\ \A v \in Workers : \A k \in Keys : SeenNext(v, k) = Seen(v, k)
  BY NothingWritten DEF ForwardInv
<1>3. \A c \in b.tally : SeenNext(w, c[1]).status = c[2]
  BY <1>2
<1>4. Batches' /\ Controls' /\ Work' /\ Counting'
  BY <1>2, <1>3, WorkerMoves
<1> QED BY <1>1, <1>4 DEF ForwardInv

\* What the invariant says of one worker's locals.
LEMMA LocalsOf ==
  ASSUME ForwardInv, NEW w \in Workers
  PROVE  /\ batch[w] \in LocalStates
         /\ \A x \in batch[w].items : ItemOK(w, x, rows) /\ x \in Items
         /\ \A x \in batch[w].writes : StatementOK(x, rows) /\ x \in Statements
         /\ \A c \in batch[w].tally : c[1] \in Keys /\ c[2] \in Terminal /\ Seen(w, c[1]).status = c[2]
         /\ \A c \in batch[w].counted : rows[c[1]].status = c[2]
         /\ pc[w] \in Steps
         /\ pc[w] \notin {"idle", "select", "measure"} => batch[w].items # {}
  BY DEF ForwardInv, Batches, LocalStates, Work, Counting, CountedIsDurable, Counts, Controls

\* The item being done and the statement of the transaction are those of the worker.
LEMMA AtHand ==
  ASSUME ForwardInv, NEW w \in Workers
  PROVE  /\ batch[w].items # {} =>
                Doing(w) \in batch[w].items /\ Doing(w) \in Items /\ ItemOK(w, Doing(w), rows)
         /\ batch[w].writes # {} =>
                /\ Current(w) \in batch[w].writes /\ Current(w) \in Statements
                /\ StatementOK(Current(w), rows)
<1>1. \A x \in batch[w].items : x.place \in Nat
  BY LocalsOf DEF Items
<1>2. \A x \in batch[w].writes : x.place \in Nat
  BY LocalsOf DEF Statements
<1>3. batch[w].items # {} => Doing(w) \in batch[w].items
  BY <1>1, FirstIsThere DEF Doing
<1>4. batch[w].writes # {} => Current(w) \in batch[w].writes
  BY <1>2, FirstIsThere DEF Current
<1> QED BY <1>3, <1>4, LocalsOf

\* The time passes.
LEMMA CalendarMoves ==
  ASSUME ForwardInv, NextDay \/ Publish
  PROVE  ForwardInv'
<1>1. UNCHANGED <<rows, uncommitted, pc, batch>>
  BY DEF NextDay, Publish
<1>2. Calendar'
  BY Dates DEF NextDay, Publish, Days, Calendar, ForwardInv
<1>3. Table' /\ Transactions'
  BY <1>1, NothingWritten DEF ForwardInv
<1>4. Batches' /\ Controls'
  BY <1>1 DEF ForwardInv, Batches, LocalStates, Controls, Writing, Current
<1>5. Work' /\ Counting'
  BY <1>1 DEF ForwardInv, Work, Counting, CountedIsDurable, Seen, ItemOK, StatementOK
<1> QED BY <1>2, <1>3, <1>4, <1>5 DEF ForwardInv

\* A batch starts with a choice of signals, and ends with nothing.
LEMMA BatchStarts ==
  ASSUME ForwardInv, NEW w \in Workers, StartBatch(w) \/ BatchDone(w)
  PROVE  ForwardInv'
<1>1. CASE BatchDone(w)
  <2>1. /\ batch' = [batch EXCEPT ![w] = Locals] /\ pc' = [pc EXCEPT ![w] = "idle"]
        /\ UNCHANGED <<today, published, rows, uncommitted>>
    BY <1>1 DEF BatchDone, Goto
  <2> QED BY <2>1, ResetLocals, QuietMove DEF Steps
<1>2. ASSUME NEW asOf \in Days, NEW limit \in Limits, Choose(w, asOf, limit) PROVE ForwardInv'
  <2> DEFINE eligible == {s \in Signals : NeedsWork(s, w)}
             Place(s) == Cardinality({t \in eligible : Before(t, s, w)})
             chosen == {[signal |-> s, place |-> Place(s)] : s \in {s \in eligible : Place(s) < limit}}
             b == [Locals EXCEPT !.asOf = asOf, !.chosen = chosen]
  <2>1. \A s \in Signals : Place(s) \in Nat
    <3> TAKE s \in Signals
    <3>1. {t \in eligible : Before(t, s, w)} \in SUBSET Signals
      OBVIOUS
    <3> QED BY <3>1, ForwardAssumption, FS_Subset, FS_CardinalityType
  <2>2. batch' = [batch EXCEPT ![w] = b] /\ pc' = [pc EXCEPT ![w] = "select"]
        /\ UNCHANGED <<today, published, rows, uncommitted>>
    BY <1>2 DEF Choose, Goto
  <2> HIDE DEF Place
  <2>3. chosen \subseteq Candidates
    BY <2>1 DEF Candidates
  <2> HIDE DEF chosen
  <2>4. /\ b \in LocalStates
        /\ b.items = {} /\ b.writes = {} /\ b.tally = {} /\ b.counted = {}
    BY <2>3, ResetLocals DEF LocalStates
  <2> HIDE DEF b
  <2> QED BY <2>2, <2>4, QuietMove DEF Steps
<1> QED BY <1>1, <1>2 DEF StartBatch

\* The items of a batch are what its horizons need now.
LEMMA ReadRowsKeeps ==
  ASSUME ForwardInv, NEW w \in Workers, ReadRows(w)
  PROVE  ForwardInv'
<1> DEFINE items == {x \in {Item(x, w) : x \in batch[w].chosen} : x.stock # {} \/ x.retry # {}}
           b == [batch[w] EXCEPT !.chosen = {}, !.items = items]
<1>1. batch' = [batch EXCEPT ![w] = b] /\ pc' = [pc EXCEPT ![w] = "measure"]
      /\ UNCHANGED <<today, published, rows, uncommitted>>
  BY DEF ReadRows, Goto
<1>2. \A x \in batch[w].chosen : x \in Candidates
  BY LocalsOf DEF LocalStates
<1>3. ASSUME NEW c \in batch[w].chosen
      PROVE  Item(c, w) \in Items /\ ItemOK(w, Item(c, w), rows)
  <2> DEFINE horizons == Range(HorizonsOf[w])
             x == Item(c, w)
  <2>1. c.signal \in Signals /\ c.place \in Nat
    BY <1>2 DEF Candidates
  <2>2. \A h \in horizons : h \in Horizons /\ <<c.signal, h>> \in Keys
    BY <2>1, Places DEF Keys
  <2>3. \A h \in horizons : rows[<<c.signal, h>>] \in Receipt /\ Good(<<c.signal, h>>, rows[<<c.signal, h>>])
    BY <2>2 DEF ForwardInv, Table
  <2>4. /\ x.signal = c.signal /\ x.place = c.place
        /\ x.stock \subseteq horizons /\ x.retry \subseteq horizons
        /\ x.facts = [h \in horizons |-> rows[<<c.signal, h>>]]
        /\ \A h \in x.retry : rows[<<c.signal, h>>].retry
        /\ x = [signal |-> x.signal, place |-> x.place, stock |-> x.stock, retry |-> x.retry,
                facts |-> x.facts]
    BY DEF Item
  <2> HIDE DEF x
  <2>5. x.facts \in [horizons -> Receipt]
    BY <2>3, <2>4
  <2>6. x \in Items
    <3>1. x.facts \in UNION {[Range(HorizonsOf[v]) -> Receipt] : v \in Workers}
      BY <2>5
    <3>2. x.stock \subseteq Horizons /\ x.retry \subseteq Horizons
      BY <2>2, <2>4
    <3> HIDE DEF horizons
    <3> QED BY <2>1, <2>4, <3>1, <3>2 DEF Items
  <2>7. ASSUME NEW h \in x.retry
        PROVE  /\ x.facts[h] = rows[<<x.signal, h>>]
               /\ x.facts[h] \in Receipt /\ x.facts[h].status = "COMPUTED"
    <3>1. h \in horizons /\ x.facts[h] = rows[<<c.signal, h>>] /\ rows[<<c.signal, h>>].retry
      BY <2>4
    <3>2. rows[<<c.signal, h>>] \in Receipt /\ rows[<<c.signal, h>>].status = "COMPUTED"
      BY <2>3, <3>1 DEF Good
    <3> QED BY <2>4, <3>1, <3>2
  <2>8. ItemOK(w, x, rows)
    BY <2>4, <2>7, ExtendsOrder DEF ItemOK
  <2> QED BY <2>6, <2>8 DEF x
<1>4. items \subseteq Items /\ \A x \in items : ItemOK(w, x, rows)
  BY <1>3
<1> HIDE DEF items
<1>5. /\ b \in LocalStates
      /\ b.items = items /\ b.writes = batch[w].writes
      /\ b.tally = batch[w].tally /\ b.counted = batch[w].counted
  BY <1>4, LocalsOf DEF LocalStates
<1> HIDE DEF b
<1> QED BY <1>1, <1>4, <1>5, LocalsOf, QuietMove DEF Steps

\* A worker moves on with its locals as they are.
LEMMA MovesOn ==
  ASSUME ForwardInv, NEW w \in Workers, NEW step \in Steps,
         pc' = [pc EXCEPT ![w] = step],
         UNCHANGED <<today, published, rows, uncommitted, batch>>,
         step \notin {"idle", "select", "measure"} => batch[w].items # {},
         step \in {"probe", "insert", "rewrite"} => Writing(w, "stock")
  PROVE  ForwardInv'
<1>1. batch' = [batch EXCEPT ![w] = batch[w]]
  BY DEF ForwardInv, Batches
<1>2. step \in {"probe", "insert", "rewrite"} =>
            batch[w].writes # {} /\ First(batch[w].writes).kind = "stock"
  BY DEF Writing, Current
<1> QED BY <1>1, <1>2, LocalsOf, QuietMove

\* The measurement of an item makes statements that may be executed.
LEMMA MeasureKeeps ==
  ASSUME ForwardInv, NEW w \in Workers, NEW stock, NEW index, Measure(w, stock, index)
  PROVE  ForwardInv'
<1> DEFINE item == Doing(w)
           asOf == batch[w].asOf
           s == item.signal
           Stock(h) == [kind |-> "stock", key |-> <<s, h>>, place |-> PlaceOf(w, h),
                        row |-> WithBenchmark(StockPoint(s, h, asOf, stock), s, asOf, index)]
           Retry(h) == [kind |-> "benchmark", key |-> <<s, h>>,
                        place |-> Len(HorizonsOf[w]) + PlaceOf(w, h),
                        row |-> Retried(item.facts[h], s, asOf, index)]
           writes == {Stock(h) : h \in item.stock} \cup {Retry(h) : h \in item.retry}
           b == [batch[w] EXCEPT !.writes = writes, !.tally = {}]
<1>1. /\ batch' = [batch EXCEPT ![w] = b] /\ pc' = [pc EXCEPT ![w] = "update"]
      /\ UNCHANGED <<today, published, rows, uncommitted>>
      /\ batch[w].items # {}
  BY DEF Measure, Goto
<1>2. /\ item \in Items /\ ItemOK(w, item, rows) /\ s \in Signals
      /\ asOf \in Days \cup {0} /\ Calendar
  BY <1>1, AtHand, LocalsOf DEF Items, LocalStates, ForwardInv
<1>3. \A h \in item.stock \cup item.retry :
        /\ <<s, h>> \in Keys /\ h \in Nat \ {0}
        /\ PlaceOf(w, h) \in Nat /\ Len(HorizonsOf[w]) + PlaceOf(w, h) \in Nat
  <2> HIDE DEF item
  <2>1. item.stock \cup item.retry \subseteq Range(HorizonsOf[w])
    BY <1>2 DEF ItemOK
  <2> QED BY <1>2, <2>1, ItemKeys, Places
<1>4. ASSUME NEW h \in item.stock PROVE Stock(h) \in Statements /\ StatementOK(Stock(h), rows)
  <2> DEFINE r == WithBenchmark(StockPoint(s, h, asOf, stock), s, asOf, index)
  <2>1. Good(<<s, h>>, r)
    BY Zenon, <1>2, <1>3, StockStatementGood
  <2>2. r \in Receipt
    BY <2>1 DEF Good
  <2> HIDE DEF r
  <2>3. Stock(h) = [kind |-> "stock", key |-> <<s, h>>, place |-> PlaceOf(w, h), row |-> r]
    BY DEF r
  <2> HIDE DEF Stock, item
  <2> QED BY <1>3, <2>1, <2>2, <2>3 DEF Statements, StatementOK
<1>5. ASSUME NEW h \in item.retry PROVE Retry(h) \in Statements /\ StatementOK(Retry(h), rows)
  <2> DEFINE old == item.facts[h]
             r == Retried(old, s, asOf, index)
  <2>1. old \in Receipt /\ old.status = "COMPUTED" /\ Extends(rows[<<s, h>>], old)
    BY <1>2 DEF ItemOK
  <2> HIDE DEF old
  <2>2. /\ r \in Receipt
        /\ r.benchmark = "value" => r.benchOn = old.exit /\ ~r.retry
        /\ r.retry => r.benchmark = "missing"
    BY Zenon, <2>1, RetriedOK
  <2>3. rows[<<s, h>>].status = "COMPUTED" /\ rows[<<s, h>>].exit = old.exit
    BY <2>1 DEF Extends, Terminal
  <2> HIDE DEF r
  <2>4. Retry(h) = [kind |-> "benchmark", key |-> <<s, h>>,
                    place |-> Len(HorizonsOf[w]) + PlaceOf(w, h), row |-> r]
    BY DEF r, old
  <2> HIDE DEF Retry, item
  <2> QED BY <1>3, <2>2, <2>3, <2>4 DEF Statements, StatementOK
<1> HIDE DEF Stock, Retry
<1>6. writes \subseteq Statements /\ \A x \in writes : StatementOK(x, rows)
  BY <1>4, <1>5
<1> HIDE DEF writes, item, asOf
<1>7. /\ b \in LocalStates
      /\ b.items = batch[w].items /\ b.writes = writes
      /\ b.tally = {} /\ b.counted = batch[w].counted
  BY <1>6, LocalsOf DEF LocalStates
<1> HIDE DEF b
<1>8. /\ \A x \in b.items : ItemOK(w, x, rows)
      /\ \A x \in b.writes : StatementOK(x, rows)
      /\ \A c \in b.tally : c[1] \in Keys /\ Seen(w, c[1]).status = c[2]
      /\ \A c \in b.counted : rows[c[1]].status = c[2]
      /\ b.items # {}
  BY <1>1, <1>6, <1>7, LocalsOf
<1>9. "update" \in Steps /\ "update" \notin {"probe", "insert", "rewrite"}
  BY DEF Steps, InTransaction
<1> QED BY <1>1, <1>7, <1>8, <1>9, QuietMove

\* The steps that only change where the worker is.
LEMMA ControlMoves ==
  ASSUME ForwardInv, NEW w \in Workers,
         MeasureFails(w) \/ UpdateNothing(w) \/ InsertConflicts(w)
  PROVE  ForwardInv'
<1>1. CASE MeasureFails(w)
  BY <1>1, MovesOn DEF MeasureFails, Goto, Steps
<1>2. CASE UpdateNothing(w)
  <2>1. batch[w].items # {} /\ Writing(w, "stock")
    BY <1>2, LocalsOf DEF UpdateNothing
  <2> QED BY <1>2, <2>1, MovesOn DEF UpdateNothing, Goto, Steps, InTransaction
<1>3. CASE InsertConflicts(w)
  <2>1. batch[w].items # {} /\ Writing(w, "stock")
    BY <1>3, LocalsOf DEF InsertConflicts, ForwardInv, Controls
  <2> QED BY <1>3, <2>1, MovesOn DEF InsertConflicts, Goto, Steps, InTransaction
<1> QED BY <1>1, <1>2, <1>3

\* The locals when a statement is done.
LEMMA DoneLocals ==
  ASSUME ForwardInv, NEW w \in Workers, NEW r, StatementDone(w, r), batch[w].writes # {}
  PROVE  \E b \in LocalStates :
            /\ batch' = [batch EXCEPT ![w] = b] /\ pc' = [pc EXCEPT ![w] = "update"]
            /\ b.items = batch[w].items /\ b.writes \subseteq batch[w].writes
            /\ b.counted = batch[w].counted
            /\ \A c \in b.tally : c \in batch[w].tally \/ c = <<Current(w).key, r.status>>
<1> DEFINE one == <<Current(w).key, r.status>>
           tally == IF r.status \in Terminal THEN batch[w].tally \cup {one} ELSE batch[w].tally
           b == [batch[w] EXCEPT !.writes = @ \ {Current(w)}, !.tally = tally]
<1>1. batch' = [batch EXCEPT ![w] = b] /\ pc' = [pc EXCEPT ![w] = "update"]
  BY DEF StatementDone, Goto
<1>2. Current(w).key \in Keys
  BY AtHand DEF Statements
<1>3. tally \subseteq Counts /\ \A c \in tally : c \in batch[w].tally \/ c = one
  <2>1. batch[w].tally \subseteq Counts
    BY LocalsOf DEF LocalStates
  <2> QED BY <1>2, <2>1 DEF Counts
<1> HIDE DEF tally, one
<1>4. /\ b \in LocalStates /\ b.items = batch[w].items /\ b.writes \subseteq batch[w].writes
      /\ b.counted = batch[w].counted /\ b.tally = tally
  BY <1>3, LocalsOf DEF LocalStates
<1> HIDE DEF b
<1> QED BY <1>1, <1>3, <1>4 DEF one

\* A statement that finds the receipt finished ends without writing.
LEMMA DoneQuietly ==
  ASSUME ForwardInv, NEW w \in Workers, StatementDone(w, Seen(w, Current(w).key)),
         batch[w].writes # {}, batch[w].items # {},
         UNCHANGED <<today, published, rows, uncommitted>>
  PROVE  ForwardInv'
<1>1. PICK b \in LocalStates :
        /\ batch' = [batch EXCEPT ![w] = b] /\ pc' = [pc EXCEPT ![w] = "update"]
        /\ b.items = batch[w].items /\ b.writes \subseteq batch[w].writes
        /\ b.counted = batch[w].counted
        /\ \A c \in b.tally : c \in batch[w].tally
                              \/ c = <<Current(w).key, Seen(w, Current(w).key).status>>
  BY DoneLocals
<1>2. Current(w).key \in Keys
  BY AtHand DEF Statements
<1>3. \A c \in b.tally : c[1] \in Keys /\ Seen(w, c[1]).status = c[2]
  BY <1>1, <1>2, LocalsOf
<1>4. /\ \A x \in b.items : ItemOK(w, x, rows)
      /\ \A x \in b.writes : StatementOK(x, rows)
      /\ \A c \in b.counted : rows[c[1]].status = c[2]
      /\ b.items # {}
  BY <1>1, LocalsOf
<1>5. "update" \in Steps /\ "update" \notin {"probe", "insert", "rewrite"}
  BY DEF Steps, InTransaction
<1> QED BY <1>1, <1>3, <1>4, <1>5, QuietMove

\* One receipt is written, and extends what the transaction saw.
LEMMA RowWritten ==
  ASSUME Table, Transactions, NEW w \in Workers, NEW k \in Keys, NEW r, Good(k, r),
         Extends(r, Seen(w, k)), Holders(w, k) = {}, Write(w, k, r), rows' = rows
  PROVE  /\ Table' /\ Transactions' /\ SeenNext(w, k) = r
         /\ \A j \in Keys \ {k} : SeenNext(w, j) = Seen(w, j)
         /\ \A v \in Workers \ {w} : \A j \in Keys : SeenNext(v, j) = Seen(v, j)
<1> DEFINE f == [j \in DOMAIN uncommitted[w] \cup {k} |-> IF j = k THEN r ELSE uncommitted[w][j]]
<1>1. uncommitted' = [uncommitted EXCEPT ![w] = f]
  BY DEF Write
<1>2. \A v \in Workers : uncommitted'[v] = IF v = w THEN f ELSE uncommitted[v]
  BY <1>1 DEF Transactions
<1>3. Extends(r, rows[k])
  BY SeenGood, ExtendsOrder
<1>4. \A j \in DOMAIN f : Good(j, f[j]) /\ Extends(f[j], rows[j])
  BY <1>3 DEF Transactions
<1>5. Transactions'
  <2>1. DOMAIN f = DOMAIN uncommitted[w] \cup {k} /\ {k} \in SUBSET Keys
    OBVIOUS
  <2> HIDE DEF f
  <2> QED BY <1>1, <1>4, <2>1, TransactionWrites
<1>6. Table'
  BY DEF Table, Good
<1>7. SeenNext(w, k) = r
  BY <1>2 DEF SeenNext
<1>8. \A j \in Keys \ {k} : SeenNext(w, j) = Seen(w, j)
  BY <1>2 DEF Seen, SeenNext
<1>9. \A v \in Workers \ {w} : \A j \in Keys : SeenNext(v, j) = Seen(v, j)
  BY <1>2 DEF Seen, SeenNext
<1> QED BY <1>5, <1>6, <1>7, <1>8, <1>9

\* A worker writes one receipt and moves.
LEMMA WritingMove ==
  ASSUME ForwardInv, NEW w \in Workers, NEW b \in LocalStates, NEW step \in Steps,
         NEW k \in Keys, NEW r, Good(k, r), Extends(r, Seen(w, k)), Holders(w, k) = {},
         Write(w, k, r), UNCHANGED <<today, published, rows>>,
         batch' = [batch EXCEPT ![w] = b], pc' = [pc EXCEPT ![w] = step],
         \A x \in b.items : ItemOK(w, x, rows),
         \A x \in b.writes : StatementOK(x, rows),
         \A c \in b.tally : c \in batch[w].tally \/ c = <<k, r.status>>,
         \A c \in b.counted : rows[c[1]].status = c[2],
         step \notin {"idle", "select", "measure"} => b.items # {},
         step \notin {"probe", "insert", "rewrite"}
  PROVE  ForwardInv'
<1>1. /\ Calendar /\ Table /\ Transactions /\ Batches /\ Controls /\ Work /\ Counting
      /\ rows' = rows
  BY DEF ForwardInv
<1>2. /\ Table' /\ Transactions' /\ SeenNext(w, k) = r
      /\ \A j \in Keys \ {k} : SeenNext(w, j) = Seen(w, j)
      /\ \A v \in Workers \ {w} : \A j \in Keys : SeenNext(v, j) = Seen(v, j)
  BY <1>1, RowWritten
<1>3. Calendar'
  BY <1>1 DEF Calendar
<1>4. ASSUME NEW c \in b.tally PROVE SeenNext(w, c[1]).status = c[2]
  <2>1. CASE c = <<k, r.status>>
    BY <1>2, <2>1
  <2>2. CASE c \in batch[w].tally
    <3>1. c[1] \in Keys /\ c[2] \in Terminal /\ Seen(w, c[1]).status = c[2]
      BY <2>2, LocalsOf
    <3>2. CASE c[1] = k
      BY <1>2, <3>1, <3>2 DEF Extends
    <3>3. CASE c[1] # k
      BY <1>2, <3>1, <3>3
    <3> QED BY <3>2, <3>3
  <2> QED BY <2>1, <2>2
<1>5. \A j \in Keys : Extends(rows'[j], rows[j])
  BY <1>1, ExtendsOrder
<1>6. \A v \in Workers \ {w} : \A j \in Keys :
        Seen(v, j).status \in Terminal => SeenNext(v, j).status = Seen(v, j).status
  BY <1>2
<1>7. /\ \A x \in b.items : ItemOK(w, x, rows')
      /\ \A x \in b.writes : StatementOK(x, rows')
      /\ \A c \in b.counted : rows'[c[1]].status = c[2]
  BY <1>1
<1>8. Batches' /\ Controls' /\ Work' /\ Counting'
  BY <1>1, <1>4, <1>5, <1>6, <1>7, WorkerMoves
<1> QED BY <1>2, <1>3, <1>8 DEF ForwardInv

\* A stock statement writes its receipt where it saw none that is finished.
LEMMA StockWritten ==
  ASSUME ForwardInv, NEW w \in Workers, Writing(w, "stock"), batch[w].items # {},
         Seen(w, Current(w).key).status \notin Terminal,
         Holders(w, Current(w).key) = {},
         Write(w, Current(w).key, Current(w).row), StatementDone(w, Current(w).row),
         UNCHANGED <<today, published, rows>>
  PROVE  ForwardInv'
<1> DEFINE k == Current(w).key
           r == Current(w).row
<1>1. batch[w].writes # {}
  BY DEF Writing
<1>2. k \in Keys /\ Good(k, r)
  BY <1>1, AtHand DEF Statements, StatementOK, Writing
<1>3. Extends(r, Seen(w, k))
  BY DEF Extends
<1>4. PICK b \in LocalStates :
        /\ batch' = [batch EXCEPT ![w] = b] /\ pc' = [pc EXCEPT ![w] = "update"]
        /\ b.items = batch[w].items /\ b.writes \subseteq batch[w].writes
        /\ b.counted = batch[w].counted
        /\ \A c \in b.tally : c \in batch[w].tally \/ c = <<k, r.status>>
  BY <1>1, DoneLocals
<1>5. /\ \A x \in b.items : ItemOK(w, x, rows)
      /\ \A x \in b.writes : StatementOK(x, rows)
      /\ \A c \in b.counted : rows[c[1]].status = c[2]
      /\ b.items # {}
  BY <1>4, LocalsOf
<1>6. "update" \in Steps /\ "update" \notin {"probe", "insert", "rewrite"}
  BY DEF Steps, InTransaction
<1>7. Holders(w, k) = {} /\ Write(w, k, r)
  OBVIOUS
<1> HIDE DEF k, r
<1> QED BY <1>2, <1>3, <1>4, <1>5, <1>6, <1>7, WritingMove

\* The statements of a measurement.
LEMMA StockStatements ==
  ASSUME ForwardInv, NEW w \in Workers,
         UpdatePending(w) \/ Probe(w) \/ Insert(w) \/ Rewrite(w)
  PROVE  ForwardInv'
<1>1. batch[w].items # {} /\ Writing(w, "stock") /\ batch[w].writes # {}
  BY LocalsOf DEF UpdatePending, Probe, Insert, Rewrite, ForwardInv, Controls, Writing
<1>2. CASE UpdatePending(w)
  BY <1>1, <1>2, StockWritten DEF UpdatePending, Terminal
<1>3. CASE Insert(w)
  BY <1>1, <1>3, StockWritten DEF Insert, Terminal
<1>4. CASE Rewrite(w)
  <2>1. CASE Seen(w, Current(w).key).status = "PENDING"
    BY <1>1, <1>4, <2>1, StockWritten DEF Rewrite, Terminal
  <2>2. CASE Seen(w, Current(w).key).status # "PENDING"
    BY <1>1, <1>4, <2>2, DoneQuietly DEF Rewrite
  <2> QED BY <2>1, <2>2
<1>5. CASE Probe(w)
  <2>1. CASE Seen(w, Current(w).key).status = "ABSENT"
    <3>1. /\ pc' = [pc EXCEPT ![w] = "insert"]
          /\ UNCHANGED <<today, published, rows, uncommitted, batch>>
      BY <1>5, <2>1 DEF Probe, Goto
    <3> QED BY <1>1, <3>1, MovesOn DEF Steps, InTransaction
  <2>2. CASE Seen(w, Current(w).key).status # "ABSENT"
    BY <1>1, <1>5, <2>2, DoneQuietly DEF Probe
  <2> QED BY <2>1, <2>2
<1> QED BY <1>2, <1>3, <1>4, <1>5

\* The locals when a statement that counts nothing is done.
LEMMA StatementLeaves ==
  ASSUME ForwardInv, NEW w \in Workers,
         batch' = [batch EXCEPT ![w].writes = @ \ {Current(w)}]
  PROVE  \E b \in LocalStates :
            /\ batch' = [batch EXCEPT ![w] = b]
            /\ b.items = batch[w].items /\ b.writes \subseteq batch[w].writes
            /\ b.tally = batch[w].tally /\ b.counted = batch[w].counted
<1> DEFINE b == [batch[w] EXCEPT !.writes = @ \ {Current(w)}]
<1>1. batch' = [batch EXCEPT ![w] = b]
  OBVIOUS
<1>2. /\ b \in LocalStates /\ b.items = batch[w].items
      /\ b.writes \subseteq batch[w].writes
      /\ b.tally = batch[w].tally /\ b.counted = batch[w].counted
  BY LocalsOf DEF LocalStates
<1> HIDE DEF b
<1> QED BY <1>1, <1>2

\* A statement that counts nothing, and writes one receipt or none, is done.
LEMMA PlainStatement ==
  ASSUME ForwardInv, NEW w \in Workers, batch[w].writes # {}, batch[w].items # {},
         pc[w] \in {"update", "mark"},
         UNCHANGED <<today, published, rows, pc>>,
         batch' = [batch EXCEPT ![w].writes = @ \ {Current(w)}],
         NEW r,
         \/ UNCHANGED uncommitted
         \/ /\ Good(Current(w).key, r) /\ Extends(r, Seen(w, Current(w).key))
            /\ Holders(w, Current(w).key) = {} /\ Write(w, Current(w).key, r)
  PROVE  ForwardInv'
<1> DEFINE k == Current(w).key
<1>1. PICK b \in LocalStates :
        /\ batch' = [batch EXCEPT ![w] = b]
        /\ b.items = batch[w].items /\ b.writes \subseteq batch[w].writes
        /\ b.tally = batch[w].tally /\ b.counted = batch[w].counted
  BY StatementLeaves
<1>2. /\ \A x \in b.items : ItemOK(w, x, rows)
      /\ \A x \in b.writes : StatementOK(x, rows)
      /\ \A c \in b.counted : rows[c[1]].status = c[2]
      /\ b.items # {}
  BY <1>1, LocalsOf
<1>3. \A c \in b.tally : c[1] \in Keys /\ Seen(w, c[1]).status = c[2]
  BY <1>1, LocalsOf
<1>4. \A c \in b.tally : c \in batch[w].tally \/ c = <<k, r.status>>
  BY <1>1
<1>5. /\ pc[w] \in Steps /\ pc[w] \notin {"probe", "insert", "rewrite"}
      /\ pc' = [pc EXCEPT ![w] = pc[w]]
  BY DEF Steps, InTransaction, ForwardInv, Controls
<1>6. k \in Keys
  BY AtHand DEF Statements
<1>7. CASE UNCHANGED uncommitted
  BY <1>1, <1>2, <1>3, <1>5, <1>7, QuietMove
<1>8. CASE /\ Good(k, r) /\ Extends(r, Seen(w, k))
           /\ Holders(w, k) = {} /\ Write(w, k, r)
  <2> HIDE DEF k
  <2> QED BY <1>1, <1>2, <1>4, <1>5, <1>6, <1>8, WritingMove
<1> QED BY <1>7, <1>8

\* A benchmark is added to a computed receipt that has none.
LEMMA UpdateBenchmarkKeeps ==
  ASSUME ForwardInv, NEW w \in Workers, UpdateBenchmark(w)
  PROVE  ForwardInv'
<1> DEFINE k == Current(w).key
           found == Seen(w, k)
           x == Current(w).row
           match == found.status = "COMPUTED" /\ found.retry /\ found.benchmark # "value"
           r == [found EXCEPT !.benchmark = x.benchmark, !.benchOn = x.benchOn, !.retry = x.retry]
<1>1. /\ batch[w].writes # {} /\ Current(w).kind = "benchmark" /\ pc[w] = "update"
      /\ batch[w].items # {}
      /\ UNCHANGED <<today, published, rows, pc>>
      /\ batch' = [batch EXCEPT ![w].writes = @ \ {Current(w)}]
      /\ IF match THEN Holders(w, k) = {} /\ Write(w, k, r) ELSE UNCHANGED uncommitted
  BY LocalsOf DEF UpdateBenchmark, Writing
<1>2. /\ k \in Keys /\ x \in Receipt /\ rows[k].status = "COMPUTED"
      /\ x.benchmark = "value" => x.benchOn = rows[k].exit /\ ~x.retry
      /\ x.retry => x.benchmark = "missing"
  BY <1>1, AtHand DEF Statements, StatementOK
<1>3. found \in Receipt /\ Good(k, found) /\ Extends(found, rows[k])
  BY <1>2, SeenGood DEF ForwardInv
<1>4. found.exit = rows[k].exit
  BY <1>2, <1>3 DEF Extends, Terminal
<1>5. ASSUME match PROVE Good(k, r) /\ Extends(r, found)
  <2> HIDE DEF found, x, k
  <2>1. /\ r \in Receipt /\ r.status = found.status /\ r.entry = found.entry
        /\ r.exit = found.exit /\ r.computed = found.computed
        /\ r.benchmark = x.benchmark /\ r.benchOn = x.benchOn /\ r.retry = x.retry
    BY <1>2, <1>3 DEF Receipt
  <2> HIDE DEF r
  <2>2. Good(k, r)
    BY <1>2, <1>3, <1>4, <1>5, <2>1 DEF Good
  <2> QED BY <1>5, <2>1, <2>2 DEF Extends
<1>6. \/ UNCHANGED uncommitted
      \/ Good(k, r) /\ Extends(r, found) /\ Holders(w, k) = {} /\ Write(w, k, r)
  <2> HIDE DEF match, found, r, k
  <2> QED BY <1>1, <1>5
<1> HIDE DEF r
<1> QED BY <1>1, <1>6, PlainStatement

\* The receipt of a signal that failed: first the horizons that have no row.
LEMMA ReceiptKeeps ==
  ASSUME ForwardInv, NEW w \in Workers, StartReceipt(w) \/ MarkInsert(w)
  PROVE  ForwardInv'
<1>1. CASE MarkInsert(w)
  <2>1. /\ batch[w].writes # {} /\ batch[w].items # {} /\ pc[w] = "mark"
        /\ UNCHANGED <<today, published, rows, pc>>
        /\ batch' = [batch EXCEPT ![w].writes = @ \ {Current(w)}]
        /\ Holders(w, Current(w).key) = {}
        /\ \/ UNCHANGED uncommitted
           \/ Seen(w, Current(w).key).status = "ABSENT" /\ Write(w, Current(w).key, Pending)
    BY <1>1, LocalsOf DEF MarkInsert, Writing
  <2>2. Good(Current(w).key, Pending)
    BY DEF Good, Pending, Absent, Receipt, Terminal
  <2>3. Seen(w, Current(w).key).status = "ABSENT" => Extends(Pending, Seen(w, Current(w).key))
    BY DEF Extends, Terminal
  <2> QED BY <2>1, <2>2, <2>3, PlainStatement
<1>2. CASE StartReceipt(w)
  <2> DEFINE s == Doing(w).signal
             missing == {h \in Doing(w).stock \cup Doing(w).retry : rows[<<s, h>>].status = "ABSENT"}
             Mark(h) == [kind |-> "mark", key |-> <<s, h>>, place |-> PlaceOf(w, h),
                         row |-> Pending]
             writes == {Mark(h) : h \in missing}
             b == [batch[w] EXCEPT !.writes = writes]
  <2>1. /\ batch' = [batch EXCEPT ![w] = b] /\ pc' = [pc EXCEPT ![w] = "mark"]
        /\ UNCHANGED <<today, published, rows, uncommitted>>
        /\ batch[w].items # {}
    BY <1>2, LocalsOf DEF StartReceipt, Goto
  <2>2. Doing(w) \in Items /\ ItemOK(w, Doing(w), rows)
    BY <2>1, AtHand
  <2>3. \A h \in missing : <<s, h>> \in Keys /\ PlaceOf(w, h) \in Nat
    <3>1. Doing(w).stock \cup Doing(w).retry \subseteq Range(HorizonsOf[w])
      BY <2>2 DEF ItemOK
    <3> QED BY <2>2, <3>1, ItemKeys, Places
  <2>4. Pending \in Receipt
    BY DEF Pending, Absent, Receipt, Terminal
  <2>5. \A h \in missing : Mark(h) \in Statements /\ StatementOK(Mark(h), rows)
    <3> HIDE DEF missing, s
    <3> QED BY <2>3, <2>4 DEF Statements, StatementOK
  <2> HIDE DEF Mark, missing
  <2>6. writes \subseteq Statements /\ \A x \in writes : StatementOK(x, rows)
    BY <2>5
  <2> HIDE DEF writes
  <2>7. /\ b \in LocalStates /\ b.items = batch[w].items /\ b.writes = writes
        /\ b.tally = batch[w].tally /\ b.counted = batch[w].counted
    BY <2>6, LocalsOf DEF LocalStates
  <2> HIDE DEF b
  <2>8. /\ \A x \in b.items : ItemOK(w, x, rows)
        /\ \A x \in b.writes : StatementOK(x, rows)
        /\ \A c \in b.tally : c[1] \in Keys /\ Seen(w, c[1]).status = c[2]
        /\ \A c \in b.counted : rows[c[1]].status = c[2]
        /\ b.items # {}
    BY <2>1, <2>6, <2>7, LocalsOf
  <2>9. "mark" \in Steps /\ "mark" \notin {"probe", "insert", "rewrite"}
    BY DEF Steps
  <2> QED BY <2>1, <2>7, <2>8, <2>9, QuietMove
<1> QED BY <1>1, <1>2

\* Then the rows that are still unresolved are stamped, as they are.
LEMMA MarkUpdateKeeps ==
  ASSUME ForwardInv, NEW w \in Workers, MarkUpdate(w)
  PROVE  ForwardInv'
<1> DEFINE f == [k \in DOMAIN uncommitted[w] \cup Stamped(w) |-> Seen(w, k)]
           b == batch[w]
<1>1. /\ Calendar /\ Table /\ Transactions /\ Batches /\ Controls /\ Work /\ Counting
      /\ rows' = rows
  BY DEF ForwardInv, MarkUpdate
<1>2. /\ uncommitted' = [uncommitted EXCEPT ![w] = f]
      /\ \A k \in Stamped(w) : Holders(w, k) = {}
      /\ batch' = [batch EXCEPT ![w] = b] /\ pc' = [pc EXCEPT ![w] = "marked"]
      /\ batch[w].items # {}
  BY <1>1, LocalsOf DEF MarkUpdate, Goto, Batches
<1>3. Stamped(w) \in SUBSET Keys
  <2>1. Doing(w) \in Items /\ Doing(w).stock \cup Doing(w).retry \subseteq Range(HorizonsOf[w])
    BY <1>2, AtHand DEF ItemOK
  <2>2. \A h \in Doing(w).stock \cup Doing(w).retry : <<Doing(w).signal, h>> \in Keys
    BY <2>1, ItemKeys
  <2> QED BY <2>2 DEF Stamped, Wanted
<1>4. DOMAIN uncommitted[w] \subseteq Keys
  BY <1>1 DEF Transactions
<1>5. \A k \in DOMAIN f : Good(k, f[k]) /\ Extends(f[k], rows[k])
  BY <1>1, <1>3, <1>4, SeenGood
<1>6. Transactions'
  <2>1. DOMAIN f = DOMAIN uncommitted[w] \cup Stamped(w)
    OBVIOUS
  <2> HIDE DEF f
  <2> QED BY <1>1, <1>2, <1>3, <1>5, <2>1, TransactionWrites
<1>7. \A v \in Workers : \A k \in Keys : SeenNext(v, k) = Seen(v, k)
  <2>1. \A v \in Workers : uncommitted'[v] = IF v = w THEN f ELSE uncommitted[v]
    BY <1>1, <1>2 DEF Transactions
  <2> TAKE v \in Workers
  <2> TAKE k \in Keys
  <2>2. CASE v = w
    BY <1>1, <2>1, <2>2 DEF Seen, SeenNext
  <2>3. CASE v # w
    BY <1>1, <2>1, <2>3 DEF Seen, SeenNext
  <2> QED BY <2>2, <2>3
<1>8. Table' /\ Calendar'
  BY <1>1 DEF Table, Good, Calendar, MarkUpdate
<1>9. /\ b \in LocalStates
      /\ \A x \in b.items : ItemOK(w, x, rows')
      /\ \A x \in b.writes : StatementOK(x, rows')
      /\ \A c \in b.tally : SeenNext(w, c[1]).status = c[2]
      /\ \A c \in b.counted : rows'[c[1]].status = c[2]
  BY <1>1, <1>7, LocalsOf
<1>10. \A k \in Keys : Extends(rows'[k], rows[k])
  BY <1>1, ExtendsOrder
<1>11. "marked" \in Steps /\ "marked" \notin {"probe", "insert", "rewrite"}
  BY DEF Steps
<1> HIDE DEF b, f
<1>12. b.items # {}
  BY <1>2 DEF b
<1>13. \A v \in Workers \ {w} : \A k \in Keys :
        Seen(v, k).status \in Terminal => SeenNext(v, k).status = Seen(v, k).status
  BY <1>7
<1>14. Batches' /\ Controls' /\ Work' /\ Counting'
  BY <1>1, <1>2, <1>9, <1>10, <1>11, <1>12, <1>13, WorkerMoves
<1> QED BY <1>6, <1>8, <1>14 DEF ForwardInv

\* A worker's transaction is committed, and its item is done.
LEMMA CommitMove ==
  ASSUME ForwardInv, NEW w \in Workers, NEW b \in LocalStates,
         rows' = Committed(w), uncommitted' = [uncommitted EXCEPT ![w] = Nothing],
         batch' = [batch EXCEPT ![w] = b], pc' = [pc EXCEPT ![w] = "measure"],
         UNCHANGED <<today, published>>,
         b.items \subseteq batch[w].items, b.writes = batch[w].writes,
         b.tally \subseteq batch[w].tally,
         b.counted \subseteq batch[w].counted \cup batch[w].tally
  PROVE  ForwardInv'
<1>1. Calendar /\ Table /\ Transactions /\ Batches /\ Controls /\ Work /\ Counting
  BY DEF ForwardInv
<1>2. /\ Table' /\ Transactions'
      /\ \A k \in Keys : /\ Extends(rows'[k], rows[k])
                         /\ rows'[k].status = Seen(w, k).status
                         /\ rows[k].status \in Terminal => rows'[k].status = rows[k].status
      /\ \A v \in Workers : \A k \in Keys :
            Seen(v, k).status \in Terminal => SeenNext(v, k).status = Seen(v, k).status
  BY <1>1, CommitKeeps
<1>3. Calendar'
  BY <1>1 DEF Calendar
<1>4. \A x \in b.items : ItemOK(w, x, rows')
  BY <1>2, WorkGrows, LocalsOf
<1>5. \A x \in b.writes : StatementOK(x, rows')
  BY <1>2, WorkGrows, LocalsOf
<1>6. \A c \in b.tally : SeenNext(w, c[1]).status = c[2]
  BY <1>2, LocalsOf
<1>7. ASSUME NEW c \in b.counted PROVE rows'[c[1]].status = c[2]
  <2>1. CASE c \in batch[w].tally
    BY <1>2, <2>1, LocalsOf
  <2>2. CASE c \in batch[w].counted
    <3>1. c[1] \in Keys /\ c[2] \in Terminal
      BY <2>2, LocalsOf DEF LocalStates, Counts
    <3> QED BY <1>2, <2>2, <3>1, LocalsOf
  <2> QED BY <2>1, <2>2
<1>8. "measure" \in Steps /\ "measure" \in {"idle", "select", "measure"}
      /\ "measure" \notin {"probe", "insert", "rewrite"}
  BY DEF Steps
<1>9. Batches' /\ Controls' /\ Work' /\ Counting'
  BY <1>1, <1>2, <1>4, <1>5, <1>6, <1>7, <1>8, WorkerMoves
<1> QED BY <1>2, <1>3, <1>9 DEF ForwardInv

\* The commits: what is tallied is counted only now.
LEMMA CommitsKeep ==
  ASSUME ForwardInv, NEW w \in Workers, Commit(w) \/ MarkCommit(w)
  PROVE  ForwardInv'
<1>1. CASE Commit(w)
  <2> DEFINE b == [batch[w] EXCEPT !.items = @ \ {Doing(w)}, !.tally = {},
                                   !.counted = @ \cup batch[w].tally]
  <2>1. /\ rows' = Committed(w) /\ uncommitted' = [uncommitted EXCEPT ![w] = Nothing]
        /\ batch' = [batch EXCEPT ![w] = b] /\ pc' = [pc EXCEPT ![w] = "measure"]
        /\ UNCHANGED <<today, published>>
    BY <1>1 DEF Commit, Goto
  <2>2. /\ b \in LocalStates
        /\ b.items \subseteq batch[w].items /\ b.writes = batch[w].writes
        /\ b.tally \subseteq batch[w].tally
        /\ b.counted \subseteq batch[w].counted \cup batch[w].tally
    BY LocalsOf DEF LocalStates
  <2> HIDE DEF b
  <2> QED BY <2>1, <2>2, CommitMove
<1>2. CASE MarkCommit(w)
  <2> DEFINE b == [batch[w] EXCEPT !.items = @ \ {Doing(w)}]
  <2>1. /\ rows' = Committed(w) /\ uncommitted' = [uncommitted EXCEPT ![w] = Nothing]
        /\ batch' = [batch EXCEPT ![w] = b] /\ pc' = [pc EXCEPT ![w] = "measure"]
        /\ UNCHANGED <<today, published>>
    BY <1>2 DEF MarkCommit, Goto
  <2>2. /\ b \in LocalStates
        /\ b.items \subseteq batch[w].items /\ b.writes = batch[w].writes
        /\ b.tally \subseteq batch[w].tally
        /\ b.counted \subseteq batch[w].counted \cup batch[w].tally
    BY LocalsOf DEF LocalStates
  <2> HIDE DEF b
  <2> QED BY <2>1, <2>2, CommitMove
<1> QED BY <1>1, <1>2

\* A transaction is given up: what it wrote and tallied is gone.
LEMMA AbortMove ==
  ASSUME ForwardInv, NEW w \in Workers, NEW b \in LocalStates, NEW step \in Steps,
         uncommitted' = [uncommitted EXCEPT ![w] = Nothing],
         UNCHANGED <<today, published, rows>>,
         batch' = [batch EXCEPT ![w] = b], pc' = [pc EXCEPT ![w] = step],
         b.items \subseteq batch[w].items, b.writes = {}, b.tally = {},
         b.counted \subseteq batch[w].counted,
         step \notin {"idle", "select", "measure"} => b.items # {},
         step \notin {"probe", "insert", "rewrite"}
  PROVE  ForwardInv'
<1>1. /\ Calendar /\ Table /\ Transactions /\ Batches /\ Controls /\ Work /\ Counting
      /\ rows' = rows
  BY DEF ForwardInv
<1>2. \A k \in Keys : Extends(rows[k], rows'[k]) /\ Extends(rows'[k], rows[k])
  BY <1>1, ExtendsOrder
<1>3. Transactions'
  BY <1>1, <1>2, TransactionEnds
<1>4. Table' /\ Calendar'
  BY <1>1 DEF Table, Good, Calendar
<1>5. \A v \in Workers \ {w} : \A k \in Keys :
        Seen(v, k).status \in Terminal => SeenNext(v, k).status = Seen(v, k).status
  BY <1>1 DEF Seen, SeenNext, Transactions
<1>6. /\ \A x \in b.items : ItemOK(w, x, rows')
      /\ \A x \in b.writes : StatementOK(x, rows')
      /\ \A c \in b.tally : SeenNext(w, c[1]).status = c[2]
      /\ \A c \in b.counted : rows'[c[1]].status = c[2]
  BY <1>1, LocalsOf
<1>7. Batches' /\ Controls' /\ Work' /\ Counting'
  BY <1>1, <1>2, <1>5, <1>6, WorkerMoves
<1> QED BY <1>3, <1>4, <1>7 DEF ForwardInv

\* The failures: a rolled back signal gets its receipt, a stopped batch ends.
LEMMA FailuresKeep ==
  ASSUME ForwardInv, NEW w \in Workers,
         TransactionFails(w) \/ ReceiptFails(w) \/ DeadlockVictim(w) \/ Kill(w)
  PROVE  ForwardInv'
<1>1. ASSUME Rollback(w), pc[w] \in InTransaction PROVE ForwardInv'
  <2> DEFINE b == [batch[w] EXCEPT !.writes = {}, !.tally = {}]
  <2>1. /\ uncommitted' = [uncommitted EXCEPT ![w] = Nothing]
        /\ UNCHANGED <<today, published, rows>>
        /\ batch' = [batch EXCEPT ![w] = b] /\ pc' = [pc EXCEPT ![w] = "receipt"]
    BY <1>1 DEF Rollback, Goto
  <2>2. /\ b \in LocalStates
        /\ b.items = batch[w].items /\ b.writes = {} /\ b.tally = {}
        /\ b.counted = batch[w].counted
    BY LocalsOf DEF LocalStates
  <2>3. batch[w].items # {}
    BY <1>1, LocalsOf DEF InTransaction
  <2>4. "receipt" \in Steps /\ "receipt" \notin {"probe", "insert", "rewrite"}
    BY DEF Steps
  <2> HIDE DEF b
  <2> QED BY <2>1, <2>2, <2>3, <2>4, AbortMove
<1>2. ASSUME BatchStops(w) PROVE ForwardInv'
  <2>1. /\ uncommitted' = [uncommitted EXCEPT ![w] = Nothing]
        /\ UNCHANGED <<today, published, rows>>
        /\ batch' = [batch EXCEPT ![w] = Locals] /\ pc' = [pc EXCEPT ![w] = "idle"]
    BY <1>2 DEF BatchStops, Goto
  <2>2. "idle" \in Steps /\ "idle" \notin {"probe", "insert", "rewrite"}
    BY DEF Steps
  <2> QED BY <2>1, <2>2, ResetLocals, AbortMove
<1> QED BY <1>1, <1>2 DEF TransactionFails, ReceiptFails, DeadlockVictim, Kill

\* The invariant holds at the start.
LEMMA StartsInOrder == Init => ForwardInv
<1> SUFFICES ASSUME Init PROVE ForwardInv
  OBVIOUS
<1>1. Calendar
  <2>1. today = Min({SignalDate[s] : s \in Signals}) /\ published = today
    BY DEF Init
  <2>2. today \in Trading
    BY <2>1, FirstDay
  <2>3. today \in Days /\ today \in Nat
    BY <2>2, Dates
  <2> QED BY <2>1, <2>3 DEF Calendar
<1>2. rows = [k \in Keys |-> Absent]
  BY DEF Init
<1>3. \A k \in Keys : Absent \in Receipt /\ Good(k, Absent)
  BY DEF Good, Absent, Receipt, Terminal
<1>4. Table
  BY <1>2, <1>3 DEF Table
<1>5. uncommitted = [w \in Workers |-> Nothing] /\ DOMAIN Nothing = {}
  BY DEF Init, Nothing
<1>6. Transactions
  BY <1>5 DEF Transactions
<1>7. batch = [w \in Workers |-> Locals] /\ pc = [w \in Workers |-> "idle"]
  BY DEF Init
<1>8. Batches
  BY <1>7, ResetLocals DEF Batches
<1>9. Controls
  BY <1>7 DEF Controls, Steps
<1>10. Work /\ Counting
  BY <1>7, ResetLocals DEF Work, Counting, CountedIsDurable
<1> QED BY <1>1, <1>4, <1>6, <1>8, <1>9, <1>10 DEF ForwardInv

\* Every step keeps the invariant.
LEMMA StepsKeepOrder == ForwardInv /\ [Next]_vars => ForwardInv'
<1> SUFFICES ASSUME ForwardInv, [Next]_vars PROVE ForwardInv'
  OBVIOUS
<1>1. CASE NextDay \/ Publish
  BY <1>1, CalendarMoves
<1>2. ASSUME NEW w \in Workers, StartBatch(w) PROVE ForwardInv'
  BY <1>2, BatchStarts
<1>3. ASSUME NEW w \in Workers, Progress(w) PROVE ForwardInv'
  <2>1. CASE ReadRows(w)
    BY <2>1, ReadRowsKeeps
  <2>2. CASE BatchDone(w)
    BY <2>2, BatchStarts
  <2>3. CASE MeasureFails(w) \/ UpdateNothing(w) \/ InsertConflicts(w)
    BY <2>3, ControlMoves
  <2>4. ASSUME NEW stock, NEW index, Measure(w, stock, index) PROVE ForwardInv'
    BY <2>4, MeasureKeeps
  <2>5. CASE UpdatePending(w) \/ Probe(w) \/ Insert(w) \/ Rewrite(w)
    BY <2>5, StockStatements
  <2>6. CASE UpdateBenchmark(w)
    BY <2>6, UpdateBenchmarkKeeps
  <2>7. CASE Commit(w) \/ MarkCommit(w)
    BY <2>7, CommitsKeep
  <2>8. CASE StartReceipt(w) \/ MarkInsert(w)
    BY <2>8, ReceiptKeeps
  <2>9. CASE MarkUpdate(w)
    BY <2>9, MarkUpdateKeeps
  <2>10. CASE TransactionFails(w) \/ ReceiptFails(w) \/ DeadlockVictim(w)
    BY <2>10, FailuresKeep
  <2> QED BY <1>3, <2>1, <2>2, <2>3, <2>4, <2>5, <2>6, <2>7, <2>8, <2>9, <2>10 DEF Progress
<1>4. ASSUME NEW w \in Workers, Kill(w) PROVE ForwardInv'
  BY <1>4, FailuresKeep
<1>5. CASE UNCHANGED vars
  <2>1. UNCHANGED <<today, published, rows, uncommitted, pc, batch>>
    BY <1>5 DEF vars
  <2>2. Calendar' /\ Table' /\ Transactions'
    BY <2>1, NothingWritten DEF ForwardInv, Calendar
  <2>3. Batches' /\ Controls'
    BY <2>1 DEF ForwardInv, Batches, LocalStates, Controls, Writing, Current
  <2>4. Work' /\ Counting'
    BY <2>1 DEF ForwardInv, Work, Counting, CountedIsDurable, Seen, ItemOK, StatementOK
  <2> QED BY <2>2, <2>3, <2>4 DEF ForwardInv
<1> QED BY <1>1, <1>2, <1>3, <1>4, <1>5 DEF Next

-----------------------------------------------------------------------------
(* The theorems.                                                           *)

\* The inductive invariant: receipts, open transactions and batches stay in order.
THEOREM ForwardInvariant == Spec => []ForwardInv
  BY StartsInOrder, StepsKeepOrder, PTL DEF Spec

\* Every variable keeps its type, and the dates of a receipt agree with its status.
THEOREM TypeCorrect == Spec => []TypeOK
<1>1. ForwardInv => TypeOK
  BY DEF ForwardInv, Calendar, Table, Transactions, Controls, Steps, Good, TypeOK
<1> QED BY <1>1, ForwardInvariant, PTL

\* A benchmark is attached only to a computed stock leg and over that leg's own dates,
\* whatever a concurrent batch did to the receipt in between.
THEOREM BenchmarksAreAligned == Spec => []BenchmarkAligned
<1>1. ForwardInv => BenchmarkAligned
  BY DEF ForwardInv, Table, Good, BenchmarkAligned
<1> QED BY <1>1, ForwardInvariant, PTL

\* A computed receipt measures the horizon it was asked for, on bars that existed when
\* it was written.
THEOREM ExitsAreTheHorizon == Spec => []ExitIsTheHorizon
<1>1. ForwardInv => ExitIsTheHorizon
  BY DEF ForwardInv, Table, Good, ExitIsTheHorizon
<1> QED BY <1>1, ForwardInvariant, PTL

\* What the summary of a batch counts is committed with the status counted, however
\* the batch ends.
THEOREM CountsAreDurable == Spec => []CountedIsDurable
<1>1. ForwardInv => CountedIsDurable
  BY DEF ForwardInv, Counting
<1> QED BY <1>1, ForwardInvariant, PTL

\* A completed measurement never changes: the receipts change only in a commit, and a
\* commit extends them.
THEOREM TerminalReceiptsAreFacts == Spec => TerminalImmutable
<1> DEFINE Kept == \A k \in Keys : rows[k].status \in Terminal =>
                /\ rows'[k].status = rows[k].status
                /\ rows'[k].entry = rows[k].entry /\ rows'[k].exit = rows[k].exit
                /\ rows'[k].computed = rows[k].computed
                /\ rows[k].benchmark = "value" =>
                        rows'[k].benchmark = "value" /\ rows'[k].benchOn = rows[k].benchOn
<1>1. ForwardInv /\ [Next]_vars => Kept
  <2> SUFFICES ASSUME ForwardInv, [Next]_vars PROVE \A k \in Keys : Extends(rows'[k], rows[k])
    BY DEF Extends
  <2>1. CASE rows' = rows
    BY <2>1, ExtendsOrder
  <2>2. ASSUME NEW w \in Workers, Commit(w) \/ MarkCommit(w)
        PROVE  \A k \in Keys : Extends(rows'[k], rows[k])
    <3>1. rows' = Committed(w) /\ uncommitted' = [uncommitted EXCEPT ![w] = Nothing]
      BY <2>2 DEF Commit, MarkCommit
    <3> QED BY <3>1, CommitKeeps DEF ForwardInv
  <2>3. rows' = rows \/ \E w \in Workers : Commit(w) \/ MarkCommit(w)
    BY DEF Next, vars, NextDay, Publish, StartBatch, Choose, Progress, Kill, BatchStops,
       ReadRows, BatchDone, MeasureFails, Measure, UpdatePending, UpdateNothing, Probe,
       Insert, InsertConflicts, Rewrite, UpdateBenchmark, TransactionFails, Rollback,
       StartReceipt, MarkInsert, MarkUpdate, ReceiptFails, DeadlockVictim
  <2> QED BY <2>1, <2>2, <2>3
<1>2. ForwardInv /\ [Next]_vars => [Kept]_vars
  BY <1>1
<1> QED BY <1>2, ForwardInvariant, PTL DEF Spec, TerminalImmutable
=============================================================================
