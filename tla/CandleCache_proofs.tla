------------------------ MODULE CandleCache_proofs --------------------------
(***************************************************************************)
(* Machine-checked theorems about CandleCache, for any number of clients,  *)
(* any calendar, any set of bars and any values of the tolerances.         *)
(***************************************************************************)
EXTENDS CandleCache, TLAPS

-----------------------------------------------------------------------------
(* Lemmas about frames.                                                    *)

\* Days, the undated day and the horizon can be compared.
LEMMA DaysAreIntegers == Days \subseteq Int /\ Undated \in Int /\ Horizon \in Int
  BY CandleAssumption DEF Days, Undated

\* A bar with a day, or without a date, is a row.
LEMMA RowType ==
  ASSUME NEW d \in Days \cup {Undated}, NEW b \in Bars
  PROVE  [day |-> d, bar |-> b] \in Row
  BY DEF Row

\* The bounds of any set of rows are days or Undated, and a dated bound is one
\* of the rows' days, before (after) all the others.
LEMMA BoundsType ==
  ASSUME NEW rows
  PROVE  /\ First(rows) \in Days \cup {Undated}
         /\ Last(rows) \in Days \cup {Undated}
         /\ First(rows) # Undated => IsFirst(rows, First(rows))
         /\ Last(rows) # Undated => IsLast(rows, Last(rows))
<1>1. /\ First(rows) \in Days \cup {Undated}
      /\ First(rows) # Undated => IsFirst(rows, First(rows))
  <2>1. CASE \E d \in Days : IsFirst(rows, d)
    BY <2>1 DEF First
  <2>2. CASE ~ \E d \in Days : IsFirst(rows, d)
    BY <2>2 DEF First
  <2> QED BY <2>1, <2>2
<1>2. /\ Last(rows) \in Days \cup {Undated}
      /\ Last(rows) # Undated => IsLast(rows, Last(rows))
  <2>1. CASE \E d \in Days : IsLast(rows, d)
    BY <2>1 DEF Last
  <2>2. CASE ~ \E d \in Days : IsLast(rows, d)
    BY <2>2 DEF Last
  <2> QED BY <2>1, <2>2
<1> QED BY <1>1, <1>2

\* Merging a download into a frame (merge_candles) gives a frame.
LEMMA OverlayType ==
  ASSUME NEW rows \in SUBSET Row, NEW from, NEW to, NEW answer \in SUBSET Row
  PROVE  Overlay(rows, from, to, answer) \in SUBSET Row
  BY DEF Overlay

\* A window of a frame is a frame.
LEMMA SliceType ==
  ASSUME NEW rows \in SUBSET Row, NEW from, NEW to
  PROVE  Slice(rows, from, to) \in SUBSET Row
  BY DEF Slice

\* What a repair makes of a refetch's answer is a set of rows.
LEMMA RefetchedType ==
  ASSUME NEW rows \in SUBSET Row, NEW answer \in SUBSET Row, NEW r
  PROVE  Refetched(rows, r, answer) \in SUBSET Row
  BY DEF Refetched

\* The offline part of a repair gives a frame.
LEMMA OfflineFixedType ==
  ASSUME NEW rows \in SUBSET Row, NEW day
  PROVE  OfflineFixed(rows, day) \in SUBSET Row
  BY DEF OfflineFixed, KeepHighestVolume, InvalidRows, ImpossibleRows

\* Validation reports only known codes.
LEMMA FindingsType ==
  ASSUME NEW rows, NEW day
  PROVE  Findings(rows, day) \in SUBSET Codes
  BY DEF Findings, Codes, FatalCodes

\* First-bar evidence stays well-typed when an answer is recorded, and tells a day or nothing.
LEMMA EvidenceType ==
  /\ NoEvidence \in Evidence
  /\ \A ev \in Evidence : \A start, day \in Days : \A answer :
        /\ \A heard \in Days \cup {Undated} :
              RecordedEvidence(ev, start, answer, heard, day) \in Evidence
        /\ VendorEarliestFor(ev, start, day) \in Days \cup {Undated}
<1>1. NoEvidence \in Evidence
  BY DEF NoEvidence, Evidence, Undated
<1>2. ASSUME NEW ev \in Evidence, NEW start \in Days, NEW day \in Days, NEW answer,
             NEW heard \in Days \cup {Undated}
      PROVE  /\ RecordedEvidence(ev, start, answer, heard, day) \in Evidence
             /\ VendorEarliestFor(ev, start, day) \in Days \cup {Undated}
  <2>1. First(answer) \in Days \cup {Undated}
    BY BoundsType
  <2>2. RecordedEvidence(ev, start, answer, heard, day) \in Evidence
    BY <1>1, <1>2, <2>1 DEF RecordedEvidence, Evidence
  <2>3. VendorEarliestFor(ev, start, day) \in Days \cup {Undated}
    BY <1>2 DEF VendorEarliestFor, Evidence
  <2> QED BY <2>2, <2>3
<1> QED BY <1>1, <1>2

\* A repair plans refetches of windows of days.
LEMMA RefetchPlanType ==
  ASSUME NEW rows, NEW start \in Days, NEW day \in Days, NEW stale \in BOOLEAN
  PROVE  RefetchPlan(rows, start, day, stale) \in SUBSET Refetch
<1> DEFINE bad == ImpossibleRows(rows)
           full == [full |-> TRUE, from |-> start, to |-> day]
           span(lo, hi) == [full |-> FALSE, from |-> lo, to |-> hi]
<1>1. /\ First(rows) \in Int /\ Last(rows) \in Int
      /\ First(bad) \in Int /\ Last(bad) \in Int
      /\ start \in Int /\ day \in Int
  BY BoundsType, DaysAreIntegers
<1>2. \A w \in Gaps(rows) : w.from \in Int /\ w.to \in Int
  BY DaysAreIntegers DEF Gaps, Window
<1>3. full \in Refetch /\ \A lo, hi \in Int : span(lo, hi) \in Refetch
  BY <1>1 DEF Refetch
<1> HIDE DEF full, span, bad
<1>4. RefetchPlan(rows, start, day, stale) \subseteq
        {full} \cup {span(First(rows), day)} \cup {span(First(bad), Last(bad))}
        \cup {span(Last(rows) + 1, day)} \cup {span(w.from, w.to) : w \in Gaps(rows)}
  BY Zenon DEF RefetchPlan, full, span, bad
<1>5. Last(rows) + 1 \in Int
  BY <1>1
<1> QED BY <1>1, <1>2, <1>3, <1>4, <1>5

-----------------------------------------------------------------------------
(* Type correctness.                                                       *)

\* A client between operations has a well-typed record.
LEMMA IdleType == Idle \in Op
<1>1. 1 \in Days
  BY CandleAssumption DEF Days
<1> QED BY <1>1 DEF Idle, Op, Undated

\* Reading a parquet gives a set of rows.
LEMMA FileRowsType == \A f \in Files : FileRows(f) \in SUBSET Row
  BY DEF Files, FileRows

\* What the vendor may answer is a frame.
LEMMA AnswersType ==
  ASSUME TypeOK, NEW from, NEW to, NEW a \in Answers(from, to)
  PROVE  a \in SUBSET Row
<1> DEFINE bars == {[day |-> d, bar |-> vendor[d]] : d \in Published \cap from..to}
<1>1. \A d \in Published : vendor[d] \in Bars /\ d \in Days
  BY DEF TypeOK, Types, Published
<1>2. \A d \in Published : [day |-> d, bar |-> vendor[d]] \in Row
  BY <1>1 DEF Row
<1>3. bars \in SUBSET Row
  BY <1>2
<1>4. \A r \in bars : [day |-> Undated, bar |-> r.bar] \in Row
  BY <1>3 DEF Row
<1> HIDE DEF bars
<1>5. a = bars \/ a = {}
      \/ (\E r \in bars : a = (bars \ {r}) \cup {[day |-> Undated, bar |-> r.bar]})
      \/ (\E d \in Published : a = bars \cup {[day |-> d, bar |-> vendor[d]]})
  BY Zenon DEF Answers, bars
<1> QED BY <1>2, <1>3, <1>4, <1>5

\* Every step keeps every variable in its type.
LEMMA ShapeStep == TypeOK /\ [Next]_vars => Types'
<1> SUFFICES ASSUME TypeOK, [Next]_vars PROVE Types'
  OBVIOUS
<1> USE IdleType
<1>t. /\ now \in Days /\ file \in Files /\ FileRows(file) \in SUBSET Row
      /\ firstbar \in Evidence /\ checked \in Days \cup {Undated}
  BY FileRowsType DEF TypeOK, Types
<1>h. HistoryStart \in Days
  BY <1>t, CandleAssumption, CacheAssumption DEF HistoryStart, Days
<1>n. CASE Next
  <2>1. CASE Environment
    <3>1. CASE Publish
      BY <3>1 DEF Publish, TypeOK, Types, disk
    <3>2. CASE Correct
      BY <3>2 DEF Correct, TypeOK, Types, disk, Published
    <3>3. CASE NextDay
      BY <3>3, CandleAssumption DEF NextDay, TypeOK, Types, disk, Days
    <3> QED BY <2>1, <3>1, <3>2, <3>3 DEF Environment
  <2>2. ASSUME NEW c \in Clients, Direct(c) PROVE Types'
    <3>1. ASSUME NEW from \in Days, NEW to \in Days, NEW force \in BOOLEAN,
                 NEW tail \in BOOLEAN, StartDirect(c, from, to, force, tail)
          PROVE  Types'
      <4> DEFINE early == VendorEarliestFor(firstbar, from, now)
      <4>1. early \in Days \cup {Undated}
        BY <1>t, EvidenceType
      <4> HIDE DEF early
      <4>2. [Idle EXCEPT !.from = from, !.to = to, !.tail = tail,
                         !.earliest = early, !.seen = checked,
                         !.owed = Owed(firstbar)] \in Op
        BY <1>t, <4>1 DEF Op, Owed, Published
      <4>3. [Idle EXCEPT !.kind = op[c].kind, !.from = from, !.to = to] \in Op
        BY DEF Op, TypeOK, Types
      <4>4. op' \in [Clients -> Op] /\ pc' \in [Clients -> Steps]
        BY <3>1, <4>2, <4>3 DEF StartDirect, Download, Goto, TypeOK, Types, Steps, early
      <4> QED BY <3>1, <4>4 DEF StartDirect, TypeOK, Types, world, disk
    <3>2. CASE ServeHit(c)
      BY <3>2 DEF ServeHit, Finish, Goto, TypeOK, Types, world, disk, Steps
    <3>3. CASE ReadMiss(c)
      <4>1. [Idle EXCEPT !.kind = op[c].kind, !.from = op[c].from, !.to = op[c].to] \in Op
        BY DEF Op, TypeOK, Types
      <4> QED BY <3>3, <4>1 DEF ReadMiss, Download, Goto, TypeOK, Types, world, disk, Steps
    <3> QED BY <2>2, <3>1, <3>2, <3>3 DEF Direct
  <2>3. ASSUME NEW c \in Clients, Prefetch(c) PROVE Types'
    <3>1. CASE StartPrefetch(c)
      <4>1. [Idle EXCEPT !.kind = "prefetch", !.basis = FileRows(file),
                         !.from = HistoryStart, !.to = now] \in Op
        BY <1>t, <1>h DEF Op
      <4> QED BY <3>1, <4>1 DEF StartPrefetch, Goto, TypeOK, Types, world, disk, Steps
    <3>2. CASE PlanPrefetch(c)
      <4>1. [Idle EXCEPT !.kind = op[c].kind, !.from = op[c].from, !.to = op[c].to] \in Op
        BY DEF Op, TypeOK, Types
      <4>2. ASSUME ~ Last(op[c].basis) >= op[c].to
            PROVE  Last(op[c].basis) + 1 \in Days
        <5>1. Last(op[c].basis) \in Days \cup {Undated} /\ op[c].to \in Days
          BY BoundsType DEF TypeOK, Types, Op
        <5> QED BY <4>2, <5>1, CandleAssumption DEF Days, Undated
      <4>3. Last(op[c].basis) + 1 \in Days =>
              [op[c] EXCEPT !.from = Last(op[c].basis) + 1, !.probe = FALSE,
                            !.basis = {}] \in Op
        BY DEF Op, TypeOK, Types
      <4>4. op' = [op EXCEPT ![c] = Idle] \/
            op' = [op EXCEPT ![c] = [Idle EXCEPT !.kind = op[c].kind,
                                       !.from = op[c].from, !.to = op[c].to]] \/
            (/\ ~ Last(op[c].basis) >= op[c].to
             /\ op' = [op EXCEPT ![c] = [op[c] EXCEPT !.from = Last(op[c].basis) + 1,
                                          !.probe = FALSE, !.basis = {}]])
        BY <3>2 DEF PlanPrefetch, Download, Finish, TypeOK, Types
      <4>5. op' \in [Clients -> Op]
        BY <4>1, <4>2, <4>3, <4>4 DEF TypeOK, Types
      <4>6. pc' \in [Clients -> Steps]
        BY <3>2 DEF PlanPrefetch, Download, Finish, Goto, TypeOK, Types, Steps
      <4> QED BY <3>2, <4>5, <4>6 DEF PlanPrefetch, TypeOK, Types, world, disk
    <3>3. CASE WriteChecked(c)
      <4>1. op[c].to \in Days
        BY DEF TypeOK, Types, Op
      <4> QED BY <3>3, <4>1 DEF WriteChecked, Finish, Goto, TypeOK, Types, world, Steps
    <3> QED BY <2>3, <3>1, <3>2, <3>3 DEF Prefetch
  <2>4. ASSUME NEW c \in Clients, Store(c) PROVE Types'
    <3>0. /\ op[c] \in Op /\ op[c].answer \in SUBSET Row /\ op[c].merged \in SUBSET Row
          /\ op[c].from \in Days /\ op[c].to \in Days
          /\ op[c].heard \in Days \cup {Undated}
          /\ Mine(c) \in SUBSET Row
      BY SliceType DEF TypeOK, Types, Op, Mine
    <3>1. CASE FetchAnswered(c)
      <4>1. \A a \in SUBSET Row : [op[c] EXCEPT !.answer = a, !.heard = now] \in Op
        BY <1>t, <3>0 DEF Op
      <4>2. PICK a \in Answers(op[c].from, op[c].to) :
              \/ op' \in {op, [op EXCEPT ![c] = Idle]}
              \/ op' = [op EXCEPT ![c] = [op[c] EXCEPT !.answer = a, !.heard = now]]
        BY <3>1 DEF FetchAnswered, Finish, TypeOK, Types
      <4>4. a \in SUBSET Row
        BY AnswersType
      <4>5. op' \in [Clients -> Op]
        BY <4>1, <4>2, <4>4 DEF TypeOK, Types
      <4>3. pc' \in [Clients -> Steps]
        BY <3>1 DEF FetchAnswered, Finish, Goto, TypeOK, Types, Steps
      <4> QED BY <3>1, <4>5, <4>3 DEF FetchAnswered, TypeOK, Types, world, disk
    <3>2. CASE FetchFailed(c)
      BY <3>2 DEF FetchFailed, Finish, Goto, TypeOK, Types, world, disk, Steps
    <3>3. CASE ReadForMerge(c)
      <4> DEFINE over == Overlay(FileRows(file), op[c].from, op[c].to, Mine(c))
      <4>1. over \in SUBSET Row
        BY <1>t, <3>0, OverlayType
      <4> HIDE DEF over
      <4>2. [op[c] EXCEPT !.merged = over] \in Op
        BY <3>0, <4>1 DEF Op
      <4>3. op' = [op EXCEPT ![c] = [op[c] EXCEPT !.merged = over]]
        BY <3>3 DEF ReadForMerge, over
      <4> QED BY <3>3, <4>2, <4>3 DEF ReadForMerge, Goto, TypeOK, Types, world, disk, Steps
    <3>4. CASE ReadFails(c) \/ WriteFails(c) \/ Release(c)
      BY <3>4 DEF ReadFails, WriteFails, Release, LeaveLocked, Finish, Goto, TypeOK, Types,
                  world, disk, Steps
    <3>5. CASE PublishMerge(c)
      BY <3>0, <3>5 DEF PublishMerge, Goto, TypeOK, Types, world, Steps, Files
    <3>6. CASE RecordEarliest(c)
      BY <3>0, <3>6, <1>t, EvidenceType
         DEF RecordEarliest, Goto, TypeOK, Types, world, Steps
    <3> QED BY <2>4, <3>1, <3>2, <3>3, <3>4, <3>5, <3>6 DEF Store
  <2>5. ASSUME NEW c \in Clients, Repair(c) PROVE Types'
    <3>0. /\ op[c] \in Op /\ op[c].basis \in SUBSET Row /\ op[c].merged \in SUBSET Row
          /\ op[c].from \in Days /\ op[c].to \in Days /\ op[c].todo \in SUBSET Refetch
      BY DEF TypeOK, Types, Op
    <3>1. CASE StartRepair(c)
      <4>1. [Idle EXCEPT !.kind = "repair", !.from = HistoryStart, !.to = now] \in Op
        BY <1>t, <1>h DEF Op
      <4> QED BY <3>1, <4>1 DEF StartRepair, Goto, TypeOK, Types, world, disk, Steps
    <3>2. CASE Snapshot(c)
      <4>1. [op[c] EXCEPT !.basis = FileRows(file), !.merged = FileRows(file)] \in Op
        BY <3>0, <1>t DEF Op
      <4>2. op' = [op EXCEPT ![c] = Idle] \/
            op' = [op EXCEPT ![c] = [op[c] EXCEPT !.basis = FileRows(file),
                                                  !.merged = FileRows(file)]]
        BY <3>2 DEF Snapshot, Finish, TypeOK, Types
      <4>3. op' \in [Clients -> Op]
        BY <4>1, <4>2 DEF TypeOK, Types
      <4> QED BY <3>2, <4>3 DEF Snapshot, Finish, Goto, TypeOK, Types, world, disk, Steps
    <3>3. ASSUME NEW asks \in BOOLEAN, NEW stale \in BOOLEAN, NEW force \in BOOLEAN,
                 DecideRepair(c, asks, stale, force)
          PROVE  Types'
      <4> DEFINE plan == RefetchPlan(op[c].basis, op[c].from, op[c].to, stale)
                 todo == IF asks THEN plan ELSE {}
      <4>1. plan \in SUBSET Refetch
        BY <3>0, RefetchPlanType
      <4> HIDE DEF plan
      <4>2. [op[c] EXCEPT !.todo = todo, !.asked = asks] \in Op
        BY <3>0, <4>1 DEF Op
      <4>3. op' = [op EXCEPT ![c] = Idle] \/
            op' = [op EXCEPT ![c] = [op[c] EXCEPT !.todo = todo, !.asked = asks]]
        BY <3>3 DEF DecideRepair, Finish, TypeOK, Types, plan
      <4>4. op' \in [Clients -> Op]
        BY <4>2, <4>3 DEF TypeOK, Types
      <4>5. pc' \in [Clients -> Steps]
        BY <3>3 DEF DecideRepair, Finish, Goto, TypeOK, Types, Steps
      <4> QED BY <3>3, <4>4, <4>5 DEF DecideRepair, TypeOK, Types, world, disk
    <3>4. CASE RefetchOne(c)
      <4>0. PICK r \in op[c].todo : \E a \in Answers(r.from, r.to) \cup {{}} :
              op' = [op EXCEPT ![c] = [op[c] EXCEPT
                        !.todo = op[c].todo \ {r},
                        !.merged = Refetched(op[c].merged, r, a)]]
        BY <3>4 DEF RefetchOne, TypeOK, Types
      <4>1. PICK a \in Answers(r.from, r.to) \cup {{}} :
              op' = [op EXCEPT ![c] = [op[c] EXCEPT
                        !.todo = op[c].todo \ {r},
                        !.merged = Refetched(op[c].merged, r, a)]]
        BY <4>0
      <4>2. Refetched(op[c].merged, r, a) \in SUBSET Row
        BY <3>0, AnswersType, RefetchedType
      <4>3. [op[c] EXCEPT !.todo = op[c].todo \ {r},
                          !.merged = Refetched(op[c].merged, r, a)] \in Op
        BY <3>0, <4>2 DEF Op
      <4>4. op' \in [Clients -> Op]
        BY <4>1, <4>3 DEF TypeOK, Types
      <4> QED BY <3>4, <4>4 DEF RefetchOne, TypeOK, Types, world, disk
    <3>5. CASE JudgeCandidate(c)
      <4> DEFINE candidate == OfflineFixed(op[c].merged, op[c].to)
                 improved  == Healthier(candidate, op[c].basis, op[c].to)
                 next      == IF improved THEN candidate ELSE op[c].basis
      <4>1. candidate \in SUBSET Row /\ improved \in BOOLEAN
        BY <3>0, OfflineFixedType DEF Healthier
      <4> HIDE DEF candidate, improved
      <4>2. next \in SUBSET Row
        BY <3>0, <4>1
      <4>3. [op[c] EXCEPT !.better = improved, !.merged = next] \in Op
        BY <3>0, <4>1, <4>2 DEF Op
      <4>4. op' = [op EXCEPT ![c] = Idle] \/
            op' = [op EXCEPT ![c] = [op[c] EXCEPT !.better = improved, !.merged = next]]
        BY <3>5 DEF JudgeCandidate, Finish, TypeOK, Types, candidate, improved
      <4>5. op' \in [Clients -> Op]
        BY <4>3, <4>4 DEF TypeOK, Types
      <4>6. pc' \in [Clients -> Steps]
        BY <3>5 DEF JudgeCandidate, Finish, Goto, TypeOK, Types, Steps
      <4> QED BY <3>5, <4>5, <4>6 DEF JudgeCandidate, TypeOK, Types, world, disk
    <3>6. CASE Recheck(c)
      BY <3>6 DEF Recheck, Goto, TypeOK, Types, world, disk, Steps
    <3>7. CASE RevisionChanged(c)
      BY <3>7 DEF RevisionChanged, LeaveLocked, Finish, Goto, TypeOK, Types, world, disk, Steps
    <3>8. CASE PublishRepair(c)
      BY <3>0, <3>8 DEF PublishRepair, Goto, TypeOK, Types, world, Steps, Files
    <3>9. CASE RecordAttempt(c)
      <4> DEFINE left == Findings(op[c].merged, op[c].to)
      <4>1. left \in SUBSET Codes
        BY FindingsType
      <4> HIDE DEF left
      <4>2. [on |-> op[c].to, codes |-> left] \in Marker /\ NoMarker \in Marker
        BY <3>0, <4>1 DEF Marker, NoMarker
      <4>3. repaired' \in Marker
        BY <3>9, <4>2 DEF RecordAttempt, left
      <4> QED BY <3>9, <4>3 DEF RecordAttempt, Goto, TypeOK, Types, world, Steps
    <3> QED BY <2>5, <3>1, <3>2, <3>3, <3>4, <3>5, <3>6, <3>7, <3>8, <3>9 DEF Repair
  <2>6. ASSUME NEW c \in Clients, Acquire(c) PROVE Types'
    BY <2>6 DEF Acquire, Goto, TypeOK, Types, world, disk, Steps
  <2>7. ASSUME NEW c \in Clients, Kill(c) PROVE Types'
    BY <2>7 DEF Kill, Finish, Goto, TypeOK, Types, world, disk, Steps
  <2> QED BY <1>n, <2>1, <2>2, <2>3, <2>4, <2>5, <2>6, <2>7 DEF Next
<1>u. CASE UNCHANGED vars
  BY <1>u DEF vars, TypeOK, Types
<1> QED BY <1>n, <1>u

\* Every step of a client is one that may take or apply a decision, or one after
\* which it holds none.
LEMMA DecidingSteps ==
  ASSUME TypeOK, NEW c \in Clients,
         Direct(c) \/ Prefetch(c) \/ Store(c) \/ Repair(c) \/ Acquire(c) \/ Kill(c)
  PROVE  /\ \A d \in Clients \ {c} : pc'[d] = pc[d] /\ op'[d] = op[d]
         /\ \/ FetchAnswered(c) \/ Acquire(c) \/ ReadForMerge(c) \/ PublishMerge(c)
            \/ JudgeCandidate(c) \/ Recheck(c) \/ PublishRepair(c)
            \/ /\ pc'[c] \notin {"lock", "merge", "publish", "commit", "recheck", "replace"}
               /\ file' = file
<1> USE DEF Goto, Finish, TypeOK, Types, disk
<1>1. CASE Direct(c)
  BY <1>1 DEF Direct, StartDirect, ServeHit, ReadMiss, Download
<1>2. CASE Prefetch(c)
  BY <1>2 DEF Prefetch, StartPrefetch, PlanPrefetch, WriteChecked, Download
<1>3. CASE Store(c)
  BY <1>3 DEF Store, FetchAnswered, FetchFailed, ReadForMerge, ReadFails, PublishMerge,
              WriteFails, RecordEarliest, Release, LeaveLocked
<1>4. CASE Repair(c)
  BY <1>4 DEF Repair, StartRepair, Snapshot, DecideRepair, RefetchOne, JudgeCandidate,
              Recheck, RevisionChanged, PublishRepair, RecordAttempt, LeaveLocked
<1>5. CASE Acquire(c) \/ Kill(c)
  BY <1>5 DEF Acquire, Kill
<1> QED BY <1>1, <1>2, <1>3, <1>4, <1>5

\* No step turns an interval round: a top-up is asked for only past the last candle of a
\* cache that does not reach the end.
LEMMA IntervalStep ==
  ASSUME TypeOK, [Next]_vars, NEW c \in Clients
  PROVE  op'[c].from <= op'[c].to
<1>0. /\ op[c].from <= op[c].to /\ op[c].from \in Days /\ op[c].to \in Days
      /\ now \in Days /\ Days \subseteq Int
  BY DaysAreIntegers DEF TypeOK, Types, Op
<1>1. CASE op'[c].from = op[c].from /\ op'[c].to = op[c].to
  BY <1>0, <1>1
<1>2. CASE op'[c] = Idle
  BY <1>2 DEF Idle
<1>3. ASSUME NEW from \in Days, NEW to \in Days, NEW force \in BOOLEAN, NEW tail \in BOOLEAN,
             StartDirect(c, from, to, force, tail)
      PROVE  op'[c].from <= op'[c].to
  BY <1>3 DEF StartDirect, Download, TypeOK, Types, Idle
<1>4. CASE StartPrefetch(c) \/ StartRepair(c)
  <2>1. op'[c].from = HistoryStart /\ op'[c].to = now
    BY <1>4 DEF StartPrefetch, StartRepair, TypeOK, Types, Idle
  <2>2. HistoryStart <= now
    BY <1>0, CacheAssumption DEF HistoryStart, Days
  <2> QED BY <2>1, <2>2
<1>5. CASE PlanPrefetch(c)
  <2>1. CASE op' = [op EXCEPT ![c].from = Last(op[c].basis) + 1, ![c].probe = FALSE,
                              ![c].basis = {}]
             /\ ~ Last(op[c].basis) >= op[c].to
    <3>1. Last(op[c].basis) \in Int
      BY BoundsType, DaysAreIntegers
    <3>2. op'[c].from = Last(op[c].basis) + 1 /\ op'[c].to = op[c].to
      BY <2>1 DEF TypeOK, Types, Op
    <3> QED BY <1>0, <2>1, <3>1, <3>2
  <2>2. CASE op' = [op EXCEPT ![c] = [Idle EXCEPT !.kind = op[c].kind, !.from = op[c].from,
                                                  !.to = op[c].to]]
    <3>1. op'[c].from = op[c].from /\ op'[c].to = op[c].to
      BY <2>2 DEF TypeOK, Types, Idle
    <3> QED BY <1>0, <3>1
  <2>3. CASE op' = [op EXCEPT ![c] = Idle]
    BY <2>3 DEF TypeOK, Types, Idle
  <2> QED BY <1>5, <2>1, <2>2, <2>3 DEF PlanPrefetch, Download, Finish
<1>6. ASSUME Direct(c) \/ Prefetch(c) \/ Store(c) \/ Repair(c) \/ Acquire(c) \/ Kill(c)
      PROVE  op'[c].from <= op'[c].to
  <2> USE DEF Goto, Finish, TypeOK, Types, Op
  <2>0. op[c] \in Op
    OBVIOUS
  <2>1. CASE Direct(c)
    <3>1. CASE ServeHit(c)
      BY <1>2, <3>1 DEF ServeHit
    <3>2. CASE ReadMiss(c)
      BY <1>1, <3>2 DEF ReadMiss, Download, Idle
    <3> QED BY <1>3, <2>1, <3>1, <3>2 DEF Direct
  <2>2. CASE Prefetch(c)
    BY <1>2, <1>4, <1>5, <2>2 DEF Prefetch, WriteChecked
  <2>3. CASE Store(c)
    <3>1. CASE FetchAnswered(c)
      <4>1. PICK a \in Answers(op[c].from, op[c].to) :
              \/ op' \in {op, [op EXCEPT ![c] = Idle]}
              \/ op' = [op EXCEPT ![c] = [op[c] EXCEPT !.answer = a, !.heard = now]]
        BY <3>1 DEF FetchAnswered
      <4> QED BY <1>1, <1>2, <4>1
    <3>2. CASE FetchFailed(c) \/ ReadFails(c) \/ WriteFails(c) \/ Release(c)
      BY <1>2, <3>2 DEF FetchFailed, ReadFails, WriteFails, Release, LeaveLocked
    <3>3. CASE ReadForMerge(c) \/ PublishMerge(c) \/ RecordEarliest(c)
      BY <1>1, <3>3 DEF ReadForMerge, PublishMerge, RecordEarliest
    <3> QED BY <2>3, <3>1, <3>2, <3>3 DEF Store
  <2>4. CASE Repair(c)
    <3>1. CASE Snapshot(c)
      BY <1>1, <1>2, <3>1 DEF Snapshot
    <3>2. ASSUME NEW asks \in BOOLEAN, NEW stale \in BOOLEAN, NEW force \in BOOLEAN,
                 DecideRepair(c, asks, stale, force)
          PROVE  op'[c].from <= op'[c].to
      BY <1>1, <1>2, <3>2 DEF DecideRepair
    <3>3. CASE RefetchOne(c)
      BY <1>1, <3>3 DEF RefetchOne
    <3>4. CASE JudgeCandidate(c)
      BY <1>1, <1>2, <3>4 DEF JudgeCandidate
    <3>5. CASE Recheck(c) \/ RevisionChanged(c) \/ PublishRepair(c) \/ RecordAttempt(c)
      BY <1>1, <1>2, <3>5 DEF Recheck, RevisionChanged, PublishRepair, RecordAttempt,
                              LeaveLocked
    <3> QED BY <1>4, <2>4, <3>1, <3>2, <3>3, <3>4, <3>5 DEF Repair
  <2>5. CASE Acquire(c) \/ Kill(c)
    BY <1>1, <1>2, <2>5 DEF Acquire, Kill
  <2> QED BY <1>6, <2>1, <2>2, <2>3, <2>4, <2>5
<1>7. ASSUME NEW d \in Clients, d # c,
             Direct(d) \/ Prefetch(d) \/ Store(d) \/ Repair(d) \/ Acquire(d) \/ Kill(d)
      PROVE  op'[c].from <= op'[c].to
  BY <1>1, <1>7, DecidingSteps
<1>8. CASE Environment \/ UNCHANGED vars
  BY <1>1, <1>8 DEF Environment, Publish, Correct, NextDay, vars
<1> QED BY <1>6, <1>7, <1>8 DEF Next

\* Every step keeps every variable in its type and every interval in order.
LEMMA TypeStep == TypeOK /\ [Next]_vars => TypeOK'
  BY ShapeStep, IntervalStep DEF TypeOK

\* The initial files and clients have their types.
LEMMA TypeInit == Init => TypeOK
<1>1. 1 \in Days
  BY CandleAssumption DEF Days
<1>2. NoMarker \in Marker
  BY DEF NoMarker, Marker
<1>3. InitialFiles \subseteq Files
  BY CacheAssumption DEF Files
<1>4. Idle.from <= Idle.to
  BY DEF Idle
<1> QED BY <1>1, <1>2, <1>3, <1>4, IdleType, EvidenceType DEF Init, TypeOK, Types, Steps

\* Type correctness of the cache: whatever the vendor answers and however the
\* clients interleave, every sidecar and every frame under construction is well
\* formed.
THEOREM TypeCorrect == Spec => []TypeOK
  BY TypeInit, TypeStep, PTL DEF Spec

-----------------------------------------------------------------------------
(* Mutual exclusion and the currency of every transaction.                 *)

\* Nobody holds the write lock at first.
LEMMA LockInit == Init => LockDiscipline
  BY CacheAssumption DEF Init, LockDiscipline, Locked

\* One holder at a time, and only inside a transaction.
LEMMA LockStep == TypeOK /\ LockDiscipline /\ [Next]_vars => LockDiscipline'
<1> SUFFICES ASSUME TypeOK, LockDiscipline, [Next]_vars PROVE LockDiscipline'
  OBVIOUS
<1> USE CacheAssumption DEF LockDiscipline, Goto, Finish, world, disk
<1>1. CASE Environment
  BY <1>1 DEF Environment, Publish, Correct, NextDay
<1>2. CASE UNCHANGED vars
  BY <1>2 DEF vars
<1>3. ASSUME NEW c \in Clients, Direct(c) \/ Prefetch(c) PROVE LockDiscipline'
  <2>1. /\ pc' \in {[pc EXCEPT ![c] = s] : s \in {"idle", "read", "plan", "fetch"}}
        /\ pc[c] \in {"idle", "read", "plan", "mark"}
        /\ lock' = lock
    BY <1>3 DEF Direct, StartDirect, ServeHit, ReadMiss, Prefetch, StartPrefetch,
                PlanPrefetch, WriteChecked, Download
  <2> QED BY <2>1 DEF TypeOK, Types, Locked
<1>4. ASSUME NEW c \in Clients, Store(c) PROVE LockDiscipline'
  <2>1. CASE FetchAnswered(c)
    <3>1. /\ pc' \in {[pc EXCEPT ![c] = s] : s \in {"lock", "idle", "mark"}}
          /\ pc[c] = "fetch" /\ lock' = lock
      BY <2>1 DEF FetchAnswered
    <3> QED BY <3>1 DEF TypeOK, Types, Locked
  <2>2. CASE FetchFailed(c) \/ ReadForMerge(c) \/ PublishMerge(c) \/ RecordEarliest(c)
    <3>1. /\ lock' = lock
          /\ \/ pc[c] = "fetch" /\ pc' = [pc EXCEPT ![c] = "idle"]
             \/ pc[c] \in Locked /\ \E s \in Locked : pc' = [pc EXCEPT ![c] = s]
      BY <2>2 DEF FetchFailed, ReadForMerge, PublishMerge, RecordEarliest, Locked
    <3> QED BY <3>1 DEF TypeOK, Types, Locked
  <2>3. CASE ReadFails(c) \/ WriteFails(c) \/ Release(c)
    <3>1. pc[c] \in Locked /\ lock' = Free /\ pc' = [pc EXCEPT ![c] = "idle"]
      BY <2>3 DEF ReadFails, WriteFails, Release, LeaveLocked, Locked
    <3>2. \A d \in Clients \ {c} : pc[d] \notin Locked
      BY <3>1
    <3> QED BY <3>1, <3>2 DEF TypeOK, Types, Locked
  <2> QED BY <1>4, <2>1, <2>2, <2>3 DEF Store
<1>5. ASSUME NEW c \in Clients, Repair(c) PROVE LockDiscipline'
  <2>1. CASE StartRepair(c) \/ RefetchOne(c) \/ JudgeCandidate(c)
             \/ \E asks, stale, force \in BOOLEAN : DecideRepair(c, asks, stale, force)
    <3>1. /\ pc[c] \in {"idle", "refetch", "decide"} /\ lock' = lock
          /\ \/ pc' = pc
             \/ \E s \in {"inspect", "refetch", "commit", "idle"} : pc' = [pc EXCEPT ![c] = s]
      BY <2>1 DEF StartRepair, RefetchOne, JudgeCandidate, DecideRepair
    <3> QED BY <3>1 DEF TypeOK, Types, Locked
  <2>2. CASE Recheck(c) \/ PublishRepair(c) \/ RecordAttempt(c)
    <3>1. /\ pc[c] \in Locked /\ lock' = lock
          /\ \E s \in Locked : pc' = [pc EXCEPT ![c] = s]
      BY <2>2 DEF Recheck, PublishRepair, RecordAttempt, Locked
    <3> QED BY <3>1 DEF TypeOK, Types, Locked
  <2>3. CASE Snapshot(c) \/ RevisionChanged(c)
    <3>1. /\ pc[c] \in Locked /\ lock' = Free
          /\ \E s \in {"idle", "decide"} : pc' = [pc EXCEPT ![c] = s]
      BY <2>3 DEF Snapshot, RevisionChanged, LeaveLocked, Locked
    <3>2. \A d \in Clients \ {c} : pc[d] \notin Locked
      BY <3>1
    <3> QED BY <3>1, <3>2 DEF TypeOK, Types, Locked
  <2> QED BY <1>5, <2>1, <2>2, <2>3 DEF Repair
<1>6. ASSUME NEW c \in Clients, Acquire(c) PROVE LockDiscipline'
  BY <1>6 DEF Acquire, TypeOK, Types, Locked
<1>7. ASSUME NEW c \in Clients, Kill(c) PROVE LockDiscipline'
  BY <1>7 DEF Kill, TypeOK, Types, Locked
<1> QED BY <1>1, <1>2, <1>3, <1>4, <1>5, <1>6, <1>7 DEF Next

\* A step of one client leaves the frames of the others current: only the holder
\* of the lock changes the file.
LEMMA OtherFramesCurrent ==
  ASSUME LockDiscipline, NEW c \in Clients, NEW d \in Clients, d # c, FrameCurrent(d),
         pc'[d] = pc[d], op'[d] = op[d], file' = file \/ pc[c] \in Locked
  PROVE  FrameCurrent(d)'
<1>1. Mine(d)' = Mine(d)
  BY DEF Mine
<1>2. CASE file' = file
  BY <1>1, <1>2 DEF FrameCurrent
<1>3. CASE pc[c] \in Locked
  <2>1. pc[d] \notin Locked
    BY <1>3 DEF LockDiscipline
  <2> QED BY <2>1 DEF FrameCurrent, Locked
<1> QED BY <1>2, <1>3

\* A client that is about to publish nothing has nothing to keep current.
LEMMA NothingToKeep ==
  ASSUME NEW c \in Clients,
         pc'[c] \notin {"publish", "replace", "receipt", "commit", "recheck"}
  PROVE  FrameCurrent(c)'
  BY DEF FrameCurrent

\* No step makes stale the frame that a client is about to publish under the lock.
LEMMA FramesStep ==
  TypeOK /\ TransactionsCurrent /\ [Next]_vars => \A c \in Clients : FrameCurrent(c)'
<1> SUFFICES ASSUME TypeOK, TransactionsCurrent, [Next]_vars
             PROVE  \A c \in Clients : FrameCurrent(c)'
  OBVIOUS
<1>0. LockDiscipline /\ \A c \in Clients : FrameCurrent(c)
  BY DEF TransactionsCurrent
<1>1. CASE Environment \/ UNCHANGED vars
  <2>1. file' = file /\ pc' = pc /\ op' = op
    BY <1>1 DEF Environment, Publish, Correct, NextDay, vars, disk
  <2> QED BY <1>0, <2>1 DEF FrameCurrent, Mine
<1>2. ASSUME NEW c \in Clients,
             Direct(c) \/ Prefetch(c) \/ Store(c) \/ Repair(c) \/ Acquire(c) \/ Kill(c)
      PROVE  \A d \in Clients : FrameCurrent(d)'
  <2>1. /\ \A d \in Clients \ {c} : pc'[d] = pc[d] /\ op'[d] = op[d]
        /\ file' = file \/ pc[c] \in Locked
    <3> USE DEF Goto, Finish, TypeOK, Types, disk
    <3>1. CASE Direct(c)
      BY <3>1 DEF Direct, StartDirect, ServeHit, ReadMiss, Download
    <3>2. CASE Prefetch(c)
      BY <3>2 DEF Prefetch, StartPrefetch, PlanPrefetch, WriteChecked, Download
    <3>3. CASE Store(c)
      BY <3>3 DEF Store, FetchAnswered, FetchFailed, ReadForMerge, ReadFails,
                  PublishMerge, WriteFails, RecordEarliest, Release, LeaveLocked, Locked
    <3>4. CASE Repair(c)
      BY <3>4 DEF Repair, StartRepair, Snapshot, DecideRepair, RefetchOne, JudgeCandidate,
                  Recheck, RevisionChanged, PublishRepair, RecordAttempt, LeaveLocked, Locked
    <3>5. CASE Acquire(c) \/ Kill(c)
      BY <3>5 DEF Acquire, Kill
    <3> QED BY <1>2, <3>1, <3>2, <3>3, <3>4, <3>5
  <2>2. ASSUME NEW d \in Clients, d # c PROVE FrameCurrent(d)'
    BY <1>0, <2>1, <2>2, OtherFramesCurrent
  <2>3. FrameCurrent(c)'
    <3>1. CASE pc'[c] \notin {"publish", "replace", "receipt", "commit", "recheck"}
      BY <3>1, NothingToKeep
    <3>2. CASE ReadForMerge(c)
      BY <3>2 DEF ReadForMerge, Goto, FrameCurrent, Mine, TypeOK, Types, Op, disk
    <3>3. CASE Acquire(c)
      BY <1>0, <3>3 DEF Acquire, Goto, FrameCurrent, TypeOK, Types, disk
    <3>4. CASE JudgeCandidate(c)
      BY <3>4 DEF JudgeCandidate, Finish, Goto, FrameCurrent, TypeOK, Types, Op
    <3>5. CASE Recheck(c)
      BY <1>0, <3>5 DEF Recheck, Goto, FrameCurrent, TypeOK, Types, disk
    <3>6. CASE PublishRepair(c)
      BY <3>6 DEF PublishRepair, Goto, FrameCurrent, TypeOK, Types
    <3>7. pc'[c] \notin {"publish", "replace", "receipt", "commit", "recheck"}
          \/ ReadForMerge(c) \/ Acquire(c) \/ JudgeCandidate(c) \/ Recheck(c)
          \/ PublishRepair(c)
      <4> USE DEF Goto, Finish, TypeOK, Types
      <4>1. CASE Direct(c) \/ Prefetch(c)
        BY <4>1 DEF Direct, StartDirect, ServeHit, ReadMiss, Download, Prefetch,
                    StartPrefetch, PlanPrefetch, WriteChecked
      <4>2. CASE Store(c)
        BY <4>2 DEF Store, FetchAnswered, FetchFailed, ReadFails, PublishMerge, WriteFails,
                    RecordEarliest, Release, LeaveLocked
      <4>3. CASE Repair(c)
        BY <4>3 DEF Repair, StartRepair, Snapshot, DecideRepair, RefetchOne,
                    RevisionChanged, RecordAttempt, LeaveLocked
      <4>4. CASE Kill(c)
        BY <4>4 DEF Kill
      <4> QED BY <1>2, <4>1, <4>2, <4>3, <4>4
    <3> QED BY <3>1, <3>2, <3>3, <3>4, <3>5, <3>6, <3>7
  <2> QED BY <2>2, <2>3
<1> QED BY <1>1, <1>2 DEF Next

\* The lock serializes the transactions, and what a transaction is about to
\* publish was computed from the file as it still is: a download merged while
\* another one was published, or a repair of a file that has moved on, cannot
\* reach the disk.
THEOREM TransactionsStayCurrent == Spec => []TransactionsCurrent
<1>1. Init => TransactionsCurrent
  <2>1. Init => \A c \in Clients : FrameCurrent(c)
    BY DEF Init, FrameCurrent
  <2> QED BY <2>1, LockInit DEF TransactionsCurrent
<1>2. TypeOK /\ TransactionsCurrent /\ [Next]_vars => TransactionsCurrent'
  BY LockStep, FramesStep DEF TransactionsCurrent
<1> QED BY <1>1, <1>2, TypeCorrect, PTL DEF Spec

\* A repair never costs the live file more trading days than the drop budget: the
\* revision check carries the verdict on the frame read over to the file replaced.
THEOREM BudgetHolds == Spec => BudgetHoldsAtPublication
<1>1. TypeOK /\ TransactionsCurrent =>
        \A c \in Clients : PublishRepair(c) =>
            ~ExceedsDropBudget(FileRows(file), FileRows(file'))
  <2>1. ASSUME TypeOK, TransactionsCurrent, NEW c \in Clients, PublishRepair(c)
        PROVE  ~ExceedsDropBudget(FileRows(file), FileRows(file'))
    <3>1. file = op[c].basis /\ ~ExceedsDropBudget(op[c].basis, op[c].merged)
      BY <2>1 DEF PublishRepair, TransactionsCurrent, FrameCurrent
    <3>2. file' = op[c].merged
      BY <2>1 DEF PublishRepair
    <3>3. op[c].basis \in SUBSET Row /\ op[c].merged \in SUBSET Row
      BY <2>1 DEF TypeOK, Types, Op
    <3>4. FileRows(file) = op[c].basis /\ FileRows(file') = op[c].merged
      BY <3>1, <3>2, <3>3, CacheAssumption DEF FileRows
    <3> QED BY <3>1, <3>4
  <2> QED BY <2>1
<1> QED BY <1>1, TypeCorrect, TransactionsStayCurrent, PTL DEF BudgetHoldsAtPublication

\* The only step that writes a cooldown marker is RecordAttempt.
LEMMA MarkerWriter ==
  ASSUME TypeOK, [Next]_vars, repaired' # repaired
  PROVE  \E c \in Clients : RecordAttempt(c)
<1> USE DEF disk
<1>1. ~Environment /\ ~UNCHANGED vars
  BY DEF Environment, Publish, Correct, NextDay, vars
<1>2. \A c \in Clients : ~Direct(c)
  BY DEF Direct, StartDirect, ServeHit, ReadMiss
<1>3. \A c \in Clients : ~Prefetch(c)
  BY DEF Prefetch, StartPrefetch, PlanPrefetch, WriteChecked
<1>4. \A c \in Clients : ~Store(c)
  BY DEF Store, FetchAnswered, FetchFailed, ReadForMerge, ReadFails, PublishMerge,
         WriteFails, RecordEarliest, Release, LeaveLocked
<1>5. \A c \in Clients : Repair(c) => RecordAttempt(c)
  BY DEF Repair, StartRepair, Snapshot, DecideRepair, RefetchOne, JudgeCandidate,
         Recheck, RevisionChanged, PublishRepair, LeaveLocked
<1>6. \A c \in Clients : ~Acquire(c) /\ ~Kill(c)
  BY DEF Acquire, Kill
<1> QED BY <1>1, <1>2, <1>3, <1>4, <1>5, <1>6 DEF Next

\* A cooldown marker describes the parquet it lies beside: neither a candidate that
\* was rejected nor a file that has changed since can suppress a later repair.
THEOREM MarkerDescribes == Spec => MarkerDescribesFile
<1>1. TypeOK /\ TransactionsCurrent /\ [Next]_vars =>
        (repaired' # repaired /\ repaired' # NoMarker =>
            repaired'.codes = Findings(FileRows(file'), repaired'.on))
  <2>1. ASSUME TypeOK, TransactionsCurrent, [Next]_vars,
               repaired' # repaired, repaired' # NoMarker
        PROVE  repaired'.codes = Findings(FileRows(file'), repaired'.on)
    <3>1. PICK c \in Clients : RecordAttempt(c)
      BY <2>1, MarkerWriter
    <3>2. repaired' = [on |-> op[c].to, codes |-> Findings(op[c].merged, op[c].to)]
      BY <2>1, <3>1 DEF RecordAttempt
    <3>3. file' = op[c].merged /\ op[c].merged \in SUBSET Row
      BY <2>1, <3>1 DEF RecordAttempt, TransactionsCurrent, FrameCurrent, TypeOK, Types, Op
    <3>4. FileRows(file') = op[c].merged
      BY <3>3, CacheAssumption DEF FileRows
    <3> QED BY <3>2, <3>4
  <2> QED BY <2>1
<1> QED BY <1>1, TypeCorrect, TransactionsStayCurrent, PTL DEF Spec, MarkerDescribesFile

-----------------------------------------------------------------------------
(* The locked transactions implement the contract.                         *)

\* The contract speaks of frames in the same words as the cache.
LEMMA SameWords ==
  /\ Contract!Days = Days /\ Contract!Row = Row /\ Contract!Files = Files
  /\ \A f : Contract!FileRows(f) = FileRows(f)
  /\ \A rows, from, to, answer :
        Contract!Overlay(rows, from, to, answer) = Overlay(rows, from, to, answer)
<1>1. Contract!Days = Days /\ Contract!Row = Row /\ Contract!Files = Files
  BY DEF Contract!Days, Days, Contract!Row, Row, Contract!Undated, Undated,
         Contract!Files, Files
<1>2. \A f : Contract!FileRows(f) = FileRows(f)
  BY DEF Contract!FileRows, FileRows
<1>3. \A rows : Contract!Dates(rows) = Dates(rows)
  BY DEF Contract!Dates, Dates, Contract!Undated, Undated
<1>4. \A rows : Contract!First(rows) = First(rows) /\ Contract!Last(rows) = Last(rows)
  BY Zenon, <1>1, <1>3 DEF Contract!First, First, Contract!Last, Last, Contract!IsFirst, IsFirst,
         Contract!IsLast, IsLast, Contract!Undated, Undated
<1>5. \A rows, from, to, answer :
        Contract!Overlay(rows, from, to, answer) = Overlay(rows, from, to, answer)
  BY <1>3, <1>4 DEF Contract!Overlay, Overlay, Contract!Undated, Undated
<1> QED BY <1>1, <1>2, <1>5

\* What one client holds depends on its own step and locals only.
LEMMA HeldByOne ==
  ASSUME NEW c \in Clients, \A d \in Clients \ {c} : pc'[d] = pc[d] /\ op'[d] = op[d]
  PROVE  Held' = [Held EXCEPT ![c] = Held'[c]]
<1>1. /\ Held = [d \in Clients |-> Held[d]] /\ Held' = [d \in Clients |-> Held'[d]]
  BY DEF Held
<1>2. \A d \in Clients \ {c} : Held'[d] = Held[d]
  BY DEF Held, Mine
<1> QED BY <1>1, <1>2

\* A client's step is a step of the contract, or none.
LEMMA ClientImplements ==
  ASSUME TypeOK, TransactionsCurrent, NEW c \in Clients,
         Direct(c) \/ Prefetch(c) \/ Store(c) \/ Repair(c) \/ Acquire(c) \/ Kill(c)
  PROVE  [Contract!ContractNext]_(Contract!cvars)
<1>0. Held' = [Held EXCEPT ![c] = Held'[c]]
  BY DecidingSteps, HeldByOne
<1>t. /\ op[c] \in Op /\ op[c].answer \in SUBSET Row /\ op[c].merged \in SUBSET Row
      /\ op[c].basis \in SUBSET Row /\ op[c].from \in Days /\ op[c].to \in Days
      /\ Mine(c) \in SUBSET Row
  BY SliceType DEF TypeOK, Types, Op, Mine
<1>k. CASE Held'[c] = Held[c] /\ file' = file
  <2>1. Held' = Held
    BY <1>0, <1>k DEF Held
  <2> QED BY <1>k, <2>1 DEF Contract!cvars
<1>d. CASE Held'[c] = [type |-> "none"] /\ file' = file
  BY <1>0, <1>d DEF Contract!ContractNext, Contract!Drop, Contract!Nothing
<1>1. CASE FetchAnswered(c)
  <2>1. CASE pc'[c] = "lock"
    <3>1. PICK a \in Answers(op[c].from, op[c].to) : op' = [op EXCEPT ![c].answer = a]
      BY <1>1, <2>1 DEF FetchAnswered, Goto, Finish, TypeOK, Types
    <3>2. a \in SUBSET Row
      BY AnswersType
    <3>3. /\ op'[c].kind = op[c].kind /\ op'[c].from = op[c].from
          /\ op'[c].to = op[c].to /\ op'[c].answer = a
      BY <3>1 DEF TypeOK, Types, Op
    <3>4. Mine(c)' \in SUBSET Row
      BY <3>2, <3>3, SliceType DEF Mine
    <3>5. Held'[c] = [type |-> "download", from |-> op[c].from, to |-> op[c].to,
                      answer |-> Mine(c)']
      BY <2>1, <3>3 DEF Held
    <3>6. Held[c] = [type |-> "none"]
      BY <1>1 DEF FetchAnswered, Held
    <3>7. Held'[c] \in Contract!Download
      BY <1>t, <3>4, <3>5, SameWords DEF Contract!Download
    <3> QED BY <1>0, <1>1, <3>6, <3>7 DEF FetchAnswered, disk, Contract!ContractNext,
                                           Contract!Decide, Contract!Nothing
  <2>2. CASE pc'[c] # "lock"
    <3>1. pc'[c] \in {"idle", "mark"} /\ file' = file
      BY <1>1, <2>2 DEF FetchAnswered, Finish, Goto, TypeOK, Types, disk
    <3>2. Held'[c] = [type |-> "none"]
      BY <3>1 DEF Held
    <3> QED BY <1>d, <3>1, <3>2
  <2> QED BY <2>1, <2>2
<1>2. CASE Acquire(c) \/ ReadForMerge(c) \/ Recheck(c)
  <2>1. /\ op'[c].kind = op[c].kind /\ op'[c].from = op[c].from /\ op'[c].to = op[c].to
        /\ op'[c].answer = op[c].answer /\ op'[c].better = op[c].better
        /\ op'[c].basis = op[c].basis /\ file' = file
        /\ \/ op'[c].merged = op[c].merged
           \/ pc[c] = "merge" /\ pc'[c] = "publish"
    BY <1>2 DEF Acquire, ReadForMerge, Recheck, Goto, TypeOK, Types, Op, disk
  <2>2. \/ pc[c] = "lock" /\ pc'[c] = "merge"
        \/ pc[c] = "merge" /\ pc'[c] = "publish"
        \/ pc[c] = "inspect" /\ pc'[c] = "snapshot"
        \/ pc[c] = "commit" /\ pc'[c] = "recheck"
        \/ pc[c] = "recheck" /\ op[c].better /\ pc'[c] = "replace"
        \/ pc[c] = "recheck" /\ ~op[c].better /\ pc'[c] = "receipt"
    BY <1>2 DEF Acquire, ReadForMerge, Recheck, Goto, TypeOK, Types
  <2>3. Mine(c)' = Mine(c)
    BY <2>1 DEF Mine
  <2>4. Held'[c] = Held[c]
    BY <2>1, <2>2, <2>3 DEF Held
  <2> QED BY <1>k, <2>1, <2>4
<1>3. CASE PublishMerge(c)
  <2>1. Held[c] = [type |-> "download", from |-> op[c].from, to |-> op[c].to,
                   answer |-> Mine(c)]
    BY <1>3 DEF PublishMerge, Held
  <2>2. Held'[c] = [type |-> "none"]
    BY <1>3 DEF PublishMerge, Goto, Held, TypeOK, Types
  <2>3. /\ file # Unreadable
        /\ file' = Overlay(FileRows(file), op[c].from, op[c].to, Mine(c))
    BY <1>3 DEF PublishMerge, TransactionsCurrent, FrameCurrent
  <2>4. Held[c] \in Contract!Download
    BY <1>t, <2>1, SameWords DEF Contract!Download
  <2> QED BY <1>0, <2>1, <2>2, <2>3, <2>4, SameWords
          DEF Contract!ContractNext, Contract!ApplyDownload, Contract!Nothing
<1>4. CASE JudgeCandidate(c)
  <2>1. Held[c] = [type |-> "none"] /\ file' = file
    BY <1>4 DEF JudgeCandidate, Held, disk
  <2>2. op'[c] \in Op /\ pc'[c] \in {"idle", "commit"}
    BY <1>4, TypeStep DEF JudgeCandidate, Finish, Goto, TypeOK, Types, Next, Repair
  <2>3. CASE pc'[c] = "commit" /\ op'[c].better
    <3>1. Held'[c] = [type |-> "repair", basis |-> op'[c].basis,
                      candidate |-> op'[c].merged]
      BY <2>3 DEF Held
    <3>2. Held'[c] \in Contract!RepairChoice
      BY <2>2, <3>1, SameWords DEF Contract!RepairChoice, Op
    <3> QED BY <1>0, <2>1, <3>2 DEF Contract!ContractNext, Contract!Decide, Contract!Nothing
  <2>4. CASE ~(pc'[c] = "commit" /\ op'[c].better)
    <3>1. Held'[c] = [type |-> "none"]
      BY <2>2, <2>4 DEF Held
    <3> QED BY <1>d, <2>1, <3>1
  <2> QED BY <2>3, <2>4
<1>5. CASE PublishRepair(c)
  <2>1. file = op[c].basis /\ op[c].better /\ file' = op[c].merged
    BY <1>5 DEF PublishRepair, TransactionsCurrent, FrameCurrent
  <2>2. Held[c] = [type |-> "repair", basis |-> op[c].basis, candidate |-> op[c].merged]
    BY <1>5, <2>1 DEF PublishRepair, Held
  <2>3. Held'[c] = [type |-> "none"]
    BY <1>5 DEF PublishRepair, Goto, Held, TypeOK, Types
  <2>4. Held[c] \in Contract!RepairChoice
    BY <1>t, <2>2, SameWords DEF Contract!RepairChoice
  <2> QED BY <1>0, <2>1, <2>2, <2>3, <2>4
          DEF Contract!ContractNext, Contract!ApplyRepair, Contract!Nothing
<1>6. CASE /\ pc'[c] \notin {"lock", "merge", "publish", "commit", "recheck", "replace"}
           /\ file' = file
  <2>1. Held'[c] = [type |-> "none"]
    BY <1>6 DEF Held
  <2> QED BY <1>d, <1>6, <2>1
<1> QED BY <1>1, <1>2, <1>3, <1>4, <1>5, <1>6, DecidingSteps

\* Any number of clients, killed at any step and answered anything, behave as if
\* each download were overlaid on the file, and each repair swapped in for the
\* very file it was decided on, in one instant: no published candle is lost to a
\* concurrent merge.
THEOREM CacheImplementsContract == Spec => RefinesContract
<1>1. Init => Contract!ContractInit
  <2>1. ASSUME Init PROVE file \in Contract!Files
    BY <2>1, TypeInit, SameWords DEF TypeOK, Types
  <2>2. ASSUME Init PROVE Held = [c \in Clients |-> [type |-> "none"]]
    BY <2>2 DEF Init, Held
  <2> QED BY <2>1, <2>2 DEF Contract!ContractInit, Contract!Nothing
<1>2. TypeOK /\ TransactionsCurrent /\ [Next]_vars =>
        [Contract!ContractNext]_(Contract!cvars)
  <2>1. ASSUME Environment \/ UNCHANGED vars
        PROVE  UNCHANGED Contract!cvars
    BY <2>1 DEF Environment, Publish, Correct, NextDay, vars, disk, Contract!cvars,
                Held, Mine
  <2> QED BY <2>1, ClientImplements DEF Next
<1> QED BY <1>1, <1>2, TypeCorrect, TransactionsStayCurrent, PTL
        DEF Spec, RefinesContract, Contract!ContractSpec

-----------------------------------------------------------------------------
(* The evidence about the vendor's earliest bar, and what a hit may lack.  *)

\* What the vendor has published are days.
LEMMA PublishedType == TypeOK => Published \subseteq Days
  BY DEF Published

\* What the vendor backfills, it publishes after the answers it has given: evidence once
\* true stays true.
LEMMA NoneBeforeStable ==
  ASSUME TypeOK, Environment \/ UNCHANGED world
  PROVE  \A from, earliest, heard \in Int :
            NoneBefore(from, earliest, heard) => NoneBefore(from, earliest, heard)'
<1>t. now \in Int /\ Published \subseteq Days /\ \A d \in Days : since[d] \in Int
  BY DaysAreIntegers, PublishedType DEF TypeOK, Types
<1>1. CASE Publish
  <2>1. PICK d \in 1..now :
          /\ d \notin Published
          /\ \E b \in Bars : vendor' = [vendor EXCEPT ![d] = b]
          /\ since' = [since EXCEPT ![d] = now] /\ now' = now
    BY <1>1 DEF Publish
  <2>2. d \in Days
    BY <1>t, CandleAssumption DEF TypeOK, Types, Days
  <2>3. Published' = Published \cup {d}
    BY <2>1, <2>2, CacheAssumption DEF Published, TypeOK, Types
  <2>4. since'[d] = now /\ \A e \in Published : since'[e] = since[e]
    BY <1>t, <2>1, <2>2 DEF TypeOK, Types
  <2> QED BY <1>t, <2>1, <2>3, <2>4 DEF NoneBefore
<1>2. CASE Correct
  <2>1. Published' = Published /\ since' = since /\ now' = now
    BY <1>2, CacheAssumption DEF Correct, Published, TypeOK, Types
  <2> QED BY <2>1 DEF NoneBefore
<1>3. CASE NextDay \/ UNCHANGED world
  <2>1. Published' = Published /\ since' = since /\ now' \in {now, now + 1}
    BY <1>3 DEF NextDay, Published, world
  <2> QED BY <1>t, <2>1 DEF NoneBefore
<1> QED BY <1>1, <1>2, <1>3 DEF Environment

\* What an answer in which every row is dated says about its first day is true.
LEMMA AnswerSound ==
  ASSUME TypeOK, NEW from \in Days, NEW to \in Days, NEW a \in Answers(from, to),
         \A r \in a : r.day # Undated, First(a) > from
  PROVE  NoneBefore(from, First(a), now)
<1> DEFINE bars == {[day |-> d, bar |-> vendor[d]] : d \in Published \cap from..to}
<1>1. from \in Int /\ to \in Int /\ from > 0 /\ Published \subseteq Int
      /\ Published \subseteq Days /\ Undated \notin Days /\ now \in 1..now
  BY PublishedType, CandleAssumption DEF Days, Undated, TypeOK, Types
<1>2. Dates(bars) = Published \cap from..to
  <2>1. \A r \in bars : r.day \in Published \cap from..to
    OBVIOUS
  <2>2. \A d \in Published \cap from..to : [day |-> d, bar |-> vendor[d]] \in bars
    OBVIOUS
  <2> HIDE DEF bars
  <2>3. \A d \in Published \cap from..to : \E r \in bars : r.day = d
    BY <2>2
  <2> QED BY <1>1, <2>1, <2>3 DEF Dates
<1>3. IsFirst(a, First(a)) /\ First(a) \in Int
  <2>1. First(a) \in Days \cup {Undated} /\ (First(a) # Undated => IsFirst(a, First(a)))
    BY BoundsType
  <2>2. First(a) \in Int
    BY <2>1, DaysAreIntegers
  <2>3. First(a) # Undated
    BY <1>1, <2>2 DEF Undated
  <2> QED BY <2>1, <2>2, <2>3
<1> HIDE DEF bars
<1>4. a = bars \/ a = {}
      \/ (\E r \in bars : a = (bars \ {r}) \cup {[day |-> Undated, bar |-> r.bar]})
      \/ (\E d \in Published : d < from /\ a = bars \cup {[day |-> d, bar |-> vendor[d]]})
  BY Zenon DEF Answers, bars
<1>5. CASE a = bars
  BY <1>1, <1>2, <1>3, <1>5 DEF IsFirst, NoneBefore
<1>6. CASE a = {}
  BY <1>3, <1>6 DEF IsFirst, Dates
<1>7. CASE \E r \in bars : a = (bars \ {r}) \cup {[day |-> Undated, bar |-> r.bar]}
  <2>1. PICK r \in bars : a = (bars \ {r}) \cup {[day |-> Undated, bar |-> r.bar]}
    BY <1>7
  <2>2. [day |-> Undated, bar |-> r.bar] \in a
    BY <2>1
  <2> QED BY <2>2
<1>8. CASE \E d \in Published : d < from /\ a = bars \cup {[day |-> d, bar |-> vendor[d]]}
  <2>0. PICK d \in Published : d < from /\ a = bars \cup {[day |-> d, bar |-> vendor[d]]}
    BY <1>8
  <2>1. d < from /\ d \in Int /\ d \in Dates(a)
    <3>1. [day |-> d, bar |-> vendor[d]] \in a
      BY <2>0
    <3>2. \E r \in a : r.day = d
      BY <3>1
    <3>3. d # Undated /\ d \in Int
      BY <1>1
    <3> QED BY <2>0, <3>2, <3>3 DEF Dates
  <2> QED BY <1>1, <1>3, <2>1 DEF IsFirst
<1> QED BY <1>4, <1>5, <1>6, <1>7, <1>8

\* At first there is no evidence, and nobody relies on any.
LEMMA EvidenceInit == Init => EarliestEvidenceTrue
  BY DEF Init, EarliestEvidenceTrue, EvidenceSound, Published

\* The steps after which a client trusts, or carries, an answer about the earliest bar.
LEMMA EvidenceSteps ==
  ASSUME TypeOK, NEW c \in Clients,
         Direct(c) \/ Prefetch(c) \/ Store(c) \/ Repair(c) \/ Acquire(c) \/ Kill(c)
  PROVE  /\ world' = world
         /\ firstbar' = firstbar \/ RecordEarliest(c)
         /\ \/ \E from, to \in Days, force, tail \in BOOLEAN :
                    StartDirect(c, from, to, force, tail)
            \/ FetchAnswered(c) \/ Acquire(c) \/ ReadForMerge(c) \/ PublishMerge(c)
            \/ pc'[c] \notin {"read", "lock", "merge", "publish", "evidence"}
<1> USE DEF Goto, Finish, TypeOK, Types, disk, world
<1>1. CASE Direct(c)
  BY <1>1 DEF Direct, StartDirect, ServeHit, ReadMiss, Download
<1>2. CASE Prefetch(c)
  BY <1>2 DEF Prefetch, StartPrefetch, PlanPrefetch, WriteChecked, Download
<1>3. CASE Store(c)
  BY <1>3 DEF Store, FetchAnswered, FetchFailed, ReadForMerge, ReadFails, PublishMerge,
              WriteFails, RecordEarliest, Release, LeaveLocked
<1>4. CASE Repair(c)
  BY <1>4 DEF Repair, StartRepair, Snapshot, DecideRepair, RefetchOne, JudgeCandidate,
              Recheck, RevisionChanged, PublishRepair, RecordAttempt, LeaveLocked
<1>5. CASE Acquire(c) \/ Kill(c)
  BY <1>5 DEF Acquire, Kill
<1> QED BY <1>1, <1>2, <1>3, <1>4, <1>5

\* What evidence answers a reader with hides nothing that is owed to the reader.
LEMMA NothingOwedHidden ==
  ASSUME TypeOK, EarliestEvidenceTrue, NEW from \in Days,
         VendorEarliestFor(firstbar, from, now) # Undated
  PROVE  Owed(firstbar) \cap from..(VendorEarliestFor(firstbar, from, now) - 1) = {}
<1>1. /\ firstbar # NoEvidence /\ firstbar.from <= from
      /\ FreshEvidence(firstbar, now)
      /\ VendorEarliestFor(firstbar, from, now) = firstbar.earliest
  BY DEF VendorEarliestFor, Coherent
<1>2. NoneBefore(firstbar.from, firstbar.earliest, firstbar.heard)
  BY <1>1 DEF EarliestEvidenceTrue
<1>3. /\ now \in Int /\ from \in Int /\ RecheckDays \in Int
      /\ firstbar.from \in Int /\ firstbar.earliest \in Int
      /\ firstbar.on \in Int /\ firstbar.heard \in Int
      /\ Published \subseteq Days /\ Days \subseteq Int
      /\ \A d \in Days : since[d] \in Int
  <2>1. Days \subseteq Int /\ Days \cup {Undated} \subseteq Int
    BY DaysAreIntegers
  <2>2. /\ firstbar.from \in Days \cup {Undated} /\ firstbar.earliest \in Days \cup {Undated}
        /\ firstbar.on \in Days \cup {Undated} /\ firstbar.heard \in Days \cup {Undated}
    BY DEF TypeOK, Types, Evidence
  <2>3. now \in Days /\ \A d \in Days : since[d] \in Days \cup {Undated}
    BY DEF TypeOK, Types
  <2>4. RecheckDays \in Int
    BY CandleAssumption
  <2> HIDE DEF Days, Undated
  <2> QED BY <2>1, <2>2, <2>3, <2>4, PublishedType
<1>4. ASSUME NEW d \in Owed(firstbar), d \in from..(firstbar.earliest - 1) PROVE FALSE
  <2>1. d \in Published /\ now - since[d] >= RecheckDays + (firstbar.on - firstbar.heard)
    BY <1>4 DEF Owed
  <2>2. since[d] >= firstbar.heard
    BY <1>1, <1>2, <1>3, <1>4, <2>1 DEF NoneBefore
  <2>3. now - firstbar.on < RecheckDays
    BY <1>1, <1>3 DEF FreshEvidence
  <2> QED BY <1>3, <2>1, <2>2, <2>3
<1> QED BY <1>1, <1>4

\* No step writes a first-bar sidecar that the vendor's history contradicts.
LEMMA EvidenceStep == TypeOK /\ EarliestEvidenceTrue /\ [Next]_vars => EarliestEvidenceTrue'
<1> SUFFICES ASSUME TypeOK, EarliestEvidenceTrue, [Next]_vars PROVE EarliestEvidenceTrue'
  OBVIOUS
<1>d. Days \subseteq Int /\ Undated \in Int /\ Undated \notin Days
  BY CandleAssumption DEF Days, Undated
<1>o. \A c \in Clients : /\ op[c].from \in Days
                         /\ op[c].earliest \in Days \cup {Undated}
                         /\ First(op[c].answer) \in Days \cup {Undated}
                         /\ op[c].heard \in Days \cup {Undated}
  BY BoundsType DEF TypeOK, Types, Op
<1>f. firstbar \in Evidence /\ firstbar.from \in Int /\ firstbar.earliest \in Int
      /\ firstbar.heard \in Int
  BY <1>d DEF TypeOK, Types, Evidence
<1>1. CASE Environment \/ UNCHANGED vars
  <2>1. \A from, earliest, heard \in Int :
          NoneBefore(from, earliest, heard) => NoneBefore(from, earliest, heard)'
    BY <1>1, NoneBeforeStable DEF vars, world
  <2>2. pc' = pc /\ op' = op /\ firstbar' = firstbar
    BY <1>1 DEF Environment, Publish, Correct, NextDay, vars, disk
  <2>3. (Published \cap Weekend = {})'
    <3>1. CASE Publish
      BY <3>1, CacheAssumption DEF Publish, EarliestEvidenceTrue, Published, TypeOK, Types
    <3>2. CASE Correct
      BY <3>2 DEF Correct, EarliestEvidenceTrue, Published, TypeOK, Types
    <3>3. CASE NextDay \/ UNCHANGED vars
      BY <3>3 DEF NextDay, vars, EarliestEvidenceTrue, Published
    <3> QED BY <1>1, <3>1, <3>2, <3>3 DEF Environment
  <2>4. (firstbar # NoEvidence =>
            NoneBefore(firstbar.from, firstbar.earliest, firstbar.heard))'
    BY <1>f, <2>1, <2>2 DEF EarliestEvidenceTrue, NoEvidence
  <2>5. ASSUME NEW c \in Clients PROVE EvidenceSound(c)'
    BY <1>d, <1>o, <2>1, <2>2 DEF EarliestEvidenceTrue, EvidenceSound
  <2> QED BY <2>3, <2>4, <2>5 DEF EarliestEvidenceTrue
<1>2. ASSUME NEW c \in Clients,
             Direct(c) \/ Prefetch(c) \/ Store(c) \/ Repair(c) \/ Acquire(c) \/ Kill(c)
      PROVE  EarliestEvidenceTrue'
  <2>1. \A from, earliest, heard :
          NoneBefore(from, earliest, heard)' <=> NoneBefore(from, earliest, heard)
    BY <1>2, EvidenceSteps DEF NoneBefore, Published, world
  <2>2. (Published \cap Weekend = {})'
    BY <1>2, EvidenceSteps DEF Published, EarliestEvidenceTrue, world
  <2>3. (firstbar # NoEvidence =>
            NoneBefore(firstbar.from, firstbar.earliest, firstbar.heard))'
    <3>1. CASE firstbar' = firstbar
      BY <2>1, <3>1 DEF EarliestEvidenceTrue, NoEvidence
    <3>2. CASE RecordEarliest(c)
      <4>1. firstbar' = RecordedEvidence(firstbar, op[c].from, op[c].answer,
                                          op[c].heard, now)
        BY <3>2 DEF RecordEarliest
      <4>2. CASE firstbar' \in {firstbar, NoEvidence}
        BY <2>1, <4>2 DEF EarliestEvidenceTrue, NoEvidence
      <4>3. CASE firstbar' \notin {firstbar, NoEvidence}
        <5>1. /\ \A r \in op[c].answer : r.day # Undated
              /\ ~(First(op[c].answer) <= op[c].from)
              /\ firstbar' = [from |-> op[c].from, earliest |-> First(op[c].answer), on |-> now,
                             heard |-> op[c].heard]
          BY <4>1, <4>3 DEF RecordedEvidence
        <5>2. First(op[c].answer) > op[c].from
          <6>1. First(op[c].answer) \in Int /\ op[c].from \in Int
            BY <1>d, <1>o
          <6> QED BY <5>1, <6>1
        <5>3. NoneBefore(op[c].from, First(op[c].answer), op[c].heard)
          BY <3>2, <5>1, <5>2 DEF RecordEarliest, EarliestEvidenceTrue, EvidenceSound
        <5> QED BY <2>1, <5>1, <5>3
      <4> QED BY <4>2, <4>3
    <3> QED BY <1>2, <3>1, <3>2, EvidenceSteps
  <2>4. ASSUME NEW d \in Clients, d # c PROVE EvidenceSound(d)'
    <3>1. pc'[d] = pc[d] /\ op'[d] = op[d]
      BY <1>2, <2>4, DecidingSteps
    <3> QED BY <2>1, <3>1 DEF EarliestEvidenceTrue, EvidenceSound
  <2>5. EvidenceSound(c)'
    <3>1. CASE pc'[c] \notin {"read", "lock", "merge", "publish", "evidence"}
      BY <3>1 DEF EvidenceSound
    <3>2. ASSUME NEW from \in Days, NEW to \in Days, NEW force \in BOOLEAN,
                 NEW tail \in BOOLEAN, StartDirect(c, from, to, force, tail),
                 pc'[c] \in {"read", "lock", "merge", "publish", "evidence"}
          PROVE  EvidenceSound(c)'
      <4> DEFINE early == VendorEarliestFor(firstbar, from, now)
      <4>1. /\ pc'[c] = "read"
            /\ op' = [op EXCEPT ![c] = [Idle EXCEPT !.from = from, !.to = to, !.tail = tail,
                                         !.earliest = early, !.seen = checked,
                                         !.owed = Owed(firstbar)]]
        BY <3>2 DEF StartDirect, Download, Goto, TypeOK, Types
      <4>2. op'[c].from = from /\ op'[c].earliest = early /\ op'[c].owed = Owed(firstbar)
        BY <4>1 DEF TypeOK, Types, Idle
      <4>3. early # Undated => Owed(firstbar) \cap from..(early - 1) = {}
        BY NothingOwedHidden
      <4> HIDE DEF early
      <4> QED BY <4>1, <4>2, <4>3 DEF EvidenceSound
    <3>3. ASSUME FetchAnswered(c), pc'[c] \in {"read", "lock", "merge", "publish", "evidence"}
          PROVE  EvidenceSound(c)'
      <4>1. /\ pc'[c] = "lock"
            /\ \E a \in Answers(op[c].from, op[c].to) :
                  op' = [op EXCEPT ![c].answer = a, ![c].heard = now]
        BY <3>3 DEF FetchAnswered, Finish, Goto, TypeOK, Types
      <4>2. PICK a \in Answers(op[c].from, op[c].to) :
                  op' = [op EXCEPT ![c].answer = a, ![c].heard = now]
        BY <4>1
      <4>3. op'[c].from = op[c].from /\ op'[c].answer = a /\ op[c].to \in Days
            /\ op'[c].heard = now
        BY <4>2 DEF TypeOK, Types, Op
      <4>4. (\A r \in a : r.day # Undated) /\ First(a) > op[c].from
                => NoneBefore(op[c].from, First(a), now)
        BY <1>o, <4>3, AnswerSound
      <4> QED BY <2>1, <4>1, <4>3, <4>4 DEF EvidenceSound
    <3>4. ASSUME Acquire(c) \/ ReadForMerge(c) \/ PublishMerge(c),
                 pc'[c] \in {"read", "lock", "merge", "publish", "evidence"}
          PROVE  EvidenceSound(c)'
      <4>1. /\ op'[c].from = op[c].from /\ op'[c].answer = op[c].answer
            /\ op'[c].heard = op[c].heard
            /\ pc'[c] # "read" /\ pc[c] \in {"lock", "merge", "publish"}
        BY <3>4 DEF Acquire, ReadForMerge, PublishMerge, Goto, TypeOK, Types, Op
      <4> QED BY <2>1, <4>1 DEF EarliestEvidenceTrue, EvidenceSound
    <3> QED BY <1>2, <3>1, <3>2, <3>3, <3>4, EvidenceSteps
  <2> QED BY <2>2, <2>3, <2>4, <2>5 DEF EarliestEvidenceTrue
<1> QED BY <1>1, <1>2 DEF Next

\* Whatever the vendor backfills, garbles, sends unasked or corrects, a probe never
\* teaches the cache an earliest bar that hid a published one when the vendor answered,
\* and no reader relies on evidence that hides what it is owed.
THEOREM EvidenceStaysTrue == Spec => []EarliestEvidenceTrue
  BY EvidenceInit, EvidenceStep, TypeCorrect, PTL DEF Spec

\* A cache hit lacks before its first candle no bar published longer ago than evidence
\* lives, and after its last candle none at all, except for a scanner within the
\* tolerated gap.
THEOREM HitEnds == Spec => HitEndsComplete
<1>1. ASSUME TypeOK, EarliestEvidenceTrue, NEW c \in Clients, ServeHit(c),
             NEW d \in (Published \cap op[c].from..op[c].to) \ Dates(FileRows(file))
      PROVE  /\ d \in op[c].owed => d > First(FileRows(file))
             /\ d > Last(FileRows(file)) =>
                    op[c].tail /\ op[c].to - Last(FileRows(file)) <= MaxTolerableGap
  <2> DEFINE first == First(FileRows(file))
             last  == Last(FileRows(file))
  <2>1. /\ d \in Days /\ Days \subseteq Int /\ Undated \in Int
        /\ op[c].from \in Days /\ op[c].to \in Days /\ d \in op[c].from..op[c].to
        /\ op[c].earliest \in Days \cup {Undated}
    BY <1>1, PublishedType, DaysAreIntegers DEF TypeOK, Types, Op
  <2>2. /\ first \in Days \cup {Undated} /\ last \in Days \cup {Undated}
        /\ first # Undated => first \in Dates(FileRows(file))
    BY BoundsType DEF IsFirst
  <2>3. /\ first # Undated
        /\ ReachesBackFarEnough(first, op[c].from, op[c].earliest)
        /\ \/ OnlyUnpublishedDaysMissing(last, op[c].to, op[c].tail)
           \/ op[c].tail /\ op[c].to - last <= MaxTolerableGap
    BY <1>1 DEF ServeHit, Covered, CoversRange
  <2>4. op[c].earliest # Undated =>
          op[c].owed \cap op[c].from..(op[c].earliest - 1) = {}
    BY <1>1 DEF ServeHit, EarliestEvidenceTrue, EvidenceSound
  <2>5. d # first
    BY <1>1, <2>2, <2>3
  <2> HIDE DEF first, last
  <2>i. d \in Int /\ first \in Int /\ last \in Int /\ op[c].from \in Int /\ op[c].to \in Int
        /\ op[c].from <= d /\ d <= op[c].to
    <3>1. d \in Int /\ op[c].from \in Int /\ op[c].to \in Int
      BY <2>1
    <3>2. first \in Int /\ last \in Int
      BY <2>1, <2>2
    <3> QED BY <2>1, <3>1, <3>2
  <2>6. d \in Published /\ d \notin Weekend
    BY <1>1 DEF EarliestEvidenceTrue
  <2>7. ASSUME d \in op[c].owed PROVE d > first
    <3>1. CASE first <= op[c].from
      BY <2>i, <2>5, <3>1
    <3>2. CASE op[c].earliest # Undated /\ first = op[c].earliest
      BY <2>i, <2>4, <2>5, <2>7, <3>2
    <3> QED BY <2>3, <3>1, <3>2 DEF ReachesBackFarEnough
  <2>8. d > last => op[c].tail /\ op[c].to - last <= MaxTolerableGap
    <3>1. ASSUME d > last PROVE d \in (last + 1)..op[c].to /\ ~(last >= op[c].to)
      BY <2>i, <3>1
    <3> QED BY <2>3, <2>6, <3>1 DEF OnlyUnpublishedDaysMissing
  <2> QED BY <2>7, <2>8 DEF first, last
<1>2. TypeOK /\ EarliestEvidenceTrue =>
        \A c \in Clients : ServeHit(c) =>
          LET rows == FileRows(file)
              missing == (Published \cap op[c].from..op[c].to) \ Dates(rows)
          IN  /\ \A d \in missing \cap op[c].owed : d > First(rows)
              /\ \A d \in missing : d > Last(rows) =>
                      op[c].tail /\ op[c].to - Last(rows) <= MaxTolerableGap
  BY <1>1
<1> QED BY <1>2, TypeCorrect, EvidenceStaysTrue, PTL DEF HitEndsComplete
=============================================================================
