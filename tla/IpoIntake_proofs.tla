-------------------------- MODULE IpoIntake_proofs ---------------------------
(***************************************************************************)
(* Machine-checked theorems about IpoIntake, for any listings, page size,  *)
(* windows, budgets and jobs: a run that exits 0 has missed no filing of   *)
(* its window and no prospectus of an issue it chose, while SEBI lists     *)
(* more, days pass and an administrator edits between its pages.           *)
(***************************************************************************)
EXTENDS IpoIntake, FiniteSetTheorems, NaturalsInduction, SequenceTheorems,
        WellFoundedInduction, TLAPS

-----------------------------------------------------------------------------
(* The members of a set in their order.                                    *)

\* No member comes before itself, of two one comes before the other, and so on.
Orders(before, set) ==
    /\ \A x \in set : <<x, x>> \notin before
    /\ \A x, y \in set : x # y => <<x, y>> \in before \/ <<y, x>> \in before
    /\ \A x, y, z \in set : <<x, y>> \in before /\ <<y, z>> \in before => <<x, z>> \in before

Ahead(x, set, before) == {y \in set : <<y, x>> \in before}

\* Not all members are ahead of one.
LEMMA AheadIsPart ==
  ASSUME NEW set, IsFiniteSet(set), NEW before, Orders(before, set), NEW x \in set
  PROVE  /\ IsFiniteSet(Ahead(x, set, before))
         /\ Cardinality(set) \in Nat
         /\ Cardinality(Ahead(x, set, before)) \in 0 .. Cardinality(set) - 1
<1>1. Ahead(x, set, before) \in SUBSET (set \ {x})
  BY DEF Orders, Ahead
<1>2. /\ IsFiniteSet(set \ {x}) /\ Cardinality(set \ {x}) = Cardinality(set) - 1
      /\ Cardinality(set) \in Nat
  BY FS_RemoveElement, FS_CardinalityType
<1>3. /\ IsFiniteSet(Ahead(x, set, before))
      /\ Cardinality(Ahead(x, set, before)) <= Cardinality(set \ {x})
  BY <1>1, <1>2, FS_Subset
<1> QED BY <1>2, <1>3, FS_CardinalityType

\* Fewer are ahead of the first of two.
LEMMA AheadOfFirst ==
  ASSUME NEW set, IsFiniteSet(set), NEW before, Orders(before, set),
         NEW x \in set, NEW y \in set, <<x, y>> \in before
  PROVE  Cardinality(Ahead(x, set, before)) < Cardinality(Ahead(y, set, before))
<1> DEFINE a == Ahead(x, set, before)
           b == Ahead(y, set, before)
<1>1. a \in SUBSET b /\ x \in b /\ x \notin a
  BY DEF Orders, Ahead
<1>2. IsFiniteSet(a) /\ IsFiniteSet(b)
  BY AheadIsPart
<1> HIDE DEF a, b
<1>3. /\ Cardinality(a) <= Cardinality(b) /\ Cardinality(a) # Cardinality(b)
      /\ Cardinality(a) \in Nat /\ Cardinality(b) \in Nat
  BY <1>1, <1>2, FS_Subset, FS_CardinalityType
<1>4. Cardinality(a) < Cardinality(b)
  BY <1>3
<1> QED BY <1>4 DEF a, b

\* Arranged lists every member once, as many as are ahead of it after the first.
LEMMA ArrangedLists ==
  ASSUME NEW set, IsFiniteSet(set), NEW before, Orders(before, set)
  PROVE  LET q == Arranged(set, before)
             n == Cardinality(set)
         IN  /\ n \in Nat /\ q \in Seq(set) /\ Len(q) = n /\ DOMAIN q = 1 .. n
             /\ \A i \in 1 .. n : /\ q[i] \in set
                                  /\ Cardinality(Ahead(q[i], set, before)) = i - 1
             /\ \A x \in set : x = q[Cardinality(Ahead(x, set, before)) + 1]
<1> DEFINE n == Cardinality(set)
           rank == [x \in set |-> Cardinality(Ahead(x, set, before)) + 1]
           q == Arranged(set, before)
<1>1. n \in Nat
  BY FS_CardinalityType
<1>2. \A x \in set : Cardinality(Ahead(x, set, before)) \in 0 .. n - 1
  BY AheadIsPart
<1>3. \A x \in set : rank[x] \in 1 .. n /\ rank[x] - 1 = Cardinality(Ahead(x, set, before))
  BY <1>1, <1>2
<1>4. ASSUME NEW x \in set, NEW y \in set, x # y PROVE rank[x] # rank[y]
  <2>1. CASE <<x, y>> \in before
    BY <1>2, <2>1, AheadOfFirst
  <2>2. CASE <<y, x>> \in before
    BY <1>2, <2>2, AheadOfFirst
  <2> QED BY <1>4, <2>1, <2>2 DEF Orders
<1>5. rank \in [set -> 1 .. n]
  BY <1>3
<1>6. \A i \in 1 .. n : \E x \in set : rank[x] = i
  <2> HIDE DEF rank
  <2>1. rank \in Injection(set, 1 .. n)
    BY <1>4, <1>5 DEF Injection, IsInjective
  <2>2. IsFiniteSet(1 .. n) /\ Cardinality(1 .. n) = n
    BY <1>1, FS_Interval
  <2>3. rank \in Surjection(set, 1 .. n)
    BY <2>1, <2>2, FS_Injection
  <2> QED BY <2>3 DEF Surjection
<1>7. q = [i \in 1 .. n |-> CHOOSE x \in set : Cardinality(Ahead(x, set, before)) = i - 1]
  BY DEF Arranged, Ahead
<1> HIDE DEF q, rank
<1>8. ASSUME NEW i \in 1 .. n PROVE q[i] \in set /\ rank[q[i]] = i
  <2>1. \E x \in set : Cardinality(Ahead(x, set, before)) = i - 1
    BY <1>3, <1>6
  <2>2. q[i] \in set /\ Cardinality(Ahead(q[i], set, before)) = i - 1
    BY <1>7, <2>1
  <2> QED BY <1>1, <1>3, <2>2
<1>9. ASSUME NEW x \in set PROVE x = q[rank[x]]
  BY <1>3, <1>4, <1>8
<1>10. q \in Seq(set) /\ Len(q) = n /\ DOMAIN q = 1 .. n
  <2>1. q = [i \in 1 .. n |-> q[i]]
    BY <1>7
  <2> QED BY <1>1, <1>8, <2>1
<1>11. \A x \in set : rank[x] = Cardinality(Ahead(x, set, before)) + 1
  BY DEF rank
<1>12. \A i \in 1 .. n : Cardinality(Ahead(q[i], set, before)) = i - 1
  BY <1>3, <1>8
<1> QED BY <1>1, <1>8, <1>9, <1>10, <1>11, <1>12 DEF q

-----------------------------------------------------------------------------
(* The listing and its pages.                                              *)

ListingOK == listed \in [DOMAIN Filings -> 1 .. LastIntakeDay \cup {None}]

\* The filings are numbered.
LEMMA FilingsAreNumbered ==
  /\ Len(Filings) \in Nat /\ DOMAIN Filings = 1 .. Len(Filings)
  /\ IsFiniteSet(DOMAIN Filings)
<1>1. Len(Filings) \in Nat /\ DOMAIN Filings = 1 .. Len(Filings)
  BY IntakeAssumption, LenProperties
<1>2. IsFiniteSet(1 .. Len(Filings))
  BY <1>1, FS_Interval
<1> QED BY <1>1, <1>2

\* A date is a number.
LEMMA DatesAreNumbers ==
  ASSUME ListingOK
  PROVE  \A f \in OnTheSite : f \in DOMAIN Filings /\ f \in Nat /\ listed[f] \in 1 .. LastIntakeDay
  BY FilingsAreNumbered DEF ListingOK, OnTheSite

\* Newest first is an order of what is on the site.
LEMMA NewestOrders ==
  ASSUME ListingOK, NEW set \in SUBSET OnTheSite
  PROVE  IsFiniteSet(set) /\ Orders(Newest, set)
<1>1. IsFiniteSet(set)
  <2>1. set \in SUBSET DOMAIN Filings
    BY DEF OnTheSite
  <2> QED BY <2>1, FilingsAreNumbered, FS_Subset
<1>2. \A f, g \in set : /\ f \in Nat /\ g \in Nat /\ listed[f] \in Int /\ listed[g] \in Int
                        /\ <<f, g>> \in Newest <=> \/ listed[f] > listed[g]
                                                   \/ listed[f] = listed[g] /\ f > g
  <2>1. ASSUME NEW f \in set, NEW g \in set
        PROVE  <<f, g>> \in Newest <=> \/ listed[f] > listed[g]
                                       \/ listed[f] = listed[g] /\ f > g
    <3>1. <<f, g>> \in OnTheSite \X OnTheSite /\ <<f, g>>[1] = f /\ <<f, g>>[2] = g
      OBVIOUS
    <3> QED BY <3>1 DEF Newest
  <2>2. \A f \in set : f \in Nat /\ listed[f] \in Int
    BY DatesAreNumbers, IntakeAssumption
  <2> QED BY Zenon, <2>1, <2>2
<1>3. Orders(Newest, set)
  BY <1>2 DEF Orders
<1> QED BY <1>1, <1>3

\* How many filings of its category are listed ahead of a filing.
Place(f, category) == Cardinality(Ahead(f, ListedIn(category), Newest))

\* As many pages as hold all of them.
LEMMA PagesHoldAll ==
  ASSUME NEW L \in Nat, NEW n \in Nat, n >= Max({1, (L + PageSize - 1) \div PageSize})
  PROVE  L <= n * PageSize
<1> DEFINE m == (L + PageSize - 1) \div PageSize
<1>1. PageSize \in Nat /\ PageSize > 0
  BY IntakeAssumption
<1>2. m \in Int /\ L + PageSize - 1 < (m + 1) * PageSize
  BY <1>1
<1> HIDE DEF m
<1>3. n >= m
  <2>1. CASE m <= 1
    <3>1. Max({1, m}) = 1
      BY <1>2, <2>1 DEF Max
    <3> QED BY <1>2, <2>1, <3>1 DEF m
  <2>2. CASE m > 1
    <3>1. Max({1, m}) = m
      BY <1>2, <2>2 DEF Max
    <3> QED BY <3>1 DEF m
  <2> QED BY <1>2, <2>1, <2>2
<1>4. (n - m) * PageSize >= 0
  BY <1>1, <1>2, <1>3
<1>5. /\ (n - m) * PageSize = n * PageSize - m * PageSize
      /\ (m + 1) * PageSize = m * PageSize + PageSize
  BY <1>1, <1>2
<1>6. n * PageSize \in Int /\ m * PageSize \in Int
  BY <1>1, <1>2
<1> QED BY <1>1, <1>2, <1>4, <1>5, <1>6

\* A page holds the filings in their places, and the pages all of them.
LEMMA PageHolds ==
  ASSUME ListingOK, NEW category, NEW n \in Nat \ {0}
  PROVE  /\ \A f \in ListedIn(category) :
              /\ Place(f, category) \in Nat
              /\ Place(f, category) >= (n - 1) * PageSize /\ Place(f, category) < n * PageSize
                   => f \in Page(category, n)
              /\ n >= PageCount(category) => Place(f, category) < n * PageSize
         /\ \A f \in Page(category, n) :
              f \in ListedIn(category) /\ Place(f, category) < n * PageSize
<1> DEFINE C == ListedIn(category)
           q == Listing(category)
           L == Cardinality(C)
           from == (n - 1) * PageSize
           to == n * PageSize
<1>1. C \in SUBSET OnTheSite
  BY DEF ListedIn
<1>2. IsFiniteSet(C) /\ Orders(Newest, C)
  BY <1>1, NewestOrders
<1>3. /\ L \in Nat /\ q \in Seq(C) /\ Len(q) = L /\ DOMAIN q = 1 .. L
      /\ \A i \in 1 .. L : q[i] \in C /\ Cardinality(Ahead(q[i], C, Newest)) = i - 1
      /\ \A f \in C : f = q[Cardinality(Ahead(f, C, Newest)) + 1]
  BY <1>2, ArrangedLists DEF Listing
<1>4. \A f \in C : Place(f, category) \in 0 .. L - 1
  BY <1>2, AheadIsPart DEF Place
<1>5. from \in Nat /\ to \in Nat
  BY IntakeAssumption
<1>6. Min({to, L}) = IF to <= L THEN to ELSE L
  <2> HIDE DEF to, L
  <2> QED BY <1>3, <1>5 DEF Min
<1>7. Page(category, n) = {q[i] : i \in (1 + from) .. (IF to <= L THEN to ELSE L)}
  BY <1>3, <1>6 DEF Page
<1>8. \A f \in C : f = q[Place(f, category) + 1]
  BY <1>3 DEF Place
<1>9. n >= PageCount(category) => L <= to
  BY <1>3, PagesHoldAll DEF PageCount
<1>10. \A i \in 1 .. L : Place(q[i], category) = i - 1
  BY <1>3 DEF Place
<1> HIDE DEF C, q, L, from, to
<1>11. ASSUME NEW f \in C
       PROVE  /\ Place(f, category) \in Nat
              /\ Place(f, category) >= from /\ Place(f, category) < to => f \in Page(category, n)
              /\ n >= PageCount(category) => Place(f, category) < to
  <2> DEFINE k == Place(f, category)
  <2>1. k \in 0 .. L - 1 /\ f = q[k + 1]
    BY <1>4, <1>8
  <2> HIDE DEF k
  <2>2. ASSUME k >= from, k < to PROVE f \in Page(category, n)
    <3>1. k + 1 \in (1 + from) .. (IF to <= L THEN to ELSE L)
      BY <1>3, <1>5, <2>1, <2>2
    <3> QED BY <1>7, <2>1, <3>1
  <2>3. n >= PageCount(category) => k < to
    BY <1>3, <1>5, <1>9, <2>1
  <2>4. k \in Nat
    BY <1>3, <2>1
  <2> QED BY <2>2, <2>3, <2>4 DEF k
<1>12. ASSUME NEW f \in Page(category, n) PROVE f \in C /\ Place(f, category) < to
  <2>1. PICK i \in (1 + from) .. (IF to <= L THEN to ELSE L) : f = q[i]
    BY <1>7
  <2>2. i \in 1 .. L /\ i <= to /\ i \in Int
    BY <1>3, <1>5
  <2> QED BY <1>3, <1>5, <1>10, <2>1, <2>2
<1> QED BY <1>11, <1>12 DEF C, from, to

-----------------------------------------------------------------------------
(* The tables.                                                             *)

\* A table is a sequence.
IsTableOf(rows) == \E R : rows \in Seq(R)

FileStates == {"not_downloaded", "download_failed", "pending"}

\* ipo_issues: the key of SEBI's company is unique.
RowsSound(rows) ==
    /\ IsTableOf(rows)
    /\ \A i \in DOMAIN rows :
        /\ DOMAIN rows[i] = {"name", "key", "status"}
        /\ rows[i].status \in DOMAIN StatusOrder
        /\ rows[i].key # None =>
              \A j \in DOMAIN rows \ {i} : rows[j].key # rows[i].key

\* ipo_documents: each belongs to the issue of its company.
DocsSound(docs, rows) ==
    \A d \in docs :
        /\ DOMAIN d = {"issue", "company", "category", "url", "filed", "file"}
        /\ d.issue \in DOMAIN rows /\ rows[d.issue].key = d.company /\ d.company # None
        /\ d.category \in DOMAIN StatusOf /\ d.file \in FileStates
        /\ d.filed \in 1 .. LastIntakeDay

\* A document of that address and company is stored.
Holds(docs, url, company) == \E d \in docs : d.url = url /\ d.company = company

\* A function on 1..n is a table.
LEMMA TableOf ==
  ASSUME NEW n \in Nat, NEW s, s = [i \in 1 .. n |-> s[i]]
  PROVE  IsTableOf(s) /\ Len(s) = n /\ DOMAIN s = 1 .. n
<1>1. s \in Seq({s[i] : i \in 1 .. n}) /\ Len(s) = n
  OBVIOUS
<1> QED BY <1>1 DEF IsTableOf

\* The length of a table.
LEMMA LengthOf ==
  ASSUME NEW rows, IsTableOf(rows)
  PROVE  /\ Len(rows) \in Nat /\ DOMAIN rows = 1 .. Len(rows)
         /\ rows = [i \in 1 .. Len(rows) |-> rows[i]]
  BY LenProperties DEF IsTableOf

\* The issue of a filing is found by its key, claimed by its name, or new.
LEMMA RowClaimed ==
  ASSUME NEW rows, RowsSound(rows), NEW company, NEW issue \in ClaimedRow(rows, company)
  PROVE  \/ issue \in DOMAIN rows /\ rows[issue].key = company
         \/ /\ issue \in DOMAIN rows /\ rows[issue].key = None
            /\ \A i \in DOMAIN rows : rows[i].key # company
         \/ /\ issue = Len(rows) + 1
            /\ \A i \in DOMAIN rows : rows[i].key # company
<1> DEFINE keyed == {i \in DOMAIN rows : rows[i].key = company}
           unclaimed == {i \in DOMAIN rows : rows[i].key = None /\ rows[i].name = company}
<1>1. \/ keyed # {} /\ issue \in keyed
      \/ keyed = {} /\ issue \in unclaimed
      \/ keyed = {} /\ issue = Len(rows) + 1
  <2>1. CASE keyed # {}
    BY <2>1 DEF ClaimedRow
  <2>2. CASE keyed = {} /\ Cardinality(unclaimed) = 1
    BY <2>2 DEF ClaimedRow
  <2>3. CASE keyed = {} /\ Cardinality(unclaimed) # 1
    BY <2>3 DEF ClaimedRow
  <2> QED BY <2>1, <2>2, <2>3
<1> QED BY <1>1

\* There is one.
LEMMA SomeRowClaimed ==
  ASSUME NEW rows, NEW company
  PROVE  ClaimedRow(rows, company) # {}
<1> DEFINE keyed == {i \in DOMAIN rows : rows[i].key = company}
           unclaimed == {i \in DOMAIN rows : rows[i].key = None /\ rows[i].name = company}
<1>1. CASE keyed # {}
  BY <1>1 DEF ClaimedRow
<1>2. CASE keyed = {} /\ Cardinality(unclaimed) = 1
  <2>1. unclaimed # {}
    BY <1>2, FS_EmptySet
  <2>2. ClaimedRow(rows, company) = unclaimed
    BY <1>2 DEF ClaimedRow
  <2> QED BY <2>1, <2>2
<1>3. CASE keyed = {} /\ Cardinality(unclaimed) # 1
  BY <1>3 DEF ClaimedRow
<1> QED BY <1>1, <1>2, <1>3

\* The row of the issue after a filing of its company.
LEMMA RowAdvanced ==
  ASSUME NEW rows, RowsSound(rows), NEW company, company # None,
         NEW issue \in ClaimedRow(rows, company), NEW status \in DOMAIN StatusOrder
  PROVE  LET new == Advanced(rows, issue, company, status)
         IN  /\ RowsSound(new)
             /\ issue \in DOMAIN new /\ new[issue].key = company
             /\ DOMAIN rows \subseteq DOMAIN new
             /\ \A i \in DOMAIN rows : rows[i].key # None => new[i].key = rows[i].key
<1> DEFINE new == Advanced(rows, issue, company, status)
           n == Len(rows)
<1>1. n \in Nat /\ DOMAIN rows = 1 .. n /\ rows = [i \in 1 .. n |-> rows[i]]
  BY LengthOf DEF RowsSound
<1>2. \/ issue \in DOMAIN rows /\ rows[issue].key = company
      \/ /\ issue \in DOMAIN rows /\ rows[issue].key = None
         /\ \A i \in DOMAIN rows : rows[i].key # company
      \/ issue = n + 1 /\ \A i \in DOMAIN rows : rows[i].key # company
  BY RowClaimed
<1>3. CASE issue \in DOMAIN rows
  <2>1. ~(issue > n) /\ issue \in 1 .. n
    BY <1>1, <1>3
  <2> DEFINE advanced == IF StatusOrder[status] > StatusOrder[rows[issue].status] THEN status
                         ELSE rows[issue].status
  <2>2. new = [rows EXCEPT ![issue].key = company, ![issue].status = advanced]
    BY <2>1 DEF Advanced
  <2>3. advanced \in DOMAIN StatusOrder
    BY <1>3 DEF RowsSound
  <2> HIDE DEF new, advanced
  <2>4. /\ new = [i \in 1 .. n |-> new[i]]
        /\ \A i \in 1 .. n : i # issue => new[i] = rows[i]
        /\ DOMAIN new[issue] = {"name", "key", "status"}
        /\ new[issue].key = company /\ new[issue].status = advanced
    BY <1>1, <1>3, <2>1, <2>2 DEF RowsSound
  <2>5. IsTableOf(new) /\ DOMAIN new = 1 .. n
    BY <1>1, <2>4, TableOf
  <2>6. \A i \in DOMAIN rows : i # issue => rows[i].key # company
    BY <1>2, <1>3 DEF RowsSound
  <2>7. RowsSound(new)
    BY <1>1, <2>1, <2>3, <2>4, <2>5, <2>6 DEF RowsSound
  <2>8. \A i \in DOMAIN rows : rows[i].key # None => new[i].key = rows[i].key
    BY <1>1, <1>2, <1>3, <2>4
  <2> QED BY <1>1, <2>1, <2>4, <2>5, <2>7, <2>8 DEF new
<1>4. CASE issue \notin DOMAIN rows
  <2> DEFINE row == [name |-> company, key |-> company, status |-> status]
  <2>1. issue = n + 1 /\ issue > n /\ \A i \in DOMAIN rows : rows[i].key # company
    BY <1>1, <1>2, <1>4
  <2>2. new = Append(rows, row)
    BY <2>1 DEF Advanced
  <2>3. DOMAIN row = {"name", "key", "status"} /\ row.key = company /\ row.status = status
    OBVIOUS
  <2> HIDE DEF new, row
  <2>4. PICK R : rows \in Seq(R)
    BY DEF RowsSound, IsTableOf
  <2>5. rows \in Seq(R \cup {row})
    BY <2>4, SeqMonotonic
  <2>6. /\ new \in Seq(R \cup {row}) /\ Len(new) = n + 1
        /\ \A i \in 1 .. n : new[i] = rows[i]
        /\ new[n + 1] = row /\ DOMAIN new = 1 .. n + 1
    BY <2>2, <2>5, AppendProperties, LenProperties
  <2>7. \A i \in DOMAIN new : i \in 1 .. n \/ i = n + 1
    BY <1>1, <2>6
  <2>8. RowsSound(new)
    <3>1. IsTableOf(new)
      BY <2>6 DEF IsTableOf
    <3>2. ASSUME NEW i \in DOMAIN new
          PROVE  /\ DOMAIN new[i] = {"name", "key", "status"}
                 /\ new[i].status \in DOMAIN StatusOrder
      BY <1>1, <2>3, <2>6, <2>7 DEF RowsSound
    <3>3. ASSUME NEW i \in DOMAIN new, new[i].key # None, NEW j \in DOMAIN new \ {i}
          PROVE  new[j].key # new[i].key
      BY <1>1, <2>1, <2>3, <2>6, <2>7, <3>3 DEF RowsSound
    <3> QED BY <3>1, <3>2, <3>3 DEF RowsSound
  <2>9. issue \in DOMAIN new /\ DOMAIN rows \subseteq DOMAIN new
    BY <1>1, <2>1, <2>6
  <2> QED BY <1>1, <2>1, <2>3, <2>6, <2>8, <2>9 DEF new
<1> QED BY <1>3, <1>4

\* Everything of a state of ingest_filings.
StateSound(state) ==
    /\ DOMAIN state = {"rows", "docs", "conflict"}
    /\ RowsSound(state.rows)
    /\ DocsSound(state.docs, state.rows)

\* The documents of a state are still those of what was held before.
Keeps(docs, before) ==
    \A d \in before : Holds(docs, d.url, d.company)

\* What one filing changes: an address that belongs to another issue is a conflict, and
\* otherwise it stays with its company.
LEMMA FilingIngested ==
  ASSUME ListingOK, NEW state, StateSound(state), NEW f \in OnTheSite
  PROVE  LET next == IngestOne(state, f)
         IN  /\ StateSound(next)
             /\ ~next.conflict =>
                    /\ ~state.conflict
                    /\ Keeps(next.docs, state.docs)
                    /\ Holds(next.docs, Filings[f].url, Filings[f].company)
<1> DEFINE company == Filings[f].company
           issue == CHOOSE i \in ClaimedRow(state.rows, company) : TRUE
           new == AsDocument(f, issue)
           same == {d \in state.docs : Hash(d) = Hash(new)}
           stored == IF same # {} THEN same ELSE {d \in state.docs : d.url = new.url}
           rows == Advanced(state.rows, issue, company, StatusOf[Filings[f].category])
           fresh == IF stored = {} THEN {new} ELSE {[new EXCEPT !.file = d.file] : d \in stored}
           docs == (state.docs \ stored) \cup fresh
           conflict == state.conflict \/ \E d \in stored : d.issue # issue
           next == IngestOne(state, f)
<1>1. next = [rows |-> rows, docs |-> docs, conflict |-> conflict]
  BY Zenon DEF IngestOne
<1>2. f \in DOMAIN Filings /\ listed[f] \in 1 .. LastIntakeDay
  BY DatesAreNumbers
<1>3. company # None /\ Filings[f].category \in DOMAIN StatusOf
  BY <1>2, IntakeAssumption
<1>4. issue \in ClaimedRow(state.rows, company)
  BY SomeRowClaimed
<1>5. StatusOf[Filings[f].category] \in DOMAIN StatusOrder
  BY <1>3 DEF StatusOf, StatusOrder
<1>6. /\ new.issue = issue /\ new.company = company /\ new.category = Filings[f].category
      /\ new.url = Filings[f].url /\ new.filed = listed[f] /\ new.file = "not_downloaded"
      /\ DOMAIN new = {"issue", "company", "category", "url", "filed", "file"}
      /\ new = [issue |-> new.issue, company |-> new.company, category |-> new.category,
                url |-> new.url, filed |-> new.filed, file |-> new.file]
  BY DEF AsDocument
<1> HIDE DEF new, issue, company
<1>7. /\ RowsSound(rows)
      /\ issue \in DOMAIN rows /\ rows[issue].key = company
      /\ DOMAIN state.rows \subseteq DOMAIN rows
      /\ \A i \in DOMAIN state.rows :
            state.rows[i].key # None => rows[i].key = state.rows[i].key
  <2>1. RowsSound(state.rows)
    BY DEF StateSound
  <2> QED BY <1>3, <1>4, <1>5, <2>1, RowAdvanced
<1> HIDE DEF rows
<1>8. \A d \in stored : d \in state.docs /\ d.url = new.url
  <2>1. \A d \in same : d \in state.docs /\ d.url = new.url
    <3>1. \A d : Hash(d)[3] = d.url
      BY DEF Hash
    <3> QED BY <3>1
  <2> QED BY <2>1
<1> HIDE DEF stored
<1>9. \A d \in fresh : /\ DOMAIN d = {"issue", "company", "category", "url", "filed", "file"}
                       /\ d.issue = issue /\ d.company = company
                       /\ d.category = Filings[f].category /\ d.url = Filings[f].url
                       /\ d.filed = listed[f] /\ d.file \in FileStates
  <2>1. CASE stored = {}
    <3>1. \A d \in fresh : d = new
      BY <2>1
    <3> QED BY <1>6, <3>1 DEF FileStates
  <2>2. CASE stored # {}
    <3>1. ASSUME NEW d \in fresh
          PROVE  \E e \in stored : d = [new EXCEPT !.file = e.file]
      BY <2>2
    <3>2. \A e \in stored : e.file \in FileStates
      BY <1>8 DEF StateSound, DocsSound
    <3>3. \A e \in stored :
            LET d == [new EXCEPT !.file = e.file]
            IN  /\ DOMAIN d = {"issue", "company", "category", "url", "filed", "file"}
                /\ d.issue = issue /\ d.company = company
                /\ d.category = Filings[f].category /\ d.url = Filings[f].url
                /\ d.filed = listed[f] /\ d.file = e.file
      BY <1>6
    <3> HIDE DEF fresh
    <3> QED BY <3>1, <3>2, <3>3
  <2> QED BY <2>1, <2>2
<1>10. \E d \in fresh : TRUE
  OBVIOUS
<1> HIDE DEF fresh
<1>11. DocsSound(docs, rows)
  <2>1. ASSUME NEW d \in docs
        PROVE  /\ DOMAIN d = {"issue", "company", "category", "url", "filed", "file"}
               /\ d.issue \in DOMAIN rows /\ rows[d.issue].key = d.company /\ d.company # None
               /\ d.category \in DOMAIN StatusOf /\ d.file \in FileStates
               /\ d.filed \in 1 .. LastIntakeDay
    <3>1. CASE d \in fresh
      BY <1>2, <1>3, <1>7, <1>9, <3>1
    <3>2. CASE d \in state.docs
      BY <1>7, <3>2 DEF StateSound, DocsSound
    <3> QED BY <2>1, <3>1, <3>2
  <2> QED BY <2>1 DEF DocsSound
<1>12. ASSUME ~(\E d \in stored : d.issue # issue) PROVE Keeps(docs, state.docs)
  <2>1. ASSUME NEW d \in state.docs PROVE Holds(docs, d.url, d.company)
    <3>1. CASE d \notin stored
      BY <2>1, <3>1 DEF Holds
    <3>2. CASE d \in stored
      <4>1. d.issue = issue /\ d.url = Filings[f].url
        BY <1>6, <1>8, <1>12, <3>2
      <4>2. d.issue \in DOMAIN state.rows /\ state.rows[d.issue].key = d.company /\ d.company # None
        BY <2>1 DEF StateSound, DocsSound
      <4>3. d.company = company
        BY <1>7, <4>1, <4>2
      <4> QED BY <1>9, <1>10, <4>1, <4>3 DEF Holds
    <3> QED BY <3>1, <3>2
  <2> QED BY <2>1 DEF Keeps
<1>13. Holds(docs, Filings[f].url, company)
  BY <1>9, <1>10 DEF Holds
<1> HIDE DEF docs
<1>14. next.rows = rows /\ next.docs = docs /\ DOMAIN next = {"rows", "docs", "conflict"}
  <2> HIDE DEF conflict, next
  <2>1. DOMAIN next = {"rows", "docs", "conflict"}
    BY <1>1
  <2>2. next.rows = rows
    BY Zenon, <1>1
  <2>3. next.docs = docs
    BY Zenon, <1>1
  <2> QED BY <2>1, <2>2, <2>3
<1>15. next.conflict <=> state.conflict \/ \E d \in stored : d.issue # issue
  <2>1. next.conflict = conflict
    <3> HIDE DEF conflict, next
    <3> QED BY Zenon, <1>1
  <2> HIDE DEF next
  <2> QED BY Zenon, <2>1
<1>16. StateSound(next)
  BY <1>7, <1>11, <1>14 DEF StateSound
<1> HIDE DEF next, conflict
<1> QED BY <1>12, <1>13, <1>14, <1>15, <1>16 DEF next, company

-----------------------------------------------------------------------------
(* A category is ingested filing by filing.                                *)

\* Induction over the numbers a set holds.
LEMMA IdsFollow ==
  ASSUME NEW T, 0 \in T, \A n \in Nat : n \in T => n + 1 \in T
  PROVE  Nat \subseteq T
<1> DEFINE bad == Nat \ T
<1> SUFFICES ASSUME bad # {} PROVE FALSE
  OBVIOUS
<1>1. PICK n \in bad : \A m \in bad : ~ <<m, n>> \in OpToRel(<, Nat)
  <2>1. bad \subseteq Nat /\ bad # {}
    OBVIOUS
  <2> HIDE DEF bad
  <2> QED BY Zenon, <2>1, NatLessThanWellFounded, WFMin
<1>2. n \in Nat /\ n # 0 /\ n - 1 \in Nat
  OBVIOUS
<1>3. n - 1 \in bad
  <2>1. n - 1 \in T => n \in T
    BY <1>2
  <2> QED BY <1>2, <2>1
<1>4. <<n - 1, n>> \in OpToRel(<, Nat)
  BY <1>2 DEF OpToRel
<1> QED BY <1>1, <1>3, <1>4

\* A set of numbers up to n has a largest one.
LEMMA LargestOf ==
  ASSUME NEW n \in Nat, NEW T \in SUBSET (1 .. n), T # {}
  PROVE  Max(T) \in T /\ \A y \in T : Max(T) >= y
<1> DEFINE far == {k \in Nat : \A U \in SUBSET (1 .. k) :
                        U # {} => \E m \in U : \A y \in U : m >= y}
<1>1. 0 \in far
  <2>1. \A U \in SUBSET (1 .. 0) : U = {}
    OBVIOUS
  <2> QED BY <2>1
<1>2. ASSUME NEW k \in Nat, k \in far PROVE k + 1 \in far
  <2>1. ASSUME NEW U \in SUBSET (1 .. k + 1), U # {} PROVE \E m \in U : \A y \in U : m >= y
    <3>1. CASE k + 1 \in U
      BY <3>1
    <3>2. CASE k + 1 \notin U
      <4>1. U \in SUBSET (1 .. k)
        BY <3>2
      <4> QED BY <1>2, <2>1, <4>1
    <3> QED BY <3>1, <3>2
  <2> QED BY <2>1
<1>3. Nat \subseteq far
  <2> HIDE DEF far
  <2> QED BY <1>1, <1>2, IdsFollow
<1>4. \E m \in T : \A y \in T : m >= y
  BY <1>3
<1> QED BY <1>4 DEF Max

\* it folds the sequence q from base over every set of its places.
Folds(base, q, n, it) ==
    \A T \in SUBSET (1 .. n) :
        it[T] = IF T = {} THEN base ELSE IngestOne(it[T \ {Max(T)}], q[Max(T)])

\* There is such a function.
LEMMA FoldExists ==
  ASSUME NEW base, NEW q, NEW n \in Nat
  PROVE  \E it : it = [T \in SUBSET (1 .. n) |-> it[T]] /\ Folds(base, q, n, it)
<1> DEFINE far == {k \in Nat : \E it : it = [T \in SUBSET (1 .. k) |-> it[T]]
                                        /\ Folds(base, q, k, it)}
<1>1. 0 \in far
  <2> DEFINE it == [T \in SUBSET (1 .. 0) |-> base]
  <2>1. \A T \in SUBSET (1 .. 0) : T = {}
    OBVIOUS
  <2>2. it = [T \in SUBSET (1 .. 0) |-> it[T]] /\ Folds(base, q, 0, it)
    BY <2>1 DEF Folds
  <2> HIDE DEF it
  <2> QED BY <2>2
<1>2. ASSUME NEW k \in Nat, k \in far PROVE k + 1 \in far
  <2>1. PICK it : Folds(base, q, k, it)
    BY <1>2
  <2> DEFINE more == [T \in SUBSET (1 .. k + 1) |->
                IF k + 1 \in T THEN IngestOne(it[T \ {k + 1}], q[k + 1]) ELSE it[T]]
  <2>2. ASSUME NEW T \in SUBSET (1 .. k + 1)
        PROVE  more[T] = IF T = {} THEN base ELSE IngestOne(more[T \ {Max(T)}], q[Max(T)])
    <3>1. CASE k + 1 \in T
      <4>1. Max(T) = k + 1
        <5> HIDE DEF more
        <5>1. k + 1 \in Nat /\ T # {} /\ \A y \in T : y \in Int /\ y <= k + 1
          BY <3>1
        <5>2. Max(T) \in T /\ \A y \in T : Max(T) >= y
          BY <5>1, LargestOf
        <5> DEFINE m == Max(T)
        <5>3. m \in T /\ m >= k + 1
          BY <3>1, <5>2
        <5> HIDE DEF m
        <5>4. m \in Int /\ m <= k + 1
          BY <5>1, <5>3
        <5>5. m = k + 1
          BY <5>1, <5>3, <5>4
        <5> QED BY <5>5 DEF m
      <4>2. T \ {k + 1} \in SUBSET (1 .. k + 1) /\ k + 1 \notin T \ {k + 1}
        OBVIOUS
      <4>3. more[T \ {k + 1}] = it[T \ {k + 1}]
        BY <4>2
      <4>4. more[T] = IngestOne(it[T \ {k + 1}], q[k + 1])
        BY <3>1
      <4> HIDE DEF more
      <4> QED BY <3>1, <4>1, <4>3, <4>4
    <3>2. CASE k + 1 \notin T
      <4>1. T \in SUBSET (1 .. k)
        BY <3>2
      <4>2. more[T] = it[T]
        BY <3>2
      <4>3. T # {} => more[T \ {Max(T)}] = it[T \ {Max(T)}]
        <5>1. k + 1 \notin T \ {Max(T)} /\ T \ {Max(T)} \in SUBSET (1 .. k + 1)
          BY <3>2
        <5> QED BY <5>1
      <4> HIDE DEF more
      <4> QED BY <2>1, <4>1, <4>2, <4>3 DEF Folds
    <3> QED BY <3>1, <3>2
  <2>3. more = [T \in SUBSET (1 .. k + 1) |-> more[T]]
    OBVIOUS
  <2> HIDE DEF more
  <2>4. Folds(base, q, k + 1, more)
    BY <2>2 DEF Folds
  <2> QED BY <2>3, <2>4
<1>3. Nat \subseteq far
  <2> HIDE DEF far
  <2> QED BY <1>1, <1>2, IdsFollow
<1> QED BY <1>3

Untouched == [rows |-> issueRows, docs |-> documents, conflict |-> FALSE]

\* Ingested is the last of the states after one filing after another.
LEMMA IngestedInTurn ==
  ASSUME NEW n \in Nat, DOMAIN Arranged(intake.fetched, Newest) = 1 .. n
  PROVE  \E s : /\ s[0] = Untouched
                /\ \A k \in 1 .. n :
                      s[k] = IngestOne(s[k - 1], Arranged(intake.fetched, Newest)[k])
                /\ Ingested = s[n]
<1> DEFINE q == Arranged(intake.fetched, Newest)
           Rec(it) == it = [T \in SUBSET (1 .. n) |->
                IF T = {} THEN Untouched ELSE IngestOne(it[T \ {Max(T)}], q[Max(T)])]
           it == CHOOSE it : Rec(it)
<1>1. \E any : Rec(any)
  <2>1. PICK any : any = [T \in SUBSET (1 .. n) |-> any[T]] /\ Folds(Untouched, q, n, any)
    BY FoldExists
  <2>2. Rec(any)
    BY <2>1 DEF Folds
  <2> QED BY <2>2
<1>2. Rec(it)
  BY <1>1
<1>3. Ingested = it[1 .. n]
  BY Zenon DEF Ingested, FoldLeft, MapThenFoldSet, Untouched
<1> HIDE DEF it, q
<1>4. it[{}] = Untouched
  BY <1>2
<1>5. ASSUME NEW k \in 1 .. n PROVE it[1 .. k] = IngestOne(it[1 .. k - 1], q[k])
  <2>1. 1 .. k \in SUBSET (1 .. n) /\ 1 .. k # {} /\ (1 .. k) \ {k} = 1 .. k - 1
    OBVIOUS
  <2>2. Max(1 .. k) = k
    BY DEF Max
  <2> QED BY <1>2, <2>1, <2>2
<1> DEFINE s == [k \in 0 .. n |-> it[1 .. k]]
<1>6. s[0] = Untouched
  <2>1. 1 .. 0 = {}
    OBVIOUS
  <2> QED BY <1>4, <2>1
<1>7. \A k \in 1 .. n : s[k] = IngestOne(s[k - 1], q[k])
  BY <1>5
<1>8. Ingested = s[n]
  BY <1>3
<1> HIDE DEF s
<1> QED BY <1>6, <1>7, <1>8 DEF q

\* Without a conflict everything fetched is stored, and everything stored stays so.
LEMMA CategoryIngested ==
  ASSUME ListingOK, RowsSound(issueRows), DocsSound(documents, issueRows),
         intake.fetched \in SUBSET OnTheSite
  PROVE  /\ StateSound(Ingested)
         /\ ~Ingested.conflict =>
                /\ Keeps(Ingested.docs, documents)
                /\ \A f \in intake.fetched :
                      Holds(Ingested.docs, Filings[f].url, Filings[f].company)
<1> DEFINE q == Arranged(intake.fetched, Newest)
           n == Cardinality(intake.fetched)
<1>1. /\ n \in Nat /\ DOMAIN q = 1 .. n
      /\ \A i \in 1 .. n : q[i] \in intake.fetched
      /\ \A f \in intake.fetched : \E i \in 1 .. n : q[i] = f
  <2>1. IsFiniteSet(intake.fetched) /\ Orders(Newest, intake.fetched)
    BY NewestOrders
  <2>2. /\ n \in Nat /\ DOMAIN q = 1 .. n
        /\ \A i \in 1 .. n : q[i] \in intake.fetched
        /\ \A f \in intake.fetched : f = q[Cardinality(Ahead(f, intake.fetched, Newest)) + 1]
    BY <2>1, ArrangedLists
  <2>3. \A f \in intake.fetched :
          Cardinality(Ahead(f, intake.fetched, Newest)) \in 0 .. n - 1
    BY <2>1, AheadIsPart
  <2> HIDE DEF q, n
  <2>4. ASSUME NEW f \in intake.fetched PROVE \E i \in 1 .. n : q[i] = f
    <3>1. Cardinality(Ahead(f, intake.fetched, Newest)) + 1 \in 1 .. n
      BY <2>2, <2>3
    <3> QED BY <2>2, <3>1
  <2> QED BY <2>2, <2>4
<1>2. PICK s : /\ s[0] = Untouched
               /\ \A k \in 1 .. n : s[k] = IngestOne(s[k - 1], q[k])
               /\ Ingested = s[n]
  BY <1>1, IngestedInTurn
<1> HIDE DEF q, n
<1> DEFINE Good(k) ==
              /\ StateSound(s[k])
              /\ ~s[k].conflict =>
                    /\ Keeps(s[k].docs, documents)
                    /\ \A i \in 1 .. k : Holds(s[k].docs, Filings[q[i]].url, Filings[q[i]].company)
           far == {k \in Nat : k <= n => Good(k)}
<1>3. 0 \in far
  <2>1. /\ Untouched.rows = issueRows /\ Untouched.docs = documents
        /\ DOMAIN Untouched = {"rows", "docs", "conflict"}
    BY DEF Untouched
  <2>2. Good(0)
    BY <1>2, <2>1 DEF StateSound, Keeps, Holds
  <2> QED BY <2>2
<1>4. ASSUME NEW k \in Nat, k \in far PROVE k + 1 \in far
  <2> SUFFICES ASSUME k + 1 <= n PROVE Good(k + 1)
    OBVIOUS
  <2>1. Good(k)
    BY <1>1, <1>4
  <2> DEFINE f == q[k + 1]
  <2>2. f \in OnTheSite /\ s[k + 1] = IngestOne(s[k], f)
    <3>1. k + 1 \in 1 .. n /\ k + 1 - 1 = k
      BY <1>1
    <3> QED BY <1>1, <1>2, <3>1
  <2>3. /\ StateSound(s[k + 1])
        /\ ~s[k + 1].conflict =>
              /\ ~s[k].conflict
              /\ Keeps(s[k + 1].docs, s[k].docs)
              /\ Holds(s[k + 1].docs, Filings[f].url, Filings[f].company)
    BY <2>1, <2>2, FilingIngested
  <2>4. \A i \in 1 .. k + 1 : i \in 1 .. k \/ i = k + 1
    OBVIOUS
  <2>5. ASSUME ~s[k + 1].conflict
        PROVE  /\ Keeps(s[k + 1].docs, documents)
               /\ \A i \in 1 .. k + 1 :
                    Holds(s[k + 1].docs, Filings[q[i]].url, Filings[q[i]].company)
    <3>1. \A url, company : Holds(s[k].docs, url, company) => Holds(s[k + 1].docs, url, company)
      BY <2>3, <2>5 DEF Keeps, Holds
    <3>2. Keeps(s[k + 1].docs, documents)
      BY <2>1, <2>3, <2>5, <3>1 DEF Keeps
    <3> QED BY <2>1, <2>3, <2>4, <2>5, <3>1, <3>2
  <2> QED BY <2>3, <2>5
<1>5. Nat \subseteq far
  <2> HIDE DEF far
  <2> QED BY <1>3, <1>4, IdsFollow
<1>6. Good(n)
  BY <1>1, <1>5
<1> HIDE DEF Good
<1> QED BY <1>1, <1>2, <1>6 DEF Good
-----------------------------------------------------------------------------
(* The inductive invariant.                                                *)

Stages == {"scan", "ingest", "select", "download", "enrich", "extract", "score"}

IntakeTables ==
    /\ today \in 1 .. LastIntakeDay
    /\ RowsSound(issueRows)
    /\ DocsSound(documents, issueRows)
    /\ lastExit \in {None, 0, 1}
    /\ owed \in SUBSET DOMAIN Filings

\* The run under way: nothing is chosen before the filings are in.
RunOK ==
    /\ DOMAIN intake = {"job", "stage", "lower", "upper", "category", "page", "fetched",
                        "known", "failed", "chosen", "at"}
    /\ intake.stage \in Stages /\ intake.failed \in BOOLEAN
    /\ intake.lower \in Int /\ intake.upper \in Int
    /\ intake.category \in 1 .. 3 /\ intake.page \in Nat \ {0} /\ intake.at \in Nat \ {0}
    /\ intake.fetched \in SUBSET OnTheSite /\ intake.known \in SUBSET OnTheSite
    /\ intake.chosen \in Seq(DOMAIN issueRows)
    /\ intake.stage \in {"scan", "ingest", "select"} => intake.chosen = <<>> /\ intake.at = 1

\* What was listed when the run began and lies in its window.
Due(f) == f \in intake.known /\ InWindow(f)

\* Of the category being read, what is due is fetched or on a page still to come:
\* the listing grows at its head only ever moves a filing to a later place.
PagedPast ==
    \A f \in DOMAIN Filings : \A c \in {Categories[intake.category]} :
        Due(f) /\ Filings[f].category = c =>
            /\ intake.stage = "scan" =>
                  f \in intake.fetched \/ Place(f, c) >= (intake.page - 1) * PageSize
            /\ intake.stage = "ingest" => f \in intake.fetched

\* The categories the run has done with.
IsPast(i) == i < intake.category \/ intake.stage \notin {"scan", "ingest"}

\* What was due in them is stored, unless one of them failed.
Scanned ==
    ~intake.failed =>
        \A f \in DOMAIN Filings : \A i \in 1 .. 3 :
            Due(f) /\ Filings[f].category = Categories[i] /\ IsPast(i) => Inventoried(f)

\* The issues the run has downloaded for.
Served(i) ==
    \/ intake.stage = "download" /\ i < intake.at
    \/ intake.stage \in {"enrich", "extract", "score"}

\* They miss no prospectus, unless a download failed.
Downloaded ==
    ~intake.failed =>
        \A i \in DOMAIN intake.chosen : Served(i) => Missing(intake.chosen[i]) = {}

RunInv == lastExit = None /\ RunOK /\ PagedPast /\ Scanned /\ Downloaded

IntakeInv == ListingOK /\ IntakeTables /\ (intake # None => RunInv)

-----------------------------------------------------------------------------
(* What the actions leave alone.                                           *)

\* A filing only ever falls behind others.
LEMMA PlacesGrow ==
  ASSUME ListingOK, ListingOK', \A f \in OnTheSite : listed'[f] = listed[f]
  PROVE  \A f \in OnTheSite : \A c :
            /\ f \in OnTheSite'
            /\ Place(f, c) \in Nat /\ Place(f, c)' \in Nat /\ Place(f, c)' >= Place(f, c)
<1> SUFFICES ASSUME NEW f \in OnTheSite, NEW c
             PROVE  /\ f \in OnTheSite'
                    /\ Place(f, c) \in Nat /\ Place(f, c)' \in Nat /\ Place(f, c)' >= Place(f, c)
  OBVIOUS
<1> DEFINE a == Ahead(f, ListedIn(c), Newest)
           b == Ahead(f, ListedIn(c), Newest)'
<1>1. \A g \in OnTheSite : g \in OnTheSite' /\ listed'[g] = listed[g]
  BY DEF OnTheSite
<1>2. a \in SUBSET b
  BY <1>1 DEF Ahead, ListedIn, Newest
<1>3. b \in SUBSET (DOMAIN Filings) /\ a \in SUBSET (DOMAIN Filings)
  BY DEF Ahead, ListedIn, OnTheSite
<1>4. Place(f, c) = Cardinality(a) /\ Place(f, c)' = Cardinality(b)
  BY DEF Place
<1> HIDE DEF a, b
<1>5. IsFiniteSet(a) /\ IsFiniteSet(b)
  BY <1>3, FilingsAreNumbered, FS_Subset
<1>6. /\ Cardinality(a) \in Nat /\ Cardinality(b) \in Nat
      /\ Cardinality(a) <= Cardinality(b)
  BY <1>2, <1>5, FS_CardinalityType, FS_Subset
<1> QED BY <1>1, <1>4, <1>6

\* SEBI, the calendar and the administrator leave a run's books as they are.
LEMMA OutsideKept ==
  ASSUME IntakeInv, UNCHANGED <<documents, intake, lastExit, owed>>,
         ListingOK', \A f \in OnTheSite : listed'[f] = listed[f],
         today' \in 1 .. LastIntakeDay, RowsSound(issueRows'), DocsSound(documents, issueRows'),
         DOMAIN issueRows' = DOMAIN issueRows
  PROVE  IntakeInv'
<1>1. IntakeTables'
  BY DEF IntakeInv, IntakeTables
<1>2. ASSUME intake # None PROVE RunInv'
  <2> USE <1>2
  <2>1. RunOK /\ RunInv /\ ListingOK
    BY DEF IntakeInv, RunInv
  <2>2. \A f \in OnTheSite : f \in OnTheSite'
    BY <2>1, PlacesGrow
  <2>3. RunOK'
    BY <2>1, <2>2 DEF RunOK
  <2>4. \A f : Due(f)' <=> Due(f)
    BY <2>1 DEF Due, InWindow, RunOK
  <2>5. PagedPast'
    <3>1. ASSUME NEW f \in DOMAIN Filings, NEW c \in {Categories[intake.category]}, Due(f),
                 Filings[f].category = c
          PROVE  /\ intake.stage = "scan" =>
                       f \in intake.fetched \/ Place(f, c)' >= (intake.page - 1) * PageSize
                 /\ intake.stage = "ingest" => f \in intake.fetched
      <4>1. /\ intake.stage = "scan" =>
                  f \in intake.fetched \/ Place(f, c) >= (intake.page - 1) * PageSize
            /\ intake.stage = "ingest" => f \in intake.fetched
        BY <2>1, <3>1 DEF RunInv, PagedPast
      <4>2. f \in OnTheSite
        BY <2>1, <3>1 DEF Due, RunOK
      <4>3. Place(f, c) \in Nat /\ Place(f, c)' \in Nat /\ Place(f, c)' >= Place(f, c)
        BY <2>1, <4>2, PlacesGrow
      <4>4. (intake.page - 1) * PageSize \in Int
        BY <2>1, IntakeAssumption DEF RunOK
      <4> QED BY <4>1, <4>3, <4>4
    <3> QED BY <2>4, <3>1 DEF PagedPast
  <2>6. Scanned'
    <3>1. \A f : Inventoried(f)' <=> Inventoried(f)
      BY DEF Inventoried
    <3> QED BY <2>1, <2>4, <3>1 DEF RunInv, Scanned, IsPast
  <2>7. Downloaded'
    BY <2>1 DEF RunInv, Downloaded, Served, Missing
  <2> QED BY <2>1, <2>3, <2>5, <2>6, <2>7 DEF RunInv
<1> QED BY <1>1, <1>2 DEF IntakeInv

\* A new filing is listed with a date of its own.
LEMMA SebiListsKept ==
  ASSUME IntakeInv, NEW f \in DOMAIN Filings, NEW late \in Lateness, SebiLists(f, late)
  PROVE  IntakeInv'
<1>1. late \in Nat /\ LastIntakeDay \in Nat /\ today \in 1 .. LastIntakeDay
  BY IntakeAssumption DEF IntakeInv, IntakeTables
<1>2. today - late \in 1 .. LastIntakeDay
  BY <1>1 DEF SebiLists
<1>3. ListingOK'
  BY <1>2 DEF IntakeInv, ListingOK, SebiLists
<1>4. \A g \in OnTheSite : listed'[g] = listed[g]
  BY DEF SebiLists, OnTheSite, IntakeInv, ListingOK
<1>5. UNCHANGED <<issueRows, documents, intake, lastExit, owed, today>>
  BY DEF SebiLists
<1>6. RowsSound(issueRows') /\ DocsSound(documents, issueRows')
  BY <1>5 DEF IntakeInv, IntakeTables
<1> QED BY <1>1, <1>3, <1>4, <1>5, <1>6, OutsideKept

\* Days pass.
LEMMA IntakeNextDayKept ==
  ASSUME IntakeInv, NEW days \in {1, Overlap + 1}, IntakeNextDay(days)
  PROVE  IntakeInv'
<1>1. today' \in 1 .. LastIntakeDay
  BY IntakeAssumption DEF IntakeInv, IntakeTables, IntakeNextDay
<1>2. UNCHANGED <<listed, issueRows, documents, intake, lastExit, owed>>
  BY DEF IntakeNextDay
<1>3. ListingOK' /\ RowsSound(issueRows') /\ DocsSound(documents, issueRows')
  BY <1>2 DEF IntakeInv, IntakeTables, ListingOK
<1> QED BY <1>1, <1>2, <1>3, OutsideKept

\* An administrator's edit of a status.
LEMMA MoveOnKept ==
  ASSUME IntakeInv, NEW i \in 1 .. Len(issueRows), NEW status \in {"open", "listed"},
         MoveOn(i, status)
  PROVE  IntakeInv'
<1>1. UNCHANGED <<listed, documents, intake, lastExit, owed, today>>
  BY DEF MoveOn
<1>2. /\ RowsSound(issueRows) /\ DocsSound(documents, issueRows) /\ ListingOK
      /\ today \in 1 .. LastIntakeDay
  BY DEF IntakeInv, IntakeTables
<1> DEFINE n == Len(issueRows)
<1>3. n \in Nat /\ DOMAIN issueRows = 1 .. n /\ issueRows = [j \in 1 .. n |-> issueRows[j]]
  BY <1>2, LengthOf DEF RowsSound
<1>4. issueRows' = [issueRows EXCEPT ![i].status = status]
  BY DEF MoveOn
<1>5. status \in DOMAIN StatusOrder
  BY DEF StatusOrder
<1> HIDE DEF n
<1>6. /\ issueRows' = [j \in 1 .. n |-> issueRows'[j]]
      /\ \A j \in 1 .. n : /\ DOMAIN issueRows'[j] = {"name", "key", "status"}
                           /\ issueRows'[j].key = issueRows[j].key
                           /\ issueRows'[j].status \in DOMAIN StatusOrder
  <2>1. issueRows' = [j \in 1 .. n |-> issueRows'[j]]
    BY <1>3, <1>4
  <2>2. ASSUME NEW j \in 1 .. n
        PROVE  /\ DOMAIN issueRows'[j] = {"name", "key", "status"}
               /\ issueRows'[j].key = issueRows[j].key
               /\ issueRows'[j].status \in DOMAIN StatusOrder
    <3>1. /\ DOMAIN issueRows[j] = {"name", "key", "status"}
          /\ issueRows[j].status \in DOMAIN StatusOrder
      BY <1>2, <1>3 DEF RowsSound
    <3>2. CASE j # i
      BY <1>3, <1>4, <3>1, <3>2
    <3>3. CASE j = i
      <4>1. issueRows'[j] = [issueRows[j] EXCEPT !.status = status]
        BY <1>3, <1>4, <3>3
      <4> QED BY <1>5, <3>1, <4>1
    <3> QED BY <3>2, <3>3
  <2> QED BY <2>1, <2>2
<1>7. IsTableOf(issueRows') /\ DOMAIN issueRows' = 1 .. n
  BY <1>3, <1>6, TableOf
<1>8. RowsSound(issueRows') /\ DocsSound(documents, issueRows')
  BY <1>2, <1>3, <1>6, <1>7 DEF RowsSound, DocsSound
<1> QED BY <1>1, <1>2, <1>3, <1>7, <1>8, OutsideKept DEF ListingOK, OnTheSite

-----------------------------------------------------------------------------
(* A run begins and ends.                                                  *)

\* A run that ends leaves no books.
LEMMA RunEnds ==
  ASSUME IntakeInv, UNCHANGED <<listed, issueRows, documents, owed, today>>,
         intake' = None, lastExit' \in {None, 0, 1}
  PROVE  IntakeInv'
<1>1. ListingOK' /\ IntakeTables'
  BY DEF IntakeInv, ListingOK, IntakeTables
<1> QED BY <1>1 DEF IntakeInv

\* The lower bound of a run is a day.
LEMMA LowerIsADay ==
  ASSUME IntakeTables, NEW job \in Jobs
  PROVE  LowerBound(job) \in Int
<1>1. job.from \in {"default", "full"} /\ Overlap \in Nat /\ FirstWindow \in Nat
      /\ LastIntakeDay \in Nat
  BY IntakeAssumption
<1>2. today \in Int
  BY <1>1 DEF IntakeTables
<1>3. CASE job.from = "full"
  <2>1. LowerBound(job) = 0
    BY <1>3 DEF LowerBound
  <2> QED BY <2>1
<1>4. CASE job.from = "default" /\ documents = {}
  <2>1. LowerBound(job) = today - FirstWindow
    BY <1>4 DEF LowerBound
  <2> QED BY <1>1, <1>2, <2>1
<1>5. CASE job.from = "default" /\ documents # {}
  <2> DEFINE dates == {d.filed : d \in documents}
  <2>1. dates \in SUBSET (1 .. LastIntakeDay) /\ dates # {}
    BY <1>5 DEF IntakeTables, DocsSound
  <2>2. Watermark \in dates
    <3> HIDE DEF dates
    <3>1. Max(dates) \in dates
      BY <1>1, <2>1, LargestOf
    <3> QED BY <3>1 DEF Watermark, dates
  <2> HIDE DEF dates
  <2>3. Watermark \in Int
    BY <1>1, <2>1, <2>2
  <2>4. LowerBound(job) = Watermark - Overlap
    BY <1>5 DEF LowerBound
  <2> QED BY <1>1, <2>3, <2>4
<1> QED BY <1>1, <1>3, <1>4, <1>5

\* A run begins with nothing read.
LEMMA StartRunKept ==
  ASSUME IntakeInv, NEW job \in Jobs, StartRun(job)
  PROVE  IntakeInv'
<1>1. UNCHANGED <<listed, issueRows, documents, owed, today>> /\ intake = None
  BY DEF StartRun
<1>2. ListingOK' /\ ListingOK /\ IntakeTables
  BY <1>1 DEF IntakeInv, ListingOK
<1>3. CASE EndRun(1)
  BY <1>1, <1>3, RunEnds DEF EndRun
<1>4. CASE ~EndRun(1)
  <2>1. lastExit' = None /\ IntakeTables'
    BY <1>1, <1>2, <1>4 DEF StartRun, IntakeTables
  <2>2. LowerBound(job) \in Int /\ today \in Int
    BY <1>2, LowerIsADay, IntakeAssumption DEF IntakeTables
  <2> DEFINE next == intake'
  <2>3. PICK stage \in {"scan", "select"}, lower \in Int, upper \in Int, known \in {{}, OnTheSite} :
            /\ next = [job |-> job, stage |-> stage, lower |-> lower, upper |-> upper,
                       category |-> 1, page |-> 1, fetched |-> {}, known |-> known,
                       failed |-> FALSE, chosen |-> <<>>, at |-> 1]
            /\ stage = "select" => known = {}
    BY <1>4, <2>2 DEF StartRun
  <2> HIDE DEF next
  <2>4. /\ DOMAIN next = {"job", "stage", "lower", "upper", "category", "page", "fetched",
                          "known", "failed", "chosen", "at"}
        /\ next.stage \in {"scan", "select"}
        /\ next.lower \in Int /\ next.upper \in Int
        /\ next.category = 1 /\ next.page = 1 /\ next.fetched = {} /\ next.at = 1
        /\ next.chosen = <<>> /\ next.known \in {{}, OnTheSite}
        /\ next.stage = "select" => next.known = {}
    BY <2>3
  <2>5. next.failed = FALSE
    BY Zenon, <2>3
  <2>6. OnTheSite' = OnTheSite
    BY <1>1 DEF OnTheSite
  <2>7. <<>> \in Seq(DOMAIN issueRows')
    OBVIOUS
  <2>8. RunOK'
    <3>1. next.chosen \in Seq(DOMAIN issueRows')
      BY <2>4, <2>7
    <3>2. next.known \in SUBSET (OnTheSite') /\ next.fetched \in SUBSET (OnTheSite')
      BY <2>4, <2>6
    <3>3. next.failed \in BOOLEAN
      BY Zenon, <2>5
    <3>4. /\ next.stage \in Stages /\ next.category \in 1 .. 3
          /\ next.page \in Nat \ {0} /\ next.at \in Nat \ {0}
      BY <2>4 DEF Stages
    <3> QED BY <2>4, <3>1, <3>2, <3>3, <3>4 DEF RunOK, next
  <2>9. PagedPast'
    <3>1. ASSUME NEW f \in DOMAIN Filings, NEW c, f \in OnTheSite
          PROVE  Place(f, c)' >= (next.page - 1) * PageSize
      <4>1. Place(f, c)' \in Nat
        BY <1>1, <1>2, <3>1, PlacesGrow DEF OnTheSite
      <4>2. (next.page - 1) * PageSize = 0
        BY <2>4, IntakeAssumption
      <4> QED BY <4>1, <4>2
    <3> QED BY <2>4, <2>6, <3>1 DEF PagedPast, Due, next
  <2>10. Scanned'
    BY <2>4 DEF Scanned, Due, IsPast, next
  <2>11. Downloaded'
    BY <2>4 DEF Downloaded, next
  <2> QED BY <1>2, <2>1, <2>8, <2>9, <2>10, <2>11 DEF IntakeInv, RunInv
<1> QED BY <1>3, <1>4

\* A run is killed, or ends by itself.
LEMMA EndKept ==
  ASSUME IntakeInv, FinishRun \/ KillRun
  PROVE  IntakeInv'
<1>1. UNCHANGED <<listed, issueRows, documents, owed, today>> /\ intake' = None
  BY DEF FinishRun, KillRun, EndRun
<1>2. lastExit' \in {None, 0, 1}
  BY DEF FinishRun, KillRun, EndRun, ExitCode
<1> QED BY <1>1, <1>2, RunEnds

-----------------------------------------------------------------------------
(* The scan.                                                               *)

\* A page read is read whole, and the last one reaches below the bound.
LEMMA FetchPageKept ==
  ASSUME IntakeInv, FetchPage
  PROVE  IntakeInv'
<1> DEFINE category == Categories[intake.category]
           page == Page(category, intake.page)
           next == intake'
<1>1. intake # None /\ intake.stage = "scan"
  BY DEF FetchPage, In
<1>2. ListingOK /\ IntakeTables /\ RunInv /\ RunOK /\ PagedPast /\ Scanned
  BY <1>1 DEF IntakeInv, RunInv
<1>3. UNCHANGED <<listed, issueRows, documents, lastExit, owed, today>>
  BY DEF FetchPage
<1>4. ListingOK' /\ IntakeTables' /\ OnTheSite' = OnTheSite
  BY <1>2, <1>3 DEF ListingOK, IntakeTables, OnTheSite
<1>5. next = [intake EXCEPT !.fetched = @ \cup {f \in page : InWindow(f)},
                !.page = @ + 1, !.stage = IF IsLastPage(page) THEN "ingest" ELSE "scan"]
  BY DEF FetchPage
<1> HIDE DEF page, next
<1>6. /\ DOMAIN next = DOMAIN intake
      /\ next.lower = intake.lower /\ next.upper = intake.upper
      /\ next.category = intake.category /\ next.known = intake.known
      /\ next.chosen = intake.chosen /\ next.at = intake.at
      /\ next.failed = intake.failed
      /\ next.page = intake.page + 1
      /\ next.fetched = intake.fetched \cup {f \in page : InWindow(f)}
      /\ next.stage = IF IsLastPage(page) THEN "ingest" ELSE "scan"
  BY <1>2, <1>5 DEF RunOK
<1>7. intake.page \in Nat \ {0} /\ intake.category \in 1 .. 3 /\ intake.page + 1 \in Nat \ {0}
  BY <1>2 DEF RunOK
<1>8. /\ \A f \in ListedIn(category) :
            /\ Place(f, category) \in Nat
            /\ Place(f, category) >= (intake.page - 1) * PageSize
               /\ Place(f, category) < intake.page * PageSize => f \in page
            /\ intake.page >= PageCount(category) => Place(f, category) < intake.page * PageSize
      /\ \A f \in page :
            f \in ListedIn(category) /\ Place(f, category) < intake.page * PageSize
  <2> HIDE DEF category
  <2> QED BY <1>2, <1>7, PageHolds DEF page
<1>9. RunOK'
  <2>1. \A f \in page : f \in OnTheSite
    BY <1>8 DEF ListedIn
  <2>2. next.fetched \in SUBSET OnTheSite
    BY <1>2, <1>6, <2>1 DEF RunOK
  <2>3. /\ DOMAIN next = {"job", "stage", "lower", "upper", "category", "page", "fetched",
                          "known", "failed", "chosen", "at"}
        /\ next.stage \in Stages /\ next.stage \in {"scan", "ingest"}
        /\ next.lower \in Int /\ next.upper \in Int
        /\ next.category \in 1 .. 3 /\ next.page \in Nat \ {0} /\ next.at \in Nat \ {0}
        /\ next.known \in SUBSET OnTheSite
        /\ next.chosen \in Seq(DOMAIN issueRows)
        /\ next.chosen = <<>> /\ next.at = 1
    BY <1>1, <1>2, <1>6, <1>7 DEF RunOK, Stages
  <2>4. next.failed \in BOOLEAN
    BY Zenon, <1>2, <1>6 DEF RunOK
  <2> QED BY <1>3, <1>4, <2>2, <2>3, <2>4 DEF RunOK, next
<1>10. \A f : Due(f)' <=> Due(f)
  BY <1>3, <1>6 DEF Due, InWindow, next
<1>11. \A f, c : Place(f, c)' = Place(f, c)
  BY <1>3 DEF Place, Ahead, ListedIn, OnTheSite, Newest
<1>12. ASSUME NEW f \in DOMAIN Filings, Due(f), Filings[f].category = category
       PROVE  /\ next.stage = "scan" =>
                    f \in next.fetched \/ Place(f, category) >= intake.page * PageSize
              /\ next.stage = "ingest" => f \in next.fetched
  <2>1. f \in intake.fetched \/ Place(f, category) >= (intake.page - 1) * PageSize
    BY <1>1, <1>2, <1>12 DEF PagedPast
  <2>2. f \in OnTheSite /\ f \in ListedIn(category) /\ InWindow(f)
    BY <1>2, <1>12 DEF Due, RunOK, ListedIn
  <2>3. Place(f, category) \in Nat /\ intake.page * PageSize \in Int
    BY <1>7, <1>8, <2>2, IntakeAssumption
  <2>4. Place(f, category) < intake.page * PageSize => f \in next.fetched
    BY <1>6, <1>8, <2>1, <2>2
  <2>5. next.stage = "ingest" => f \in next.fetched
    <3>1. CASE intake.page >= PageCount(category)
      BY <1>8, <2>2, <2>4, <3>1
    <3>2. CASE \E g \in page : listed[g] < intake.lower
      <4>1. PICK g \in page : listed[g] < intake.lower
        BY <3>2
      <4>2. /\ g \in OnTheSite /\ g \in ListedIn(category)
            /\ Place(g, category) < intake.page * PageSize
        BY <1>8, <4>1 DEF ListedIn
      <4>3. /\ listed[f] \in Int /\ listed[g] \in Int /\ intake.lower \in Int
            /\ intake.lower <= listed[f]
        BY <1>2, <2>2, <4>2, DatesAreNumbers, IntakeAssumption DEF InWindow, RunOK
      <4>4. <<f, g>> \in Newest
        <5>1. listed[f] > listed[g]
          BY <4>1, <4>3
        <5>2. <<f, g>> \in OnTheSite \X OnTheSite /\ <<f, g>>[1] = f /\ <<f, g>>[2] = g
          BY <2>2, <4>2
        <5> QED BY <5>1, <5>2 DEF Newest
      <4>5. ListedIn(category) \in SUBSET OnTheSite
        BY DEF ListedIn
      <4>6. IsFiniteSet(ListedIn(category)) /\ Orders(Newest, ListedIn(category))
        BY <1>2, <4>5, NewestOrders
      <4>7. Place(f, category) < Place(g, category)
        BY <2>2, <4>2, <4>4, <4>6, AheadOfFirst DEF Place
      <4>8. Place(g, category) \in Nat
        BY <1>8, <4>2
      <4> QED BY <2>3, <2>4, <4>2, <4>7, <4>8
    <3>3. next.stage = "ingest" => IsLastPage(page)
      BY <1>6
    <3> QED BY <3>1, <3>2, <3>3 DEF IsLastPage
  <2> QED BY <2>3, <2>4, <2>5
<1>13. PagedPast'
  <2>1. (intake.page + 1) - 1 = intake.page
    BY <1>7
  <2> QED BY <1>6, <1>10, <1>11, <1>12, <2>1 DEF PagedPast, next
<1>14. Scanned'
  <2>1. \A f : Inventoried(f)' <=> Inventoried(f)
    BY <1>3 DEF Inventoried
  <2>2. \A i \in 1 .. 3 : IsPast(i)' => IsPast(i)
    BY <1>6 DEF IsPast, next
  <2>3. ~next.failed => ~intake.failed
    BY Zenon, <1>6
  <2> QED BY <1>2, <1>10, <2>1, <2>2, <2>3 DEF Scanned, next
<1>15. Downloaded'
  <2>1. next.chosen = <<>>
    BY <1>1, <1>2, <1>6 DEF RunOK
  <2> QED BY <2>1 DEF Downloaded, next
<1>16. lastExit' = None
  BY <1>2, <1>3 DEF RunInv
<1> QED BY <1>4, <1>9, <1>13, <1>14, <1>15, <1>16 DEF IntakeInv, RunInv

\* A category is done with: what was due in it is stored, or the run has failed.
LEMMA AfterCategoryKept ==
  ASSUME IntakeInv, intake # None, intake.stage \in {"scan", "ingest"},
         NEW failed \in BOOLEAN, AfterCategory(failed),
         UNCHANGED <<listed, lastExit, today>>, RowsSound(issueRows'),
         DocsSound(documents', issueRows'),
         owed' \in SUBSET DOMAIN Filings,
         ~failed =>
            /\ Keeps(documents', documents)
            /\ \A f \in DOMAIN Filings :
                  Due(f) /\ Filings[f].category = Categories[intake.category] => Inventoried(f)'
  PROVE  IntakeInv'
<1> DEFINE next == intake'
<1>1. ListingOK /\ IntakeTables /\ RunInv /\ RunOK /\ PagedPast /\ Scanned
  BY DEF IntakeInv, RunInv
<1>2. ListingOK' /\ IntakeTables' /\ OnTheSite' = OnTheSite
  BY <1>1 DEF ListingOK, IntakeTables, OnTheSite
<1>3. intake.category \in 1 .. 3 /\ Len(Categories) = 3
  BY <1>1 DEF RunOK, Categories
<1>4. Min({intake.category + 1, Len(Categories)})
        = IF intake.category < 3 THEN intake.category + 1 ELSE 3
  <2> DEFINE c == intake.category
  <2> HIDE DEF c
  <2>1. c \in 1 .. 3 => Min({c + 1, 3}) = IF c < 3 THEN c + 1 ELSE 3
    BY DEF Min
  <2> QED BY <1>3, <2>1 DEF c
<1>5. next = [intake EXCEPT !.fetched = {}, !.page = 1, !.failed = @ \/ failed,
                !.stage = IF intake.category < Len(Categories) THEN "scan" ELSE "select",
                !.category = Min({@ + 1, Len(Categories)})]
  BY DEF AfterCategory
<1> HIDE DEF next
<1>6. /\ DOMAIN next = DOMAIN intake
      /\ next.lower = intake.lower /\ next.upper = intake.upper /\ next.known = intake.known
      /\ next.chosen = intake.chosen /\ next.at = intake.at
      /\ next.page = 1 /\ next.fetched = {}
      /\ next.stage = IF intake.category < 3 THEN "scan" ELSE "select"
      /\ next.category = IF intake.category < 3 THEN intake.category + 1 ELSE 3
  BY <1>1, <1>3, <1>4, <1>5 DEF RunOK
<1>7. next.failed = (intake.failed \/ failed)
  <2>1. "failed" \in DOMAIN intake
    BY <1>1 DEF RunOK
  <2> QED BY <1>5, <2>1
<1>8. RunOK'
  <2>1. next.chosen = <<>> /\ next.chosen \in Seq(DOMAIN issueRows') /\ next.at = 1
    BY <1>1, <1>6 DEF RunOK
  <2>2. next.failed \in BOOLEAN
    BY Zenon, <1>7
  <2>3. /\ next.stage \in Stages /\ next.category \in 1 .. 3
        /\ next.page \in Nat \ {0} /\ next.at \in Nat \ {0}
    BY <1>3, <1>6, <2>1 DEF Stages
  <2> QED BY <1>1, <1>2, <1>6, <2>1, <2>2, <2>3 DEF RunOK, next
<1>9. \A f : Due(f)' <=> Due(f)
  BY <1>6 DEF Due, InWindow, next
<1>10. PagedPast'
  <2>1. ASSUME NEW f \in OnTheSite, NEW c PROVE Place(f, c)' >= (next.page - 1) * PageSize
    <3>1. Place(f, c)' \in Nat
      BY <1>1, <1>2, PlacesGrow
    <3>2. (next.page - 1) * PageSize = 0
      BY <1>6, IntakeAssumption
    <3> QED BY <3>1, <3>2
  <2>2. \A f : Due(f) => f \in OnTheSite
    BY <1>1 DEF Due, RunOK
  <2>3. next.stage # "ingest"
    BY <1>6
  <2> QED BY <1>9, <2>1, <2>2, <2>3 DEF PagedPast, next
<1>11. Scanned'
  <2>1. ASSUME ~next.failed PROVE ~intake.failed /\ ~failed
    BY Zenon, <1>7, <2>1
  <2>2. ASSUME NEW i \in 1 .. 3, IsPast(i)' PROVE IsPast(i) \/ i = intake.category
    BY <1>3, <1>6, <2>2 DEF IsPast, next
  <2>3. ASSUME ~next.failed, NEW f \in DOMAIN Filings, Inventoried(f) PROVE Inventoried(f)'
    BY <2>1, <2>3 DEF Keeps, Holds, Inventoried
  <2> QED BY <1>1, <1>9, <2>1, <2>2, <2>3 DEF Scanned, next
<1>12. Downloaded'
  <2>1. next.chosen = <<>>
    BY <1>1, <1>6 DEF RunOK
  <2> QED BY <2>1 DEF Downloaded, next
<1>13. lastExit' = None
  BY <1>1 DEF RunInv
<1> QED BY <1>2, <1>8, <1>10, <1>11, <1>12, <1>13 DEF IntakeInv, RunInv

\* A category that fails takes the exit code with it.
LEMMA CategoryFailsKept ==
  ASSUME IntakeInv, CategoryFails
  PROVE  IntakeInv'
<1>1. intake # None /\ intake.stage \in {"scan", "ingest"} /\ AfterCategory(TRUE)
  BY DEF CategoryFails, In
<1>2. UNCHANGED <<listed, issueRows, documents, lastExit, today>>
  BY DEF CategoryFails
<1>3. owed' \in SUBSET DOMAIN Filings
  BY DEF CategoryFails, IntakeInv, IntakeTables
<1>4. RowsSound(issueRows') /\ DocsSound(documents', issueRows')
  BY <1>2 DEF IntakeInv, IntakeTables
<1> QED BY <1>1, <1>2, <1>3, <1>4, AfterCategoryKept

\* A category that is ingested is stored whole.
LEMMA IngestKept ==
  ASSUME IntakeInv, Ingest
  PROVE  IntakeInv'
<1>1. intake # None /\ intake.stage = "ingest" /\ AfterCategory(FALSE)
  BY DEF Ingest, In
<1>2. /\ UNCHANGED <<listed, lastExit, today>> /\ ~Ingested.conflict
      /\ issueRows' = Ingested.rows /\ documents' = Ingested.docs
  BY DEF Ingest
<1>3. ListingOK /\ IntakeTables /\ RunInv /\ RunOK /\ PagedPast
  BY <1>1 DEF IntakeInv, RunInv
<1>4. /\ StateSound(Ingested)
      /\ Keeps(Ingested.docs, documents)
      /\ \A f \in intake.fetched :
            Holds(Ingested.docs, Filings[f].url, Filings[f].company)
  BY <1>2, <1>3, CategoryIngested DEF IntakeTables, RunOK
<1>5. /\ RowsSound(issueRows') /\ DocsSound(documents', issueRows')
  BY <1>2, <1>4 DEF StateSound
<1>6. owed' \in SUBSET DOMAIN Filings
  BY <1>3 DEF Ingest, IntakeTables
<1>7. Keeps(documents', documents)
  BY <1>2, <1>4
<1>8. ASSUME NEW f \in DOMAIN Filings, Due(f), Filings[f].category = Categories[intake.category]
      PROVE  Inventoried(f)'
  <2>1. f \in intake.fetched
    BY <1>1, <1>3, <1>8 DEF PagedPast
  <2> QED BY <1>2, <1>4, <2>1 DEF Holds, Inventoried
<1> QED BY <1>1, <1>2, <1>5, <1>6, <1>7, <1>8, AfterCategoryKept

-----------------------------------------------------------------------------
(* The screener's stages.                                                  *)

Later == {"download", "enrich", "extract", "score"}

\* A stage changes only how far the run is.
Carried ==
    /\ UNCHANGED <<listed, issueRows, lastExit, owed, today>>
    /\ DOMAIN intake' = DOMAIN intake
    /\ intake'.lower = intake.lower /\ intake'.upper = intake.upper
    /\ intake'.category = intake.category /\ intake'.page = intake.page
    /\ intake'.fetched = intake.fetched /\ intake'.known = intake.known
    /\ intake'.stage \in Later /\ intake'.at \in Nat \ {0}
    /\ intake'.chosen \in Seq(DOMAIN issueRows)
    /\ intake'.failed \in BOOLEAN /\ (~intake'.failed => ~intake.failed)

\* What the scan stored stays stored.
LEMMA StageKept ==
  ASSUME IntakeInv, intake # None, intake.stage \notin {"scan", "ingest"}, Carried,
         DocsSound(documents', issueRows), Keeps(documents', documents), Downloaded'
  PROVE  IntakeInv'
<1>1. ListingOK /\ IntakeTables /\ RunInv /\ RunOK /\ Scanned
  BY DEF IntakeInv, RunInv
<1>2. UNCHANGED <<listed, issueRows, lastExit, owed, today>>
  BY DEF Carried
<1>3. ListingOK' /\ IntakeTables' /\ OnTheSite' = OnTheSite
  BY <1>1, <1>2 DEF ListingOK, IntakeTables, OnTheSite
<1>4. RunOK'
  BY <1>1, <1>2, <1>3 DEF RunOK, Carried, Later, Stages
<1>5. \A f : Due(f)' <=> Due(f)
  BY <1>2 DEF Due, InWindow, Carried
<1>6. PagedPast'
  BY DEF PagedPast, Carried, Later
<1>7. Scanned'
  <2>1. \A f : Inventoried(f) => Inventoried(f)'
    BY DEF Keeps, Holds, Inventoried
  <2>2. \A i \in 1 .. 3 : IsPast(i)
    BY DEF IsPast
  <2>3. ~intake'.failed => ~intake.failed
    BY DEF Carried
  <2> QED BY <1>1, <1>5, <2>1, <2>2, <2>3 DEF Scanned
<1>8. lastExit' = None
  BY <1>1, <1>2 DEF RunInv
<1> QED BY <1>3, <1>4, <1>6, <1>7, <1>8 DEF IntakeInv, RunInv

\* Past the downloads nothing is written here.
LEMMA StageGoesOn ==
  ASSUME IntakeInv, intake # None, intake.stage \in Later, Carried, UNCHANGED documents,
         intake'.chosen = intake.chosen,
         \A i \in DOMAIN intake.chosen : Served(i)' => Served(i)
  PROVE  IntakeInv'
<1>1. IntakeTables /\ RunInv /\ Downloaded
  BY DEF IntakeInv, RunInv
<1>2. DocsSound(documents', issueRows) /\ Keeps(documents', documents)
  BY <1>1 DEF IntakeTables, Keeps, Holds
<1>3. Downloaded'
  <2>1. ~intake'.failed => ~intake.failed
    BY DEF Carried
  <2>2. \A i : Missing(i)' = Missing(i)
    BY DEF Missing
  <2> QED BY <1>1, <2>1, <2>2 DEF Downloaded
<1> QED BY <1>2, <1>3, StageKept DEF Later

\* The issues are chosen in the order of their ids.
LEMMA SelectKept ==
  ASSUME IntakeInv, Select
  PROVE  IntakeInv'
<1> DEFINE wanted == {i \in DOMAIN issueRows :
                        IF intake.job.wanted # None THEN i \in intake.job.wanted
                        ELSE intake.job.finished \/ issueRows[i].status \in Upcoming}
           next == intake'
<1>1. intake # None /\ intake.stage = "select"
  BY DEF Select, In
<1>2. IntakeTables /\ RunInv /\ RunOK
  BY <1>1 DEF IntakeInv, RunInv
<1>3. next = [intake EXCEPT !.stage = "download", !.chosen = Arranged(wanted, ById)]
  BY DEF Select
<1>4. Arranged(wanted, ById) \in Seq(DOMAIN issueRows)
  <2>1. wanted \in SUBSET (DOMAIN issueRows)
    OBVIOUS
  <2> HIDE DEF wanted
  <2>2. Len(issueRows) \in Nat /\ DOMAIN issueRows = 1 .. Len(issueRows)
    BY <1>2, LengthOf DEF IntakeTables, RowsSound
  <2>3. IsFiniteSet(wanted)
    <3>1. IsFiniteSet(1 .. Len(issueRows))
      BY <2>2, FS_Interval
    <3> QED BY <2>1, <2>2, <3>1, FS_Subset
  <2>4. \A i, j \in wanted : <<i, j>> \in ById <=> i < j
    <3>1. ASSUME NEW i \in wanted, NEW j \in wanted PROVE <<i, j>> \in ById <=> i < j
      <4>1. /\ <<i, j>> \in (DOMAIN issueRows) \X (DOMAIN issueRows)
            /\ <<i, j>>[1] = i /\ <<i, j>>[2] = j
        BY <2>1
      <4> QED BY <4>1 DEF ById
    <3> QED BY <3>1
  <2>5. Orders(ById, wanted)
    BY <2>1, <2>2, <2>4 DEF Orders
  <2>6. Arranged(wanted, ById) \in Seq(wanted)
    BY <2>3, <2>5, ArrangedLists
  <2> QED BY <2>1, <2>6, SeqMonotonic
<1> HIDE DEF wanted, next
<1>5. /\ DOMAIN next = DOMAIN intake
      /\ next.lower = intake.lower /\ next.upper = intake.upper
      /\ next.category = intake.category /\ next.page = intake.page
      /\ next.fetched = intake.fetched /\ next.known = intake.known
      /\ next.stage = "download" /\ next.at = 1 /\ next.at \in Nat \ {0}
      /\ next.chosen \in Seq(DOMAIN issueRows)
      /\ next.failed = intake.failed
  BY <1>1, <1>2, <1>3, <1>4 DEF RunOK
<1>6. next.failed \in BOOLEAN /\ (~next.failed => ~intake.failed)
  BY Zenon, <1>2, <1>5 DEF RunOK
<1>7. UNCHANGED <<listed, issueRows, documents, lastExit, owed, today>>
  BY DEF Select
<1>8. Carried
  BY <1>5, <1>6, <1>7 DEF Carried, Later, next
<1>9. DocsSound(documents', issueRows) /\ Keeps(documents', documents)
  BY <1>2, <1>7 DEF IntakeTables, Keeps, Holds
<1>10. Downloaded'
  <2>1. ASSUME NEW i \in DOMAIN next.chosen PROVE ~Served(i)'
    <3>1. i \in Nat \ {0}
      BY <1>5, <2>1, LenProperties
    <3> QED BY <1>5, <3>1 DEF Served, next
  <2> QED BY <2>1 DEF Downloaded, next
<1> QED BY <1>1, <1>8, <1>9, <1>10, StageKept

\* A download leaves nothing missing, or takes the exit code with it.
LEMMA DownloadKept ==
  ASSUME IntakeInv, Download
  PROVE  IntakeInv'
<1> DEFINE wanted == Missing(intake.chosen[intake.at])
           next == intake'
<1>1. intake # None /\ intake.stage = "download" /\ intake.at <= Len(intake.chosen)
  BY DEF Download, In
<1>2. IntakeTables /\ RunInv /\ RunOK /\ Downloaded
  BY <1>1 DEF IntakeInv, RunInv
<1>3. PICK lost \in SUBSET wanted :
        /\ documents' = (documents \ wanted) \cup
              {[d EXCEPT !.file = IF d \in lost THEN "download_failed" ELSE "pending"]
                    : d \in wanted}
        /\ next = [intake EXCEPT !.at = @ + 1, !.failed = @ \/ lost # {}]
  BY DEF Download
<1> HIDE DEF wanted, next
<1>4. /\ DOMAIN next = DOMAIN intake
      /\ next.lower = intake.lower /\ next.upper = intake.upper
      /\ next.category = intake.category /\ next.page = intake.page
      /\ next.fetched = intake.fetched /\ next.known = intake.known
      /\ next.stage = "download" /\ next.at = intake.at + 1 /\ next.at \in Nat \ {0}
      /\ next.chosen = intake.chosen /\ next.chosen \in Seq(DOMAIN issueRows)
  BY <1>1, <1>2, <1>3 DEF RunOK
<1>5. next.failed = (intake.failed \/ lost # {})
  <2>1. "failed" \in DOMAIN intake
    BY <1>2 DEF RunOK
  <2> QED BY <1>3, <2>1
<1>6. next.failed \in BOOLEAN /\ (~next.failed => ~intake.failed /\ lost = {})
  BY Zenon, <1>5
<1>7. UNCHANGED <<listed, issueRows, lastExit, owed, today>>
  BY DEF Download
<1>8. Carried
  BY <1>4, <1>6, <1>7 DEF Carried, Later, next
<1>9. \A d \in wanted : d \in documents
  BY DEF wanted, Missing
<1>10. \A d \in documents :
          /\ DOMAIN d = {"issue", "company", "category", "url", "filed", "file"}
          /\ d.issue \in DOMAIN issueRows /\ issueRows[d.issue].key = d.company /\ d.company # None
          /\ d.category \in DOMAIN StatusOf /\ d.file \in FileStates
          /\ d.filed \in 1 .. LastIntakeDay
  BY <1>2 DEF IntakeTables, DocsSound
<1> DEFINE after(d) == [d EXCEPT !.file = IF d \in lost THEN "download_failed" ELSE "pending"]
<1>11. ASSUME NEW d \in wanted
       PROVE  /\ DOMAIN after(d) = DOMAIN d /\ after(d).issue = d.issue
              /\ after(d).company = d.company /\ after(d).category = d.category
              /\ after(d).url = d.url /\ after(d).filed = d.filed
              /\ after(d).file = IF d \in lost THEN "download_failed" ELSE "pending"
  BY <1>9, <1>10
<1>12. documents' = (documents \ wanted) \cup {after(d) : d \in wanted}
  BY <1>3
<1> HIDE DEF after
<1>13. DocsSound(documents', issueRows)
  <2>1. ASSUME NEW e \in documents', NEW d \in wanted, e = after(d)
        PROVE  /\ DOMAIN e = {"issue", "company", "category", "url", "filed", "file"}
               /\ e.issue \in DOMAIN issueRows /\ issueRows[e.issue].key = e.company
               /\ e.company # None /\ e.category \in DOMAIN StatusOf /\ e.file \in FileStates
               /\ e.filed \in 1 .. LastIntakeDay
    BY <1>9, <1>10, <1>11, <2>1 DEF FileStates
  <2>2. ASSUME NEW e \in documents' PROVE e \in documents \/ \E d \in wanted : e = after(d)
    BY <1>12
  <2> QED BY <1>10, <2>1, <2>2 DEF DocsSound
<1>14. Keeps(documents', documents)
  <2>1. ASSUME NEW d \in documents PROVE Holds(documents', d.url, d.company)
    <3>1. CASE d \in wanted
      BY <1>11, <1>12, <3>1 DEF Holds
    <3>2. CASE d \notin wanted
      BY <1>12, <3>2 DEF Holds
    <3> QED BY <3>1, <3>2
  <2> QED BY <2>1 DEF Keeps
<1>15. Downloaded'
  <2> SUFFICES ASSUME ~next.failed, NEW i \in DOMAIN intake.chosen, i < intake.at + 1
               PROVE  Missing(intake.chosen[i])' = {}
    BY <1>4 DEF Downloaded, Served, next
  <2>1. lost = {} /\ ~intake.failed
    BY <1>6
  <2>2. i \in Nat /\ intake.at \in Nat
    BY <1>2, LenProperties DEF RunOK
  <2>3. i < intake.at \/ i = intake.at
    BY <2>2
  <2>4. Missing(intake.chosen[i]) = {} \/ Missing(intake.chosen[i]) = wanted
    BY <1>1, <1>2, <2>1, <2>3 DEF Downloaded, Served, wanted
  <2>5. ASSUME NEW e \in Missing(intake.chosen[i])' PROVE FALSE
    <3>1. /\ e \in documents' /\ e.issue = intake.chosen[i] /\ e.category \in {"drhp", "rhp"}
          /\ e.file \in {"not_downloaded", "download_failed"}
      BY <1>4, <2>5 DEF Missing, next
    <3>2. CASE e \in documents /\ e \notin wanted
      BY <2>4, <3>1, <3>2 DEF Missing
    <3>3. CASE \E d \in wanted : e = after(d)
      <4>1. e.file = "pending"
        BY <1>11, <2>1, <3>3
      <4> QED BY <3>1, <4>1
    <3> QED BY <1>12, <3>1, <3>2, <3>3
  <2> QED BY <2>5
<1> QED BY <1>1, <1>8, <1>13, <1>14, <1>15, StageKept

\* One issue after the other, and a failure is not forgotten.
LEMMA NextIssue ==
  ASSUME IntakeInv, intake # None, intake.stage \in Later \ {"download"},
         NEW failed \in BOOLEAN,
         \/ intake' = [intake EXCEPT !.at = @ + 1]
         \/ intake' = [intake EXCEPT !.at = @ + 1, !.failed = TRUE]
         \/ intake' = [intake EXCEPT !.at = @ + 1, !.failed = @ \/ failed],
         UNCHANGED <<listed, issueRows, documents, lastExit, owed, today>>
  PROVE  IntakeInv'
<1> DEFINE next == intake'
<1>1. RunOK
  BY DEF IntakeInv, RunInv
<1>2. \/ next = [intake EXCEPT !.at = @ + 1]
      \/ next = [intake EXCEPT !.at = @ + 1, !.failed = TRUE]
      \/ next = [intake EXCEPT !.at = @ + 1, !.failed = @ \/ failed]
  OBVIOUS
<1> HIDE DEF next
<1>3. /\ DOMAIN next = DOMAIN intake
      /\ next.lower = intake.lower /\ next.upper = intake.upper
      /\ next.category = intake.category /\ next.page = intake.page
      /\ next.fetched = intake.fetched /\ next.known = intake.known
      /\ next.stage = intake.stage /\ next.at \in Nat \ {0}
      /\ next.chosen = intake.chosen /\ next.chosen \in Seq(DOMAIN issueRows)
  <2>1. next = [intake EXCEPT !.at = @ + 1]
          \/ \E failing : next = [intake EXCEPT !.at = @ + 1, !.failed = failing]
    BY Zenon, <1>2
  <2>2. CASE next = [intake EXCEPT !.at = @ + 1]
    BY <1>1, <2>2 DEF RunOK
  <2>3. CASE \E failing : next = [intake EXCEPT !.at = @ + 1, !.failed = failing]
    BY <1>1, <2>3 DEF RunOK
  <2> QED BY <2>1, <2>2, <2>3
<1>4. next.failed \in BOOLEAN /\ (~next.failed => ~intake.failed)
  <2>1. "failed" \in DOMAIN intake /\ intake.failed \in BOOLEAN
    BY <1>1 DEF RunOK
  <2>2. \/ next.failed = intake.failed \/ next.failed = TRUE
        \/ next.failed = (intake.failed \/ failed)
    BY <1>2, <2>1
  <2> QED BY Zenon, <2>1, <2>2
<1>5. Carried
  BY <1>3, <1>4 DEF Carried, Later, next
<1>6. \A i \in DOMAIN intake.chosen : Served(i)' => Served(i)
  BY <1>3 DEF Served, Later, next
<1> QED BY <1>3, <1>5, <1>6, StageGoesOn DEF next

\* A stage ends where the next begins.
LEMMA NextStageBegins ==
  ASSUME IntakeInv, intake # None, intake.stage \in Later,
         NEW stage \in Later \ {"download"}, NEW failed \in BOOLEAN, Go(stage, failed),
         UNCHANGED <<listed, issueRows, documents, lastExit, owed, today>>,
         intake.stage = "download" => intake.at > Len(intake.chosen)
  PROVE  IntakeInv'
<1> DEFINE next == intake'
<1>1. RunOK
  BY DEF IntakeInv, RunInv
<1>2. next = [intake EXCEPT !.stage = stage, !.at = 1, !.failed = @ \/ failed]
  BY DEF Go
<1> HIDE DEF next
<1>3. /\ DOMAIN next = DOMAIN intake
      /\ next.lower = intake.lower /\ next.upper = intake.upper
      /\ next.category = intake.category /\ next.page = intake.page
      /\ next.fetched = intake.fetched /\ next.known = intake.known
      /\ next.stage = stage /\ next.at \in Nat \ {0}
      /\ next.chosen = intake.chosen /\ next.chosen \in Seq(DOMAIN issueRows)
  BY <1>1, <1>2 DEF RunOK
<1>4. next.failed \in BOOLEAN /\ (~next.failed => ~intake.failed)
  <2>1. "failed" \in DOMAIN intake
    BY <1>1 DEF RunOK
  <2>2. next.failed = (intake.failed \/ failed)
    BY <1>2, <2>1
  <2> QED BY Zenon, <2>2
<1>5. Carried
  BY <1>3, <1>4 DEF Carried, next
<1>6. ASSUME NEW i \in DOMAIN intake.chosen PROVE Served(i)
  <2>1. /\ i \in Nat /\ i <= Len(intake.chosen) /\ Len(intake.chosen) \in Nat
        /\ intake.at \in Nat
    BY <1>1, LenProperties DEF RunOK
  <2>2. CASE intake.stage = "download"
    BY <2>1, <2>2 DEF Served
  <2> QED BY <2>2 DEF Served, Later
<1> QED BY <1>3, <1>5, <1>6, StageGoesOn DEF next

\* The searches of an issue.
LEMMA EnrichKept ==
  ASSUME IntakeInv, NEW outcome \in Outcomes, Enrich(outcome)
  PROVE  IntakeInv'
<1>1. /\ intake # None /\ intake.stage = "enrich"
      /\ UNCHANGED <<listed, issueRows, documents, lastExit, owed, today>>
  BY DEF Enrich, In
<1>2. CASE outcome = "collected"
  <2>1. intake' = [intake EXCEPT !.at = @ + 1]
    BY <1>2 DEF Enrich
  <2> QED BY <1>1, <2>1, NextIssue DEF Later
<1>3. CASE outcome = "failed"
  <2>1. intake' = [intake EXCEPT !.at = @ + 1, !.failed = TRUE]
    BY <1>3 DEF Enrich
  <2> QED BY <1>1, <2>1, NextIssue DEF Later
<1>4. CASE outcome = "stop"
  <2>1. Go("extract", FALSE)
    BY <1>4 DEF Enrich
  <2> QED BY <1>1, <2>1, NextStageBegins DEF Later
<1>5. CASE outcome = "denied"
  <2>1. Go("extract", TRUE)
    BY <1>5 DEF Enrich
  <2> QED BY <1>1, <2>1, NextStageBegins DEF Later
<1> QED BY <1>2, <1>3, <1>4, <1>5 DEF Outcomes

\* An issue's proposals and its scores.
LEMMA ExtractAndScoreKept ==
  ASSUME IntakeInv, NEW failed \in BOOLEAN, Extract(failed) \/ Score(failed)
  PROVE  IntakeInv'
<1>1. /\ intake # None /\ intake.stage \in {"extract", "score"}
      /\ UNCHANGED <<listed, issueRows, documents, lastExit, owed, today>>
      /\ intake' = [intake EXCEPT !.at = @ + 1, !.failed = @ \/ failed]
  BY DEF Extract, Score, In
<1> QED BY <1>1, NextIssue DEF Later

\* A stage comes to its end.
LEMMA StageEndsKept ==
  ASSUME IntakeInv, StageEnds
  PROVE  IntakeInv'
<1>1. /\ intake # None /\ intake.stage \in {"download", "enrich", "extract"}
      /\ UNCHANGED <<listed, issueRows, documents, lastExit, owed, today>>
      /\ Go(NextStage[intake.stage], FALSE)
      /\ intake.stage = "download" => intake.at > Len(intake.chosen)
  BY DEF StageEnds, NextStage
<1>2. NextStage[intake.stage] \in Later \ {"download"} /\ intake.stage \in Later
  BY <1>1 DEF NextStage, Later
<1> QED BY <1>1, <1>2, NextStageBegins

-----------------------------------------------------------------------------
(* The theorems.                                                           *)

\* An empty inventory and hand-entered issues.
LEMMA IntakeStarts ==
  ASSUME IntakeInit
  PROVE  IntakeInv
<1>1. ListingOK
  <2>1. 1 \in 1 .. LastIntakeDay
    BY IntakeAssumption
  <2> QED BY <2>1 DEF IntakeInit, ListingOK
<1>2. RowsSound(issueRows)
  BY IntakeAssumption DEF IntakeInit, RowsSound, IsTableOf
<1>3. today \in 1 .. LastIntakeDay /\ DocsSound(documents, issueRows)
  BY IntakeAssumption DEF IntakeInit, DocsSound
<1>4. intake = None /\ lastExit = None /\ owed = {}
  BY DEF IntakeInit
<1> QED BY <1>1, <1>2, <1>3, <1>4 DEF IntakeInv, IntakeTables

\* Every step keeps the books.
LEMMA IntakeStep ==
  ASSUME IntakeInv, [IntakeNext]_IntakeVars
  PROVE  IntakeInv'
<1>1. CASE UNCHANGED IntakeVars
  <2>1. UNCHANGED <<listed, issueRows, documents, intake, lastExit, owed, today>>
    BY <1>1 DEF IntakeVars
  <2>2. ListingOK' /\ RowsSound(issueRows') /\ DocsSound(documents, issueRows')
        /\ today' \in 1 .. LastIntakeDay
    BY <2>1 DEF IntakeInv, IntakeTables, ListingOK
  <2> QED BY <2>1, <2>2, OutsideKept
<1>2. CASE \E f \in DOMAIN Filings, late \in Lateness : SebiLists(f, late)
  BY <1>2, SebiListsKept
<1>3. CASE \E days \in {1, Overlap + 1} : IntakeNextDay(days)
  BY <1>3, IntakeNextDayKept
<1>4. CASE \E i \in 1..Len(issueRows), status \in {"open", "listed"} : MoveOn(i, status)
  BY <1>4, MoveOnKept
<1>5. CASE \E job \in Jobs : StartRun(job)
  BY <1>5, StartRunKept
<1>6. CASE FetchPage \/ CategoryFails \/ Ingest
  BY <1>6, FetchPageKept, CategoryFailsKept, IngestKept
<1>7. CASE Screening
  BY <1>7, SelectKept, DownloadKept, StageEndsKept, EndKept, EnrichKept, ExtractAndScoreKept
     DEF Screening
<1> QED BY <1>1, <1>2, <1>3, <1>4, <1>5, <1>6, <1>7 DEF IntakeNext

\* The invariant.
THEOREM IntakeInvariant == IntakeSpec => []IntakeInv
  BY IntakeStarts, IntakeStep, PTL DEF IntakeSpec

\* The tables and the run under way are well formed (the issue keys stay unique, a
\* document's issue exists) for every listing, page size, window and budget.
THEOREM IntakeTypeCorrect == IntakeSpec => []IntakeTypeOK
<1>1. ASSUME IntakeInv PROVE IntakeTypeOK
  <2> USE <1>1
  <2>1. ListingOK /\ IntakeTables
    BY DEF IntakeInv
  <2>2. \A f \in DOMAIN listed : listed[f] \in 1..LastIntakeDay \cup {None}
    BY <2>1 DEF ListingOK
  <2>3. \A i \in DOMAIN issueRows : IssueRow(i)
    BY <2>1 DEF IntakeTables, RowsSound, IssueRow
  <2>4. \A d \in documents :
          /\ d.issue \in DOMAIN issueRows /\ d.category \in DOMAIN StatusOf
          /\ d.file \in {"not_downloaded", "download_failed", "pending"}
    BY <2>1 DEF IntakeTables, DocsSound, FileStates
  <2>5. intake # None => intake.chosen \in Seq(DOMAIN issueRows)
    BY DEF IntakeInv, RunInv, RunOK
  <2> QED BY <2>1, <2>2, <2>3, <2>4, <2>5 DEF IntakeTables, IntakeTypeOK
<1> QED BY <1>1, IntakeInvariant, PTL

\* A run that exits 0 has missed nothing of what was listed in its window when it
\* began, and no prospectus of an issue it chose, however many pages the listings
\* have, whatever SEBI adds while they are read, and however its stages end.
THEOREM NothingIsMissed == IntakeSpec => CleanRunMissesNothing
<1>1. ASSUME IntakeInv, [IntakeNext]_IntakeVars, Succeeds
      PROVE  /\ \A f \in intake.known : InWindow(f) => Inventoried(f)
             /\ \A i \in DOMAIN intake.chosen : Missing(intake.chosen[i]) = {}
  <2> USE <1>1
  <2>1. intake # None /\ intake' = None /\ lastExit' = 0
    BY DEF Succeeds
  <2>2. RunInv /\ RunOK /\ Scanned /\ Downloaded
    BY <2>1 DEF IntakeInv, RunInv
  <2>3. None # 0 /\ lastExit = None
    BY <2>2, IntakeAssumption DEF RunInv
  <2>4. lastExit' # lastExit
    BY <2>1, <2>3
  <2>5. FinishRun
    <3>1. \A job : ~StartRun(job)
      BY <2>1 DEF StartRun
    <3>2. ~KillRun
      BY <2>1, <2>3 DEF KillRun, EndRun
    <3> QED BY <2>4, <3>1, <3>2 DEF IntakeVars, IntakeNext, Screening, SebiLists, IntakeNextDay,
              MoveOn, FetchPage, CategoryFails, Ingest, Select, Download, StageEnds, Enrich,
              Extract, Score
  <2>6. ~intake.failed
    BY <2>1, <2>5 DEF FinishRun, EndRun, ExitCode
  <2>7. intake.stage \notin {"scan", "ingest"}
    BY <2>5 DEF FinishRun, In
  <2>8. ASSUME NEW f \in intake.known, InWindow(f) PROVE Inventoried(f)
    <3>1. f \in DOMAIN Filings /\ Due(f)
      BY <2>2, <2>8 DEF RunOK, OnTheSite, Due
    <3>2. \E i \in 1 .. 3 : Filings[f].category = Categories[i]
      <4>1. Filings[f].category \in {"drhp", "rhp", "final_offer"}
        BY <3>1, IntakeAssumption DEF StatusOf
      <4>2. Categories[1] = "drhp" /\ Categories[2] = "rhp" /\ Categories[3] = "final_offer"
        BY DEF Categories
      <4>3. 1 \in 1 .. 3 /\ 2 \in 1 .. 3 /\ 3 \in 1 .. 3
        OBVIOUS
      <4> QED BY <4>1, <4>2, <4>3
    <3> QED BY <2>2, <2>6, <2>7, <3>1, <3>2 DEF Scanned, IsPast
  <2>9. ASSUME NEW i \in DOMAIN intake.chosen PROVE Missing(intake.chosen[i]) = {}
    <3>1. CASE intake.stage = "select"
      <4>1. intake.chosen = <<>>
        BY <2>2, <3>1 DEF RunOK
      <4> QED BY <2>9, <4>1
    <3>2. CASE intake.stage = "score"
      BY <2>2, <2>6, <3>2 DEF Downloaded, Served
    <3> QED BY <2>5, <3>1, <3>2 DEF FinishRun, In
  <2> QED BY <2>8, <2>9
<1>2. ASSUME IntakeInv, [IntakeNext]_IntakeVars
      PROVE  [Succeeds => /\ \A f \in intake.known : InWindow(f) => Inventoried(f)
                          /\ \A i \in DOMAIN intake.chosen :
                                Missing(intake.chosen[i]) = {}]_IntakeVars
  BY <1>1, <1>2
<1> QED BY <1>2, IntakeInvariant, PTL DEF IntakeSpec, CleanRunMissesNothing
=============================================================================
