---------------------- MODULE ProductionLifecycleProofs ----------------------
(***************************************************************************)
(* Proofs about ProductionLifecycle, for any number of rows, contents and  *)
(* summary keys, any retention and any batch sizes: the permanent summary  *)
(* counts every row exactly once, and cleanup deletes only what it holds.  *)
(*                                                                         *)
(* The argument is IInv: the record of a row says whether the row is       *)
(* counted (RecordInv), a content is stored again only behind a deleted    *)
(* row (ContentInv), and each summary row describes the counted rows of    *)
(* its key (SummaryIsExact).                                               *)
(***************************************************************************)
EXTENDS ProductionLifecycle, TLAPS, FiniteSetTheorems, WellFoundedInduction

-----------------------------------------------------------------------------
(***************************************************************************)
(* Facts about finite sets and about the operators of the model.           *)
(***************************************************************************)

\* A transitive and irreflexive relation has a minimal element in every finite
\* set: the one before which the fewest elements stand.
LEMMA HasMinimal ==
    ASSUME NEW T, IsFiniteSet(T), T # {}, NEW B,
           \A i \in T : <<i, i>> \notin B,
           \A i, j, k \in T : <<i, j>> \in B /\ <<j, k>> \in B => <<i, k>> \in B
    PROVE  \E i \in T : \A j \in T : <<j, i>> \notin B
<1> DEFINE Before(i) == {j \in T : <<j, i>> \in B}
           Families == {Before(i) : i \in T}
           R == StrictSubsetOrdering(T)
<1>1. IsWellFoundedOn(R, SUBSET T)
  BY FS_StrictSubsetOrderingWellFounded, FS_FiniteSubsetsOfFinite
<1>2. Families \subseteq SUBSET T /\ Families # {}
  <2>1. \A i \in T : Before(i) \in SUBSET T
    OBVIOUS
  <2> HIDE DEF Before
  <2> QED
    BY <2>1
<1>3. PICK D \in Families : \A E \in Families : ~(<<E, D>> \in R)
  <2> HIDE DEF R, Families
  <2> QED  BY <1>1, <1>2, WFMin
<1>4. PICK i \in T : D = Before(i)
  BY <1>3
<1>5. ASSUME NEW j \in T, <<j, i>> \in B
      PROVE  FALSE
  <2>1. Before(j) \subseteq Before(i) /\ j \in Before(i) /\ j \notin Before(j)
    BY <1>5
  <2>2. <<Before(j), Before(i)>> \in R
    BY <2>1 DEF StrictSubsetOrdering
  <2> QED
    BY <2>2, <1>3, <1>4
<1> QED
  BY <1>5

\* There are finitely many rows.
LEMMA RowsFinite ==
    /\ IsFiniteSet(Rows)
    /\ Rows \subseteq Nat \ {0}
    /\ \A T \in SUBSET Rows : IsFiniteSet(T) /\ Cardinality(T) \in Nat
<1>1. IsFiniteSet(Rows)
  BY RowsAssumption, FS_Interval DEF Rows
<1>2. Rows \subseteq Nat \ {0}
  BY RowsAssumption DEF Rows
<1>3. ASSUME NEW T \in SUBSET Rows
      PROVE  IsFiniteSet(T) /\ Cardinality(T) \in Nat
  BY <1>1, FS_Subset, FS_CardinalityType
<1> QED
  BY <1>1, <1>2, <1>3

\* Earliest picks one of the rows that completed first.
LEMMA EarliestIsFirst ==
    ASSUME NEW T \in SUBSET Rows, T # {}, NEW at \in [Rows -> Nat]
    PROVE  Earliest(T, at) \in T /\ \A j \in T : at[Earliest(T, at)] <= at[j]
<1> DEFINE B == {p \in T \X T : \/ at[p[1]] < at[p[2]]
                                \/ at[p[1]] = at[p[2]] /\ p[1] < p[2]}
<1>1. \A i, j \in T : <<i, j>> \in B <=> (at[i] < at[j] \/ (at[i] = at[j] /\ i < j))
  OBVIOUS
<1>2. \A i \in T : i \in Nat /\ at[i] \in Nat
  BY RowsFinite
<1>3. /\ \A i \in T : <<i, i>> \notin B
      /\ \A i, j, k \in T : <<i, j>> \in B /\ <<j, k>> \in B => <<i, k>> \in B
  <2> HIDE DEF B
  <2> QED  BY <1>1, <1>2
<1>4. PICK i \in T : \A j \in T : <<j, i>> \notin B
  <2> HIDE DEF B
  <2> QED  BY <1>3, RowsFinite, HasMinimal
<1>5. ASSUME NEW j \in T
      PROVE  at[i] < at[j] \/ (at[i] = at[j] /\ i <= j)
  <2> HIDE DEF B
  <2>1. ~(at[j] < at[i] \/ (at[j] = at[i] /\ j < i))
    BY <1>1, <1>4
  <2>2. i \in Nat /\ j \in Nat /\ at[i] \in Nat /\ at[j] \in Nat
    BY <1>2
  <2> QED
    BY <2>1, <2>2
<1>6. /\ Earliest(T, at) \in T
      /\ \A j \in T : \/ at[Earliest(T, at)] < at[j]
                      \/ at[Earliest(T, at)] = at[j] /\ Earliest(T, at) <= j
  BY <1>5 DEF Earliest
<1> QED
  BY <1>2, <1>6

\* Latest picks one of the rows that completed last.
LEMMA LatestIsLast ==
    ASSUME NEW T \in SUBSET Rows, T # {}, NEW at \in [Rows -> Nat]
    PROVE  Latest(T, at) \in T /\ \A j \in T : at[j] <= at[Latest(T, at)]
<1> DEFINE B == {p \in T \X T : \/ at[p[1]] > at[p[2]]
                                \/ at[p[1]] = at[p[2]] /\ p[1] > p[2]}
<1>1. \A i, j \in T : <<i, j>> \in B <=> (at[i] > at[j] \/ (at[i] = at[j] /\ i > j))
  OBVIOUS
<1>2. \A i \in T : i \in Nat /\ at[i] \in Nat
  BY RowsFinite
<1>3. /\ \A i \in T : <<i, i>> \notin B
      /\ \A i, j, k \in T : <<i, j>> \in B /\ <<j, k>> \in B => <<i, k>> \in B
  <2> HIDE DEF B
  <2> QED  BY <1>1, <1>2
<1>4. PICK i \in T : \A j \in T : <<j, i>> \notin B
  <2> HIDE DEF B
  <2> QED  BY <1>3, RowsFinite, HasMinimal
<1>5. ASSUME NEW j \in T
      PROVE  at[i] > at[j] \/ (at[i] = at[j] /\ i >= j)
  <2> HIDE DEF B
  <2>1. ~(at[j] > at[i] \/ (at[j] = at[i] /\ j > i))
    BY <1>1, <1>4
  <2>2. i \in Nat /\ j \in Nat /\ at[i] \in Nat /\ at[j] \in Nat
    BY <1>2
  <2> QED
    BY <2>1, <2>2
<1>6. /\ Latest(T, at) \in T
      /\ \A j \in T : \/ at[Latest(T, at)] > at[j]
                      \/ at[Latest(T, at)] = at[j] /\ Latest(T, at) >= j
  BY <1>5 DEF Latest
<1> QED
  BY <1>2, <1>6

\* Counting rows that are not counted yet keeps the summary exact, whatever order
\* they completed in.
LEMMA CountingIsExact ==
    ASSUME TypeOK, SummaryIsExact,
           NEW T \in SUBSET Rows, NEW plain, NEW at \in [Rows -> Nat],
           \A i \in T : counted[i] = 0 /\ record[i] # "summed",
           \A i \in Rows : counted[i] > 0 => at[i] = doneAt[i],
           doneAt' = at, Summarise(T, plain, at)
    PROVE  /\ SummaryIsExact'
           /\ summary' \in [Keys -> [count : Nat, first : Rows \cup {NoRow},
                                     last : Rows \cup {NoRow}]]
<1>1. Uncounted(T) = T
  BY DEF Uncounted
<1>2. /\ \A i \in T : counted'[i] = 1
      /\ \A i \in Rows \ T : counted'[i] = counted[i]
      /\ \A i \in Rows : counted[i] \in Nat
  BY <1>1 DEF TypeOK, Summarise
<1> SUFFICES ASSUME NEW k \in Keys
             PROVE  LET s == summary'[k] IN
                    /\ s \in [count : Nat, first : Rows \cup {NoRow}, last : Rows \cup {NoRow}]
                    /\ s.count = Cardinality(Members(k)')
                    /\ s.count > 0 =>
                          /\ s.first \in Members(k)' /\ s.last \in Members(k)'
                          /\ \A i \in Members(k)' : /\ doneAt'[s.first] <= doneAt'[i]
                                                    /\ doneAt'[i] <= doneAt'[s.last]
  BY <1>1 DEF SummaryIsExact, Summarise
<1> DEFINE N == {i \in T : KeyOf[i] = k}
           M == Members(k)
           s == summary[k]
<1>3. summary'[k] = Increment(s, N, at)
  BY <1>1 DEF Summarise
<1>4. Members(k)' = M \cup N /\ M \cap N = {}
  BY <1>2 DEF Members
<1>5. /\ s \in [count : Nat, first : Rows \cup {NoRow}, last : Rows \cup {NoRow}]
      /\ s.count = Cardinality(M)
      /\ s.count > 0 => /\ s.first \in M /\ s.last \in M
                        /\ \A i \in M : at[s.first] <= at[i] /\ at[i] <= at[s.last]
  BY DEF TypeOK, SummaryIsExact, Members
<1>6. M \in SUBSET Rows /\ N \in SUBSET Rows
  BY DEF Members
<1>7. /\ IsFiniteSet(M) /\ IsFiniteSet(N)
      /\ Cardinality(M) \in Nat /\ Cardinality(N) \in Nat
  BY <1>6, RowsFinite
<1>8. \A i \in M \cup N : at[i] \in Nat
  BY <1>6
<1> HIDE DEF M, N, s
<1>9. CASE N = {}
  BY <1>3, <1>4, <1>5, <1>8, <1>9 DEF Increment
<1>10. CASE N # {}
  <2> DEFINE e == Earliest(N, at)
             l == Latest(N, at)
  <2>1. /\ e \in N /\ \A j \in N : at[e] <= at[j]
        /\ l \in N /\ \A j \in N : at[j] <= at[l]
    BY <1>6, <1>10, EarliestIsFirst, LatestIsLast
  <2>2. summary'[k] = [count |-> s.count + Cardinality(N),
                       first |-> FirstOf(s, e, at), last |-> LastOf(s, l, at)]
    BY <1>3, <1>10 DEF Increment
  <2> HIDE DEF e, l
  <2>3. Cardinality(M \cup N) = Cardinality(M) + Cardinality(N)
    <3>1. Cardinality(M \cup N) = Cardinality(M) + Cardinality(N) - Cardinality(M \cap N)
      BY <1>7, FS_Union
    <3> QED
      BY <3>1, <1>4, <1>7, FS_EmptySet
  <2>4. s.count = 0 => M = {}
    BY <1>5, <1>7, FS_EmptySet
  <2>5. /\ FirstOf(s, e, at) \in M \cup N
        /\ \A i \in M \cup N : at[FirstOf(s, e, at)] <= at[i]
    <3>1. CASE s.count = 0
      BY <3>1, <2>1, <2>4 DEF FirstOf
    <3>2. CASE s.count > 0 /\ at[e] < at[s.first]
      BY <3>2, <2>1, <1>5, <1>8 DEF FirstOf
    <3>3. CASE s.count > 0 /\ ~(at[e] < at[s.first])
      BY <3>3, <2>1, <1>5, <1>8 DEF FirstOf
    <3> QED
      BY <3>1, <3>2, <3>3, <1>5
  <2>6. /\ LastOf(s, l, at) \in M \cup N
        /\ \A i \in M \cup N : at[i] <= at[LastOf(s, l, at)]
    <3>1. CASE s.count = 0
      BY <3>1, <2>1, <2>4 DEF LastOf
    <3>2. CASE s.count > 0 /\ at[l] >= at[s.last]
      BY <3>2, <2>1, <1>5, <1>8 DEF LastOf
    <3>3. CASE s.count > 0 /\ ~(at[l] >= at[s.last])
      BY <3>3, <2>1, <1>5, <1>8 DEF LastOf
    <3> QED
      BY <3>1, <3>2, <3>3, <1>5
  <2> QED
    BY <1>4, <1>5, <1>6, <1>7, <2>2, <2>3, <2>5, <2>6
<1> QED
  BY <1>9, <1>10

\* A cleanup that deletes the raw rows D and then has room in its batch for the
\* records R took every old row first: no record goes before its row.
LEMMA RecordsGoAfterRows ==
    ASSUME TypeOK, RowsInv,
           NEW D \in SUBSET OldRows, NEW R \in SUBSET OldRecords,
           NEW api \in 0 .. (CleanupBatch - Cardinality(D)),
           IsLimited(D, OldRows, CleanupBatch),
           Cardinality(R) = IF Cardinality(OldRecords) <= Left(Cardinality(D), api)
                              THEN Cardinality(OldRecords)
                              ELSE Left(Cardinality(D), api),
           NEW i \in R
    PROVE  row[i] = "deleted" \/ i \in D
<1>1. OldRows \in SUBSET Rows /\ R \in SUBSET Rows /\ D \in SUBSET Rows
  BY DEF OldRows, OldRecords
<1>2. /\ IsFiniteSet(OldRows) /\ Cardinality(OldRows) \in Nat
      /\ IsFiniteSet(R) /\ Cardinality(R) \in Nat
      /\ Cardinality(D) \in Nat
  BY <1>1, RowsFinite
<1>3. Cardinality(R) > 0
  BY <1>2, FS_EmptySet
<1>4. OldRecords \in SUBSET Rows
  BY DEF OldRecords
<1>5. Cardinality(OldRecords) \in Nat
  BY <1>4, RowsFinite
<1>6. Cardinality(D) < CleanupBatch
  BY <1>2, <1>3, <1>5, CleanupAssumption DEF Left
<1>7. D = OldRows
  <2>1. Cardinality(D) = Cardinality(OldRows)
    BY <1>2, <1>6, CleanupAssumption DEF IsLimited
  <2> QED
    BY <2>1, <1>2, FS_Subset
<1>8. row[i] \in {"completed", "deleted"}
  BY DEF OldRecords, RowsInv, RecordInv
<1> QED
  BY <1>7, <1>8 DEF OldRecords, OldRows

-----------------------------------------------------------------------------
(***************************************************************************)
(* The invariant: every action preserves it.                               *)
(***************************************************************************)

\* The databases the bridge starts from satisfy the invariant: nothing is counted.
LEMMA InitInv == Init => IInv
<1> SUFFICES ASSUME Init
             PROVE  IInv
  OBVIOUS
<1>1. /\ row \in [Rows -> {"absent", "completed", "unacked"}]
      /\ content \in [Rows -> Contents \cup {NoContent}]
      /\ doneAt \in [Rows -> {0, 1}]
      /\ \A i \in Rows : (row[i] = "absent") <=> (content[i] = NoContent)
      /\ \A i, j \in Rows : i < j /\ row[i] = "absent" => row[j] = "absent"
      /\ \A i, j \in Rows : i < j /\ content[i] = content[j] => row[j] = "absent"
  BY RowsFinite, RowsAssumption DEF Init, Rows
<1>2. /\ record = [i \in Rows |-> "none"] /\ bornAt = [i \in Rows |-> 0]
      /\ counted = [i \in Rows |-> 0] /\ now = 1 /\ up = FALSE
      /\ summary = [k \in Keys |-> [count |-> 0, first |-> NoRow, last |-> NoRow]]
  BY DEF Init
<1>3. TypeOK
  <2>1. row \in [Rows -> RowStates] /\ doneAt \in [Rows -> Nat]
    BY <1>1 DEF RowStates
  <2>2. summary \in [Keys -> [count : Nat, first : Rows \cup {NoRow}, last : Rows \cup {NoRow}]]
    BY <1>2
  <2>3. bornAt \in [Rows -> Nat] /\ record \in [Rows -> RecordStates] /\ counted \in [Rows -> Nat]
    BY <1>2 DEF RecordStates
  <2> QED
    BY <1>1, <1>2, <2>1, <2>2, <2>3 DEF TypeOK
<1>4. RowsInv
  BY <1>1, <1>2 DEF RowsInv, RecordInv, ContentInv
<1>5. \A k \in Keys : Members(k) = {}
  BY <1>2 DEF Members
<1>6. SummaryIsExact
  BY <1>2, <1>5, FS_EmptySet DEF SummaryIsExact
<1> QED
  BY <1>3, <1>4, <1>6 DEF IInv

\* A step that changes neither the summary nor who is counted nor when a counted
\* row completed keeps the summary exact.
LEMMA SummaryUntouched ==
    ASSUME SummaryIsExact, UNCHANGED <<summary, counted, doneAt>>
    PROVE  SummaryIsExact'
BY DEF SummaryIsExact, Members

\* Storing a message: its content may only stand behind deleted rows.
LEMMA ReceiveInv ==
    ASSUME IInv, NEW c \in Contents, Receive(c)
    PROVE  IInv'
<1>1. PICK i \in Rows : /\ row[i] = "absent" /\ \A j \in Rows : j < i => row[j] # "absent"
                        /\ row' = [row EXCEPT ![i] = "queued"]
                        /\ content' = [content EXCEPT ![i] = c]
                        /\ bornAt' = [bornAt EXCEPT ![i] = now]
  BY DEF Receive
<1>2. TypeOK'
  BY <1>1 DEF IInv, TypeOK, Receive, RowStates
<1>3. ASSUME NEW j \in Rows
      PROVE  RecordInv(j)'
  BY <1>1 DEF IInv, TypeOK, RowsInv, RecordInv, Receive, Old
<1>4. ASSUME NEW j \in Rows, NEW k \in Rows
      PROVE  ContentInv(j, k)'
  <2>1. ContentInv(j, k) /\ ContentInv(i, k) /\ RecordInv(j)
    BY DEF IInv, RowsInv
  <2>2. j \in Nat /\ k \in Nat /\ i \in Nat
    BY RowsFinite
  <2>3. c # NoContent
    BY ContentsAssumption
  <2>4. CASE k = i
    <3>1. j < i /\ content[j] = c => row[j] = "deleted"
      BY <1>1 DEF Receive, Known
    <3> QED
      BY <1>1, <2>1, <2>2, <2>3, <2>4, <3>1
         DEF IInv, TypeOK, ContentInv, RecordInv, Receive, Old
  <2>5. CASE k # i
    BY <1>1, <2>1, <2>2, <2>3, <2>5 DEF IInv, TypeOK, ContentInv, Receive
  <2> QED
    BY <2>4, <2>5
<1>5. SummaryIsExact'
  BY SummaryUntouched DEF IInv, Receive
<1> QED
  BY <1>2, <1>3, <1>4, <1>5 DEF IInv, RowsInv

\* Completing a queued row counts it for the first time.
LEMMA MarkCompletedInv ==
    ASSUME IInv, NEW i \in Rows, MarkCompleted(i)
    PROVE  IInv'
<1>1. /\ row[i] = "queued" /\ row' = [row EXCEPT ![i] = "completed"]
      /\ doneAt' = [doneAt EXCEPT ![i] = now]
      /\ Summarise({i}, {}, doneAt')
      /\ UNCHANGED <<content, bornAt, now, up>>
  BY DEF MarkCompleted
<1>2. counted[i] = 0 /\ record[i] = "none"
  BY <1>1 DEF IInv, TypeOK, RowsInv, RecordInv, RecordStates
<1>3. doneAt' \in [Rows -> Nat]
  BY <1>1 DEF IInv, TypeOK
<1>4. /\ SummaryIsExact'
      /\ summary' \in [Keys -> [count : Nat, first : Rows \cup {NoRow}, last : Rows \cup {NoRow}]]
  <2>1. \A j \in Rows : counted[j] > 0 => doneAt'[j] = doneAt[j]
    BY <1>1, <1>2 DEF IInv, TypeOK
  <2>2. TypeOK /\ SummaryIsExact
    BY DEF IInv
  <2>3. PICK at \in [Rows -> Nat] : at = doneAt'
    BY <1>3
  <2>4. /\ doneAt' = at /\ Summarise({i}, {}, at)
        /\ \A j \in Rows : counted[j] > 0 => at[j] = doneAt[j]
        /\ \A j \in {i} : counted[j] = 0 /\ record[j] # "summed"
    BY <1>1, <1>2, <2>1, <2>3
  <2> QED
    BY <2>2, <2>4, CountingIsExact
<1>5. /\ record' = [j \in Rows |-> IF j = i THEN "summed" ELSE record[j]]
      /\ counted' = [j \in Rows |-> IF j = i THEN 1 ELSE counted[j]]
  <2>1. Uncounted({i}) = {i}
    BY <1>2 DEF Uncounted
  <2>2. /\ record' = [j \in Rows |-> IF j \in {i} THEN "summed"
                                       ELSE IF j \in {} THEN "plain" ELSE record[j]]
        /\ counted' = [j \in Rows |-> IF j \in {i} THEN counted[j] + 1 ELSE counted[j]]
    BY <1>1, <2>1 DEF Summarise
  <2> QED
    BY <1>2, <2>2
<1>6. TypeOK'
  BY <1>1, <1>3, <1>4, <1>5 DEF IInv, TypeOK, RowStates, RecordStates
<1>7. ASSUME NEW j \in Rows
      PROVE  RecordInv(j)'
  BY <1>1, <1>2, <1>5 DEF IInv, TypeOK, RowsInv, RecordInv, Old
<1>8. ASSUME NEW j \in Rows, NEW k \in Rows
      PROVE  ContentInv(j, k)'
  BY <1>1 DEF IInv, TypeOK, RowsInv, ContentInv
<1> QED
  BY <1>4, <1>6, <1>7, <1>8 DEF IInv, RowsInv

\* Reconciliation counts rows that are not counted, and may leave some unsummed.
LEMMA StartInv ==
    ASSUME IInv, Start
    PROVE  IInv'
<1>1. PICK D \in SUBSET Unsummarised : \E skipped \in SUBSET D : \E plain \in SUBSET skipped :
             Summarise(D \ skipped, plain, doneAt)
  BY DEF Start
<1>2. PICK T \in SUBSET Unsummarised, plain \in SUBSET Unsummarised :
             T \cap plain = {} /\ Summarise(T, plain, doneAt)
  BY <1>1
<1>3. /\ up' = TRUE /\ UNCHANGED <<row, content, bornAt, doneAt, now>>
  BY DEF Start
<1>4. \A i \in T \cup plain : /\ i \in Rows /\ row[i] = "completed" /\ counted[i] = 0
                              /\ record[i] \in {"none", "plain"}
  <2>1. TAKE i \in T \cup plain
  <2>2. i \in Rows /\ row[i] = "completed" /\ record[i] # "summed"
    BY DEF Unsummarised
  <2>3. RecordInv(i) /\ record[i] \in RecordStates
    BY <2>2 DEF IInv, TypeOK, RowsInv
  <2> QED
    BY <2>2, <2>3 DEF RecordInv, RecordStates
<1>5. /\ SummaryIsExact'
      /\ summary' \in [Keys -> [count : Nat, first : Rows \cup {NoRow}, last : Rows \cup {NoRow}]]
  <2>1. TypeOK /\ SummaryIsExact /\ doneAt \in [Rows -> Nat]
    BY DEF IInv, TypeOK
  <2>2. T \in SUBSET Rows
    BY <1>4
  <2>3. \A i \in T : counted[i] = 0 /\ record[i] # "summed"
    BY <1>4
  <2> QED
    BY <1>2, <1>3, <2>1, <2>2, <2>3, CountingIsExact
<1>6. Uncounted(T) = T
  BY <1>4 DEF Uncounted
<1>7. /\ record' \in [Rows -> RecordStates] /\ counted' \in [Rows -> Nat]
      /\ \A i \in T : record'[i] = "summed" /\ counted'[i] = 1
      /\ \A i \in plain : record'[i] = "plain" /\ counted'[i] = 0
      /\ \A i \in Rows \ (T \cup plain) : record'[i] = record[i] /\ counted'[i] = counted[i]
  BY <1>2, <1>4, <1>6 DEF Summarise, IInv, TypeOK, RecordStates
<1>8. TypeOK'
  BY <1>3, <1>5, <1>7 DEF IInv, TypeOK
<1>9. ASSUME NEW i \in Rows
      PROVE  RecordInv(i)'
  <2>1. RecordInv(i)
    BY DEF IInv, RowsInv
  <2>2. CASE i \in T \cup plain
    BY <1>3, <1>4, <1>7, <2>1, <2>2 DEF RecordInv
  <2>3. CASE i \notin T \cup plain
    BY <1>3, <1>7, <2>1, <2>3 DEF RecordInv, Old
  <2> QED
    BY <2>2, <2>3
<1>10. ASSUME NEW i \in Rows, NEW j \in Rows
       PROVE  ContentInv(i, j)'
  BY <1>3 DEF IInv, RowsInv, ContentInv
<1> QED
  BY <1>5, <1>8, <1>9, <1>10 DEF IInv, RowsInv

\* Cleanup deletes counted rows, and their records behind them.
LEMMA CleanupInv ==
    ASSUME IInv, Cleanup
    PROVE  IInv'
<1>1. PICK D \in SUBSET OldRows, R \in SUBSET OldRecords :
             /\ \E api \in 0 .. (CleanupBatch - Cardinality(D)) :
                   Cardinality(R) = IF Cardinality(OldRecords) <= Left(Cardinality(D), api)
                                      THEN Cardinality(OldRecords)
                                      ELSE Left(Cardinality(D), api)
             /\ IsLimited(D, OldRows, CleanupBatch)
             /\ row' = [i \in Rows |-> IF i \in D THEN "deleted" ELSE row[i]]
             /\ record' = [i \in Rows |-> IF i \in R THEN "deleted" ELSE record[i]]
  BY DEF Cleanup
<1>2. UNCHANGED <<content, bornAt, doneAt, summary, now, up, counted>>
  BY DEF Cleanup
<1>3. \A i \in R : row[i] = "deleted" \/ i \in D
  BY <1>1, RecordsGoAfterRows DEF IInv
<1>4. /\ \A i \in D : row[i] = "completed" /\ record[i] = "summed" /\ Old(i)
      /\ \A i \in R : record[i] = "summed"
  BY DEF OldRows, OldRecords
<1>5. TypeOK'
  BY <1>1, <1>2 DEF IInv, TypeOK, RowStates, RecordStates
<1>6. ASSUME NEW i \in Rows
      PROVE  RecordInv(i)'
  BY <1>1, <1>2, <1>3, <1>4 DEF IInv, RowsInv, RecordInv, Old
<1>7. ASSUME NEW i \in Rows, NEW j \in Rows
      PROVE  ContentInv(i, j)'
  BY <1>1, <1>2, <1>4 DEF IInv, RowsInv, ContentInv
<1>8. SummaryIsExact'
  BY <1>2, SummaryUntouched DEF IInv
<1> QED
  BY <1>5, <1>6, <1>7, <1>8 DEF IInv, RowsInv

\* Neither the end of the process nor the passing of time touches the tables.
LEMMA QuietInv ==
    ASSUME IInv, Stop \/ Tick \/ UNCHANGED vars
    PROVE  IInv'
<1>1. UNCHANGED <<row, content, bornAt, doneAt, record, summary, counted>>
  BY DEF Stop, Tick, vars
<1>2. up' \in BOOLEAN /\ now' \in Nat /\ now <= now'
  <2>1. up \in BOOLEAN /\ now \in Nat
    BY DEF IInv, TypeOK
  <2>2. up' \in BOOLEAN
    BY <2>1 DEF Stop, Tick, vars
  <2>3. now' = now \/ now' = now + 1
    BY DEF Stop, Tick, vars
  <2> QED
    BY <2>1, <2>2, <2>3
<1>3. TypeOK'
  BY <1>1, <1>2 DEF IInv, TypeOK
<1>4. ASSUME NEW i \in Rows
      PROVE  RecordInv(i)'
  <2>1. RecordInv(i) /\ doneAt[i] \in Nat /\ now \in Nat
    BY DEF IInv, RowsInv, TypeOK
  <2> QED
    BY <1>1, <1>2, <2>1, RetentionAssumption DEF RecordInv, Old
<1>5. ASSUME NEW i \in Rows, NEW j \in Rows
      PROVE  ContentInv(i, j)'
  BY <1>1 DEF IInv, RowsInv, ContentInv
<1>6. SummaryIsExact'
  BY <1>1, SummaryUntouched DEF IInv
<1> QED
  BY <1>3, <1>4, <1>5, <1>6 DEF IInv, RowsInv

\* The inductive invariant holds in every reachable state.
THEOREM LifecycleInvariance == Spec => []IInv
<1>1. IInv /\ [Next]_vars => IInv'
  BY ReceiveInv, MarkCompletedInv, StartInv, CleanupInv, QuietInv DEF Next
<1> QED
  BY <1>1, InitInv, PTL DEF Spec

-----------------------------------------------------------------------------
(***************************************************************************)
(* What it gives.                                                          *)
(***************************************************************************)

\* No sequence of completions, reconciliations, cleanups and restarts adds a row to
\* the daily summary twice.
THEOREM NeverCountedTwice == Spec => []CountedOnce
<1>1. IInv => CountedOnce
  BY DEF IInv, RowsInv, RecordInv, CountedOnce
<1> QED
  BY <1>1, LifecycleInvariance, PTL

\* The daily summary is exact for ever, long after the rows it counts are gone.
THEOREM SummaryExact == Spec => []SummaryIsExact
<1>1. IInv => SummaryIsExact
  BY DEF IInv
<1> QED
  BY <1>1, LifecycleInvariance, PTL

\* Cleanup deletes only rows and records the summary holds.
THEOREM CleanupIsSafe == Spec => []DeletedWasCounted
<1>1. IInv => DeletedWasCounted
  BY DEF IInv, RowsInv, RecordInv, DeletedWasCounted
<1> QED
  BY <1>1, LifecycleInvariance, PTL

\* A payload is stored again only after its first completion left the retention.
THEOREM ResendsRecognised == Spec => []ResendRecognised
<1>1. IInv => ResendRecognised
  BY DEF IInv, RowsInv, ContentInv, ResendRecognised
<1> QED
  BY <1>1, LifecycleInvariance, PTL

-----------------------------------------------------------------------------
(***************************************************************************)
(* The ledger behind the summary.                                          *)
(***************************************************************************)

\* The rows counted so far, and the times they were counted with.
CountedRows == {i \in Rows : counted[i] > 0}

Entries == [i \in CountedRows |-> doneAt[i]]

ViewOfLedger == Ledger!IsView(summary, Entries)

\* An exact summary is a view of the ledger.
LEMMA ExactIsView == IInv => ViewOfLedger
<1> SUFFICES ASSUME IInv, NEW k \in Keys
             PROVE  LET E == Ledger!Entered(Entries, k) IN
                    /\ summary[k].count = Ledger!Cardinality(E)
                    /\ E # {} =>
                          /\ summary[k].first \in E /\ summary[k].last \in E
                          /\ \A i \in E : /\ Entries[summary[k].first] <= Entries[i]
                                          /\ Entries[i] <= Entries[summary[k].last]
  BY DEF ViewOfLedger, Ledger!IsView
<1>1. Ledger!Entered(Entries, k) = Members(k)
  BY DEF Ledger!Entered, Entries, CountedRows, Members
<1>2. Ledger!Cardinality(Members(k)) = Cardinality(Members(k))
  BY DEF Ledger!Cardinality, Cardinality, Ledger!IsFiniteSet, IsFiniteSet
<1>3. \A i \in Members(k) : Entries[i] = doneAt[i]
  BY DEF Members, Entries, CountedRows
<1>4. Members(k) # {} => Cardinality(Members(k)) > 0
  <2>1. Members(k) \in SUBSET Rows
    BY DEF Members
  <2> QED
    BY <2>1, RowsFinite, FS_EmptySet
<1>5. /\ summary[k].count = Cardinality(Members(k))
      /\ summary[k].count > 0 =>
            /\ summary[k].first \in Members(k) /\ summary[k].last \in Members(k)
            /\ \A i \in Members(k) : /\ doneAt[summary[k].first] <= doneAt[i]
                                     /\ doneAt[i] <= doneAt[summary[k].last]
  BY DEF IInv, SummaryIsExact
<1> QED
  BY <1>1, <1>2, <1>3, <1>4, <1>5

\* A step that counts the rows of T, none of which was counted, enters them.
LEMMA CountingEnters ==
    ASSUME IInv, IInv', NEW T \in SUBSET Rows, T # {},
           \A i \in T : counted[i] = 0 /\ counted'[i] = 1,
           \A i \in Rows \ T : counted'[i] = counted[i],
           \A i \in CountedRows : doneAt'[i] = doneAt[i]
    PROVE  Ledger!Enter
<1>1. CountedRows' = CountedRows \cup T /\ CountedRows \cap T = {}
  BY DEF CountedRows
<1>2. /\ DOMAIN Entries = CountedRows /\ DOMAIN Entries' = CountedRows'
      /\ CountedRows' \subseteq Rows
  BY DEF Entries, CountedRows
<1>3. \A i \in CountedRows : Entries'[i] = Entries[i]
  BY <1>1 DEF Entries
<1>4. Ledger!IsView(summary', Entries')
  <2>1. IInv' => ViewOfLedger'
    BY ExactIsView, PTL
  <2> QED
    BY <2>1 DEF ViewOfLedger
<1>5. CountedRows # CountedRows'
  BY <1>1
<1> QED
  BY <1>1, <1>2, <1>3, <1>4, <1>5 DEF Ledger!Enter, Entries, CountedRows

\* Every step enters completions in the ledger, or leaves it and the summary alone.
LEMMA StepEnters == IInv /\ IInv' /\ [Next]_vars => [Ledger!Enter]_(Ledger!ledgerVars)
<1> SUFFICES ASSUME IInv, IInv', [Next]_vars
             PROVE  [Ledger!Enter]_(Ledger!ledgerVars)
  OBVIOUS
<1>1. ASSUME UNCHANGED <<summary, counted, doneAt>>
      PROVE  UNCHANGED Ledger!ledgerVars
  BY <1>1 DEF Ledger!ledgerVars
<1>2. CASE \/ \E c \in Contents : Receive(c)
           \/ Cleanup \/ Stop \/ Tick \/ UNCHANGED vars
  BY <1>1, <1>2 DEF Receive, Cleanup, Stop, Tick, vars
<1>3. ASSUME NEW i \in Rows, MarkCompleted(i)
      PROVE  Ledger!Enter
  <2>1. /\ row[i] = "queued" /\ Summarise({i}, {}, doneAt')
        /\ doneAt' = [doneAt EXCEPT ![i] = now]
    BY <1>3 DEF MarkCompleted
  <2>2. counted[i] = 0 /\ record[i] = "none"
    BY <2>1 DEF IInv, TypeOK, RowsInv, RecordInv, RecordStates
  <2>3. Uncounted({i}) = {i}
    BY <2>2 DEF Uncounted
  <2>4. counted'[i] = 1 /\ \A j \in Rows \ {i} : counted'[j] = counted[j]
    BY <2>1, <2>2, <2>3 DEF Summarise
  <2>5. \A j \in CountedRows : doneAt'[j] = doneAt[j]
    BY <2>1, <2>2 DEF CountedRows, IInv, TypeOK
  <2>6. \E T \in SUBSET Rows : /\ T # {}
                               /\ \A j \in T : counted[j] = 0 /\ counted'[j] = 1
                               /\ \A j \in Rows \ T : counted'[j] = counted[j]
    BY <2>2, <2>4
  <2> QED
    BY <2>5, <2>6, CountingEnters
<1>4. CASE Start
  <2>1. PICK D \in SUBSET Unsummarised : \E skipped \in SUBSET D : \E plain \in SUBSET skipped :
               Summarise(D \ skipped, plain, doneAt)
    BY <1>4 DEF Start
  <2>2. PICK T \in SUBSET Unsummarised, plain \in SUBSET Unsummarised : Summarise(T, plain, doneAt)
    BY <2>1
  <2>3. T \in SUBSET Rows /\ UNCHANGED doneAt
    BY <1>4 DEF Unsummarised, Start
  <2>4. \A i \in T : counted[i] = 0 /\ record[i] # "summed"
    <3>1. \A i \in T : i \in Rows /\ row[i] = "completed" /\ record[i] # "summed"
      BY DEF Unsummarised
    <3> QED
      BY <3>1 DEF IInv, TypeOK, RowsInv, RecordInv, RecordStates
  <2>5. Uncounted(T) = T
    BY <2>4 DEF Uncounted
  <2>6. /\ counted' = [i \in Rows |-> IF i \in T THEN counted[i] + 1 ELSE counted[i]]
        /\ summary' = [k \in Keys |-> Increment(summary[k], {i \in T : KeyOf[i] = k}, doneAt)]
    BY <2>2, <2>5 DEF Summarise
  <2>7. CASE T = {}
    <3>1. counted' = counted
      BY <2>6, <2>7 DEF IInv, TypeOK
    <3>2. \A k \in Keys : summary'[k] = summary[k]
      BY <2>6, <2>7 DEF Increment
    <3>3. summary' = summary
      BY <2>6, <3>2 DEF IInv, TypeOK
    <3> QED
      BY <1>1, <2>3, <3>1, <3>3
  <2>8. CASE T # {}
    <3>1. \A i \in T : counted'[i] = 1
      BY <2>3, <2>4, <2>6
    <3>2. \A i \in Rows \ T : counted'[i] = counted[i]
      BY <2>6
    <3> QED
      BY <2>3, <2>4, <2>8, <3>1, <3>2, CountingEnters
  <2> QED
    BY <2>7, <2>8
<1> QED
  BY <1>2, <1>3, <1>4 DEF Next

\* The summary is for ever a view of a ledger that only grows: the life cycle of
\* rows and records implements DailyLedger.
THEOREM LedgerKept == Spec => KeepsLedger
<1>1. Init => Ledger!Init
  <2> SUFFICES ASSUME Init
               PROVE  Ledger!Init
    OBVIOUS
  <2>1. {j \in Rows : counted[j] > 0} = {}
    BY DEF Init
  <2>2. [i \in {j \in Rows : counted[j] > 0} |-> doneAt[i]] = [i \in {} |-> 0]
    BY <2>1
  <2> QED
    BY <2>2 DEF Init, Ledger!Init
<1>2. IInv /\ [Next]_vars => IInv'
  BY ReceiveInv, MarkCompletedInv, StartInv, CleanupInv, QuietInv DEF Next
<1> QED
  BY <1>1, <1>2, StepEnters, LifecycleInvariance, PTL DEF Spec, KeepsLedger, Ledger!Spec
=============================================================================
