------------------------ MODULE ProductionLifecycle -------------------------
(***************************************************************************)
(* What happens to a queue row once Odoo accepted it: its production       *)
(* record, the daily summary it is counted in, the reconciliation of rows  *)
(* an earlier version completed without counting them, and the cleanup     *)
(* that deletes raw rows while the summary is kept for ever                *)
(* (app/database.py and app/sqlite_lifecycle.py). Each action is one       *)
(* SQLite transaction: mark_completed of the worker, cleanup of the        *)
(* lifecycle thread, insertion by the MQTT callback, and reconciliation    *)
(* at startup, before any other thread runs.                               *)
(*                                                                         *)
(* Rows are named by mqtt_messages.id, never handed out twice, and a       *)
(* production record by the row it belongs to (mqtt_message_id, UNIQUE).   *)
(***************************************************************************)
EXTENDS Naturals, FiniteSets

CONSTANTS
    MaxRows,         \* bound: rows ever inserted
    NoContent,       \* model value: the content of a row not yet inserted
    Contents,        \* topic and payload, as the message hash tells them apart
    Keys,            \* dimensions of the daily summary: date, table, model, ...
    KeyOf,           \* [1..MaxRows -> Keys] the dimensions a row is counted under
    Retention,       \* SQLITE_RAW_RETENTION_DAYS, in ticks
    CleanupBatch,    \* SQLITE_CLEANUP_BATCH_SIZE
    ReconcileBatch,  \* SQLITE_RECONCILE_BATCH_SIZE
    MaxTime          \* bound: ticks

Rows == 1 .. MaxRows

ASSUME RowsAssumption      == MaxRows \in Nat
ASSUME ContentsAssumption  == NoContent \notin Contents
ASSUME KeysAssumption      == KeyOf \in [Rows -> Keys]
ASSUME RetentionAssumption == Retention \in Nat
ASSUME CleanupAssumption   == CleanupBatch \in Nat
ASSUME ReconcileAssumption == ReconcileBatch \in Nat
ASSUME TimeAssumption      == MaxTime \in Nat

VARIABLES
    row,      \* [Rows -> RowStates]  mqtt_messages
    content,  \* [Rows -> Contents]   its hash; NoContent before it is inserted
    bornAt,   \* [Rows -> time]       received_at
    doneAt,   \* [Rows -> time]       completed_at, of the row and of its record
    record,   \* [Rows -> RecordStates] production_records
    summary,  \* [Keys -> [count, first, last]] daily_production_summary; first
              \* and last name the rows whose ACK and completion time it shows
    now,      \* the clock
    up,       \* whether the bridge runs
    counted   \* history: how often a row was added to the summary

vars == <<row, content, bornAt, doneAt, record, summary, now, up, counted>>

\* queued: any status but COMPLETED. unacked: completed by a version that stored
\* no ACK, which nothing here ever selects.
RowStates == {"absent", "queued", "completed", "unacked", "deleted"}

\* plain: summary_applied = 0. summed: summary_applied = 1.
RecordStates == {"none", "plain", "summed", "deleted"}

NoRow == 0

\* The database may come from a version without the production tables: n rows of
\* distinct contents, completed with or without an ACK at whatever time.
Init ==
    /\ \E n \in 0 .. MaxRows :
          /\ row \in [Rows -> {"absent", "completed", "unacked"}]
          /\ content \in [Rows -> Contents \cup {NoContent}]
          /\ \A i \in Rows : (row[i] = "absent") <=> (i > n)
          /\ \A i \in Rows : (content[i] = NoContent) <=> (i > n)
          /\ \A i, j \in 1 .. n : content[i] = content[j] => i = j
          /\ doneAt \in [Rows -> {0, 1}]
          /\ \A i \in Rows : i > n => doneAt[i] = 0
    /\ bornAt = [i \in Rows |-> 0]
    /\ record = [i \in Rows |-> "none"]
    /\ summary = [k \in Keys |-> [count |-> 0, first |-> NoRow, last |-> NoRow]]
    /\ now = 1 /\ up = FALSE
    /\ counted = [i \in Rows |-> 0]

-----------------------------------------------------------------------------
(***************************************************************************)
(* _upsert_production_record_and_summary, for the rows of T that complete  *)
(* (or are reconciled) at the times "at", in the order of their ids. A     *)
(* record already summed is rewritten with what it holds and not counted.  *)
(***************************************************************************)
\* The rows of T whose summary_applied is not yet 1.
Uncounted(T) == {i \in T : record[i] # "summed"}

\* A row processed later replaces last on equal times, and first only when it is
\* strictly earlier.
Earliest(T, at) ==
    CHOOSE i \in T : \A j \in T : at[i] < at[j] \/ (at[i] = at[j] /\ i <= j)

Latest(T, at) ==
    CHOOSE i \in T : \A j \in T : at[i] > at[j] \/ (at[i] = at[j] /\ i >= j)

\* Mutated form of FirstOf: the first row counted stays the first for ever.
FirstOfKept(s, i, at) == IF s.count = 0 THEN i ELSE s.first

FirstOf(s, i, at) == IF s.count = 0 \/ at[i] < at[s.first] THEN i ELSE s.first

\* Mutated form of LastOf: the row counted last is the last for ever.
LastOfNewest(s, i, at) == i

LastOf(s, i, at) == IF s.count = 0 \/ at[i] >= at[s.last] THEN i ELSE s.last

\* _increment_daily_summary, for each row of T in turn.
Increment(s, T, at) ==
    IF T = {} THEN s
    ELSE [count |-> s.count + Cardinality(T),
          first |-> FirstOf(s, Earliest(T, at), at),
          last  |-> LastOf(s, Latest(T, at), at)]

\* The rows of "plain" get a record that is not counted.
Summarise(T, plain, at) ==
    LET new == Uncounted(T) IN
    /\ record' = [i \in Rows |-> IF i \in T THEN "summed"
                                 ELSE IF i \in plain THEN "plain" ELSE record[i]]
    /\ counted' = [i \in Rows |-> IF i \in new THEN counted[i] + 1 ELSE counted[i]]
    /\ summary' = [k \in Keys |-> Increment(summary[k], {i \in new : KeyOf[i] = k}, at)]

-----------------------------------------------------------------------------
\* save_message: a resend of a payload whose row is still there is a duplicate.
Known(c) == \E i \in Rows : row[i] \notin {"absent", "deleted"} /\ content[i] = c

Receive(c) ==
    /\ up /\ ~Known(c)
    /\ \E i \in Rows :
          /\ row[i] = "absent" /\ \A j \in Rows : j < i => row[j] # "absent"
          /\ row' = [row EXCEPT ![i] = "queued"]
          /\ content' = [content EXCEPT ![i] = c]
          /\ bornAt' = [bornAt EXCEPT ![i] = now]
    /\ UNCHANGED <<doneAt, record, summary, now, up, counted>>

\* mark_completed with an ACK: the row, its record and the summary in one
\* transaction.
MarkCompleted(i) ==
    /\ up /\ row[i] = "queued"
    /\ row' = [row EXCEPT ![i] = "completed"]
    /\ doneAt' = [doneAt EXCEPT ![i] = now]
    /\ Summarise({i}, {}, doneAt')
    /\ UNCHANGED <<content, bornAt, now, up>>

\* ORDER BY id LIMIT n over the rows of E.
IsLimited(D, E, n) ==
    /\ D \subseteq E
    /\ Cardinality(D) = IF Cardinality(E) <= n THEN Cardinality(E) ELSE n
    /\ \A d \in D : \A e \in E \ D : d < e

Unsummarised == {i \in Rows : row[i] = "completed" /\ record[i] # "summed"}

\* reconcile_completed_production_records, run by start() before the worker, the
\* MQTT client and the cleanup thread: up to a batch of rows is counted. A row
\* that raises is skipped, with or without its record written: the transaction
\* goes on, and commits.
Start ==
    /\ ~up /\ up' = TRUE
    /\ \E D \in SUBSET Unsummarised : \E skipped \in SUBSET D :
       \E plain \in SUBSET skipped :
          /\ IsLimited(D, Unsummarised, ReconcileBatch)
          /\ Summarise(D \ skipped, plain, doneAt)
    /\ UNCHANGED <<row, content, bornAt, doneAt, now>>

\* Mutated form of Old: the cutoff itself counts as old.
OldAtCutoff(i) == doneAt[i] + Retention <= now

Old(i) == doneAt[i] + Retention < now

\* Mutated form of OldRows: any completed row, counted or not.
OldRowsUncounted == {i \in Rows : row[i] = "completed" /\ Old(i)}

OldRows == {i \in Rows : row[i] = "completed" /\ record[i] = "summed" /\ Old(i)}

OldRecords == {i \in Rows : record[i] = "summed" /\ Old(i)}

\* Mutated form of Left: the batch of records does not give way to raw rows.
LeftForRecords(deleted, api) == CleanupBatch - api

\* What is left of the batch for production_records after the deletion of
\* "deleted" raw rows and of some terminal rows of api_commands.
Left(deleted, api) == CleanupBatch - deleted - api

\* cleanup_raw_operational_data, in this order and one transaction: raw rows of
\* counted messages, terminal API rows (any number that fits), then, with the
\* rest of the batch, counted records in the order of their own ids.
Cleanup ==
    /\ up
    /\ \E D \in SUBSET OldRows : \E R \in SUBSET OldRecords :
       \E api \in 0 .. (CleanupBatch - Cardinality(D)) :
          /\ IsLimited(D, OldRows, CleanupBatch)
          /\ Cardinality(R) = IF Cardinality(OldRecords) <= Left(Cardinality(D), api)
                                THEN Cardinality(OldRecords)
                                ELSE Left(Cardinality(D), api)
          /\ row' = [i \in Rows |-> IF i \in D THEN "deleted" ELSE row[i]]
          /\ record' = [i \in Rows |-> IF i \in R THEN "deleted" ELSE record[i]]
    /\ UNCHANGED <<content, bornAt, doneAt, summary, now, up, counted>>

\* The process ends; every committed transaction stays.
Stop ==
    /\ up /\ up' = FALSE
    /\ UNCHANGED <<row, content, bornAt, doneAt, record, summary, now, counted>>

Tick ==
    /\ now < MaxTime /\ now' = now + 1
    /\ UNCHANGED <<row, content, bornAt, doneAt, record, summary, up, counted>>

Next ==
    \/ \E c \in Contents : Receive(c)
    \/ \E i \in Rows : MarkCompleted(i)
    \/ Start \/ Cleanup \/ Stop \/ Tick

Spec == Init /\ [][Next]_vars

-----------------------------------------------------------------------------
(***************************************************************************)
(* The invariant the proofs use.                                           *)
(***************************************************************************)
TypeOK ==
    /\ row \in [Rows -> RowStates]
    /\ content \in [Rows -> Contents \cup {NoContent}]
    /\ bornAt \in [Rows -> Nat] /\ doneAt \in [Rows -> Nat]
    /\ record \in [Rows -> RecordStates]
    /\ summary \in [Keys -> [count : Nat, first : Rows \cup {NoRow}, last : Rows \cup {NoRow}]]
    /\ now \in Nat /\ up \in BOOLEAN
    /\ counted \in [Rows -> Nat]

\* summary_applied tells exactly whether the row is in the summary, as long as
\* there is a record to tell it; and the record goes only after its row, which
\* alone would have it reconciled again.
RecordInv(i) ==
    /\ counted[i] = IF record[i] \in {"summed", "deleted"} THEN 1 ELSE 0
    /\ record[i] = "summed" => row[i] \in {"completed", "deleted"}
    /\ record[i] = "plain" => row[i] = "completed"
    /\ record[i] = "deleted" => row[i] = "deleted"
    /\ row[i] = "deleted" => record[i] \in {"summed", "deleted"} /\ Old(i)
    /\ doneAt[i] <= now

\* Ids are handed out in order, and only a deleted row makes room for another of
\* its content.
ContentInv(i, j) ==
    /\ row[i] = "absent" <=> content[i] = NoContent
    /\ i < j /\ row[i] = "absent" => row[j] = "absent"
    /\ i < j /\ content[i] = content[j] /\ row[j] # "absent"
          => row[i] = "deleted" /\ doneAt[i] + Retention < bornAt[j]

RowsInv == \A i, j \in Rows : RecordInv(i) /\ ContentInv(i, j)

\* The summary outlives the rows and records it came from and stays exact: its
\* count is the number of rows ever counted under its key, and its first and last
\* entries are the earliest and latest completions among them, although rows are
\* reconciled long after later ones were counted.
Members(k) == {i \in Rows : counted[i] > 0 /\ KeyOf[i] = k}

SummaryIsExact ==
    \A k \in Keys :
       LET s == summary[k] IN
       /\ s.count = Cardinality(Members(k))
       /\ s.count > 0 =>
             /\ s.first \in Members(k) /\ s.last \in Members(k)
             /\ \A i \in Members(k) : doneAt[s.first] <= doneAt[i] /\ doneAt[i] <= doneAt[s.last]

IInv == TypeOK /\ RowsInv /\ SummaryIsExact

-----------------------------------------------------------------------------
(***************************************************************************)
(* Properties.                                                             *)
(***************************************************************************)
\* However completion, reconciliation, cleanup and restarts follow each other, no
\* row is added to the permanent summary twice (README: a reconciliation that is
\* idempotent): above all not after the cleanup took its production record, the
\* only place where summary_applied is kept.
CountedOnce == \A i \in Rows : counted[i] <= 1

\* Cleanup never deletes what the summary does not yet hold, whatever the batch
\* size and however many completed rows wait for reconciliation.
DeletedWasCounted ==
    \A i \in Rows : (row[i] = "deleted" \/ record[i] = "deleted") => counted[i] > 0

\* A payload is stored, and so printed, a second time only when its first
\* completion lies further back than the retention.
ResendRecognised ==
    \A i, j \in Rows :
       (i < j /\ content[i] = content[j] /\ content[i] # NoContent)
          => doneAt[i] + Retention < bornAt[j]

\* The permanent summary is a view of a ledger that is only ever added to: what a
\* row was counted with stays, and nothing but the counting of a row changes the
\* summary, neither the deletion of rows and records nor a restart.
Ledger == INSTANCE DailyLedger
    WITH ledger <- [i \in {j \in Rows : counted[j] > 0} |-> doneAt[i]]

KeepsLedger == Ledger!Spec
=============================================================================
