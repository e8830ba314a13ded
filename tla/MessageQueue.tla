---------------------------- MODULE MessageQueue ----------------------------
(***************************************************************************)
(* The durable queue: the rows of the SQLite table mqtt_messages and the   *)
(* functions of app/database.py that change them, each one transaction.    *)
(*                                                                         *)
(* A row is named by its id: AUTOINCREMENT hands the ids out in insertion  *)
(* order and the topic/payload hash is UNIQUE, so an id is a message and a *)
(* message is an id. The columns kept are those control depends on:        *)
(* status, retry_count, last_attempt_at (as the row's age: how long ago it *)
(* was claimed) and the class of last_error. What the columns left out     *)
(* hold (texts, metadata, acknowledgement) is decided by the caller.       *)
(***************************************************************************)
EXTENDS Naturals, FiniteSets

CONSTANTS
    MaxMessages,   \* bound: rows ever inserted
    MaxRetries,    \* ODOO_MAX_RETRIES
    BatchSize,     \* ODOO_BATCH_SIZE
    StaleAfter     \* ODOO_STALE_PROCESSING_SECONDS, in ticks

\* The settings are read as integers and not range-checked (config.py); a
\* deployment that never retries at all, or claims nothing, is not modelled.
ASSUME MessagesAssumption == MaxMessages \in Nat
ASSUME RetriesAssumption  == MaxRetries \in Nat /\ MaxRetries >= 1
ASSUME BatchAssumption    == BatchSize \in Nat /\ BatchSize >= 1
ASSUME StaleAssumption    == StaleAfter \in Nat

Ids == 1 .. MaxMessages

\* StatusValue, and "ABSENT" for an id not handed out yet.
Statuses == {"ABSENT", "NEW", "PROCESSING", "COMPLETED", "FAILED"}

\* last_error: NULL, the timeout text that asks for manual verification, or
\* any other text (an XML-RPC or business error, the watchdog's message).
Errors == {"none", "timeout", "error"}

VARIABLES
    status,       \* [Ids -> Statuses]
    retryCount,   \* [Ids -> Nat]            retry_count
    age,          \* [Ids -> 0..StaleAfter+1] ticks since last_attempt_at of a
                  \* PROCESSING row, saturating; 0 for other rows, whose
                  \* last_attempt_at nothing reads
    lastError     \* [Ids -> Errors]         last_error

rowVars == <<status, retryCount, age, lastError>>

QueueTypeOK ==
    /\ status \in [Ids -> Statuses]
    /\ retryCount \in [Ids -> Nat]
    /\ age \in [Ids -> 0 .. StaleAfter + 1]
    /\ lastError \in [Ids -> Errors]

QueueInit ==
    /\ status = [m \in Ids |-> "ABSENT"]
    /\ retryCount = [m \in Ids |-> 0]
    /\ age = [m \in Ids |-> 0]
    /\ lastError = [m \in Ids |-> "none"]

-----------------------------------------------------------------------------
(***************************************************************************)
(* save_message of a payload whose hash is not stored: INSERT ... 'NEW'.   *)
(***************************************************************************)
NextId(m) == status[m] = "ABSENT" /\ \A k \in Ids : k < m => status[k] # "ABSENT"

SaveMessage(m) ==
    /\ NextId(m)
    /\ status' = [status EXCEPT ![m] = "NEW"]
    /\ UNCHANGED <<retryCount, age, lastError>>

(***************************************************************************)
(* claim_pending_messages: under BEGIN IMMEDIATE, the BatchSize lowest ids *)
(* that are NEW, or FAILED with attempts left, become PROCESSING with one  *)
(* common last_attempt_at.                                                 *)
(***************************************************************************)
\* Mutated form of Retryable: retry_count <= max_retries.
RetryableOffByOne(m) == status[m] = "FAILED" /\ retryCount[m] <= MaxRetries

Retryable(m) == status[m] = "FAILED" /\ retryCount[m] < MaxRetries

\* Mutated form of Claimable: as get_pending_messages, NEW rows only.
ClaimableNewOnly == {m \in Ids : status[m] = "NEW"}

Claimable == {m \in Ids : status[m] = "NEW" \/ Retryable(m)}

Lowest(n, S) == {m \in S : Cardinality({k \in S : k < m}) < n}

PendingBatch == Lowest(BatchSize, Claimable)

ClaimPending(S) ==
    /\ status' = [m \in Ids |-> IF m \in S THEN "PROCESSING" ELSE status[m]]
    /\ age' = [m \in Ids |-> IF m \in S THEN 0 ELSE age[m]]
    /\ UNCHANGED <<retryCount, lastError>>

(***************************************************************************)
(* mark_completed: the UPDATE carries no guard on the present status.      *)
(***************************************************************************)
MarkCompleted(m) ==
    /\ status' = [status EXCEPT ![m] = "COMPLETED"]
    /\ age' = [age EXCEPT ![m] = 0]
    /\ lastError' = [lastError EXCEPT ![m] = "none"]
    /\ UNCHANGED retryCount

(***************************************************************************)
(* mark_failed: retry_count + 1, or MAX(retry_count + 1, max_retries) for  *)
(* a failure that must not be retried. No guard on the status here either. *)
(***************************************************************************)
FailedCount(m, retryable) ==
    IF retryable \/ retryCount[m] + 1 >= MaxRetries
      THEN retryCount[m] + 1
      ELSE MaxRetries

MarkFailed(m, error, retryable) ==
    /\ status' = [status EXCEPT ![m] = "FAILED"]
    /\ retryCount' = [retryCount EXCEPT ![m] = FailedCount(m, retryable)]
    /\ age' = [age EXCEPT ![m] = 0]
    /\ lastError' = [lastError EXCEPT ![m] = error]

(***************************************************************************)
(* reset_stale_processing: the cutoff and the excluded ids were computed   *)
(* by the caller before the UPDATE; of the rows they name, those still     *)
(* PROCESSING become FAILED with one more attempt counted.                 *)
(***************************************************************************)
Stale == {m \in Ids : status[m] = "PROCESSING" /\ age[m] > StaleAfter}

\* Mutated form of StillProcessing: the UPDATE trusts the earlier look.
StillProcessingUnchecked(targets) == targets

StillProcessing(targets) == {m \in targets : status[m] = "PROCESSING"}

ResetStale(S) ==
    /\ status' = [m \in Ids |-> IF m \in S THEN "FAILED" ELSE status[m]]
    /\ retryCount' = [m \in Ids |-> IF m \in S THEN retryCount[m] + 1 ELSE retryCount[m]]
    /\ age' = [m \in Ids |-> IF m \in S THEN 0 ELSE age[m]]
    /\ lastError' = [m \in Ids |-> IF m \in S THEN "error" ELSE lastError[m]]

\* Time passes for the rows that wait in PROCESSING.
RowsAge ==
    age' = [m \in Ids |-> IF status[m] = "PROCESSING" /\ age[m] <= StaleAfter
                            THEN age[m] + 1 ELSE age[m]]
=============================================================================
