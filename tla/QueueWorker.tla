---------------------------- MODULE QueueWorker -----------------------------
(***************************************************************************)
(* The Odoo queue worker (app/queue_worker.py) over the durable queue: the *)
(* worker thread and the batch it holds in memory, the child process that  *)
(* carries one submission, the stale watchdog thread, the MQTT callback    *)
(* that stores and answers PLC messages, and the process that may be shut  *)
(* down or die at any step. A step is what one thread does between two     *)
(* points where another thread, process or connection can be seen to act.  *)
(***************************************************************************)
EXTENDS MessageQueue

CONSTANTS
    SubmitTimeout,  \* ODOO_TIMEOUT, the hard limit of one submission, in ticks
    Unsubmittable,  \* rows whose stored payload payload_from_record refuses
    MaxRestarts,    \* bound: shutdowns and crashes
    StoreFaults     \* whether a write, a fork or a result file may fail

ASSUME TimeoutAssumption  == SubmitTimeout \in Nat
ASSUME RefusedAssumption  == Unsubmittable \subseteq Ids
ASSUME RestartsAssumption == MaxRestarts \in Nat
ASSUME FaultsAssumption   == StoreFaults \in BOOLEAN

VARIABLES
    process,       \* "up", "stopping" (stop_event set) or "down"
    restarts,      \* shutdowns and crashes so far
    phase,         \* where the worker thread is
    batch,         \* claimed rows run_once has not reached yet
    current,       \* the row in _process_record, 0 when there is none
    child,         \* the submission child: "none", "running", "killed"
    calls,         \* requests (execute_kw) the active child has made
    elapsed,       \* ticks since the active submission was registered
    outcome,       \* what the submission of current came to
    snapshotStale, \* another connection committed after mark_completed's SELECT
    wdTargets,     \* rows named by the cutoff and the exclusion the watchdog
                   \* computed, before its UPDATE
    \* history
    submits,       \* [Ids -> Nat] requests made for a row, over all its children
    timedOut,      \* rows a submission of which ran into the hard limit
    accepted,      \* rows for which Odoo returned success with an ACK
    acked          \* rows whose ACK was published to the PLC

workerVars == <<phase, batch, current, child, calls, elapsed, outcome, snapshotStale>>
historyVars == <<submits, timedOut, accepted, acked>>
vars == <<rowVars, process, restarts, workerVars, wdTargets, historyVars>>

Phases == {"idle", "polling", "ready", "registered", "waiting", "settled",
           "completing", "publishing"}

\* ok: success with an ACK. final: success without an ACK, or a business error
\* listed as non-retryable. retryable: every other error, a child that left no
\* result included.
ChildResults == {"ok", "retryable", "final"}
Outcomes == ChildResults \cup {"none", "timeout"}

None == 0

\* The requests a child may make: submit_print_data logs in again and asks once
\* more after a Fault that reads like an authentication error.
ChildCalls == 2

WorkerTypeOK ==
    /\ phase \in Phases
    /\ batch \subseteq Ids
    /\ current \in Ids \cup {None}
    /\ child \in {"none", "running", "killed"}
    /\ calls \in 0 .. ChildCalls
    /\ elapsed \in 0 .. SubmitTimeout + 1
    /\ outcome \in Outcomes
    /\ snapshotStale \in BOOLEAN

HistoryTypeOK ==
    /\ submits \in [Ids -> Nat]
    /\ timedOut \subseteq Ids
    /\ accepted \subseteq Ids
    /\ acked \subseteq Ids

TypeOK ==
    /\ QueueTypeOK
    /\ process \in {"up", "stopping", "down"}
    /\ restarts \in 0 .. MaxRestarts
    /\ WorkerTypeOK
    /\ wdTargets \subseteq Ids
    /\ HistoryTypeOK

Init ==
    /\ QueueInit
    /\ process = "up" /\ restarts = 0
    /\ phase = "idle" /\ batch = {} /\ current = None
    /\ child = "none" /\ calls = 0 /\ elapsed = 0 /\ outcome = "none"
    /\ snapshotStale = FALSE
    /\ wdTargets = {}
    /\ submits = [m \in Ids |-> 0]
    /\ timedOut = {} /\ accepted = {} /\ acked = {}

Running == process # "down"

-----------------------------------------------------------------------------
(***************************************************************************)
(* Other connections. A commit between the SELECT and the UPDATE of        *)
(* mark_completed, which share one deferred WAL transaction, leaves that   *)
(* transaction with a snapshot it may no longer write from.                *)
(***************************************************************************)
OtherCommits == snapshotStale' = (phase = "completing")

\* _on_message: a PLC message not seen before is stored.
Receive ==
    /\ Running
    /\ \E m \in Ids : SaveMessage(m)
    /\ OtherCommits
    /\ UNCHANGED <<process, restarts, phase, batch, current, child, calls,
                   elapsed, outcome, wdTargets, historyVars>>

\* Mutated form of Answerable: a message sent to Odoo counts as answered.
AnswerableOnceTried(m) == submits[m] > 0

Answerable(m) == status[m] = "COMPLETED"

\* _handle_duplicate_message: a repeated message is answered with the stored
\* ACK of a COMPLETED row (the attempt is recorded, the publish may fail) and
\* ignored otherwise. How often it is answered is left to the replay throttle.
ReceiveDuplicate ==
    /\ Running
    /\ \E m \in Ids : Answerable(m) /\ acked' \in {acked, acked \cup {m}}
    /\ OtherCommits
    /\ UNCHANGED <<rowVars, process, restarts, phase, batch, current, child, calls,
                   elapsed, outcome, wdTargets, submits, timedOut, accepted>>

\* The command API and the lifecycle manager write other tables of the file. The
\* cleanup also deletes old COMPLETED rows of this one: that is an action of module
\* ProductionLifecycle, and here such a row stays, COMPLETED, for good.
OtherTableWritten ==
    /\ Running
    /\ OtherCommits
    /\ UNCHANGED <<rowVars, process, restarts, phase, batch, current, child, calls,
                   elapsed, outcome, wdTargets, historyVars>>

-----------------------------------------------------------------------------
(***************************************************************************)
(* The worker thread.                                                      *)
(***************************************************************************)
\* What the worker holds when it is between two rows, or between two batches.
NextRow ==
    /\ phase' = IF batch = {} THEN "idle" ELSE "ready"
    /\ current' = None /\ child' = "none" /\ outcome' = "none"
    /\ calls' = 0 /\ elapsed' = 0
    /\ snapshotStale' = FALSE
    /\ UNCHANGED batch

\* The rest of the batch is dropped: its rows stay as they are in the table.
AbandonBatch ==
    /\ phase' = "idle" /\ batch' = {}
    /\ current' = None /\ child' = "none" /\ outcome' = "none"
    /\ calls' = 0 /\ elapsed' = 0
    /\ snapshotStale' = FALSE

\* _run_loop: the stop event is not set, run_once is called.
Poll ==
    /\ process = "up" /\ phase = "idle"
    /\ phase' = "polling"
    /\ UNCHANGED <<rowVars, process, restarts, batch, current, child, calls,
                   elapsed, outcome, snapshotStale, wdTargets, historyVars>>

\* run_once: Odoo does not authenticate the client, nothing is claimed.
AuthenticationFails ==
    /\ Running /\ phase = "polling"
    /\ phase' = "idle"
    /\ UNCHANGED <<rowVars, process, restarts, batch, current, child, calls,
                   elapsed, outcome, snapshotStale, wdTargets, historyVars>>

\* run_once: claim a batch. The claim gives its rows a new last_attempt_at, so
\* a cutoff the watchdog took earlier names none of them any more.
Claim ==
    /\ Running /\ phase = "polling"
    /\ ClaimPending(PendingBatch)
    /\ batch' = PendingBatch
    /\ phase' = IF PendingBatch = {} THEN "idle" ELSE "ready"
    /\ wdTargets' = wdTargets \ PendingBatch
    /\ UNCHANGED <<process, restarts, current, child, calls, elapsed, outcome,
                   snapshotStale, historyVars>>

\* run_once: the stop event ends the loop over the batch.
LeaveBatch ==
    /\ process = "stopping" /\ phase = "ready"
    /\ AbandonBatch
    /\ UNCHANGED <<rowVars, process, restarts, wdTargets, historyVars>>

\* _process_record takes the lowest id left: payload_from_record refuses it, or
\* _submit_with_hard_timeout registers it as the active submission.
TakeRow(m) ==
    /\ process = "up" /\ phase = "ready"
    /\ m \in batch /\ \A k \in batch : m <= k
    /\ batch' = batch \ {m}
    /\ current' = m
    /\ elapsed' = 0
    /\ UNCHANGED <<rowVars, process, restarts, child, calls, snapshotStale,
                   wdTargets, historyVars>>

RefuseRow ==
    \E m \in Unsubmittable :
        TakeRow(m) /\ phase' = "settled" /\ outcome' = "retryable"

RegisterRow ==
    \E m \in Ids \ Unsubmittable :
        TakeRow(m) /\ phase' = "registered" /\ UNCHANGED outcome

\* process.start(): the child has a client of its own.
StartChild ==
    /\ Running /\ phase = "registered"
    /\ phase' = "waiting" /\ child' = "running" /\ calls' = 0
    /\ UNCHANGED <<rowVars, process, restarts, batch, current, elapsed, outcome,
                   snapshotStale, wdTargets, historyVars>>

\* Mutated form of MaySubmit: the second request passes allow_reauth on.
MaySubmitAgain == TRUE

MaySubmit == calls < ChildCalls

\* _submit_print_data: the child has logged in and asks Odoo to process the row,
\* a first time, or again after an authentication-like Fault.
ChildSubmits ==
    /\ Running /\ phase = "waiting" /\ child = "running"
    /\ MaySubmit
    /\ calls' = calls + 1
    /\ submits' = [submits EXCEPT ![current] = @ + 1]
    /\ UNCHANGED <<rowVars, process, restarts, phase, batch, current, child, elapsed,
                   outcome, snapshotStale, wdTargets, timedOut, accepted, acked>>

\* process.join returns in time, or the child is found dead after it; the
\* result it left is read and classified. Only a request can have been answered.
ChildExits ==
    /\ Running /\ phase = "waiting" /\ child = "running"
    /\ outcome' \in (IF calls > 0 THEN ChildResults ELSE {"retryable"})
    /\ phase' = "settled" /\ child' = "none" /\ calls' = 0 /\ elapsed' = 0
    /\ accepted' = IF outcome' = "ok" THEN accepted \cup {current} ELSE accepted
    /\ UNCHANGED <<rowVars, process, restarts, batch, current, snapshotStale,
                   wdTargets, submits, timedOut, acked>>

\* The child outlives the join: it is killed and the submission timed out,
\* whatever Odoo has made of it.
TimeOut ==
    /\ Running /\ phase = "waiting" /\ child = "running"
    /\ elapsed >= SubmitTimeout
    /\ outcome' = "timeout"
    /\ phase' = "settled" /\ child' = "none" /\ calls' = 0 /\ elapsed' = 0
    /\ timedOut' = timedOut \cup {current}
    /\ UNCHANGED <<rowVars, process, restarts, batch, current, snapshotStale,
                   wdTargets, submits, accepted, acked>>

\* The child was killed by stop() and left no result: an ordinary error.
ChildKilled ==
    /\ Running /\ phase = "waiting" /\ child = "killed"
    /\ outcome' = "retryable"
    /\ phase' = "settled" /\ child' = "none" /\ calls' = 0 /\ elapsed' = 0
    /\ UNCHANGED <<rowVars, process, restarts, batch, current, snapshotStale,
                   wdTargets, historyVars>>

\* Mutated form of Final: the timeout branch forgets retryable=False.
FinalWithoutTimeout(o) == o = "final"

Final(o) == o \in {"final", "timeout"}

\* _mark_record_failed for every outcome but success with an ACK.
RecordFailure ==
    /\ Running /\ phase = "settled" /\ outcome # "ok"
    /\ MarkFailed(current, IF outcome = "timeout" THEN "timeout" ELSE "error",
                  ~Final(outcome))
    /\ NextRow
    /\ UNCHANGED <<process, restarts, wdTargets, historyVars>>

\* mark_completed: BEGIN and the SELECT that takes the read snapshot.
BeginCompletion ==
    /\ Running /\ phase = "settled" /\ outcome = "ok"
    /\ phase' = "completing"
    /\ snapshotStale' = FALSE
    /\ UNCHANGED <<rowVars, process, restarts, batch, current, child, calls,
                   elapsed, outcome, wdTargets, historyVars>>

\* mark_completed: the UPDATE and the commit.
Complete ==
    /\ Running /\ phase = "completing" /\ ~snapshotStale
    /\ MarkCompleted(current)
    /\ phase' = "publishing"
    /\ UNCHANGED <<process, restarts, batch, current, child, calls, elapsed,
                   outcome, snapshotStale, wdTargets, historyVars>>

\* mark_completed: SQLite refuses to write from the stale snapshot (BUSY); the
\* exception leaves run_once and _run_loop logs it.
CompletionRefused ==
    /\ Running /\ phase = "completing" /\ snapshotStale
    /\ AbandonBatch
    /\ UNCHANGED <<rowVars, process, restarts, wdTargets, historyVars>>

\* _publish_ack: the publisher's verdict is not looked at.
PublishAck ==
    /\ Running /\ phase = "publishing"
    /\ acked' \in {acked, acked \cup {current}}
    /\ NextRow
    /\ UNCHANGED <<rowVars, process, restarts, wdTargets, submits, timedOut,
                   accepted>>

\* Any other exception in run_once: counting the queue after the claim, making
\* the result directory, forking, reading the result of a killed child, or a
\* write SQLite refuses. _run_loop logs it and the batch is gone.
RunOnceRaises ==
    /\ StoreFaults
    /\ Running
    /\ \/ phase \in {"ready", "registered", "settled", "completing"}
       \/ phase = "waiting" /\ child = "killed"
    /\ AbandonBatch
    /\ UNCHANGED <<rowVars, process, restarts, wdTargets, historyVars>>

-----------------------------------------------------------------------------
(***************************************************************************)
(* The watchdog thread: recover_stale_processing computes the cutoff and   *)
(* the protected ids, and then runs the UPDATE.                            *)
(***************************************************************************)
Protected ==
    IF phase = "waiting" /\ child = "running" /\ elapsed <= SubmitTimeout
      THEN {current} ELSE {}

\* A pass that began before the stop event still runs to its end.
WatchdogLooks ==
    /\ Running /\ wdTargets = {}
    /\ wdTargets' = Stale \ Protected
    /\ UNCHANGED <<rowVars, process, restarts, workerVars, historyVars>>

WatchdogRecovers ==
    /\ Running /\ wdTargets # {}
    /\ ResetStale(StillProcessing(wdTargets))
    /\ wdTargets' = {}
    /\ IF StillProcessing(wdTargets) = {} THEN UNCHANGED snapshotStale
                                          ELSE OtherCommits
    /\ UNCHANGED <<process, restarts, phase, batch, current, child, calls,
                   elapsed, outcome, historyVars>>

-----------------------------------------------------------------------------
(***************************************************************************)
(* Shutdown, crash and restart. Everything but the table is volatile.      *)
(***************************************************************************)
\* stop(): set the event, kill the child that is running.
Stop ==
    /\ process = "up" /\ restarts < MaxRestarts
    /\ process' = "stopping" /\ restarts' = restarts + 1
    /\ child' = IF child = "running" THEN "killed" ELSE child
    /\ UNCHANGED <<rowVars, phase, batch, current, calls, elapsed, outcome,
                   snapshotStale, wdTargets, historyVars>>

\* The process ends: main returns after the bounded joins, wherever the daemon
\* threads are, or it is killed outright.
Exit ==
    /\ \/ process = "stopping" /\ UNCHANGED restarts
       \/ process = "up" /\ restarts < MaxRestarts /\ restarts' = restarts + 1
    /\ process' = "down"
    /\ AbandonBatch
    /\ wdTargets' = {}
    /\ UNCHANGED <<rowVars, historyVars>>

Start ==
    /\ process = "down"
    /\ process' = "up"
    /\ UNCHANGED <<rowVars, restarts, workerVars, wdTargets, historyVars>>

\* Time passes for the waiting rows and for the registered submission.
Tick ==
    /\ RowsAge
    /\ elapsed' = IF phase \in {"registered", "waiting"} /\ elapsed <= SubmitTimeout
                    THEN elapsed + 1 ELSE elapsed
    /\ UNCHANGED <<status, retryCount, lastError, process, restarts, phase, batch,
                   current, child, calls, outcome, snapshotStale, wdTargets,
                   historyVars>>

-----------------------------------------------------------------------------
Submission ==
    RegisterRow \/ StartChild \/ ChildSubmits \/ ChildExits \/ TimeOut \/ ChildKilled

Worker ==
    \/ Poll \/ AuthenticationFails \/ Claim \/ LeaveBatch \/ RefuseRow
    \/ Submission \/ RecordFailure \/ BeginCompletion \/ Complete
    \/ CompletionRefused \/ PublishAck \/ RunOnceRaises

Environment == Receive \/ ReceiveDuplicate \/ OtherTableWritten

Step ==
    \/ Environment \/ Worker \/ WatchdogLooks \/ WatchdogRecovers
    \/ Stop \/ Exit \/ Start

Next == Step \/ Tick

(***************************************************************************)
(* Fairness. The worker and watchdog threads loop until the stop event,    *)
(* with timed waits, and every call they make returns (the join on the     *)
(* child by its timeout); time passes; a stopped process ends after its    *)
(* bounded joins and is started again by the container's restart policy.   *)
(* Odoo authenticates again and again, if not always: strong fairness of   *)
(* Claim. Nothing is assumed of the child, of Odoo's answers, of MQTT or   *)
(* of the PLC.                                                             *)
(***************************************************************************)
Fairness ==
    /\ WF_vars(Poll) /\ SF_vars(Claim)
    /\ WF_vars(RefuseRow \/ RegisterRow \/ LeaveBatch)
    /\ WF_vars(StartChild) /\ WF_vars(TimeOut) /\ WF_vars(ChildKilled)
    /\ WF_vars(RecordFailure) /\ WF_vars(BeginCompletion)
    /\ WF_vars(Complete \/ CompletionRefused) /\ WF_vars(PublishAck)
    /\ WF_vars(WatchdogLooks) /\ WF_vars(WatchdogRecovers)
    /\ WF_vars(Exit /\ process = "stopping") /\ WF_vars(Start)
    /\ WF_vars(Tick)

Spec == Init /\ [][Next]_vars /\ Fairness
-----------------------------------------------------------------------------
InFlight == batch \cup ({current} \ {None})

(***************************************************************************)
(* Properties.                                                             *)
(***************************************************************************)
\* However the worker, the watchdog, crashes and repeated claims interleave, a
\* row is charged at most one attempt more than ODOO_MAX_RETRIES: the watchdog
\* may charge a row the worker still holds, and the worker charges it again.
RetryBudget == \A m \in Ids : retryCount[m] <= MaxRetries + 1

\* Odoo is asked to process a message at most twice ODOO_MAX_RETRIES times in all,
\* over every restart, stale recovery and dropped batch (each request may print
\* a label): a child asks once more after an authentication-like Fault, and that
\* second request is charged to no attempt.
SubmissionBudget == \A m \in Ids : submits[m] <= ChildCalls * MaxRetries

\* An ACK, first or replayed, goes to the PLC only for a row that is durably
\* COMPLETED, and a row is COMPLETED only if Odoo answered success with an ACK.
\* README.md:277 says that "any successful XML-RPC return marks the row COMPLETED";
\* the code stores a return without success or without an ACK as FAILED.
AckedIsCompleted ==
    /\ \A m \in acked : status[m] = "COMPLETED"
    /\ \A m \in Ids : status[m] = "COMPLETED" => m \in accepted

\* A COMPLETED row stays COMPLETED and is never submitted again, although
\* neither mark_failed nor mark_completed looks at the status it overwrites.
CompletedIsFinal ==
    [][\A m \in Ids : status[m] = "COMPLETED" =>
          status'[m] = "COMPLETED" /\ submits'[m] = submits[m]]_vars

\* A row FAILED with the timeout text waits for an operator: it keeps that text,
\* is never claimed, recovered or submitted again, and gets no ACK.
TimeoutIsFinal ==
    [][\A m \in Ids : lastError[m] = "timeout" =>
          /\ status'[m] = "FAILED" /\ lastError'[m] = "timeout"
          /\ submits'[m] = submits[m] /\ m \notin acked']_vars

Exhausted(m) ==
    status[m] = "FAILED" /\ retryCount[m] >= MaxRetries /\ m \notin InFlight

DoneRows == {m \in Ids : status[m] = "COMPLETED"}
DeadRows == {m \in Ids : Exhausted(m)}
OpenRows == {m \in Ids : status[m] # "ABSENT"} \ (DoneRows \cup DeadRows)

Promise == INSTANCE QueuePromise WITH
    Messages <- Ids, open <- OpenRows, done <- DoneRows, dead <- DeadRows,
    answered <- acked

\* The worker keeps the queue's promise: a stored message is settled once and for
\* good (COMPLETED, or FAILED with its attempts used up and out of the worker's
\* hands), and answered only when it is COMPLETED.
KeepsPromise == Promise!Safety

\* Every stored message is settled in the end, through outages, hanging children,
\* refused writes and restarts: no row is left NEW, PROCESSING or retryable.
EverySettles == Promise!Settling
-----------------------------------------------------------------------------
(***************************************************************************)
(* The inductive invariant behind the properties.                          *)
(***************************************************************************)
\* Where the worker is and what it holds go together.
WorkerInv ==
    /\ phase \in {"idle", "polling"} => batch = {}
    /\ phase \in {"idle", "polling", "ready"} <=> current = None
    /\ current \notin batch
    /\ \/ phase \in {"completing", "publishing"}
       \/ phase = "settled" /\ outcome = "ok"
       => current \in accepted

\* What a row's status says of its other columns.
RowInv(m) ==
    /\ status[m] \in {"ABSENT", "NEW"} => retryCount[m] = 0
    /\ status[m] = "PROCESSING" => retryCount[m] < MaxRetries
    /\ retryCount[m] <= MaxRetries + 1
    /\ lastError[m] = "timeout" => Exhausted(m)
    /\ status[m] = "COMPLETED" => m \in accepted
    /\ m \in acked => status[m] = "COMPLETED"

\* A row in the worker's hands is PROCESSING, or FAILED when the watchdog took
\* it back meanwhile, and not completed before its own publication.
HeldInv(m) ==
    m \in InFlight =>
        IF m = current /\ phase = "publishing"
          THEN status[m] = "COMPLETED"
          ELSE \/ status[m] = "PROCESSING"
               \/ status[m] = "FAILED" /\ retryCount[m] <= MaxRetries

\* Rows claimed and not submitted since.
Unsent == batch \cup (IF phase = "registered" THEN {current} ELSE {})

One(P) == IF P THEN 1 ELSE 0

\* Requests the worker may still make for a row before it charges an attempt: all of
\* a child's while none was started, what the child has left while it runs.
Unspent(m) ==
    CASE m \in Unsent                        -> ChildCalls
      [] m = current /\ phase = "waiting"    -> ChildCalls - calls
      [] OTHER                               -> 0

\* The requests made, and those still to come, are matched by the attempts charged,
\* or about to be charged to a PROCESSING row, at ChildCalls each.
CreditInv(m) ==
    /\ submits[m] <= ChildCalls * MaxRetries
    /\ status[m] # "COMPLETED" =>
          submits[m] + Unspent(m) <= ChildCalls * (retryCount[m] + One(status[m] = "PROCESSING"))

\* The strengthening that makes RetryBudget, SubmissionBudget, AckedIsCompleted
\* and the two finality properties inductive: it ties the columns of a row to
\* what the worker holds in memory.
IInv ==
    /\ TypeOK
    /\ WorkerInv
    /\ \A m \in Ids : RowInv(m) /\ HeldInv(m) /\ CreditInv(m)
=============================================================================
