---------------------------- MODULE OdooSession -----------------------------
(***************************************************************************)
(* What an Odoo outage costs the queue: the worker's XML-RPC client, whose *)
(* uid decides whether rows are claimed (run_once of app/queue_worker.py), *)
(* and the client each submission's child builds for itself, which logs in *)
(* first and once more after an authentication Fault (app/odoo_client.py). *)
(* Business refusals, children that die and stale rows still in memory are *)
(* in module QueueWorker.                                                  *)
(***************************************************************************)
EXTENDS Integers, FiniteSets

CONSTANTS
    Rows,         \* rows in the queue, ids 1 to Rows
    BatchSize,    \* ODOO_BATCH_SIZE
    MaxRetries,   \* ODOO_MAX_RETRIES
    Answers,      \* how Odoo may answer: see AllAnswers
    MaxOutages,   \* bound: times Odoo stops to accept the login
    MaxRestarts   \* bound: process restarts

\* up: logins and submissions succeed. suspect: logins succeed, a submission ends
\* in a Fault that reads like one of authentication. denied: authenticate
\* returns no uid and a submission is an authentication Fault. down: transport
\* errors. faulty: every call ends in another Fault or in an answer xmlrpc.client
\* cannot read, which raises neither a Fault nor a transport error.
ReportedAnswers == {"up", "denied", "down"}
AllAnswers == ReportedAnswers \cup {"suspect", "faulty"}

ASSUME RowsAssumption ==
    /\ Rows \in Nat /\ BatchSize \in Nat \ {0} /\ MaxRetries \in Nat \ {0}
ASSUME AnswersAssumption == Answers \subseteq AllAnswers
ASSUME BoundsAssumption == MaxOutages \in Nat /\ MaxRestarts \in Nat

NoRow == 0
Ids == 1 .. Rows

VARIABLES
    odoo,
    uid,         \* whether the worker's client holds a uid
    at,          \* where the worker is, its child included
    batch,       \* claimed rows not yet taken up
    row,         \* the row being submitted, or NoRow
    again,       \* allow_reauth of the child's client
    result,      \* what the submission came to
    status,      \* [Ids -> status], the rows of mqtt_messages
    retries,     \* [Ids -> 0 .. MaxRetries], retry_count
    restarts,
    \* history
    outages,     \* times Odoo has stopped to accept the login
    odd,         \* whether Odoo has ever been suspect or faulty
    charged,     \* [Ids -> outages when a submission of the row last failed]
    lost,        \* [Ids -> times the row was recovered after a restart]
    manual,      \* rows that timed out, left for manual verification
    executions   \* calls of execute_kw in the submission under way

childVars == <<row, again, result, executions>>
rowVars == <<status, retries, charged, lost, manual>>
odooVars == <<odoo, outages, odd>>
vars == <<odooVars, uid, at, batch, childVars, rowVars, restarts>>

Places == {"starting", "waiting", "claiming", "batch", "login", "execute", "relogin", "result"}
InChild == {"login", "execute", "relogin"}

TypeOK ==
    /\ odoo \in Answers
    /\ odd \in BOOLEAN /\ (odoo \in ReportedAnswers \/ odd)
    /\ uid \in BOOLEAN
    /\ at \in Places
    /\ batch \subseteq Ids
    /\ row \in Ids \cup {NoRow}
    /\ at \in InChild \cup {"result"} <=> row # NoRow
    /\ again \in BOOLEAN
    /\ result \in {"none", "accepted", "refused", "fault", "timeout"}
    /\ status \in [Ids -> {"NEW", "PROCESSING", "FAILED", "COMPLETED"}]
    /\ retries \in [Ids -> 0 .. MaxRetries]
    /\ restarts \in 0 .. MaxRestarts
    /\ outages \in Nat
    /\ charged \in [Ids -> Nat]
    /\ lost \in [Ids -> Nat]
    /\ manual \subseteq Ids
    /\ executions \in 0 .. 2

\* Odoo accepts the login, refuses it in a way the client reports as
\* OdooAuthenticationError, or answers with a Fault the client lets through.
LogsIn == odoo \in {"up", "suspect"}
Refuses == odoo \in {"denied", "down"}

NoChild ==
    /\ row' = NoRow /\ again' = FALSE
    /\ result' = "none" /\ executions' = 0

Init ==
    /\ odoo \in Answers
    /\ outages = IF LogsIn THEN 0 ELSE 1
    /\ odd = (odoo \notin ReportedAnswers)
    /\ uid = FALSE /\ at = "starting"
    /\ batch = {} /\ row = NoRow
    /\ again = FALSE /\ result = "none" /\ executions = 0
    /\ status = [r \in Ids |-> "NEW"]
    /\ retries = [r \in Ids |-> 0]
    /\ restarts = 0
    /\ charged = [r \in Ids |-> 0]
    /\ lost = [r \in Ids |-> 0]
    /\ manual = {}

-----------------------------------------------------------------------------
(***************************************************************************)
(* The worker.                                                             *)
(***************************************************************************)

\* start tries to log in; a refusal is logged. A Fault leaves start and main: the
\* process ends before its threads run, and the container starts it again.
StartUp ==
    /\ at = "starting" /\ (LogsIn \/ Refuses)
    /\ at' = "waiting" /\ uid' = LogsIn
    /\ UNCHANGED <<odooVars, batch, childVars, rowVars, restarts>>

\* Mutated form of MayClaim: the worker waits for a uid nobody fetches.
MayClaimWithUid == uid

\* Mutated form of MayClaim: rows are claimed whether or not Odoo logs BEB in.
MayClaimAlways == TRUE

\* run_once claims nothing before its client has a uid; a refused login or a
\* Fault ends the pass.
MayClaim == uid \/ LogsIn

RunOnce ==
    /\ at = "waiting" /\ MayClaim
    /\ uid' = (uid \/ LogsIn)
    /\ at' = "claiming"
    /\ UNCHANGED <<odooVars, batch, childVars, rowVars, restarts>>

Claimable == {r \in Ids : status[r] = "NEW" \/ (status[r] = "FAILED" /\ retries[r] < MaxRetries)}

\* The BatchSize claimable rows of lowest id.
Pending == {r \in Claimable : Cardinality({s \in Claimable : s < r}) < BatchSize}

Claim ==
    /\ at = "claiming"
    /\ at' = "batch" /\ batch' = Pending
    /\ status' = [r \in Ids |-> IF r \in Pending THEN "PROCESSING" ELSE status[r]]
    /\ UNCHANGED <<odooVars, uid, childVars, retries, charged, lost, manual, restarts>>

\* The next row of the batch gets a child with a client of its own, without a uid.
TakeRow ==
    /\ at = "batch"
    /\ \E r \in batch : /\ \A s \in batch : r <= s
                        /\ row' = r /\ batch' = batch \ {r}
    /\ at' = "login" /\ again' = TRUE
    /\ UNCHANGED <<odooVars, uid, result, executions, rowVars, restarts>>

LeaveBatch ==
    /\ at = "batch" /\ batch = {}
    /\ at' = "waiting"
    /\ UNCHANGED <<odooVars, uid, batch, childVars, rowVars, restarts>>

-----------------------------------------------------------------------------
(***************************************************************************)
(* The child. refused is an OdooSubmissionError, fault any other exception.*)
(***************************************************************************)
EndsWith(r) == at' = "result" /\ result' = r

\* authenticate, at first or after an authentication Fault.
Login ==
    /\ at \in {"login", "relogin"}
    /\ \/ LogsIn /\ at' = "execute" /\ UNCHANGED result
       \/ Refuses /\ EndsWith("refused")
       \/ ~LogsIn /\ ~Refuses /\ EndsWith("fault")
    /\ UNCHANGED <<odooVars, uid, batch, row, again, executions, rowVars, restarts>>

\* Mutated form of LogInAgain: the second call may log in again too.
LogInAgainAlways == odoo \in {"suspect", "denied"}

\* A Fault that reads like one of authentication invites one more login.
LogInAgain == again /\ odoo \in {"suspect", "denied"}

\* execute_kw. Faults and transport errors become an OdooSubmissionError; what is
\* neither leaves the client as it was raised.
Execute ==
    /\ at = "execute"
    /\ executions' = IF again THEN 1 ELSE 2
    /\ \/ odoo = "up" /\ EndsWith("accepted") /\ UNCHANGED again
       \/ LogInAgain /\ at' = "relogin" /\ again' = FALSE /\ UNCHANGED result
       \/ odoo # "up" /\ ~LogInAgain /\ EndsWith("refused") /\ UNCHANGED again
       \/ odoo = "faulty" /\ EndsWith("fault") /\ UNCHANGED again
    /\ UNCHANGED <<odooVars, uid, batch, row, rowVars, restarts>>

\* A call that hangs is ended by its socket timeout or, with the whole child, by
\* the hard timeout of the same length.
TimeOut ==
    /\ at \in InChild /\ odoo = "down"
    /\ EndsWith("timeout")
    /\ UNCHANGED <<odooVars, uid, batch, row, again, executions, rowVars, restarts>>

\* Mutated form of Suspicious: a refused submission leaves the session alone.
SuspiciousTimeout == result = "timeout"

\* _reset_odoo_client_after_unsafe_transport follows these results.
Suspicious == result \in {"refused", "timeout"}

Failed(count) ==
    /\ status' = [status EXCEPT ![row] = "FAILED"]
    /\ retries' = [retries EXCEPT ![row] = count]

\* The worker stores the result; a timeout is not to be retried.
Record ==
    /\ at = "result"
    /\ uid' = (uid /\ ~Suspicious)
    /\ \/ /\ result = "accepted"
          /\ status' = [status EXCEPT ![row] = "COMPLETED"]
          /\ UNCHANGED <<retries, charged, manual>>
       \/ /\ result \in {"refused", "fault"}
          /\ Failed(retries[row] + 1)
          /\ charged' = [charged EXCEPT ![row] = outages]
          /\ UNCHANGED manual
       \/ /\ result = "timeout"
          /\ Failed(MaxRetries)
          /\ manual' = manual \cup {row}
          /\ UNCHANGED charged
    /\ at' = "batch" /\ NoChild
    /\ UNCHANGED <<odooVars, batch, lost, restarts>>

-----------------------------------------------------------------------------
(***************************************************************************)
(* Odoo, restarts and the watchdog.                                        *)
(***************************************************************************)
OdooChanges ==
    /\ odoo' \in Answers \ {odoo}
    /\ outages' = outages + IF LogsIn /\ ~LogsIn' THEN 1 ELSE 0
    /\ outages' <= MaxOutages
    /\ odd' = (odd \/ odoo' \notin ReportedAnswers)
    /\ UNCHANGED <<uid, at, batch, childVars, rowVars, restarts>>

Restart ==
    /\ restarts < MaxRestarts
    /\ restarts' = restarts + 1
    /\ uid' = FALSE /\ at' = "starting" /\ batch' = {}
    /\ NoChild
    /\ UNCHANGED <<odooVars, rowVars>>

\* The watchdog finds a row an earlier process left PROCESSING.
Recover(r) ==
    /\ at # "starting"
    /\ status[r] = "PROCESSING" /\ r \notin batch \cup {row}
    /\ status' = [status EXCEPT ![r] = "FAILED"]
    /\ retries' = [retries EXCEPT ![r] = @ + 1]
    /\ lost' = [lost EXCEPT ![r] = @ + 1]
    /\ UNCHANGED <<odooVars, uid, at, batch, childVars, charged, manual, restarts>>

Child == Login \/ Execute \/ TimeOut

Worker == StartUp \/ RunOnce \/ Claim \/ TakeRow \/ LeaveBatch \/ Child \/ Record

Next == Worker \/ OdooChanges \/ Restart \/ \E r \in Ids : Recover(r)

Spec == Init /\ [][Next]_vars

\* The worker's loop runs on, every call of the child ends, and the watchdog
\* passes.
Fairness ==
    /\ WF_vars(Worker)
    /\ \A r \in Ids : WF_vars(Recover(r))

FairSpec == Spec /\ Fairness

-----------------------------------------------------------------------------
(***************************************************************************)
(* Properties.                                                             *)
(***************************************************************************)

\* So far Odoo failed only in ways the client reports as what they are.
Reported == ~odd

InMemory(r) == r \in batch \/ r = row

\* One login again at most, and rows in memory and PROCESSING go together.
WorkerInv ==
    /\ at = "claiming" => uid
    /\ at = "result" <=> result # "none"
    /\ row = NoRow => executions = 0
    /\ at = "login" => again
    /\ at \in {"login", "execute"} /\ again => executions = 0
    /\ at = "relogin" => ~again /\ executions = 1
    /\ at = "execute" /\ ~again => executions = 1
    /\ at \in {"starting", "waiting", "claiming"} => batch = {}
    /\ row \notin batch
    /\ \A r \in Ids : InMemory(r) => status[r] = "PROCESSING"
    /\ \A r \in Ids : status[r] \in {"NEW", "PROCESSING"} => retries[r] < MaxRetries

\* Rows are recovered once for each restart that lost them.
LostInv ==
    \A r \in Ids : /\ lost[r] <= restarts
                   /\ status[r] = "PROCESSING" /\ ~InMemory(r) => lost[r] < restarts

\* While the worker's client holds a uid, or the row is claimed, the outage that
\* may be under way has not charged the row.
ChargedInv ==
    /\ result # "fault"
    /\ \A r \in Ids :
          /\ charged[r] <= outages
          /\ ~LogsIn /\ (uid \/ InMemory(r)) => charged[r] < outages
          /\ r = row /\ result = "refused" => charged[r] < outages
          /\ retries[r] <= charged[r] + lost[r] \/ r \in manual

IInv == TypeOK /\ WorkerInv /\ LostInv /\ (Reported => ChargedInv)

\* An outage, however long, costs a row one retry, and so does a restart: the first
\* refused submission drops the uid, and without it nothing is claimed until
\* Odoo logs BEB in again. A row is given up only after MaxRetries of them, or
\* for manual verification. It ends with the first Fault that is no refusal.
OutageCostsOneRetry ==
    Reported => \A r \in Ids : retries[r] <= outages + restarts \/ r \in manual

\* How many steps a submission has left at most: a login, a call, one login again
\* and one more call.
StepsLeft ==
    CASE at = "login"             -> 4
      [] at = "execute" /\ again  -> 3
      [] at = "relogin"           -> 2
      [] at = "execute" /\ ~again -> 1
      [] OTHER                    -> 0

\* Nothing an Odoo answers, in any order, sends a submission back to a login or a
\* call it has been through: every step of it leaves it fewer, whatever else
\* happens in between.
SubmissionAdvances ==
    [][StepsLeft > 0 =>
          \/ UNCHANGED <<at, row, again, executions>>
          \/ StepsLeft' < StepsLeft]_vars

\* Every submission ends, also under an Odoo whose Faults for ever read like a lost
\* session.
SubmissionsEnd == at \in InChild ~> at \notin InChild

\* Once Odoo works for good the queue is worked off, whatever state the uid, the
\* batch and the rows were left in.
QueueDrains ==
    <>[](odoo = "up") =>
        <>(\A r \in Ids : status[r] = "COMPLETED" \/ retries[r] = MaxRetries)
=============================================================================
