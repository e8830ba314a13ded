---------------------------- MODULE WorkerHealth ----------------------------
(***************************************************************************)
(* What /health says of the queue worker (WorkerState and health_snapshot  *)
(* of app/queue_worker.py): the worker thread leaves a heartbeat and the   *)
(* start of its current record behind as it goes from step to step, and    *)
(* the API judges by their age. What a record comes to is of no account    *)
(* here; how long each step takes, and whether it raises, is.              *)
(***************************************************************************)
EXTENDS Integers

CONSTANTS
    Threshold,  \* ODOO_WORKER_HEARTBEAT_SECONDS, in ticks
    Timeout,    \* ODOO_TIMEOUT, of a login and of a submission
    Interval,   \* ODOO_WORKER_INTERVAL
    Slack,      \* what database work and the end of a child may take
    Second,     \* ticks in a second, to which _timestamp truncates
    BatchSize   \* ODOO_BATCH_SIZE

ASSUME TimesAssumption ==
    /\ Threshold \in Nat /\ Timeout \in Nat /\ Interval \in Nat /\ Slack \in Nat
    /\ Second \in Nat \ {0}
ASSUME BatchAssumption == BatchSize \in Nat \ {0}

VARIABLES
    at,       \* where the worker thread is
    here,     \* ticks it has been there
    left,     \* claimed rows not taken up yet
    beat,     \* age of _last_loop_at as health_snapshot reads it, or Unset
    current,  \* age of _current_record_started_at, or Unset
    \* history
    spent,    \* ticks the call to Odoo took that ended since the last heartbeat
    late,     \* since the last heartbeat a step took longer than it may
    raised    \* an exception left the record that was begun last

vars == <<at, here, left, beat, current, spent, late, raised>>

\* sleeping: waiting for the interval. pass: the login and the claim. between: from
\* one row of the batch to the next. submitting: the child. settling: the
\* result is written and the ACK published.
Places == {"sleeping", "pass", "between", "submitting", "settling"}

Unset == -1

\* What a step may take.
Limit(place) ==
    CASE place = "sleeping"              -> Interval
      [] place \in {"between", "settling"} -> Slack
      [] OTHER                           -> Timeout + Slack

\* What may follow a call to Odoo before the next heartbeat: its result is written,
\* that raises, and the worker waits for its interval; less than a second is added
\* by the time's format.
Housekeeping == Slack + Interval + (Second - 1)

\* How long a timely worker may go without a heartbeat.
Quiet == Timeout + Slack + Housekeeping

\* Calls to Odoo are the login of a pass and the submission of a row.
Calling == at \in {"pass", "submitting"}

Top == Threshold + Quiet + 1
Ages == 0 .. Top
AtMost(age) == IF age < Top THEN age ELSE Top

TypeOK ==
    /\ at \in Places
    /\ here \in Ages /\ left \in 0 .. BatchSize
    /\ beat \in Ages \cup {Unset} /\ current \in Ages \cup {Unset}
    /\ spent \in Ages /\ late \in BOOLEAN /\ raised \in BOOLEAN

\* The thread is about to begin its first pass.
Init ==
    /\ at = "sleeping" /\ here = 0 /\ left = 0
    /\ beat = Unset /\ current = Unset
    /\ spent = 0 /\ late = FALSE /\ raised = FALSE

-----------------------------------------------------------------------------
GoTo(place) == at' = place /\ here' = 0
Leave(place) == GoTo(place) /\ spent' = IF Calling THEN here ELSE spent

\* WorkerState.heartbeat, which begin_record and finish_record do too: its time is
\* compared without its fraction of a second.
Heartbeat == beat' \in 0 .. Second - 1 /\ spent' = 0 /\ late' = FALSE
NoHeartbeat == UNCHANGED <<beat, late>>

\* _run_loop and run_once begin a pass.
Wake ==
    /\ at = "sleeping"
    /\ GoTo("pass") /\ Heartbeat
    /\ UNCHANGED <<left, current, raised>>

\* run_once claims a batch.
Claim ==
    /\ at = "pass"
    /\ Leave("between") /\ left' \in 1 .. BatchSize
    /\ NoHeartbeat
    /\ UNCHANGED <<current, raised>>

\* There is nothing to claim, Odoo refuses the login, or the pass raises.
EmptyPass ==
    /\ at = "pass"
    /\ Leave("sleeping") /\ NoHeartbeat
    /\ UNCHANGED <<left, current, raised>>

\* _process_record begins with begin_record.
BeginRecord ==
    /\ at = "between" /\ left > 0
    /\ GoTo("submitting") /\ left' = left - 1
    /\ Heartbeat /\ current' = 0 /\ raised' = FALSE

EndBatch ==
    /\ at = "between" /\ left = 0
    /\ Leave("sleeping") /\ NoHeartbeat
    /\ UNCHANGED <<left, current, raised>>

\* The child ends, by itself or at its timeout, or is not needed.
EndSubmission ==
    /\ at = "submitting"
    /\ Leave("settling") /\ NoHeartbeat
    /\ UNCHANGED <<left, current, raised>>

\* Mutated form of FinishRecord: the record stays the current one.
FinishKeeping ==
    /\ at = "settling"
    /\ GoTo("between") /\ Heartbeat
    /\ UNCHANGED <<left, current, raised>>

\* finish_record, on every path on which the row was written.
FinishRecord ==
    /\ at = "settling"
    /\ GoTo("between") /\ Heartbeat
    /\ current' = Unset
    /\ UNCHANGED <<left, raised>>

\* mark_completed, mark_failed or the child's start raises: _run_loop logs it, the
\* rest of the batch is dropped, and nobody calls finish_record.
RecordRaises ==
    /\ at \in {"submitting", "settling"}
    /\ Leave("sleeping") /\ left' = 0
    /\ NoHeartbeat
    /\ raised' = TRUE
    /\ UNCHANGED current

\* Mutated form of Aged: waiting for a child counts as a heartbeat.
AgedOutside(age) == IF age = Unset \/ at = "submitting" THEN age ELSE AtMost(age + 1)

Aged(age) == IF age = Unset THEN age ELSE AtMost(age + 1)

Tick ==
    /\ here' = AtMost(here + 1)
    /\ beat' = Aged(beat) /\ current' = Aged(current)
    /\ late' = (late \/ here + 1 > Limit(at))
    /\ UNCHANGED <<at, left, spent, raised>>

Worker ==
    \/ Wake \/ Claim \/ EmptyPass \/ BeginRecord \/ EndBatch
    \/ EndSubmission \/ FinishRecord \/ RecordRaises

Next == Worker \/ Tick

Spec == Init /\ [][Next]_vars

\* Every step of the worker ends.
FairSpec == Spec /\ WF_vars(Worker)

-----------------------------------------------------------------------------
(***************************************************************************)
(* Properties.                                                             *)
(***************************************************************************)

\* health_snapshot, of a thread that runs.
Healthy == beat # Unset /\ beat <= Threshold /\ current <= Timeout

\* How long the last call to Odoo since the heartbeat has taken, or took.
CallTime == IF Calling THEN here ELSE spent

\* What followed that call before the present step.
Since == IF at = "sleeping" THEN Slack ELSE 0

\* A record is current while it is processed, or until the next one when an
\* exception left it; its age and the heartbeat's begin together, and both are
\* made up of the call to Odoo and the steps since.
IInv ==
    /\ TypeOK
    /\ current # Unset => raised \/ at \in {"submitting", "settling"}
    /\ raised => at \in {"sleeping", "pass", "between"}
    /\ beat = Unset => at = "sleeping"
    /\ beat # Unset => beat >= here
    /\ Calling => spent = 0
    /\ at \in {"submitting", "settling"} => current <= spent + here
    /\ ~late => here <= Limit(at)
    /\ ~late /\ beat # Unset => beat <= spent + Since + here + (Second - 1)

\* No alarm without a slow call: a worker whose steps keep their time is reported
\* unhealthy only if the call to Odoo under way, or the last one since its
\* heartbeat, has used up the threshold but for what must follow it, or the limit
\* of a submission, or after an exception left a record behind. With the defaults,
\* 60 s and submissions of up to 90 s, a submission may: its alarm is a false one.
AlarmsAreTrue ==
    beat # Unset /\ ~late =>
        /\ beat > Threshold => CallTime > Threshold - Housekeeping
        /\ current > Timeout => raised \/ CallTime > Timeout - Slack

\* A worker that is stuck in any step for longer than the threshold is reported
\* unhealthy, for as long as it is.
StuckIsReported == here > Threshold => ~Healthy

\* An alarm ends: a worker that goes on is reported healthy again and again, once
\* no exception has left a record behind.
AlarmsEnd == <>[](~raised) => []<>Healthy
=============================================================================
