----------------------------- MODULE Readiness ------------------------------
(***************************************************************************)
(* The readiness signal: the monitor thread of app/readiness.py, its Odoo  *)
(* session (check_readiness and authenticate of app/odoo_client.py), the   *)
(* refresh of BR=1 by the command API before a print job, and what the PLC *)
(* last heard. A clock reading is taken before the calls to Odoo and used  *)
(* after them, so every span is measured between the beginnings of checks. *)
(***************************************************************************)
EXTENDS Integers

CONSTANTS
    DisconnectDelay,  \* BEB_READY_DISCONNECT_DELAY_SECONDS, in ticks
    RecoveryDelay,    \* BEB_READY_RECOVERY_DELAY_SECONDS, in ticks
    Revalidate,       \* BEB_READY_AUTH_REVALIDATE_SECONDS, in ticks
    MaxRestarts,      \* bound: process restarts
    PublishFaults,    \* whether a publication of BR may fail or be lost
    Refreshes         \* whether print jobs are started through the API

ASSUME DelaysAssumption ==
    /\ DisconnectDelay \in Nat
    /\ RecoveryDelay \in Nat
    /\ Revalidate \in Nat \ {0}
ASSUME BoundsAssumption == MaxRestarts \in Nat
ASSUME FaultsAssumption == PublishFaults \in BOOLEAN /\ Refreshes \in BOOLEAN

VARIABLES
    odoo,        \* how Odoo answers: see Answers
    uid,         \* whether the monitor's client holds a uid
    authAge,     \* ticks since it authenticated, Revalidate for as much or more
    at,          \* where the monitor thread is
    lag,         \* ticks since the clock reading of the check under way
    elapsed,     \* the running timer's age at that reading
    state,       \* ReadinessState
    disconnect,  \* age of _disconnect_started_at, or NotStarted
    recovery,    \* age of _recovery_started_at, or NotStarted
    api,         \* "idle", or "refreshing": READY was read, BR=1 follows
    br,          \* the BR value the PLC heard last, Unheard before the first
    restarts,
    \* history
    sender,      \* whose publication was the last, or that it was lost
    run,         \* the result of the latest checks without an opposite one
    runAge,      \* age of the clock reading of the first of them
    span         \* that age at the reading of the check under way

monitorVars == <<at, lag, elapsed, state, disconnect, recovery, run, runAge, span>>
sessionVars == <<uid, authAge>>
plcVars == <<br, sender>>
vars == <<odoo, sessionVars, monitorVars, api, plcVars, restarts>>

\* up: version and authenticate succeed. denied: version succeeds, authenticate
\* returns no uid. down: transport errors. faulty: a Fault or a version that is
\* no dictionary.
Answers == {"up", "denied", "down", "faulty"}

NotStarted == -1
Unheard == -1
Top == DisconnectDelay + RecoveryDelay

Timers(delay) == {NotStarted} \cup 0 .. delay

TypeOK ==
    /\ odoo \in Answers
    /\ uid \in BOOLEAN /\ authAge \in 0 .. Revalidate
    /\ at \in {"waiting", "version", "authenticate", "publishing"}
    /\ lag \in 0 .. Top /\ elapsed \in Timers(Top)
    /\ state \in {"UNKNOWN", "READY", "NOT_READY"}
    /\ disconnect \in Timers(DisconnectDelay)
    /\ recovery \in Timers(RecoveryDelay)
    /\ api \in {"idle", "refreshing"}
    /\ br \in {Unheard, 0, 1}
    /\ sender \in {"none", "monitor", "api", "lost"}
    /\ restarts \in 0 .. MaxRestarts
    /\ run \in {"none", "success", "failure"}
    /\ runAge \in 0 .. Top /\ span \in 0 .. Top

Init ==
    /\ odoo \in Answers
    /\ uid = FALSE /\ authAge = 0
    /\ at = "waiting" /\ lag = 0 /\ elapsed = NotStarted
    /\ state = "UNKNOWN"
    /\ disconnect = NotStarted /\ recovery = NotStarted
    /\ api = "idle" /\ br = Unheard /\ sender = "none"
    /\ restarts = 0
    /\ run = "none" /\ runAge = 0 /\ span = 0

AtMost(age, bound) == IF age < bound THEN age ELSE bound

-----------------------------------------------------------------------------
(***************************************************************************)
(* What a check's result does to the state, at the end of run_check_once.  *)
(***************************************************************************)

\* The history of results.
Observe(result) ==
    /\ run' = result
    /\ runAge' = IF run = result THEN runAge ELSE lag
    /\ lag' = 0 /\ elapsed' = NotStarted /\ span' = 0

\* Mutated form of Confirm: the first state of a process is not published.
ConfirmQuietly(new) ==
    /\ state' = new
    /\ disconnect' = NotStarted /\ recovery' = NotStarted
    /\ at' = IF state = "UNKNOWN" THEN "waiting" ELSE "publishing"

\* _confirm_state sets the state and clears both timers; BR is published next.
Confirm(new) ==
    /\ state' = new
    /\ disconnect' = NotStarted /\ recovery' = NotStarted
    /\ at' = "publishing"

\* Mutated form of ForgetDisconnect: the timer runs on.
KeepDisconnect == UNCHANGED disconnect

\* A success ends the disconnect debounce.
ForgetDisconnect == disconnect' = NotStarted

\* _handle_success: a READY state only forgets its timers; any other starts the
\* recovery timer, or confirms READY once it has run RecoveryDelay ticks.
HandleSuccess ==
    /\ Observe("success")
    /\ ForgetDisconnect
    /\ \/ /\ state = "READY"
          /\ recovery' = NotStarted
          /\ at' = "waiting" /\ UNCHANGED state
       \/ /\ state # "READY" /\ recovery = NotStarted
          /\ recovery' = AtMost(lag, RecoveryDelay)
          /\ at' = "waiting" /\ UNCHANGED state
       \/ /\ state # "READY" /\ recovery # NotStarted /\ elapsed < RecoveryDelay
          /\ at' = "waiting" /\ UNCHANGED <<state, recovery>>
       \/ /\ state # "READY" /\ recovery # NotStarted /\ elapsed >= RecoveryDelay
          /\ Confirm("READY")

\* _handle_failure: the recovery timer is forgotten; UNKNOWN becomes NOT_READY at
\* once, READY once its disconnect timer has run DisconnectDelay ticks.
HandleFailure ==
    /\ Observe("failure")
    /\ \/ /\ state = "UNKNOWN"
          /\ Confirm("NOT_READY")
       \/ /\ state = "NOT_READY"
          /\ disconnect' = NotStarted /\ recovery' = NotStarted
          /\ at' = "waiting" /\ UNCHANGED state
       \/ /\ state = "READY" /\ disconnect = NotStarted
          /\ disconnect' = AtMost(lag, DisconnectDelay) /\ recovery' = NotStarted
          /\ at' = "waiting" /\ UNCHANGED state
       \/ /\ state = "READY" /\ disconnect # NotStarted /\ elapsed >= DisconnectDelay
          /\ Confirm("NOT_READY")
       \/ /\ state = "READY" /\ disconnect # NotStarted /\ elapsed < DisconnectDelay
          /\ recovery' = NotStarted
          /\ at' = "waiting" /\ UNCHANGED <<state, disconnect>>

-----------------------------------------------------------------------------
(***************************************************************************)
(* The monitor thread.                                                     *)
(***************************************************************************)

\* Mutated form of RunningTimer: every check is measured from the last failure.
DisconnectTimer == disconnect

\* The timer the result will be measured by.
RunningTimer == IF state = "READY" THEN disconnect ELSE recovery

\* run_check_once reads the clock.
StartCheck ==
    /\ at = "waiting"
    /\ at' = "version"
    /\ elapsed' = RunningTimer
    /\ span' = runAge
    /\ UNCHANGED <<odoo, sessionVars, lag, state, disconnect, recovery, run, runAge,
                   api, plcVars, restarts>>

\* Mutated form of AuthenticationDue: a uid, once obtained, is never validated again.
AuthenticationDueOnce == ~uid

\* _authentication_revalidation_due.
AuthenticationDue == ~uid \/ authAge >= Revalidate

\* check_readiness calls version, and stops there if the uid need not be
\* validated.
Version ==
    /\ at = "version" /\ odoo \in {"up", "denied"}
    /\ \/ /\ AuthenticationDue
          /\ at' = "authenticate"
          /\ UNCHANGED <<lag, elapsed, state, disconnect, recovery, run, runAge, span>>
       \/ /\ ~AuthenticationDue
          /\ HandleSuccess
    /\ UNCHANGED <<odoo, sessionVars, api, plcVars, restarts>>

\* authenticate returns a uid.
Authenticate ==
    /\ at = "authenticate" /\ odoo = "up"
    /\ uid' = TRUE /\ authAge' = 0
    /\ HandleSuccess
    /\ UNCHANGED <<odoo, api, plcVars, restarts>>

\* A transport error and a refused login close the client; a Fault and an odd
\* version leave the session as it is.
Drops == odoo = "down" \/ (odoo = "denied" /\ at = "authenticate")

\* One of the calls fails.
CheckFails ==
    /\ \/ at = "version" /\ odoo \in {"down", "faulty"}
       \/ at = "authenticate" /\ odoo # "up"
    /\ IF Drops THEN uid' = FALSE /\ authAge' = 0 ELSE UNCHANGED sessionVars
    /\ HandleFailure
    /\ UNCHANGED <<odoo, api, plcVars, restarts>>

\* A publication reaches the PLC, or fails and is only logged.
Send(value, who) ==
    \/ br' = value /\ sender' = who
    \/ PublishFaults /\ sender' = "lost" /\ UNCHANGED br

\* The BR value of the confirmed state.
Confirmed == IF state = "READY" THEN 1 ELSE 0

\* _publish_br: one attempt for each confirmed change.
PublishBr ==
    /\ at = "publishing"
    /\ at' = "waiting"
    /\ Send(Confirmed, "monitor")
    /\ UNCHANGED <<odoo, sessionVars, lag, elapsed, state, disconnect, recovery, run,
                   runAge, span, api, restarts>>

-----------------------------------------------------------------------------
(***************************************************************************)
(* Everyone else.                                                          *)
(***************************************************************************)

\* _refresh_ready_before_print_job_start reads the state...
ReadReady ==
    /\ Refreshes /\ api = "idle" /\ state = "READY"
    /\ api' = "refreshing"
    /\ UNCHANGED <<odoo, sessionVars, monitorVars, plcVars, restarts>>

\* ... and publishes BR=1, or skips it when the broker is found disconnected.
RefreshReady ==
    /\ api = "refreshing"
    /\ api' = "idle"
    /\ \/ Send(1, "api")
       \/ PublishFaults /\ UNCHANGED plcVars
    /\ UNCHANGED <<odoo, sessionVars, monitorVars, restarts>>

OdooChanges ==
    /\ odoo' \in Answers \ {odoo}
    /\ UNCHANGED <<sessionVars, monitorVars, api, plcVars, restarts>>

\* The process starts again; nobody tells the PLC.
Restart ==
    /\ restarts < MaxRestarts
    /\ restarts' = restarts + 1
    /\ uid' = FALSE /\ authAge' = 0
    /\ at' = "waiting" /\ lag' = 0 /\ elapsed' = NotStarted
    /\ state' = "UNKNOWN"
    /\ disconnect' = NotStarted /\ recovery' = NotStarted
    /\ api' = "idle"
    /\ run' = "none" /\ runAge' = 0 /\ span' = 0
    /\ UNCHANGED <<odoo, plcVars>>

Checking == at \in {"version", "authenticate"}
Aged(age, bound) == IF age = NotStarted THEN NotStarted ELSE AtMost(age + 1, bound)

Tick ==
    /\ authAge' = IF uid THEN AtMost(authAge + 1, Revalidate) ELSE authAge
    /\ lag' = IF Checking THEN AtMost(lag + 1, Top) ELSE lag
    /\ disconnect' = Aged(disconnect, DisconnectDelay)
    /\ recovery' = Aged(recovery, RecoveryDelay)
    /\ runAge' = IF run = "none" THEN runAge ELSE AtMost(runAge + 1, Top)
    /\ UNCHANGED <<odoo, uid, at, elapsed, state, run, span, api, plcVars, restarts>>

Monitor == StartCheck \/ Version \/ Authenticate \/ CheckFails \/ PublishBr

Next == Monitor \/ ReadReady \/ RefreshReady \/ OdooChanges \/ Restart \/ Tick

Spec == Init /\ [][Next]_vars

\* The monitor's loop checks again and again, each call to Odoo ends, a handler
\* of the API runs to its end, and time passes.
Fairness ==
    /\ WF_vars(StartCheck)
    /\ WF_vars(Version \/ Authenticate \/ CheckFails)
    /\ WF_vars(PublishBr)
    /\ WF_vars(RefreshReady)
    /\ WF_vars(Tick)

FairSpec == Spec /\ Fairness

-----------------------------------------------------------------------------
(***************************************************************************)
(* Properties.                                                             *)
(***************************************************************************)

\* Each timer runs only in the states that use it, and never longer than the
\* results it measures have lasted.
TimersInv ==
    /\ disconnect # NotStarted =>
           state = "READY" /\ run = "failure" /\ disconnect <= runAge
    /\ recovery # NotStarted =>
           state # "READY" /\ run = "success" /\ recovery <= runAge

\* What a check under way noted at its clock reading is still so, lag ticks later.
ReadingInv ==
    /\ Checking => \/ state = "READY" /\ (disconnect = NotStarted <=> elapsed = NotStarted)
                   \/ state # "READY" /\ (recovery = NotStarted <=> elapsed = NotStarted)
    /\ elapsed <= span
    /\ run # "none" => runAge >= lag
    /\ ~Checking => lag = 0

ClockInv == TypeOK /\ TimersInv /\ ReadingInv

\* Only a confirmed state is published, and by the time the next check begins it
\* has been; a refresh says READY whatever the state has become.
HeardInv ==
    /\ at = "publishing" => state # "UNKNOWN"
    /\ at # "publishing" /\ state # "UNKNOWN" => sender # "none"
    /\ at # "publishing" /\ state # "UNKNOWN" /\ sender = "monitor" => br = Confirmed
    /\ sender = "api" => br = 1

IInv == ClockInv /\ HeardInv

\* BR changes are debounced, whatever the checks return and however long they
\* take: the state turns READY only at a success after successes alone that began
\* RecoveryDelay ago, and leaves READY only at a failure after failures alone
\* that began DisconnectDelay ago.
Debounced ==
    [][/\ state' = "READY" /\ state # "READY" =>
              run = "success" /\ run' = "success" /\ span >= RecoveryDelay
       /\ state = "READY" /\ state' = "NOT_READY" =>
              run = "failure" /\ run' = "failure" /\ span >= DisconnectDelay]_vars

\* Between checks the PLC disagrees with the confirmed state only by what was lost
\* or overtaken: with no publication lost since, BR=1 in NOT_READY takes a print
\* job's refresh that read READY before the change and spoke after it, and BR=0 in
\* READY is impossible, also when an earlier process left the PLC with another
\* value.
DisagreesOnlyByRace ==
    (at # "publishing" /\ state # "UNKNOWN" /\ br # Confirmed)
       => \/ sender = "lost"
          \/ sender = "api" /\ state = "NOT_READY" /\ br = 1

\* An Odoo that answers and authenticates again for good is found READY, and the
\* PLC hears BR=1 unless the publication is lost.
RecoveryIsReported ==
    <>[](odoo = "up") => <>[](state = "READY" /\ (br = 1 \/ sender = "lost"))

\* An Odoo that is lost for good is found NOT_READY, also one that answers but
\* refuses to authenticate, although its checks pass while the uid is cached;
\* and the PLC hears BR=0 unless the publication is lost or a print job's refresh
\* overtook it.
LossIsReported ==
    <>[](odoo # "up") => <>[](state = "NOT_READY" /\ (br = 0 \/ sender \in {"lost", "api"}))
=============================================================================
