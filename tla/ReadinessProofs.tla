-------------------------- MODULE ReadinessProofs ---------------------------
(***************************************************************************)
(* Proofs about Readiness, for all delays and any number of restarts: a    *)
(* state is confirmed only after results that agreed for its whole delay,  *)
(* and the PLC hears of it unless the publication is lost or overtaken.    *)
(***************************************************************************)
EXTENDS Readiness, TLAPS

\* Wherever a step leaves what the PLC hears alone, it leaves both parts alone.
USE DEF plcVars

\* A saturated age stays within its bound.
LEMMA AgeTypes ==
    /\ Top \in Nat /\ DisconnectDelay <= Top /\ RecoveryDelay <= Top
    /\ \A d \in Nat : \A a \in Nat : AtMost(a, d) \in 0 .. d /\ AtMost(a, d) <= a
    /\ \A d \in Nat : \A a \in Timers(d) : Aged(a, d) \in Timers(d)
    /\ \A d \in Nat : \A a \in 0 .. d : AtMost(a + 1, d) \in 0 .. d
BY DelaysAssumption DEF Top, AtMost, Aged, Timers, NotStarted

\* No timer runs at first.
LEMMA InitClock == Init => ClockInv
<1> SUFFICES ASSUME Init
             PROVE  ClockInv
  OBVIOUS
<1>1. /\ authAge \in 0 .. Revalidate /\ lag \in 0 .. Top /\ elapsed \in Timers(Top)
      /\ disconnect \in Timers(DisconnectDelay) /\ recovery \in Timers(RecoveryDelay)
      /\ restarts \in 0 .. MaxRestarts /\ runAge \in 0 .. Top /\ span \in 0 .. Top
  BY AgeTypes, DelaysAssumption, BoundsAssumption DEF Init, Timers
<1>2. TypeOK
  BY <1>1 DEF Init, TypeOK
<1> QED
  BY <1>2 DEF Init, ClockInv, TimersInv, ReadingInv, Checking, NotStarted

\* A step that leaves the monitor's thread alone keeps the invariant.
LEMMA MonitorUntouched ==
    ASSUME ClockInv, TypeOK', UNCHANGED monitorVars
    PROVE  ClockInv'
BY DEF ClockInv, TimersInv, ReadingInv, Checking, monitorVars

\* The end of a check observes its result, and the run of equal results is as old
\* as the first clock reading among them.
LEMMA ObserveTypes ==
    ASSUME ClockInv, Checking, NEW r \in {"success", "failure"}, Observe(r)
    PROVE  /\ run' = r /\ runAge' \in 0 .. Top
           /\ lag \in 0 .. Top /\ lag <= runAge'
           /\ lag' = 0 /\ elapsed' = NotStarted /\ span' = 0
           /\ run = r => runAge' = runAge
BY DEF ClockInv, TypeOK, ReadingInv, Observe

\* _handle_success keeps the timers in step with the results.
LEMMA SuccessKeeps ==
    ASSUME ClockInv, Checking, HandleSuccess, uid' \in BOOLEAN,
           authAge' \in 0 .. Revalidate, UNCHANGED <<odoo, api, plcVars, restarts>>
    PROVE  ClockInv'
<1>1. /\ run' = "success" /\ runAge' \in 0 .. Top
      /\ lag \in 0 .. Top /\ lag <= runAge'
      /\ lag' = 0 /\ elapsed' = NotStarted /\ span' = 0
      /\ run = "success" => runAge' = runAge
  BY ObserveTypes DEF HandleSuccess
<1>2. TypeOK /\ TimersInv
  BY DEF ClockInv
<1>3. AtMost(lag, RecoveryDelay) \in 0 .. RecoveryDelay /\ AtMost(lag, RecoveryDelay) <= lag
  BY <1>1, DelaysAssumption DEF AtMost, Top
<1>4. /\ state' \in {"UNKNOWN", "READY", "NOT_READY"}
      /\ at' \in {"waiting", "publishing"}
      /\ disconnect' = NotStarted
      /\ recovery' \in Timers(RecoveryDelay)
      /\ recovery' # NotStarted => state' # "READY" /\ recovery' <= runAge'
  <2>1. CASE state = "READY" /\ recovery' = NotStarted /\ at' = "waiting" /\ UNCHANGED state
    BY <2>1, <1>2 DEF HandleSuccess, ForgetDisconnect, TypeOK, Timers
  <2>2. CASE /\ state # "READY" /\ recovery' = AtMost(lag, RecoveryDelay)
             /\ at' = "waiting" /\ UNCHANGED state
    BY <2>2, <1>1, <1>2, <1>3 DEF HandleSuccess, ForgetDisconnect, TypeOK, Timers
  <2>3. CASE /\ state # "READY" /\ recovery # NotStarted
             /\ at' = "waiting" /\ UNCHANGED <<state, recovery>>
    BY <2>3, <1>1, <1>2 DEF HandleSuccess, ForgetDisconnect, TypeOK, TimersInv
  <2>4. CASE Confirm("READY")
    BY <2>4 DEF Confirm, Timers
  <2> QED
    BY <2>1, <2>2, <2>3, <2>4 DEF HandleSuccess
<1>5. TypeOK'
  <2>1. NotStarted \in Timers(Top) /\ NotStarted \in Timers(DisconnectDelay) /\ 0 \in 0 .. Top
    BY AgeTypes DEF Timers
  <2> QED
    BY <1>1, <1>2, <1>4, <2>1 DEF TypeOK
<1>6. TimersInv'
  BY <1>1, <1>4 DEF TimersInv
<1>7. ReadingInv'
  BY <1>1, <1>4 DEF ReadingInv, Checking, NotStarted
<1> QED
  BY <1>5, <1>6, <1>7 DEF ClockInv

\* _handle_failure does too.
LEMMA FailureKeeps ==
    ASSUME ClockInv, Checking, HandleFailure, uid' \in BOOLEAN,
           authAge' \in 0 .. Revalidate, UNCHANGED <<odoo, api, plcVars, restarts>>
    PROVE  ClockInv'
<1>1. /\ run' = "failure" /\ runAge' \in 0 .. Top
      /\ lag \in 0 .. Top /\ lag <= runAge'
      /\ lag' = 0 /\ elapsed' = NotStarted /\ span' = 0
      /\ run = "failure" => runAge' = runAge
  BY ObserveTypes DEF HandleFailure
<1>2. TypeOK /\ TimersInv
  BY DEF ClockInv
<1>3. AtMost(lag, DisconnectDelay) \in 0 .. DisconnectDelay
      /\ AtMost(lag, DisconnectDelay) <= lag
  BY <1>1, DelaysAssumption DEF AtMost, Top
<1>4. /\ state' \in {"UNKNOWN", "READY", "NOT_READY"}
      /\ at' \in {"waiting", "publishing"}
      /\ recovery' = NotStarted
      /\ disconnect' \in Timers(DisconnectDelay)
      /\ disconnect' # NotStarted => state' = "READY" /\ disconnect' <= runAge'
  <2>1. CASE Confirm("NOT_READY")
    BY <2>1 DEF Confirm, Timers
  <2>2. CASE /\ disconnect' = NotStarted /\ recovery' = NotStarted
             /\ at' = "waiting" /\ UNCHANGED state
    BY <2>2, <1>2 DEF TypeOK, Timers
  <2>3. CASE /\ state = "READY"
             /\ disconnect' = AtMost(lag, DisconnectDelay) /\ recovery' = NotStarted
             /\ at' = "waiting" /\ UNCHANGED state
    BY <2>3, <1>1, <1>2, <1>3 DEF TypeOK, Timers
  <2>4. CASE /\ state = "READY" /\ disconnect # NotStarted /\ recovery' = NotStarted
             /\ at' = "waiting" /\ UNCHANGED <<state, disconnect>>
    BY <2>4, <1>1, <1>2 DEF TypeOK, TimersInv
  <2> QED
    BY <2>1, <2>2, <2>3, <2>4 DEF HandleFailure
<1>5. TypeOK'
  <2>1. NotStarted \in Timers(Top) /\ NotStarted \in Timers(RecoveryDelay) /\ 0 \in 0 .. Top
    BY AgeTypes DEF Timers
  <2> QED
    BY <1>1, <1>2, <1>4, <2>1 DEF TypeOK
<1>6. TimersInv'
  BY <1>1, <1>4 DEF TimersInv
<1>7. ReadingInv'
  BY <1>1, <1>4 DEF ReadingInv, Checking, NotStarted
<1> QED
  BY <1>5, <1>6, <1>7 DEF ClockInv

\* The clock reading of a check notes the age of the running timer and of the run.
LEMMA StartKeeps == ASSUME ClockInv, StartCheck PROVE ClockInv'
<1>1. TypeOK /\ TimersInv /\ ReadingInv
  BY DEF ClockInv
<1>2. /\ elapsed' = IF state = "READY" THEN disconnect ELSE recovery
      /\ span' = runAge /\ at' = "version" /\ at = "waiting"
      /\ UNCHANGED <<odoo, sessionVars, lag, state, disconnect, recovery, run, runAge,
                     api, plcVars, restarts>>
  BY DEF StartCheck, RunningTimer
<1>3. elapsed' \in Timers(Top)
  BY <1>1, <1>2, AgeTypes, DelaysAssumption DEF TypeOK, Timers, NotStarted
<1>4. TypeOK'
  BY <1>1, <1>2, <1>3 DEF TypeOK, sessionVars
<1>5. elapsed' <= span'
  <2>1. runAge \in Nat /\ span' = runAge
    BY <1>1, <1>2, AgeTypes DEF TypeOK
  <2>2. CASE state = "READY"
    BY <1>1, <1>2, <2>1, <2>2 DEF TimersInv, NotStarted
  <2>3. CASE state # "READY"
    BY <1>1, <1>2, <2>1, <2>3 DEF TimersInv, NotStarted
  <2> QED
    BY <2>2, <2>3
<1>6. lag = 0
  BY <1>1, <1>2 DEF ReadingInv, Checking
<1>7. ReadingInv'
  BY <1>1, <1>2, <1>5, <1>6 DEF ReadingInv, Checking, TypeOK
<1> QED
  BY <1>1, <1>2, <1>4, <1>7 DEF ClockInv, TimersInv

\* Timers and runs of results age together.
LEMMA TickKeeps == ASSUME ClockInv, Tick PROVE ClockInv'
<1>1. TypeOK /\ TimersInv /\ ReadingInv
  BY DEF ClockInv
<1>2. TypeOK'
  BY <1>1, AgeTypes, DelaysAssumption DEF TypeOK, Tick
<1>3. TimersInv'
  BY <1>1, AgeTypes, DelaysAssumption DEF TimersInv, TypeOK, Tick, Aged, AtMost, NotStarted, Timers
<1>4. ReadingInv'
  BY <1>1, AgeTypes, DelaysAssumption
     DEF ReadingInv, TypeOK, Tick, Aged, AtMost, NotStarted, Timers, Checking
<1> QED
  BY <1>2, <1>3, <1>4 DEF ClockInv

\* Every step keeps the invariant.
LEMMA StepClock == ClockInv /\ [Next]_vars => ClockInv'
<1> SUFFICES ASSUME ClockInv, [Next]_vars
             PROVE  ClockInv'
  OBVIOUS
<1>0. TypeOK /\ TimersInv /\ ReadingInv
  BY DEF ClockInv
<1>1. CASE StartCheck
  BY <1>1, StartKeeps
<1>2. CASE Version
  <2>1. CASE HandleSuccess
    BY <1>0, <1>2, <2>1, SuccessKeeps DEF Version, Checking, sessionVars, TypeOK
  <2>2. CASE /\ at' = "authenticate"
             /\ UNCHANGED <<lag, elapsed, state, disconnect, recovery, run, runAge, span>>
    BY <1>0, <1>2, <2>2 DEF Version, ClockInv, TypeOK, TimersInv, ReadingInv, Checking, sessionVars
  <2> QED
    BY <1>2, <2>1, <2>2 DEF Version
<1>3. CASE Authenticate
  <2>1. uid' \in BOOLEAN /\ authAge' \in 0 .. Revalidate
    BY <1>3, DelaysAssumption DEF Authenticate
  <2> QED
    BY <1>3, <2>1, SuccessKeeps DEF Authenticate, Checking
<1>4. CASE CheckFails
  <2>1. uid' \in BOOLEAN /\ authAge' \in 0 .. Revalidate
    <3>1. CASE Drops
      <4>1. uid' = FALSE /\ authAge' = 0
        BY <1>4, <3>1, Zenon DEF CheckFails
      <4>2. 0 \in 0 .. Revalidate
        BY DelaysAssumption
      <4> QED
        BY <4>1, <4>2
    <3>2. CASE ~Drops
      BY <1>0, <1>4, <3>2 DEF CheckFails, sessionVars, TypeOK
    <3> QED
      BY <3>1, <3>2
  <2> QED
    BY <1>4, <2>1, FailureKeeps DEF CheckFails, Checking
<1>5. CASE PublishBr
  <2>1. br' \in {Unheard, 0, 1} /\ sender' \in {"none", "monitor", "api", "lost"}
    BY <1>0, <1>5 DEF PublishBr, Send, Confirmed, TypeOK
  <2> QED
    BY <1>0, <1>5, <2>1 DEF PublishBr, ClockInv, TypeOK, TimersInv, ReadingInv, Checking, sessionVars
<1>6. CASE ReadReady
  BY <1>0, <1>6, MonitorUntouched DEF ReadReady, TypeOK, monitorVars, sessionVars
<1>7. CASE RefreshReady
  BY <1>0, <1>7, MonitorUntouched DEF RefreshReady, Send, TypeOK, monitorVars,
     sessionVars, plcVars
<1>8. CASE OdooChanges
  BY <1>0, <1>8, MonitorUntouched DEF OdooChanges, TypeOK, monitorVars, sessionVars
<1>9. CASE Restart
  <2>1. /\ authAge' \in 0 .. Revalidate /\ lag' \in 0 .. Top /\ elapsed' \in Timers(Top)
        /\ disconnect' \in Timers(DisconnectDelay) /\ recovery' \in Timers(RecoveryDelay)
        /\ runAge' \in 0 .. Top /\ span' \in 0 .. Top
    BY <1>9, AgeTypes, DelaysAssumption DEF Restart, Timers
  <2>2. restarts' \in 0 .. MaxRestarts
    BY <1>0, <1>9, BoundsAssumption DEF Restart, TypeOK
  <2>3. TypeOK'
    BY <1>0, <1>9, <2>1, <2>2 DEF Restart, TypeOK
  <2> QED
    BY <1>9, <2>3 DEF Restart, ClockInv, TimersInv, ReadingInv, Checking, NotStarted
<1>10. CASE Tick
  BY <1>10, TickKeeps
<1>11. CASE UNCHANGED vars
  BY <1>0, <1>11, MonitorUntouched DEF vars, TypeOK, monitorVars, sessionVars
<1> QED
  BY <1>1, <1>2, <1>3, <1>4, <1>5, <1>6, <1>7, <1>8, <1>9, <1>10, <1>11 DEF Next, Monitor

-----------------------------------------------------------------------------
(***************************************************************************)
(* What the PLC hears.                                                     *)
(***************************************************************************)
\* The end of a check confirms a state, to be published next, or leaves it.
LEMMA CheckSettles ==
    ASSUME HandleSuccess \/ HandleFailure
    PROVE  \/ at' = "publishing" /\ state' \in {"READY", "NOT_READY"}
           \/ at' = "waiting" /\ UNCHANGED state
<1>1. CASE HandleSuccess
  BY <1>1 DEF HandleSuccess, Confirm
<1>2. CASE HandleFailure
  BY <1>2 DEF HandleFailure, Confirm
<1> QED
  BY <1>1, <1>2

\* What a publication leaves the PLC with.
LEMMA SendSettles ==
    ASSUME NEW value, NEW who, Send(value, who)
    PROVE  (br' = value /\ sender' = who) \/ sender' = "lost"
BY DEF Send

\* A step of the monitor keeps what was heard in agreement with the state.
LEMMA MonitorHeard ==
    ASSUME HeardInv, Monitor
    PROVE  HeardInv'
<1>1. CASE StartCheck
  BY <1>1 DEF StartCheck, HeardInv, Confirmed
<1>2. CASE Version \/ Authenticate \/ CheckFails
  <2>1. at # "publishing" /\ UNCHANGED plcVars
    BY <1>2 DEF Version, Authenticate, CheckFails
  <2>2. \/ at' = "publishing" /\ state' \in {"READY", "NOT_READY"}
        \/ at' # "publishing" /\ UNCHANGED state
    <3>1. CASE HandleSuccess \/ HandleFailure
      BY <3>1, CheckSettles
    <3>2. CASE at' = "authenticate" /\ UNCHANGED state
      BY <3>2
    <3> QED
      BY <1>2, <3>1, <3>2 DEF Version, Authenticate, CheckFails
  <2> QED
    BY <2>1, <2>2 DEF HeardInv, Confirmed
<1>3. CASE PublishBr
  <2>1. /\ at' = "waiting" /\ UNCHANGED state
        /\ (br' = Confirmed /\ sender' = "monitor") \/ sender' = "lost"
    BY <1>3, SendSettles DEF PublishBr
  <2> QED
    BY <2>1 DEF HeardInv, Confirmed
<1> QED
  BY <1>1, <1>2, <1>3 DEF Monitor

\* So does everyone else, whenever a refresh speaks or the process starts again.
LEMMA OthersHeard ==
    ASSUME HeardInv, ReadReady \/ RefreshReady \/ OdooChanges \/ Restart \/ Tick
    PROVE  HeardInv'
<1>1. CASE RefreshReady
  <2>1. /\ UNCHANGED <<at, state>>
        /\ \/ br' = 1 /\ sender' = "api"
           \/ sender' = "lost"
           \/ UNCHANGED <<br, sender>>
    BY <1>1, SendSettles DEF RefreshReady, monitorVars, plcVars
  <2> QED
    BY <2>1 DEF HeardInv, Confirmed
<1>2. CASE Restart
  BY <1>2 DEF Restart, HeardInv, Confirmed
<1>3. CASE ReadReady \/ OdooChanges \/ Tick
  BY <1>3 DEF ReadReady, OdooChanges, Tick, monitorVars, HeardInv, Confirmed
<1> QED
  BY <1>1, <1>2, <1>3

\* Nothing is published and no state is confirmed at first.
LEMMA InitInv == Init => IInv
BY InitClock DEF Init, IInv, HeardInv

\* Every step keeps both parts of the invariant.
LEMMA StepInv == IInv /\ [Next]_vars => IInv'
<1> SUFFICES ASSUME IInv, [Next]_vars
             PROVE  IInv'
  OBVIOUS
<1>1. ClockInv'
  BY StepClock DEF IInv
<1>2. HeardInv'
  <2>1. CASE UNCHANGED vars
    BY <2>1 DEF IInv, HeardInv, Confirmed, vars, monitorVars
  <2>2. CASE Monitor
    BY <2>2, MonitorHeard DEF IInv
  <2>3. CASE ReadReady \/ RefreshReady \/ OdooChanges \/ Restart \/ Tick
    BY <2>3, OthersHeard DEF IInv
  <2> QED
    BY <2>1, <2>2, <2>3 DEF Next
<1> QED
  BY <1>1, <1>2 DEF IInv

\* The types, the timers and the clock readings agree, and so do the confirmed
\* state and what the PLC heard, in every reachable state.
THEOREM ReadinessInvariance == Spec => []IInv
<1> QED
  BY InitInv, StepInv, PTL DEF Spec

\* Between checks the PLC and the confirmed state disagree only by a publication
\* that was lost or a refresh that came too late, for all delays and answers.
THEOREM PlcHearsTheState == Spec => []DisagreesOnlyByRace
<1>1. IInv => DisagreesOnlyByRace
  BY DEF IInv, ClockInv, TypeOK, HeardInv, DisagreesOnlyByRace, Confirmed
<1> QED
  BY <1>1, ReadinessInvariance, PTL

\* A step confirms a change only after a run of results that lasted its delay.
LEMMA StepDebounced ==
    ASSUME ClockInv, [Next]_vars
    PROVE  /\ state' = "READY" /\ state # "READY" =>
                  run = "success" /\ run' = "success" /\ span >= RecoveryDelay
           /\ state = "READY" /\ state' = "NOT_READY" =>
                  run = "failure" /\ run' = "failure" /\ span >= DisconnectDelay
<1>1. TypeOK /\ TimersInv /\ ReadingInv
  BY DEF ClockInv
<1>2. ASSUME Checking, HandleSuccess
      PROVE  /\ state' = "NOT_READY" => state # "READY"
             /\ state' = "READY" /\ state # "READY" =>
                    run = "success" /\ run' = "success" /\ span >= RecoveryDelay
  BY <1>1, <1>2, AgeTypes, DelaysAssumption
     DEF HandleSuccess, Confirm, Observe, TimersInv, ReadingInv, TypeOK, Timers, NotStarted
<1>3. ASSUME Checking, HandleFailure
      PROVE  /\ state' = "READY" => state = "READY"
             /\ state = "READY" /\ state' = "NOT_READY" =>
                    run = "failure" /\ run' = "failure" /\ span >= DisconnectDelay
  BY <1>1, <1>3, AgeTypes, DelaysAssumption
     DEF HandleFailure, Confirm, Observe, TimersInv, ReadingInv, TypeOK, Timers, NotStarted
<1>4. CASE Version \/ Authenticate \/ CheckFails
  <2>1. Checking
    BY <1>4 DEF Version, Authenticate, CheckFails, Checking
  <2>2. CASE HandleSuccess
    BY <1>2, <2>1, <2>2
  <2>3. CASE HandleFailure
    BY <1>3, <2>1, <2>3
  <2>4. CASE UNCHANGED state
    BY <2>4
  <2> QED
    BY <1>4, <2>2, <2>3, <2>4 DEF Version, Authenticate, CheckFails
<1>5. CASE Restart
  BY <1>5 DEF Restart
<1>6. CASE StartCheck \/ PublishBr \/ ReadReady \/ RefreshReady \/ OdooChanges \/ Tick \/ UNCHANGED vars
  BY <1>6 DEF StartCheck, PublishBr, ReadReady, RefreshReady, OdooChanges, Tick, vars, monitorVars
<1> QED
  BY <1>4, <1>5, <1>6 DEF Next, Monitor

\* Readiness is debounced in both directions, whatever the checks return and
\* however long they take.
THEOREM ReadinessIsDebounced == Spec => Debounced
<1> QED
  BY StepDebounced, ReadinessInvariance, PTL DEF Spec, Debounced, IInv
=============================================================================
