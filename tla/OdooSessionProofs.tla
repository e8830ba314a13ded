------------------------- MODULE OdooSessionProofs --------------------------
(***************************************************************************)
(* Proofs about OdooSession: what an Odoo outage and a restart cost a row, *)
(* and that a submission never goes back to a call it has been through.    *)
(* The lemmas treat the actions one at a time; the last ones put the steps *)
(* together.                                                               *)
(***************************************************************************)
EXTENDS OdooSession, TLAPS

\* Refusals are the only failures of an Odoo that reports them.
LEMMA AnswersReported == TypeOK /\ Reported => LogsIn \/ Refuses
  BY DEF TypeOK, Reported, ReportedAnswers, LogsIn, Refuses

\* No row is claimed and no retry charged at first.
LEMMA InitInv == Init => IInv
<1> SUFFICES ASSUME Init PROVE IInv
  OBVIOUS
<1>1. TypeOK
  <2>1. outages \in Nat
    BY DEF Init
  <2>2. 0 \in 0 .. MaxRetries /\ 0 \in 0 .. MaxRestarts
    BY RowsAssumption, BoundsAssumption
  <2>3. /\ at \in Places /\ row \in Ids \cup {NoRow}
        /\ (at \in InChild \cup {"result"} <=> row # NoRow)
    BY DEF Init, Places, InChild
  <2>4. /\ status \in [Ids -> {"NEW", "PROCESSING", "FAILED", "COMPLETED"}]
        /\ retries \in [Ids -> 0 .. MaxRetries]
        /\ charged \in [Ids -> Nat] /\ lost \in [Ids -> Nat]
    BY <2>2 DEF Init
  <2>5. /\ odoo \in Answers /\ uid \in BOOLEAN /\ again \in BOOLEAN
        /\ batch \subseteq Ids /\ manual \subseteq Ids
        /\ result \in {"none", "accepted", "refused", "fault", "timeout"}
    BY DEF Init
  <2>6. restarts \in 0 .. MaxRestarts /\ executions \in 0 .. 2
    BY <2>2 DEF Init
  <2>7. odd \in BOOLEAN /\ (odoo \in ReportedAnswers \/ odd)
    BY DEF Init
  <2> QED
    BY <2>1, <2>3, <2>4, <2>5, <2>6, <2>7 DEF TypeOK
<1>2. WorkerInv
  BY RowsAssumption DEF Init, WorkerInv, InMemory, NoRow, Ids
<1>3. LostInv
  BY DEF Init, LostInv
<1>4. ChargedInv
  BY DEF Init, ChargedInv, InMemory, NoRow, Ids, LogsIn
<1> QED
  BY <1>1, <1>2, <1>3, <1>4 DEF IInv

\* start touches no row.
LEMMA StartUpKeeps == IInv /\ StartUp => IInv'
<1> SUFFICES ASSUME IInv, StartUp PROVE IInv'
  OBVIOUS
<1> USE DEF IInv, StartUp, odooVars, childVars, rowVars
<1>1. TypeOK'
  BY DEF TypeOK, Places, InChild, LogsIn
<1>2. WorkerInv'
  BY DEF WorkerInv, InMemory
<1>3. LostInv'
  BY DEF LostInv, InMemory
<1>4. Reported => ChargedInv'
  BY DEF ChargedInv, InMemory, LogsIn, Reported
<1> QED
  BY <1>1, <1>2, <1>3, <1>4 DEF Reported

\* A login that succeeds shows that no outage is under way.
LEMMA RunOnceKeeps == IInv /\ RunOnce => IInv'
<1> SUFFICES ASSUME IInv, RunOnce PROVE IInv'
  OBVIOUS
<1> USE DEF IInv, RunOnce, MayClaim, odooVars, childVars, rowVars
<1>1. TypeOK'
  BY DEF TypeOK, Places, InChild, LogsIn
<1>2. WorkerInv'
  BY DEF WorkerInv, InMemory
<1>3. LostInv'
  BY DEF LostInv, InMemory
<1>4. Reported => ChargedInv'
  BY DEF ChargedInv, InMemory, LogsIn, Reported
<1> QED
  BY <1>1, <1>2, <1>3, <1>4 DEF Reported

\* Rows enter the memory under a uid, so no outage under way has charged them.
LEMMA ClaimKeeps == IInv /\ Claim => IInv'
<1> SUFFICES ASSUME IInv, Claim PROVE IInv'
  OBVIOUS
<1> USE DEF IInv, Claim, odooVars, childVars
<1>1. Pending \subseteq Claimable /\ Claimable \subseteq Ids
  BY DEF Pending, Claimable
<1>2. uid /\ batch = {} /\ row = NoRow /\ result' = result
  BY DEF TypeOK, WorkerInv, InChild
<1>3. \A r \in Ids : r # NoRow
  BY DEF Ids, NoRow
<1>4. \A r \in Ids : status'[r] = IF r \in Pending THEN "PROCESSING" ELSE status[r]
  OBVIOUS
<1>5. TypeOK'
  BY <1>1 DEF TypeOK, Places, InChild
<1>6. WorkerInv'
  BY <1>1, <1>2, <1>3, <1>4, RowsAssumption DEF WorkerInv, InMemory, Claimable, TypeOK
<1>7. LostInv'
  BY <1>1, <1>2, <1>4 DEF LostInv, InMemory
<1>8. Reported => ChargedInv'
  BY <1>1, <1>2, <1>3 DEF ChargedInv, InMemory, LogsIn, Reported
<1> QED
  BY <1>5, <1>6, <1>7, <1>8 DEF Reported

\* The row taken stays in memory.
LEMMA TakeRowKeeps == IInv /\ TakeRow => IInv'
<1> SUFFICES ASSUME IInv, TakeRow PROVE IInv'
  OBVIOUS
<1> USE DEF IInv, TakeRow, odooVars, rowVars
<1>1. PICK r \in batch : row' = r /\ batch' = batch \ {r}
  OBVIOUS
<1>2. r \in Ids /\ row = NoRow /\ r # NoRow
  BY <1>1 DEF TypeOK, InChild, Ids, NoRow
<1>3. \A s \in Ids : InMemory(s)' <=> InMemory(s)
  BY <1>1, <1>2 DEF InMemory, Ids, NoRow
<1>4. TypeOK'
  BY <1>1, <1>2 DEF TypeOK, Places, InChild
<1>5. executions = 0
  BY <1>2 DEF WorkerInv
<1>6. WorkerInv'
  BY <1>1, <1>2, <1>3, <1>5 DEF WorkerInv
<1>7. LostInv'
  BY <1>3 DEF LostInv
<1>8. Reported => ChargedInv'
  BY <1>2, <1>3 DEF ChargedInv, LogsIn, WorkerInv
<1> QED
  BY <1>4, <1>6, <1>7, <1>8 DEF Reported

\* An empty batch is left with nothing in memory.
LEMMA LeaveBatchKeeps == IInv /\ LeaveBatch => IInv'
<1> SUFFICES ASSUME IInv, LeaveBatch PROVE IInv'
  OBVIOUS
<1> USE DEF IInv, LeaveBatch, odooVars, childVars, rowVars
<1>1. TypeOK'
  BY DEF TypeOK, Places, InChild
<1>2. WorkerInv'
  BY DEF WorkerInv, InMemory
<1>3. LostInv'
  BY DEF LostInv, InMemory
<1>4. Reported => ChargedInv'
  BY DEF ChargedInv, InMemory, LogsIn, Reported
<1> QED
  BY <1>1, <1>2, <1>3, <1>4 DEF Reported

\* The steps of the child end the submission or go on with it.
LEMMA LoginKeeps == IInv /\ Login => IInv'
<1> SUFFICES ASSUME IInv, Login PROVE IInv'
  OBVIOUS
<1> USE DEF IInv, Login, EndsWith, odooVars, rowVars
<1>1. TypeOK'
  BY DEF TypeOK, Places, InChild
<1>2. WorkerInv'
  <2>1. \/ at' = "execute" /\ result' = result
        \/ at' = "result" /\ result' \in {"refused", "fault"}
    OBVIOUS
  <2>2. at \in {"login", "relogin"} /\ UNCHANGED <<uid, batch, row, again, executions, status, retries>>
    OBVIOUS
  <2>3. (at' = "result" <=> result' # "none") /\ (at' = "execute" /\ again' => executions' = 0)
    BY <2>1, <2>2 DEF WorkerInv
  <2>4. at' = "execute" /\ ~again' => executions' = 1
    BY <2>1, <2>2 DEF WorkerInv, TypeOK
  <2> QED
    BY <2>1, <2>2, <2>3, <2>4 DEF WorkerInv, InMemory
<1>3. LostInv'
  BY DEF LostInv, InMemory
<1>4. Reported => ChargedInv'
  <2> SUFFICES ASSUME Reported PROVE ChargedInv'
    OBVIOUS
  <2>1. result' # "fault" /\ (result' = "refused" => ~LogsIn)
    BY AnswersReported DEF WorkerInv, LogsIn, Refuses, ChargedInv
  <2> QED
    BY <2>1 DEF ChargedInv, InMemory, LogsIn
<1> QED
  BY <1>1, <1>2, <1>3, <1>4 DEF Reported

\* A call is refused only by an Odoo that logs nobody in, while it reports failures.
LEMMA ExecuteKeeps == IInv /\ Execute => IInv'
<1> SUFFICES ASSUME IInv, Execute PROVE IInv'
  OBVIOUS
<1> USE DEF IInv, Execute, EndsWith, LogInAgain, odooVars, rowVars
<1>1. TypeOK'
  <2>1. executions' \in 0 .. 2
    OBVIOUS
  <2>2. again' \in BOOLEAN
    BY DEF TypeOK
  <2>3. /\ at' \in {"relogin", "result"}
        /\ result' \in {"none", "accepted", "refused", "fault", "timeout"}
    BY DEF TypeOK
  <2>4. row # NoRow
    BY DEF TypeOK, InChild
  <2> QED
    BY <2>1, <2>2, <2>3, <2>4 DEF TypeOK, Places, InChild
<1>2. WorkerInv'
  BY DEF WorkerInv, InMemory, TypeOK, InChild
<1>3. LostInv'
  BY DEF LostInv, InMemory
<1>4. Reported => ChargedInv'
  <2> SUFFICES ASSUME Reported PROVE ChargedInv'
    OBVIOUS
  <2>1. result' # "fault" /\ (result' = "refused" => ~LogsIn)
    BY DEF WorkerInv, LogsIn, Reported, ReportedAnswers, TypeOK, ChargedInv
  <2> QED
    BY <2>1 DEF ChargedInv, InMemory, LogsIn
<1> QED
  BY <1>1, <1>2, <1>3, <1>4 DEF Reported

\* A timeout charges nothing yet.
LEMMA TimeOutKeeps == IInv /\ TimeOut => IInv'
<1> SUFFICES ASSUME IInv, TimeOut PROVE IInv'
  OBVIOUS
<1> USE DEF IInv, TimeOut, EndsWith, odooVars, rowVars
<1>1. TypeOK'
  BY DEF TypeOK, Places, InChild
<1>2. WorkerInv'
  BY DEF WorkerInv, InMemory, InChild
<1>3. LostInv'
  BY DEF LostInv, InMemory
<1>4. Reported => ChargedInv'
  BY DEF ChargedInv, InMemory, LogsIn, Reported
<1> QED
  BY <1>1, <1>2, <1>3, <1>4 DEF Reported

\* A charge is the only one of its outage, and drops the uid with it.
LEMMA RecordKeeps == IInv /\ Record => IInv'
<1> SUFFICES ASSUME IInv, Record PROVE IInv'
  OBVIOUS
<1> USE DEF IInv
<1>0. /\ at = "result" /\ at' = "batch" /\ uid' = (uid /\ ~Suspicious)
      /\ row' = NoRow /\ again' = FALSE /\ result' = "none" /\ executions' = 0
      /\ UNCHANGED <<odoo, outages, odd, batch, lost, restarts>>
  BY DEF Record, NoChild, odooVars
<1>1. /\ row \in Ids /\ row # NoRow /\ row \notin batch
      /\ status[row] = "PROCESSING" /\ retries[row] + 1 \in 0 .. MaxRetries
  BY <1>0, RowsAssumption DEF TypeOK, WorkerInv, InMemory, Ids, NoRow
<1>2. \/ /\ result = "accepted"
         /\ status' = [status EXCEPT ![row] = "COMPLETED"]
         /\ UNCHANGED <<retries, charged, manual>>
      \/ /\ result \in {"refused", "fault"}
         /\ status' = [status EXCEPT ![row] = "FAILED"]
         /\ retries' = [retries EXCEPT ![row] = retries[row] + 1]
         /\ charged' = [charged EXCEPT ![row] = outages]
         /\ UNCHANGED manual
      \/ /\ result = "timeout"
         /\ status' = [status EXCEPT ![row] = "FAILED"]
         /\ retries' = [retries EXCEPT ![row] = MaxRetries]
         /\ manual' = manual \cup {row}
         /\ UNCHANGED charged
  BY DEF Record, Failed
<1>3. \A r \in Ids : InMemory(r)' <=> InMemory(r) /\ r # row
  BY <1>0, <1>1 DEF InMemory, Ids, NoRow
<1>4. \A r \in Ids : /\ r # row => status'[r] = status[r] /\ retries'[r] = retries[r]
                                  /\ charged'[r] = charged[r]
                                  /\ (r \in manual' <=> r \in manual)
                     /\ r = row => status'[r] \in {"FAILED", "COMPLETED"}
  BY <1>1, <1>2 DEF TypeOK
<1>5. TypeOK'
  <2>1. status' \in [Ids -> {"NEW", "PROCESSING", "FAILED", "COMPLETED"}]
    BY <1>2 DEF TypeOK
  <2>2. retries' \in [Ids -> 0 .. MaxRetries]
    BY <1>1, <1>2, RowsAssumption DEF TypeOK
  <2>3. charged' \in [Ids -> Nat] /\ manual' \subseteq Ids
    BY <1>1, <1>2 DEF TypeOK
  <2>4. uid' \in BOOLEAN /\ again' \in BOOLEAN
    BY <1>0
  <2>5. /\ at' \in Places /\ row' \in Ids \cup {NoRow}
        /\ (at' \in InChild \cup {"result"} <=> row' # NoRow)
    BY <1>0 DEF Places, InChild
  <2> QED
    BY <1>0, <2>1, <2>2, <2>3, <2>4, <2>5 DEF TypeOK
<1>6. WorkerInv'
  <2>1. \A r \in Ids : InMemory(r)' => status'[r] = "PROCESSING"
    BY <1>3, <1>4 DEF WorkerInv
  <2>2. \A r \in Ids : status'[r] \in {"NEW", "PROCESSING"} => retries'[r] < MaxRetries
    BY <1>4 DEF WorkerInv
  <2>3. row' \notin batch'
    BY <1>0 DEF TypeOK, Ids, NoRow
  <2> QED
    BY <1>0, <2>1, <2>2, <2>3 DEF WorkerInv
<1>7. LostInv'
  BY <1>0, <1>3, <1>4 DEF LostInv
<1>8. Reported => ChargedInv'
  <2> SUFFICES ASSUME Reported, ChargedInv, NEW r \in Ids
               PROVE  /\ charged'[r] <= outages
                      /\ ~LogsIn /\ (uid' \/ InMemory(r)') => charged'[r] < outages
                      /\ retries'[r] <= charged'[r] + lost[r] \/ r \in manual'
    BY <1>0 DEF ChargedInv, LogsIn
  <2>1. CASE r # row
    BY <2>1, <1>0, <1>3, <1>4 DEF ChargedInv
  <2>2. CASE r = row /\ result = "accepted"
    <3>1. InMemory(r) /\ UNCHANGED <<retries, charged, manual>>
      BY <2>2, <1>2 DEF InMemory
    <3> QED
      BY <3>1 DEF ChargedInv
  <2>3. CASE r = row /\ result = "timeout"
    BY <2>3, <1>0, <1>1, <1>2, <1>3 DEF ChargedInv, TypeOK, Suspicious
  <2>4. CASE r = row /\ result = "refused"
    <3>1. charged'[r] = outages /\ retries'[r] = retries[r] + 1 /\ ~InMemory(r)'
      BY <2>4, <1>1, <1>2, <1>3 DEF TypeOK
    <3>2. charged[r] < outages /\ (retries[r] <= charged[r] + lost[r] \/ r \in manual)
      BY <2>4 DEF ChargedInv
    <3>3. manual' = manual
      BY <2>4, <1>2
    <3>4. charged[r] \in Nat /\ lost[r] \in Nat /\ retries[r] \in 0 .. MaxRetries
      BY DEF TypeOK
    <3>5. ~uid'
      BY <2>4, <1>0 DEF Suspicious
    <3> QED
      BY <3>1, <3>2, <3>3, <3>4, <3>5, RowsAssumption DEF TypeOK
  <2>5. result # "fault"
    BY DEF ChargedInv
  <2> QED
    BY <2>1, <2>2, <2>3, <2>4, <2>5, <1>2
<1> QED
  BY <1>0, <1>5, <1>6, <1>7, <1>8 DEF Reported

\* A new outage is one no row was charged for.
LEMMA OdooChangesKeeps == IInv /\ OdooChanges => IInv'
<1> SUFFICES ASSUME IInv, OdooChanges PROVE IInv'
  OBVIOUS
<1> USE DEF IInv, OdooChanges, childVars, rowVars
<1>1. TypeOK'
  <2>1. odd' \in BOOLEAN /\ (odoo' \in ReportedAnswers \/ odd')
    OBVIOUS
  <2>2. odoo' \in Answers /\ outages' \in Nat
    BY DEF TypeOK, LogsIn
  <2> QED
    BY <2>1, <2>2 DEF TypeOK
<1>2. WorkerInv'
  BY DEF WorkerInv, InMemory
<1>3. LostInv'
  BY DEF LostInv, InMemory
<1>4. Reported => ChargedInv'
  BY DEF ChargedInv, InMemory, LogsIn, TypeOK, Reported
<1> QED
  BY <1>1, <1>2, <1>3, <1>4 DEF Reported

\* A restart empties the memory, and leaves its rows PROCESSING.
LEMMA RestartKeeps == IInv /\ Restart => IInv'
<1> SUFFICES ASSUME IInv, Restart PROVE IInv'
  OBVIOUS
<1> USE DEF IInv, Restart, NoChild, odooVars, rowVars
<1>1. \A r \in Ids : ~InMemory(r)'
  BY DEF InMemory, Ids, NoRow
<1>2. TypeOK'
  <2>1. restarts' \in 0 .. MaxRestarts
    BY BoundsAssumption DEF TypeOK
  <2>2. /\ at' \in Places /\ (at' \in InChild \cup {"result"} <=> row' # NoRow)
    BY DEF Places, InChild
  <2>3. uid' \in BOOLEAN /\ again' \in BOOLEAN
    OBVIOUS
  <2>4. executions' \in 0 .. 2
    OBVIOUS
  <2>5. /\ batch' \subseteq Ids /\ row' \in Ids \cup {NoRow}
        /\ result' \in {"none", "accepted", "refused", "fault", "timeout"}
    OBVIOUS
  <2> QED
    BY <2>1, <2>2, <2>3, <2>4, <2>5 DEF TypeOK
<1>3. WorkerInv'
  BY <1>1 DEF WorkerInv
<1>4. LostInv'
  BY <1>1, BoundsAssumption DEF LostInv, TypeOK
<1>5. Reported => ChargedInv'
  BY <1>1 DEF ChargedInv, LogsIn
<1> QED
  BY <1>2, <1>3, <1>4, <1>5 DEF Reported

\* A row is recovered only after the restart that lost it.
LEMMA RecoverKeeps == IInv /\ (\E r \in Ids : Recover(r)) => IInv'
<1> SUFFICES ASSUME IInv, NEW r \in Ids, Recover(r) PROVE IInv'
  OBVIOUS
<1> USE DEF IInv, Recover, odooVars, childVars
<1>1. /\ ~InMemory(r) /\ retries[r] + 1 \in 0 .. MaxRetries
      /\ lost[r] < restarts
  BY RowsAssumption DEF InMemory, WorkerInv, LostInv, TypeOK
<1>2. \A s \in Ids : /\ s # r => status'[s] = status[s] /\ retries'[s] = retries[s]
                                  /\ lost'[s] = lost[s]
                     /\ s = r => status'[s] = "FAILED" /\ retries'[s] = retries[s] + 1
                                  /\ lost'[s] = lost[s] + 1
                     /\ InMemory(s)' <=> InMemory(s)
  BY DEF TypeOK, InMemory
<1>3. TypeOK'
  BY <1>1 DEF TypeOK, Places, InChild
<1>4. WorkerInv'
  BY <1>1, <1>2 DEF WorkerInv
<1>5. LostInv'
  BY <1>1, <1>2 DEF LostInv, TypeOK
<1>6. Reported => ChargedInv'
  BY <1>2 DEF ChargedInv, LogsIn, TypeOK
<1> QED
  BY <1>3, <1>4, <1>5, <1>6 DEF Reported

\* Every step keeps the invariant.
LEMMA StepInv == IInv /\ [Next]_vars => IInv'
<1> SUFFICES ASSUME IInv, [Next]_vars PROVE IInv'
  OBVIOUS
<1>1. CASE StartUp
  BY <1>1, StartUpKeeps
<1>2. CASE RunOnce
  BY <1>2, RunOnceKeeps
<1>3. CASE Claim
  BY <1>3, ClaimKeeps
<1>4. CASE TakeRow
  BY <1>4, TakeRowKeeps
<1>5. CASE LeaveBatch
  BY <1>5, LeaveBatchKeeps
<1>6. CASE Login
  BY <1>6, LoginKeeps
<1>7. CASE Execute
  BY <1>7, ExecuteKeeps
<1>8. CASE TimeOut
  BY <1>8, TimeOutKeeps
<1>9. CASE Record
  BY <1>9, RecordKeeps
<1>10. CASE OdooChanges
  BY <1>10, OdooChangesKeeps
<1>11. CASE Restart
  BY <1>11, RestartKeeps
<1>12. CASE \E r \in Ids : Recover(r)
  BY <1>12, RecoverKeeps
<1>13. CASE UNCHANGED vars
  BY <1>13 DEF vars, odooVars, childVars, rowVars, IInv, TypeOK, WorkerInv, LostInv,
     ChargedInv, InMemory, LogsIn, Reported
<1> QED
  BY <1>1, <1>2, <1>3, <1>4, <1>5, <1>6, <1>7, <1>8, <1>9, <1>10, <1>11, <1>12, <1>13
     DEF Next, Worker, Child

\* The types, the worker's places, and the account of what charged each row's
\* retries, hold in every reachable state.
THEOREM SessionInvariance == Spec => []IInv
<1> QED
  BY InitInv, StepInv, PTL DEF Spec

\* A row's retries never exceed the outages and restarts there have been,
\* however many rows, batches and answers of Odoo there are.
THEOREM OutagesAreCheap == Spec => []OutageCostsOneRetry
<1>1. IInv => OutageCostsOneRetry
  <2> SUFFICES ASSUME IInv, Reported, NEW r \in Ids
               PROVE  retries[r] <= outages + restarts \/ r \in manual
    BY DEF OutageCostsOneRetry
  <2>1. charged[r] <= outages /\ lost[r] <= restarts
    BY DEF IInv, ChargedInv, LostInv
  <2>2. retries[r] <= charged[r] + lost[r] \/ r \in manual
    BY DEF IInv, ChargedInv
  <2>3. retries[r] \in Nat /\ charged[r] \in Nat /\ lost[r] \in Nat /\ outages \in Nat
        /\ restarts \in Nat
    BY RowsAssumption, BoundsAssumption DEF IInv, TypeOK
  <2> QED
    BY <2>1, <2>2, <2>3
<1> QED
  BY <1>1, SessionInvariance, PTL

\* Whatever Odoo answers, and whatever else happens meanwhile, a submission never
\* comes back to a login or a call it has been through. With the fairness of the
\* child's calls, this is why it ends.
THEOREM SubmissionsAdvance == Spec => SubmissionAdvances
<1>1. ASSUME IInv, [Next]_vars, StepsLeft > 0
      PROVE  UNCHANGED <<at, row, again, executions>> \/ StepsLeft' < StepsLeft
  <2>1. at \in InChild
    BY <1>1 DEF StepsLeft, InChild
  <2>2. again \in BOOLEAN /\ (at = "login" => again) /\ (at = "relogin" => ~again)
    BY <1>1 DEF IInv, TypeOK, WorkerInv
  <2>3. CASE Login
    BY <2>2, <2>3 DEF Login, EndsWith, StepsLeft
  <2>4. CASE Execute
    BY <2>2, <2>4 DEF Execute, EndsWith, LogInAgain, StepsLeft
  <2>5. CASE TimeOut \/ Restart
    BY <2>1, <2>2, <2>5 DEF TimeOut, Restart, EndsWith, StepsLeft, InChild
  <2>6. CASE StartUp \/ RunOnce \/ Claim \/ TakeRow \/ LeaveBatch \/ Record
    BY <2>1, <2>6 DEF StartUp, RunOnce, Claim, TakeRow, LeaveBatch, Record, InChild
  <2>7. CASE OdooChanges \/ (\E r \in Ids : Recover(r)) \/ UNCHANGED vars
    BY <2>7 DEF OdooChanges, Recover, vars, childVars
  <2> QED
    BY <1>1, <2>3, <2>4, <2>5, <2>6, <2>7 DEF Next, Worker, Child
<1> QED
  BY <1>1, SessionInvariance, PTL DEF Spec, SubmissionAdvances
=============================================================================
