------------------------- MODULE QueueWorkerProofs --------------------------
(***************************************************************************)
(* The queue worker's safety, for every number of messages and every value *)
(* of the settings. IInv is shown inductive, one step per action; the      *)
(* theorems follow from it.                                                *)
(***************************************************************************)
EXTENDS QueueWorker, TLAPS

-----------------------------------------------------------------------------
(***************************************************************************)
(* Lemmas about the operators of the queue.                                *)
(***************************************************************************)
\* A row id is positive, so it is never None, the worker's "no row" (run_once).
LEMMA IdsPositive == \A m \in Ids : m \in Nat /\ m # None
  BY MessagesAssumption DEF Ids, None

\* What claim_pending_messages selects is NEW, or FAILED with attempts left.
LEMMA BatchIsClaimable ==
    /\ PendingBatch \subseteq Ids
    /\ \A m \in PendingBatch :
          status[m] = "NEW" \/ (status[m] = "FAILED" /\ retryCount[m] < MaxRetries)
  BY DEF PendingBatch, Lowest, Claimable, Retryable

\* mark_failed charges exactly one attempt to a retryable failure, at least one to
\* a final one, and never takes a row beyond its budget by itself.
LEMMA FailedCountBounds ==
    ASSUME NEW m \in Ids, NEW r \in BOOLEAN, retryCount[m] \in Nat
    PROVE  /\ FailedCount(m, r) \in Nat
           /\ FailedCount(m, r) >= retryCount[m] + 1
           /\ FailedCount(m, r) <= retryCount[m] + 1 \/ FailedCount(m, r) <= MaxRetries
           /\ ~r => FailedCount(m, r) >= MaxRetries
  BY RetriesAssumption DEF FailedCount

\* Dropping the batch, or going on to the next row, leaves the worker's variables
\* well typed.
LEMMA AbandonTypes == AbandonBatch => WorkerTypeOK'
<1> SUFFICES ASSUME AbandonBatch PROVE WorkerTypeOK'
  OBVIOUS
<1>1. elapsed' \in 0 .. SubmitTimeout + 1 /\ calls' \in 0 .. ChildCalls
  BY TimeoutAssumption DEF AbandonBatch, ChildCalls
<1>2. QED
  BY <1>1 DEF AbandonBatch, WorkerTypeOK, Phases, Outcomes

\* Nor does going on to the next row of the batch.
LEMMA NextRowTypes == WorkerTypeOK /\ NextRow => WorkerTypeOK'
<1> SUFFICES ASSUME WorkerTypeOK, NextRow PROVE WorkerTypeOK'
  OBVIOUS
<1>1. elapsed' \in 0 .. SubmitTimeout + 1 /\ calls' \in 0 .. ChildCalls
  BY TimeoutAssumption DEF NextRow, ChildCalls
<1>2. QED
  BY <1>1 DEF NextRow, WorkerTypeOK, Phases, Outcomes

(***************************************************************************)
(* A step that changes neither the rows, the history nor what the worker   *)
(* holds, and neither enters nor leaves a submission or a publication,     *)
(* keeps the invariant of every row.                                       *)
(***************************************************************************)
RowsInv == \A m \in Ids : RowInv(m) /\ HeldInv(m) /\ CreditInv(m)

\* A step that leaves the rows, the batch, the current row and the child's requests
\* alone, and neither enters nor leaves the phases the row conjuncts look at,
\* keeps those conjuncts.
LEMMA QuietStep ==
    ASSUME RowsInv,
           UNCHANGED <<status, retryCount, lastError, historyVars, batch, current, calls>>,
           phase' = "publishing" <=> phase = "publishing",
           phase' = "registered" <=> phase = "registered",
           phase' = "waiting" <=> phase = "waiting"
    PROVE  RowsInv'
<1>1. InFlight' = InFlight /\ Unsent' = Unsent
  BY DEF InFlight, Unsent
<1>2. \A m \in Ids : Unspent(m)' = Unspent(m)
  BY <1>1 DEF Unspent
<1>3. QED
  BY <1>1, <1>2 DEF RowsInv, RowInv, HeldInv, CreditInv, Exhausted, historyVars

\* A row can be asked for at most a child's requests before the next charge, and not at
\* all when the worker does not hold it.
LEMMA UnspentBounds ==
    ASSUME IInv, NEW m \in Ids
    PROVE  /\ Unspent(m) \in 0 .. ChildCalls
           /\ m \notin InFlight => Unspent(m) = 0
<1>1. calls \in 0 .. ChildCalls /\ m # None
  BY IdsPositive DEF IInv, TypeOK, WorkerTypeOK
<1>2. m \in Unsent \/ m = current => m \in InFlight
  BY <1>1 DEF Unsent, InFlight, IInv, WorkerInv
<1>3. QED
  BY <1>1, <1>2 DEF Unspent, ChildCalls

\* A step that leaves a row and its requests alone, and takes none of the requests
\* still to come away but all, keeps the row's credit.
LEMMA CreditKept ==
    ASSUME IInv, NEW m \in Ids, UNCHANGED <<status, retryCount, submits>>,
           Unspent(m)' \in {0, Unspent(m)}
    PROVE  CreditInv(m)'
<1>1. /\ Unspent(m) \in Nat /\ submits[m] \in Nat /\ retryCount[m] \in Nat
      /\ Unspent(m)' \in Nat /\ Unspent(m)' <= Unspent(m)
  BY UnspentBounds DEF IInv, TypeOK, QueueTypeOK, HistoryTypeOK, ChildCalls
<1>2. CreditInv(m)
  BY DEF IInv
<1> DEFINE due == ChildCalls * (retryCount[m] + One(status[m] = "PROCESSING"))
<1>3. due' = due /\ due \in Nat
  BY <1>1 DEF One, ChildCalls
<1>4. status[m] # "COMPLETED" => submits[m] + Unspent(m) <= due
  BY <1>2 DEF CreditInv
<1>5. status[m] # "COMPLETED" => submits[m] + Unspent(m)' <= due
  <2> HIDE DEF due
  <2> QED
    BY <1>1, <1>3, <1>4
<1>6. QED
  BY <1>2, <1>5 DEF CreditInv

\* The rows of an abandoned batch can be asked for no more.
LEMMA AbandonCredit ==
    ASSUME IInv, NEW m \in Ids, AbandonBatch, UNCHANGED <<status, retryCount, submits>>
    PROVE  CreditInv(m)'
<1>1. Unspent(m)' = 0
  BY IdsPositive DEF AbandonBatch, Unspent, Unsent
<1>2. QED
  BY <1>1, CreditKept

\* _on_message: a new row is NEW, with nothing charged, held or sent.
LEMMA StepReceive == IInv /\ Receive => IInv'
<1> SUFFICES ASSUME IInv, Receive PROVE IInv'
  OBVIOUS
<1> USE DEF IInv, Receive, SaveMessage, NextId, OtherCommits
<1>1. TypeOK'
  BY DEF TypeOK, QueueTypeOK, WorkerTypeOK, HistoryTypeOK, Statuses, historyVars
<1>2. WorkerInv'
  BY DEF WorkerInv, historyVars
<1>3. ASSUME NEW m \in Ids PROVE RowInv(m)'
  BY DEF RowInv, Exhausted, InFlight, historyVars
<1>4. ASSUME NEW m \in Ids PROVE HeldInv(m)'
  BY DEF HeldInv, InFlight
<1>5. ASSUME NEW m \in Ids PROVE CreditInv(m)'
  BY DEF CreditInv, Unsent, Unspent, historyVars
<1>6. QED
  BY <1>1, <1>2, <1>3, <1>4, <1>5

\* _handle_duplicate_message answers only COMPLETED rows, which Odoo accepted.
LEMMA StepReceiveDuplicate == IInv /\ ReceiveDuplicate => IInv'
<1> SUFFICES ASSUME IInv, ReceiveDuplicate PROVE IInv'
  OBVIOUS
<1> USE DEF IInv, ReceiveDuplicate, Answerable, OtherCommits
<1>1. TypeOK'
  BY DEF TypeOK, QueueTypeOK, WorkerTypeOK, HistoryTypeOK, rowVars
<1>2. WorkerInv'
  BY DEF WorkerInv
<1>3. ASSUME NEW m \in Ids PROVE RowInv(m)'
  BY DEF RowInv, Exhausted, InFlight, rowVars
<1>4. ASSUME NEW m \in Ids PROVE HeldInv(m)'
  BY DEF HeldInv, InFlight, rowVars
<1>5. ASSUME NEW m \in Ids PROVE CreditInv(m)'
  BY DEF CreditInv, Unsent, Unspent, rowVars
<1>6. QED
  BY <1>1, <1>2, <1>3, <1>4, <1>5

\* A commit to another table makes a snapshot stale and touches no row.
LEMMA StepOtherTableWritten == IInv /\ OtherTableWritten => IInv'
<1> SUFFICES ASSUME IInv, OtherTableWritten PROVE IInv'
  OBVIOUS
<1> USE DEF IInv, OtherTableWritten, OtherCommits
<1>1. TypeOK'
  BY DEF TypeOK, QueueTypeOK, WorkerTypeOK, HistoryTypeOK, rowVars, historyVars
<1>2. WorkerInv'
  BY DEF WorkerInv, historyVars
<1>3. RowsInv'
  BY QuietStep DEF RowsInv, rowVars
<1>4. QED
  BY <1>1, <1>2, <1>3 DEF RowsInv

\* _run_loop: the poll begins with nothing in hand.
LEMMA StepPoll == IInv /\ Poll => IInv'
<1> SUFFICES ASSUME IInv, Poll PROVE IInv'
  OBVIOUS
<1> USE DEF IInv, Poll
<1>1. TypeOK'
  BY DEF TypeOK, QueueTypeOK, WorkerTypeOK, HistoryTypeOK, Phases, rowVars,
       historyVars
<1>2. WorkerInv'
  BY DEF WorkerInv
<1>3. RowsInv'
  BY QuietStep DEF RowsInv, rowVars
<1>4. QED
  BY <1>1, <1>2, <1>3 DEF RowsInv

\* run_once without authentication claims nothing.
LEMMA StepAuthenticationFails == IInv /\ AuthenticationFails => IInv'
<1> SUFFICES ASSUME IInv, AuthenticationFails PROVE IInv'
  OBVIOUS
<1> USE DEF IInv, AuthenticationFails
<1>1. TypeOK'
  BY DEF TypeOK, QueueTypeOK, WorkerTypeOK, HistoryTypeOK, Phases, rowVars,
       historyVars
<1>2. WorkerInv'
  BY DEF WorkerInv
<1>3. RowsInv'
  BY QuietStep DEF RowsInv, rowVars
<1>4. QED
  BY <1>1, <1>2, <1>3 DEF RowsInv

\* run_once: a claimed row had an attempt left, so PROCESSING may owe one.
LEMMA StepClaim == IInv /\ Claim => IInv'
<1> SUFFICES ASSUME IInv, Claim PROVE IInv'
  OBVIOUS
<1> USE DEF IInv, Claim, ClaimPending
<1>1. TypeOK'
  BY BatchIsClaimable, StaleAssumption DEF TypeOK, QueueTypeOK, WorkerTypeOK,
       HistoryTypeOK, Statuses, Phases, historyVars
<1>2. WorkerInv'
  BY IdsPositive, BatchIsClaimable DEF WorkerInv
<1>3. ASSUME NEW m \in Ids PROVE RowInv(m)'
  BY RetriesAssumption, BatchIsClaimable DEF TypeOK, QueueTypeOK, RowInv,
       Exhausted, InFlight, historyVars
<1>4. ASSUME NEW m \in Ids PROVE HeldInv(m)'
  BY DEF HeldInv, InFlight
<1>5. ASSUME NEW m \in Ids PROVE CreditInv(m)'
  <2>1. /\ submits' = submits /\ retryCount' = retryCount
        /\ submits[m] \in Nat /\ retryCount[m] \in Nat
    BY DEF TypeOK, QueueTypeOK, HistoryTypeOK, historyVars
  <2>2. Unspent(m) = 0
    BY IdsPositive DEF WorkerInv, Unspent, Unsent
  <2>3. CASE m \in PendingBatch
    <3>1. status[m] \in {"NEW", "FAILED"} /\ status'[m] = "PROCESSING"
      BY <2>3, BatchIsClaimable DEF TypeOK, QueueTypeOK
    <3>2. submits[m] <= ChildCalls * retryCount[m]
      BY <2>1, <2>2, <3>1 DEF CreditInv, One, ChildCalls
    <3>3. Unspent(m)' = ChildCalls
      BY <2>3 DEF Unspent, Unsent
    <3>4. QED
      BY <2>1, <3>1, <3>2, <3>3 DEF CreditInv, One, ChildCalls
  <2>4. CASE m \notin PendingBatch
    <3>1. status'[m] = status[m]
      BY <2>4 DEF TypeOK, QueueTypeOK
    <3>2. Unspent(m)' = 0
      BY <2>4, IdsPositive DEF WorkerInv, Unspent, Unsent
    <3>3. QED
      BY <2>1, <2>2, <3>1, <3>2 DEF CreditInv
  <2>5. QED
    BY <2>3, <2>4
<1>6. QED
  BY <1>1, <1>2, <1>3, <1>4, <1>5

\* run_once: the rows of an abandoned batch stay PROCESSING, unsent, or FAILED.
LEMMA StepLeaveBatch == IInv /\ LeaveBatch => IInv'
<1> SUFFICES ASSUME IInv, LeaveBatch PROVE IInv'
  OBVIOUS
<1> USE DEF IInv, LeaveBatch
<1>1. TypeOK'
  <2>1. QueueTypeOK'
    BY DEF TypeOK, QueueTypeOK, rowVars
  <2>2. process' \in {"up", "stopping", "down"} /\ restarts' \in 0 .. MaxRestarts
    BY RestartsAssumption DEF TypeOK
  <2>3. WorkerTypeOK'
    BY AbandonTypes
  <2>4. wdTargets' \subseteq Ids
    BY DEF TypeOK
  <2>5. HistoryTypeOK'
    BY DEF TypeOK, HistoryTypeOK, historyVars
  <2>6. QED
    BY <2>1, <2>2, <2>3, <2>4, <2>5 DEF TypeOK
<1>2. WorkerInv'
  BY DEF WorkerInv, AbandonBatch
<1>3. ASSUME NEW m \in Ids PROVE RowInv(m)'
  BY DEF RowInv, Exhausted, InFlight, rowVars, historyVars, AbandonBatch
<1>4. ASSUME NEW m \in Ids PROVE HeldInv(m)'
  BY DEF HeldInv, InFlight, AbandonBatch
<1>5. ASSUME NEW m \in Ids PROVE CreditInv(m)'
  BY AbandonCredit DEF rowVars, historyVars
<1>6. QED
  BY <1>1, <1>2, <1>3, <1>4, <1>5

\* _process_record: a refused payload takes a row up that is never sent.
LEMMA StepRefuseRow == IInv /\ RefuseRow => IInv'
<1> SUFFICES ASSUME IInv, RefuseRow PROVE IInv'
  OBVIOUS
<1> USE DEF IInv, RefuseRow, TakeRow
<1>1. TypeOK'
  BY TimeoutAssumption DEF TypeOK, QueueTypeOK, WorkerTypeOK, HistoryTypeOK,
       Phases, Outcomes, ChildResults, rowVars, historyVars
<1>2. WorkerInv'
  BY DEF WorkerInv
<1>3. ASSUME NEW m \in Ids PROVE RowInv(m)'
  BY DEF RowInv, Exhausted, InFlight, rowVars, historyVars
<1>4. ASSUME NEW m \in Ids PROVE HeldInv(m)'
  BY DEF HeldInv, InFlight, rowVars
<1>5. ASSUME NEW m \in Ids PROVE CreditInv(m)'
  <2>1. Unspent(m)' \in {0, Unspent(m)}
    BY DEF Unspent, Unsent
  <2>2. QED
    BY <2>1, CreditKept DEF rowVars, historyVars
<1>6. QED
  BY <1>1, <1>2, <1>3, <1>4, <1>5

\* _submit_with_hard_timeout: the row taken up is still the worker's own.
LEMMA StepRegisterRow == IInv /\ RegisterRow => IInv'
<1> SUFFICES ASSUME IInv, RegisterRow PROVE IInv'
  OBVIOUS
<1> USE DEF IInv, RegisterRow, TakeRow
<1>1. TypeOK'
  BY TimeoutAssumption DEF TypeOK, QueueTypeOK, WorkerTypeOK, HistoryTypeOK,
       Phases, rowVars, historyVars
<1>2. WorkerInv'
  BY DEF WorkerInv
<1>3. ASSUME NEW m \in Ids PROVE RowInv(m)'
  BY DEF RowInv, Exhausted, InFlight, rowVars, historyVars
<1>4. ASSUME NEW m \in Ids PROVE HeldInv(m)'
  BY DEF HeldInv, InFlight, rowVars
<1>5. ASSUME NEW m \in Ids PROVE CreditInv(m)'
  BY DEF CreditInv, Unsent, Unspent, rowVars, historyVars
<1>6. QED
  BY <1>1, <1>2, <1>3, <1>4, <1>5

\* process.start: all the requests of the child are still to come.
LEMMA StepStartChild == IInv /\ StartChild => IInv'
<1> SUFFICES ASSUME IInv, StartChild PROVE IInv'
  OBVIOUS
<1> USE DEF IInv, StartChild
<1>1. TypeOK'
  BY DEF TypeOK, QueueTypeOK, WorkerTypeOK, HistoryTypeOK, Phases, ChildCalls, rowVars,
       historyVars
<1>2. WorkerInv'
  BY DEF WorkerInv, historyVars
<1>3. ASSUME NEW m \in Ids PROVE RowInv(m)'
  BY DEF RowInv, Exhausted, InFlight, rowVars, historyVars
<1>4. ASSUME NEW m \in Ids PROVE HeldInv(m)'
  BY DEF HeldInv, InFlight, rowVars
<1>5. ASSUME NEW m \in Ids PROVE CreditInv(m)'
  <2>1. Unspent(m)' = Unspent(m)
    BY DEF WorkerInv, Unspent, Unsent, ChildCalls
  <2>2. QED
    BY <2>1 DEF CreditInv, rowVars, historyVars
<1>6. QED
  BY <1>1, <1>2, <1>3, <1>4, <1>5

\* _submit_print_data: a request the child still had to spare becomes one it made.
LEMMA StepChildSubmits == IInv /\ ChildSubmits => IInv'
<1> SUFFICES ASSUME IInv, ChildSubmits PROVE IInv'
  OBVIOUS
<1> USE DEF IInv, ChildSubmits, MaySubmit
<1>a. current \in Ids /\ current \notin batch /\ calls \in 0 .. ChildCalls - 1
  BY DEF TypeOK, WorkerTypeOK, WorkerInv, ChildCalls
<1>1. TypeOK'
  <2>1. QueueTypeOK'
    BY DEF TypeOK, QueueTypeOK, rowVars
  <2>2. process' \in {"up", "stopping", "down"} /\ restarts' \in 0 .. MaxRestarts
    BY RestartsAssumption DEF TypeOK
  <2>3. WorkerTypeOK'
    BY <1>a DEF TypeOK, WorkerTypeOK, ChildCalls
  <2>4. wdTargets' \subseteq Ids
    BY DEF TypeOK
  <2>5. HistoryTypeOK'
    BY <1>a DEF TypeOK, HistoryTypeOK
  <2>6. QED
    BY <2>1, <2>2, <2>3, <2>4, <2>5 DEF TypeOK
<1>2. WorkerInv'
  BY DEF WorkerInv
<1>3. ASSUME NEW m \in Ids PROVE RowInv(m)'
  BY DEF RowInv, Exhausted, InFlight, rowVars
<1>4. ASSUME NEW m \in Ids PROVE HeldInv(m)'
  BY DEF HeldInv, InFlight, rowVars
<1>5. ASSUME NEW m \in Ids PROVE CreditInv(m)'
  <2>1. CASE m # current
    <3>1. Unspent(m)' = Unspent(m)
      BY <2>1 DEF Unspent, Unsent
    <3>2. QED
      BY <2>1, <3>1 DEF TypeOK, HistoryTypeOK, CreditInv, rowVars
  <2>2. CASE m = current
    <3>1. Unspent(m) = ChildCalls - calls /\ Unspent(m)' = ChildCalls - (calls + 1)
      BY <1>a, <2>2 DEF Unspent, Unsent
    <3>2. submits'[m] = submits[m] + 1 /\ submits[m] \in Nat
      BY <2>2 DEF TypeOK, HistoryTypeOK
    <3>3. \/ status[m] = "PROCESSING" /\ retryCount[m] < MaxRetries
          \/ status[m] = "FAILED" /\ retryCount[m] <= MaxRetries
      BY <2>2, IdsPositive DEF RowInv, HeldInv, InFlight
    <3>4. submits[m] + (ChildCalls - calls)
            <= ChildCalls * (retryCount[m] + One(status[m] = "PROCESSING"))
      <4>1. status[m] # "COMPLETED"
        BY <3>3
      <4>2. status[m] # "COMPLETED" =>
              submits[m] + Unspent(m)
                <= ChildCalls * (retryCount[m] + One(status[m] = "PROCESSING"))
        BY DEF CreditInv
      <4>3. QED
        BY <3>1, <4>1, <4>2
    <3>5. submits'[m] <= ChildCalls * MaxRetries
      BY <1>a, <3>2, <3>3, <3>4, RetriesAssumption
         DEF TypeOK, QueueTypeOK, One, ChildCalls
    <3>6. QED
      BY <1>a, <3>1, <3>2, <3>4, <3>5 DEF CreditInv, rowVars, One, ChildCalls
  <2>3. QED
    BY <2>1, <2>2
<1>6. QED
  BY <1>1, <1>2, <1>3, <1>4, <1>5

\* The child's result: ok is recorded as accepted before any completion.
LEMMA StepChildExits == IInv /\ ChildExits => IInv'
<1> SUFFICES ASSUME IInv, ChildExits PROVE IInv'
  OBVIOUS
<1> USE DEF IInv, ChildExits, ChildResults
<1>1. TypeOK'
  <2>1. QueueTypeOK'
    BY DEF TypeOK, QueueTypeOK, rowVars
  <2>2. process' \in {"up", "stopping", "down"} /\ restarts' \in 0 .. MaxRestarts
    BY RestartsAssumption DEF TypeOK
  <2>3. WorkerTypeOK'
    <3>1. elapsed' \in 0 .. SubmitTimeout + 1 /\ calls' \in 0 .. ChildCalls
      BY TimeoutAssumption DEF ChildCalls
    <3>2. QED
      BY <3>1 DEF TypeOK, WorkerTypeOK, Phases, Outcomes
  <2>4. wdTargets' \subseteq Ids
    BY DEF TypeOK
  <2>5. HistoryTypeOK'
    BY DEF TypeOK, WorkerTypeOK, WorkerInv, HistoryTypeOK
  <2>6. QED
    BY <2>1, <2>2, <2>3, <2>4, <2>5 DEF TypeOK
<1>2. WorkerInv'
  BY DEF WorkerInv
<1>3. ASSUME NEW m \in Ids PROVE RowInv(m)'
  BY DEF RowInv, Exhausted, InFlight, rowVars
<1>4. ASSUME NEW m \in Ids PROVE HeldInv(m)'
  BY DEF HeldInv, InFlight, rowVars
<1>5. ASSUME NEW m \in Ids PROVE CreditInv(m)'
  <2>1. Unspent(m)' \in {0, Unspent(m)}
    BY DEF WorkerInv, Unspent, Unsent
  <2>2. QED
    BY <2>1, CreditKept DEF rowVars
<1>6. QED
  BY <1>1, <1>2, <1>3, <1>4, <1>5

\* The hard timeout settles the submission and writes nothing yet.
LEMMA StepTimeOut == IInv /\ TimeOut => IInv'
<1> SUFFICES ASSUME IInv, TimeOut PROVE IInv'
  OBVIOUS
<1> USE DEF IInv, TimeOut
<1>1. TypeOK'
  <2>1. QueueTypeOK'
    BY DEF TypeOK, QueueTypeOK, rowVars
  <2>2. process' \in {"up", "stopping", "down"} /\ restarts' \in 0 .. MaxRestarts
    BY RestartsAssumption DEF TypeOK
  <2>3. WorkerTypeOK'
    <3>1. elapsed' \in 0 .. SubmitTimeout + 1 /\ calls' \in 0 .. ChildCalls
      BY TimeoutAssumption DEF ChildCalls
    <3>2. QED
      BY <3>1 DEF TypeOK, WorkerTypeOK, Phases, Outcomes
  <2>4. wdTargets' \subseteq Ids
    BY DEF TypeOK
  <2>5. HistoryTypeOK'
    BY DEF TypeOK, WorkerTypeOK, WorkerInv, HistoryTypeOK
  <2>6. QED
    BY <2>1, <2>2, <2>3, <2>4, <2>5 DEF TypeOK
<1>2. WorkerInv'
  BY DEF WorkerInv
<1>3. ASSUME NEW m \in Ids PROVE RowInv(m)'
  BY DEF RowInv, Exhausted, InFlight, rowVars
<1>4. ASSUME NEW m \in Ids PROVE HeldInv(m)'
  BY DEF HeldInv, InFlight, rowVars
<1>5. ASSUME NEW m \in Ids PROVE CreditInv(m)'
  <2>1. Unspent(m)' \in {0, Unspent(m)}
    BY DEF WorkerInv, Unspent, Unsent
  <2>2. QED
    BY <2>1, CreditKept DEF rowVars
<1>6. QED
  BY <1>1, <1>2, <1>3, <1>4, <1>5

\* A killed child settles as an ordinary error and writes nothing yet.
LEMMA StepChildKilled == IInv /\ ChildKilled => IInv'
<1> SUFFICES ASSUME IInv, ChildKilled PROVE IInv'
  OBVIOUS
<1> USE DEF IInv, ChildKilled
<1>1. TypeOK'
  BY TimeoutAssumption DEF TypeOK, QueueTypeOK, WorkerTypeOK, HistoryTypeOK,
       Phases, Outcomes, ChildResults, ChildCalls, rowVars, historyVars
<1>2. WorkerInv'
  BY DEF WorkerInv
<1>3. ASSUME NEW m \in Ids PROVE RowInv(m)'
  BY DEF RowInv, Exhausted, InFlight, rowVars, historyVars
<1>4. ASSUME NEW m \in Ids PROVE HeldInv(m)'
  BY DEF HeldInv, InFlight, rowVars
<1>5. ASSUME NEW m \in Ids PROVE CreditInv(m)'
  <2>1. Unspent(m)' \in {0, Unspent(m)}
    BY DEF WorkerInv, Unspent, Unsent
  <2>2. QED
    BY <2>1, CreditKept DEF rowVars, historyVars
<1>6. QED
  BY <1>1, <1>2, <1>3, <1>4, <1>5

\* mark_failed: the charge takes the place of the PROCESSING row's credit, and a
\* timeout leaves the row exhausted, out of the worker's hands.
LEMMA StepRecordFailure == IInv /\ RecordFailure => IInv'
<1> SUFFICES ASSUME IInv, RecordFailure PROVE IInv'
  OBVIOUS
<1> USE DEF IInv, RecordFailure, MarkFailed
<1> DEFINE count == FailedCount(current, ~Final(outcome))
<1>a. current \in Ids /\ current \notin batch
  BY DEF TypeOK, WorkerTypeOK, WorkerInv
<1>b. /\ count >= retryCount[current] + 1
      /\ count <= retryCount[current] + 1 \/ count <= MaxRetries
      /\ outcome = "timeout" => count >= MaxRetries
  BY <1>a, FailedCountBounds DEF TypeOK, QueueTypeOK, Final
<1>c. count \in Nat
  BY <1>a, FailedCountBounds DEF TypeOK, QueueTypeOK
<1>d. retryCount' = [retryCount EXCEPT ![current] = count]
  OBVIOUS
<1> HIDE DEF count
<1>1. TypeOK'
  <2>1. QueueTypeOK'
    BY <1>a, <1>c, <1>d, StaleAssumption DEF TypeOK, QueueTypeOK, Statuses, Errors
  <2>2. process' \in {"up", "stopping", "down"} /\ restarts' \in 0 .. MaxRestarts
    BY RestartsAssumption DEF TypeOK
  <2>3. WorkerTypeOK'
    BY NextRowTypes DEF TypeOK
  <2>4. wdTargets' \subseteq Ids
    BY DEF TypeOK
  <2>5. HistoryTypeOK'
    BY DEF TypeOK, HistoryTypeOK, historyVars
  <2>6. QED
    BY <2>1, <2>2, <2>3, <2>4, <2>5 DEF TypeOK
<1>2. WorkerInv'
  BY <1>d, <1>a, <1>b, <1>c, IdsPositive DEF TypeOK, WorkerTypeOK, WorkerInv,
       NextRow
<1>3. ASSUME NEW m \in Ids PROVE RowInv(m)'
  BY <1>d, <1>a, <1>b, <1>c, RetriesAssumption DEF TypeOK, QueueTypeOK, WorkerInv,
       RowInv, HeldInv, Exhausted, InFlight, historyVars, NextRow
<1>4. ASSUME NEW m \in Ids PROVE HeldInv(m)'
  BY <1>d, <1>a, <1>b, <1>c DEF HeldInv, InFlight, NextRow
<1>5. ASSUME NEW m \in Ids PROVE CreditInv(m)'
  <2>1. submits' = submits /\ submits[m] \in Nat /\ retryCount[m] \in Nat
    BY DEF TypeOK, QueueTypeOK, HistoryTypeOK, historyVars
  <2>2. Unspent(m)' \in {0, Unspent(m)}
    BY IdsPositive DEF NextRow, Unspent, Unsent
  <2>3. CASE m # current
    <3>1. status'[m] = status[m] /\ retryCount'[m] = retryCount[m]
      BY <1>d, <2>3
    <3>2. Unspent(m) \in Nat /\ Unspent(m)' \in Nat /\ Unspent(m)' <= Unspent(m)
      BY <2>2, UnspentBounds DEF ChildCalls
    <3>3. QED
      BY <2>1, <3>1, <3>2 DEF CreditInv, One, ChildCalls
  <2>4. CASE m = current
    <3>1. status'[m] = "FAILED" /\ retryCount'[m] = count /\ count >= retryCount[m] + 1
      BY <1>a, <1>b, <1>d, <2>4 DEF TypeOK, QueueTypeOK
    <3>2. status[m] # "COMPLETED"
      BY <1>a, <2>4, IdsPositive DEF HeldInv, InFlight
    <3>3. Unspent(m) = 0 /\ Unspent(m)' = 0
      BY <1>a, <2>2, <2>4 DEF Unspent, Unsent
    <3>4. submits[m] <= ChildCalls * (retryCount[m] + 1)
      BY <2>1, <3>2, <3>3 DEF CreditInv, One, ChildCalls
    <3>5. submits[m] <= ChildCalls * count
      BY <1>c, <2>1, <3>1, <3>4 DEF ChildCalls
    <3>6. QED
      BY <1>c, <2>1, <3>1, <3>3, <3>5 DEF CreditInv, One, ChildCalls
  <2>5. QED
    BY <2>3, <2>4
<1>6. QED
  BY <1>1, <1>2, <1>3, <1>4, <1>5

\* mark_completed's SELECT: the row is one that Odoo accepted.
LEMMA StepBeginCompletion == IInv /\ BeginCompletion => IInv'
<1> SUFFICES ASSUME IInv, BeginCompletion PROVE IInv'
  OBVIOUS
<1> USE DEF IInv, BeginCompletion
<1>1. TypeOK'
  <2>1. QueueTypeOK'
    BY DEF TypeOK, QueueTypeOK, rowVars
  <2>2. process' \in {"up", "stopping", "down"} /\ restarts' \in 0 .. MaxRestarts
    BY RestartsAssumption DEF TypeOK
  <2>3. WorkerTypeOK'
    BY DEF TypeOK, WorkerTypeOK, Phases
  <2>4. wdTargets' \subseteq Ids
    BY DEF TypeOK
  <2>5. HistoryTypeOK'
    BY DEF TypeOK, HistoryTypeOK, historyVars
  <2>6. QED
    BY <2>1, <2>2, <2>3, <2>4, <2>5 DEF TypeOK
<1>2. WorkerInv'
  BY DEF WorkerInv, historyVars
<1>3. RowsInv'
  BY QuietStep DEF RowsInv, rowVars
<1>4. QED
  BY <1>1, <1>2, <1>3 DEF RowsInv

\* mark_completed's UPDATE: an accepted row becomes COMPLETED.
LEMMA StepComplete == IInv /\ Complete => IInv'
<1> SUFFICES ASSUME IInv, Complete PROVE IInv'
  OBVIOUS
<1> USE DEF IInv, Complete, MarkCompleted
<1>1. TypeOK'
  <2>1. QueueTypeOK'
    BY StaleAssumption DEF TypeOK, QueueTypeOK, WorkerTypeOK, WorkerInv, Statuses,
         Errors
  <2>2. process' \in {"up", "stopping", "down"} /\ restarts' \in 0 .. MaxRestarts
    BY RestartsAssumption DEF TypeOK
  <2>3. WorkerTypeOK'
    BY DEF TypeOK, WorkerTypeOK, Phases
  <2>4. wdTargets' \subseteq Ids
    BY DEF TypeOK
  <2>5. HistoryTypeOK'
    BY DEF TypeOK, HistoryTypeOK, historyVars
  <2>6. QED
    BY <2>1, <2>2, <2>3, <2>4, <2>5 DEF TypeOK
<1>2. WorkerInv'
  BY DEF WorkerInv, historyVars
<1>3. ASSUME NEW m \in Ids PROVE RowInv(m)'
  BY DEF WorkerInv, RowInv, Exhausted, InFlight, historyVars
<1>4. ASSUME NEW m \in Ids PROVE HeldInv(m)'
  BY DEF TypeOK, QueueTypeOK, HeldInv, InFlight
<1>5. ASSUME NEW m \in Ids PROVE CreditInv(m)'
  BY DEF CreditInv, Unsent, Unspent, historyVars
<1>6. QED
  BY <1>1, <1>2, <1>3, <1>4, <1>5

\* The refused completion drops the batch and leaves every row as it was.
LEMMA StepCompletionRefused == IInv /\ CompletionRefused => IInv'
<1> SUFFICES ASSUME IInv, CompletionRefused PROVE IInv'
  OBVIOUS
<1> USE DEF IInv, CompletionRefused
<1>1. TypeOK'
  <2>1. QueueTypeOK'
    BY DEF TypeOK, QueueTypeOK, rowVars
  <2>2. process' \in {"up", "stopping", "down"} /\ restarts' \in 0 .. MaxRestarts
    BY RestartsAssumption DEF TypeOK
  <2>3. WorkerTypeOK'
    BY AbandonTypes
  <2>4. wdTargets' \subseteq Ids
    BY DEF TypeOK
  <2>5. HistoryTypeOK'
    BY DEF TypeOK, HistoryTypeOK, historyVars
  <2>6. QED
    BY <2>1, <2>2, <2>3, <2>4, <2>5 DEF TypeOK
<1>2. WorkerInv'
  BY DEF WorkerInv, AbandonBatch
<1>3. ASSUME NEW m \in Ids PROVE RowInv(m)'
  BY DEF RowInv, Exhausted, InFlight, rowVars, historyVars, AbandonBatch
<1>4. ASSUME NEW m \in Ids PROVE HeldInv(m)'
  BY DEF HeldInv, InFlight, AbandonBatch
<1>5. ASSUME NEW m \in Ids PROVE CreditInv(m)'
  BY AbandonCredit DEF rowVars, historyVars
<1>6. QED
  BY <1>1, <1>2, <1>3, <1>4, <1>5

\* _publish_ack: the row published is COMPLETED, and the worker lets it go.
LEMMA StepPublishAck == IInv /\ PublishAck => IInv'
<1> SUFFICES ASSUME IInv, PublishAck PROVE IInv'
  OBVIOUS
<1> USE DEF IInv, PublishAck
<1>1. TypeOK'
  <2>1. QueueTypeOK'
    BY DEF TypeOK, QueueTypeOK, rowVars
  <2>2. process' \in {"up", "stopping", "down"} /\ restarts' \in 0 .. MaxRestarts
    BY RestartsAssumption DEF TypeOK
  <2>3. WorkerTypeOK'
    BY NextRowTypes DEF TypeOK
  <2>4. wdTargets' \subseteq Ids
    BY DEF TypeOK
  <2>5. HistoryTypeOK'
    BY DEF TypeOK, WorkerInv, HistoryTypeOK
  <2>6. QED
    BY <2>1, <2>2, <2>3, <2>4, <2>5 DEF TypeOK
<1>2. WorkerInv'
  BY IdsPositive DEF TypeOK, WorkerTypeOK, WorkerInv, NextRow
<1>3. ASSUME NEW m \in Ids PROVE RowInv(m)'
  BY DEF WorkerInv, RowInv, HeldInv, Exhausted, InFlight, rowVars, NextRow
<1>4. ASSUME NEW m \in Ids PROVE HeldInv(m)'
  BY DEF WorkerInv, HeldInv, InFlight, rowVars, NextRow
<1>5. ASSUME NEW m \in Ids PROVE CreditInv(m)'
  BY DEF CreditInv, Unsent, Unspent, rowVars, NextRow
<1>6. QED
  BY <1>1, <1>2, <1>3, <1>4, <1>5

\* An exception drops the batch and leaves every row as it was.
LEMMA StepRunOnceRaises == IInv /\ RunOnceRaises => IInv'
<1> SUFFICES ASSUME IInv, RunOnceRaises PROVE IInv'
  OBVIOUS
<1> USE DEF IInv, RunOnceRaises
<1>1. TypeOK'
  <2>1. QueueTypeOK'
    BY DEF TypeOK, QueueTypeOK, rowVars
  <2>2. process' \in {"up", "stopping", "down"} /\ restarts' \in 0 .. MaxRestarts
    BY RestartsAssumption DEF TypeOK
  <2>3. WorkerTypeOK'
    BY AbandonTypes
  <2>4. wdTargets' \subseteq Ids
    BY DEF TypeOK
  <2>5. HistoryTypeOK'
    BY DEF TypeOK, HistoryTypeOK, historyVars
  <2>6. QED
    BY <2>1, <2>2, <2>3, <2>4, <2>5 DEF TypeOK
<1>2. WorkerInv'
  BY DEF WorkerInv, AbandonBatch
<1>3. ASSUME NEW m \in Ids PROVE RowInv(m)'
  BY DEF RowInv, Exhausted, InFlight, rowVars, historyVars, AbandonBatch
<1>4. ASSUME NEW m \in Ids PROVE HeldInv(m)'
  BY DEF HeldInv, InFlight, AbandonBatch
<1>5. ASSUME NEW m \in Ids PROVE CreditInv(m)'
  BY AbandonCredit DEF rowVars, historyVars
<1>6. QED
  BY <1>1, <1>2, <1>3, <1>4, <1>5

\* The watchdog's computation reads the rows and changes none.
LEMMA StepWatchdogLooks == IInv /\ WatchdogLooks => IInv'
<1> SUFFICES ASSUME IInv, WatchdogLooks PROVE IInv'
  OBVIOUS
<1> USE DEF IInv, WatchdogLooks, Stale, Protected
<1>1. TypeOK'
  BY DEF TypeOK, QueueTypeOK, WorkerTypeOK, HistoryTypeOK, rowVars, workerVars,
       historyVars
<1>2. WorkerInv'
  BY DEF WorkerInv, workerVars, historyVars
<1>3. RowsInv'
  BY QuietStep DEF RowsInv, rowVars, workerVars
<1>4. QED
  BY <1>1, <1>2, <1>3 DEF RowsInv

\* reset_stale_processing: a row still PROCESSING had an attempt left and is charged
\* one, whether the worker holds it or not.
LEMMA StepWatchdogRecovers == IInv /\ WatchdogRecovers => IInv'
<1> SUFFICES ASSUME IInv, WatchdogRecovers PROVE IInv'
  OBVIOUS
<1> USE DEF IInv, WatchdogRecovers, ResetStale, StillProcessing
<1>1. TypeOK'
  <2>1. QueueTypeOK'
    BY StaleAssumption DEF TypeOK, QueueTypeOK, Statuses, Errors
  <2>2. process' \in {"up", "stopping", "down"} /\ restarts' \in 0 .. MaxRestarts
    BY RestartsAssumption DEF TypeOK
  <2>3. WorkerTypeOK'
    BY DEF TypeOK, WorkerTypeOK, OtherCommits
  <2>4. wdTargets' \subseteq Ids
    BY DEF TypeOK
  <2>5. HistoryTypeOK'
    BY DEF TypeOK, HistoryTypeOK, historyVars
  <2>6. QED
    BY <2>1, <2>2, <2>3, <2>4, <2>5 DEF TypeOK
<1>2. WorkerInv'
  BY DEF WorkerInv, historyVars
<1>3. ASSUME NEW m \in Ids PROVE RowInv(m)'
  BY RetriesAssumption DEF TypeOK, QueueTypeOK, RowInv, Exhausted, InFlight,
       historyVars
<1>4. ASSUME NEW m \in Ids PROVE HeldInv(m)'
  BY RetriesAssumption DEF TypeOK, QueueTypeOK, RowInv, HeldInv, InFlight
<1>5. ASSUME NEW m \in Ids PROVE CreditInv(m)'
  BY DEF TypeOK, QueueTypeOK, CreditInv, Unsent, Unspent, One, historyVars
<1>6. QED
  BY <1>1, <1>2, <1>3, <1>4, <1>5

\* stop() kills the child and leaves rows and batch as they are.
LEMMA StepStop == IInv /\ Stop => IInv'
<1> SUFFICES ASSUME IInv, Stop PROVE IInv'
  OBVIOUS
<1> USE DEF IInv, Stop
<1>1. TypeOK'
  BY RestartsAssumption DEF TypeOK, QueueTypeOK, WorkerTypeOK, HistoryTypeOK,
       rowVars, historyVars
<1>2. WorkerInv'
  BY DEF WorkerInv, historyVars
<1>3. RowsInv'
  BY QuietStep DEF RowsInv, rowVars
<1>4. QED
  BY <1>1, <1>2, <1>3 DEF RowsInv

\* The end of the process forgets what was held; the rows stay.
LEMMA StepExit == IInv /\ Exit => IInv'
<1> SUFFICES ASSUME IInv, Exit PROVE IInv'
  OBVIOUS
<1> USE DEF IInv, Exit
<1>1. TypeOK'
  <2>1. QueueTypeOK'
    BY DEF TypeOK, QueueTypeOK, rowVars
  <2>2. process' \in {"up", "stopping", "down"} /\ restarts' \in 0 .. MaxRestarts
    BY RestartsAssumption DEF TypeOK
  <2>3. WorkerTypeOK'
    BY AbandonTypes
  <2>4. wdTargets' \subseteq Ids
    BY DEF TypeOK
  <2>5. HistoryTypeOK'
    BY DEF TypeOK, HistoryTypeOK, historyVars
  <2>6. QED
    BY <2>1, <2>2, <2>3, <2>4, <2>5 DEF TypeOK
<1>2. WorkerInv'
  BY DEF WorkerInv, AbandonBatch
<1>3. ASSUME NEW m \in Ids PROVE RowInv(m)'
  BY DEF RowInv, Exhausted, InFlight, rowVars, historyVars, AbandonBatch
<1>4. ASSUME NEW m \in Ids PROVE HeldInv(m)'
  BY DEF HeldInv, InFlight, AbandonBatch
<1>5. ASSUME NEW m \in Ids PROVE CreditInv(m)'
  BY AbandonCredit DEF rowVars, historyVars
<1>6. QED
  BY <1>1, <1>2, <1>3, <1>4, <1>5

\* A start changes no row.
LEMMA StepStart == IInv /\ Start => IInv'
<1> SUFFICES ASSUME IInv, Start PROVE IInv'
  OBVIOUS
<1> USE DEF IInv, Start
<1>1. TypeOK'
  BY DEF TypeOK, QueueTypeOK, WorkerTypeOK, HistoryTypeOK, rowVars, workerVars,
       historyVars
<1>2. WorkerInv'
  BY DEF WorkerInv, workerVars, historyVars
<1>3. RowsInv'
  BY QuietStep DEF RowsInv, rowVars, workerVars
<1>4. QED
  BY <1>1, <1>2, <1>3 DEF RowsInv

\* Time changes ages alone.
LEMMA StepTick == IInv /\ Tick => IInv'
<1> SUFFICES ASSUME IInv, Tick PROVE IInv'
  OBVIOUS
<1> USE DEF IInv, Tick, RowsAge
<1>1. TypeOK'
  BY StaleAssumption, TimeoutAssumption DEF TypeOK, QueueTypeOK, WorkerTypeOK,
       HistoryTypeOK, historyVars
<1>2. WorkerInv'
  BY DEF WorkerInv, historyVars
<1>3. RowsInv'
  BY QuietStep DEF RowsInv
<1>4. QED
  BY <1>1, <1>2, <1>3 DEF RowsInv

-----------------------------------------------------------------------------
(***************************************************************************)
(* The invariant.                                                          *)
(***************************************************************************)
\* The empty table and the idle worker of a first start satisfy the invariant.
THEOREM InitInv == Init => IInv
<1> SUFFICES ASSUME Init PROVE IInv
  OBVIOUS
<1> USE DEF Init, QueueInit
<1>1. TypeOK
  <2>1. QueueTypeOK
    BY StaleAssumption DEF QueueTypeOK, Statuses, Errors
  <2>2. WorkerTypeOK
    <3>1. elapsed \in 0 .. SubmitTimeout + 1 /\ calls \in 0 .. ChildCalls
      BY TimeoutAssumption DEF ChildCalls
    <3>2. QED
      BY <3>1 DEF WorkerTypeOK, Phases, Outcomes
  <2>3. HistoryTypeOK
    BY DEF HistoryTypeOK
  <2>4. QED
    BY <2>1, <2>2, <2>3, RestartsAssumption DEF TypeOK
<1>2. WorkerInv
  BY DEF WorkerInv
<1>3. ASSUME NEW m \in Ids PROVE RowInv(m) /\ HeldInv(m) /\ CreditInv(m)
  <2>1. Unspent(m) = 0
    BY IdsPositive DEF Unspent, Unsent
  <2>2. QED
    BY <2>1, RetriesAssumption
       DEF RowInv, HeldInv, CreditInv, InFlight, One, Exhausted, ChildCalls
<1>4. QED
  BY <1>1, <1>2, <1>3 DEF IInv

\* Every step of the worker, the watchdog, the environment and the process keeps it.
THEOREM Inductive == IInv /\ [Next]_vars => IInv'
<1> SUFFICES ASSUME IInv, [Next]_vars PROVE IInv'
  OBVIOUS
<1>1. CASE Environment
  BY <1>1, StepReceive, StepReceiveDuplicate, StepOtherTableWritten DEF Environment
<1>2. CASE Poll \/ AuthenticationFails \/ Claim \/ LeaveBatch \/ RefuseRow
  BY <1>2, StepPoll, StepAuthenticationFails, StepClaim, StepLeaveBatch,
       StepRefuseRow
<1>3. CASE Submission
  BY <1>3, StepRegisterRow, StepStartChild, StepChildSubmits, StepChildExits,
       StepTimeOut, StepChildKilled
     DEF Submission
<1>4. CASE RecordFailure \/ BeginCompletion \/ Complete \/ CompletionRefused
  BY <1>4, StepRecordFailure, StepBeginCompletion, StepComplete,
       StepCompletionRefused
<1>5. CASE PublishAck \/ RunOnceRaises
  BY <1>5, StepPublishAck, StepRunOnceRaises
<1>6. CASE WatchdogLooks \/ WatchdogRecovers
  BY <1>6, StepWatchdogLooks, StepWatchdogRecovers
<1>7. CASE Stop \/ Exit \/ Start \/ Tick
  BY <1>7, StepStop, StepExit, StepStart, StepTick
<1>8. CASE UNCHANGED vars
  BY <1>8 DEF IInv, TypeOK, QueueTypeOK, WorkerTypeOK, HistoryTypeOK, WorkerInv,
       RowInv,
              HeldInv, CreditInv, InFlight, Unsent, Unspent, One, Exhausted, vars, rowVars,
              workerVars, historyVars
<1>9. QED
  BY <1>1, <1>2, <1>3, <1>4, <1>5, <1>6, <1>7, <1>8 DEF Next, Step, Worker

\* The invariant holds in every reachable state.
THEOREM Invariance == Spec => []IInv
<1>1. Init => IInv
  BY InitInv
<1>2. IInv /\ [Next]_vars => IInv'
  BY Inductive
<1>3. QED
  BY <1>1, <1>2, PTL DEF Spec

\* Type correctness.
THEOREM TypeCorrect == Spec => []TypeOK
<1>1. IInv => TypeOK
  BY DEF IInv
<1>2. QED
  BY Invariance, <1>1, PTL

\* No interleaving of worker, watchdog and crashes charges a row more than one
\* attempt above ODOO_MAX_RETRIES.
THEOREM RetriesBounded == Spec => []RetryBudget
<1>1. IInv => RetryBudget
  BY DEF IInv, RowInv, RetryBudget
<1>2. QED
  BY Invariance, <1>1, PTL

\* Odoo is asked at most twice ODOO_MAX_RETRIES times for one message: the second
\* request of a child is counted.
THEOREM SubmissionsBounded == Spec => []SubmissionBudget
<1>1. IInv => SubmissionBudget
  BY DEF IInv, CreditInv, SubmissionBudget
<1>2. QED
  BY Invariance, <1>1, PTL

\* Only completed rows are acknowledged, and only accepted ones are completed.
THEOREM AcknowledgedAreCompleted == Spec => []AckedIsCompleted
<1>1. IInv => AckedIsCompleted
  BY DEF IInv, TypeOK, HistoryTypeOK, RowInv, AckedIsCompleted
<1>2. QED
  BY Invariance, <1>1, PTL

-----------------------------------------------------------------------------
(***************************************************************************)
(* Finality.                                                               *)
(***************************************************************************)
\* A row out of the worker's hands that is neither claimable nor PROCESSING keeps
\* its columns and is not submitted: what is left to change it is an insertion.
LEMMA SettledRowStays ==
    ASSUME IInv, [Next]_vars, NEW m \in Ids,
           status[m] = "COMPLETED" \/ lastError[m] = "timeout"
    PROVE  /\ status'[m] = status[m]
           /\ status[m] = "FAILED" => lastError'[m] = lastError[m]
           /\ submits'[m] = submits[m]
<1>1. /\ \/ status[m] = "COMPLETED"
         \/ status[m] = "FAILED" /\ retryCount[m] >= MaxRetries
      /\ m \in InFlight => m = current /\ phase = "publishing"
  <2>1. RowInv(m) /\ HeldInv(m)
    BY DEF IInv
  <2>2. CASE status[m] = "COMPLETED"
    <3>1. m \in InFlight => m = current /\ phase = "publishing"
      BY <2>1, <2>2, SMT DEF HeldInv
    <3>2. QED
      BY <2>2, <3>1
  <2>3. CASE lastError[m] = "timeout"
    BY <2>1, <2>3 DEF RowInv, Exhausted
  <2>4. QED
    BY <2>2, <2>3
<1>2. retryCount \in [Ids -> Nat] /\ status \in [Ids -> Statuses]
      /\ lastError \in [Ids -> Errors] /\ submits \in [Ids -> Nat]
  BY DEF IInv, TypeOK, QueueTypeOK, HistoryTypeOK
<1>3. current = m => phase = "publishing"
  BY <1>1, IdsPositive DEF InFlight
<1>4. CASE Receive
  BY <1>1, <1>2, <1>4 DEF Receive, SaveMessage, NextId, historyVars
<1>5. CASE Claim
  <2>1. m \notin PendingBatch
    BY <1>1, <1>2, BatchIsClaimable, RetriesAssumption
  <2>2. QED
    BY <1>2, <1>5, <2>1 DEF Claim, ClaimPending, historyVars
<1>6. CASE ChildSubmits
  BY <1>2, <1>3, <1>6 DEF ChildSubmits, rowVars
<1>7. CASE RecordFailure
  BY <1>2, <1>3, <1>7 DEF RecordFailure, MarkFailed, historyVars
<1>8. CASE Complete
  BY <1>2, <1>3, <1>8 DEF Complete, MarkCompleted, historyVars
<1>9. CASE WatchdogRecovers
  BY <1>1, <1>2, <1>9 DEF WatchdogRecovers, ResetStale, StillProcessing, historyVars
<1>10. CASE UNCHANGED <<status, lastError, submits>>
  BY <1>10
<1>11. QED
  BY <1>4, <1>5, <1>6, <1>7, <1>8, <1>9, <1>10
     DEF Next, Step, Environment, Worker, Submission, ReceiveDuplicate, OtherTableWritten,
         Poll, AuthenticationFails, LeaveBatch, RefuseRow, RegisterRow, TakeRow, StartChild,
         ChildExits,
         TimeOut, ChildKilled, BeginCompletion, CompletionRefused, PublishAck,
         RunOnceRaises, WatchdogLooks, Stop, Exit, Start, Tick, vars, rowVars, historyVars

\* A COMPLETED row is never overwritten and never submitted again.
THEOREM CompletedStays == Spec => CompletedIsFinal
<1>1. IInv /\ [Next]_vars =>
        [\A m \in Ids : status[m] = "COMPLETED" =>
            status'[m] = "COMPLETED" /\ submits'[m] = submits[m]]_vars
  BY SettledRowStays
<1>2. QED
  BY Invariance, <1>1, PTL DEF Spec, CompletedIsFinal

\* A row that timed out durably stays as it is: no retry, no ACK.
THEOREM TimeoutStays == Spec => TimeoutIsFinal
<1>1. ASSUME IInv, [Next]_vars, IInv', NEW m \in Ids, lastError[m] = "timeout"
      PROVE  /\ status'[m] = "FAILED" /\ lastError'[m] = "timeout"
             /\ submits'[m] = submits[m] /\ m \notin acked'
  <2>1. status[m] = "FAILED"
    BY <1>1 DEF IInv, RowInv, Exhausted
  <2>2. /\ status'[m] = "FAILED" /\ lastError'[m] = "timeout"
        /\ submits'[m] = submits[m]
    BY <1>1, <2>1, SettledRowStays
  <2>3. m \notin acked'
    BY <1>1, <2>2 DEF IInv, RowInv
  <2>4. QED
    BY <2>2, <2>3
<1>2. IInv /\ [Next]_vars /\ IInv' =>
        [\A m \in Ids : lastError[m] = "timeout" =>
            /\ status'[m] = "FAILED" /\ lastError'[m] = "timeout"
            /\ submits'[m] = submits[m] /\ m \notin acked']_vars
  BY <1>1
<1>3. QED
  BY Invariance, Inductive, <1>2, PTL DEF Spec, TimeoutIsFinal
-----------------------------------------------------------------------------
(***************************************************************************)
(* The worker implements QueuePromise.                                     *)
(***************************************************************************)
\* A step that stores, completes and acknowledges nothing, and takes no given-up
\* row back, is a giving up of some open rows, or nothing at all.
LEMMA GivingUpMaps ==
    ASSUME UNCHANGED <<DoneRows, acked>>,
           \A m \in Ids : status'[m] = "ABSENT" <=> status[m] = "ABSENT",
           DeadRows \subseteq DeadRows'
    PROVE  [Promise!Next]_(Promise!promiseVars)
<1> DEFINE S == DeadRows' \ DeadRows
<1>1. S \subseteq OpenRows
  BY DEF OpenRows, DoneRows, DeadRows, Exhausted
<1>2. OpenRows' = OpenRows \ S /\ DeadRows' = DeadRows \cup S
  BY DEF OpenRows
<1>3. CASE S = {}
  BY <1>2, <1>3 DEF Promise!promiseVars
<1>4. CASE S # {}
  <2>1. Promise!GiveUp(S)
    BY <1>1, <1>2, <1>4 DEF Promise!GiveUp
  <2>2. S \in SUBSET Ids
    BY <1>1 DEF OpenRows
  <2>3. QED
    BY <2>1, <2>2 DEF Promise!Next
<1>5. QED
  BY <1>3, <1>4

\* A row given up is not claimed, not held, not PROCESSING: it stays given up.
LEMMA DeadStaysDead ==
    ASSUME IInv, [Next]_vars, NEW m \in DeadRows
    PROVE  m \in DeadRows'
<1>1. /\ m \in Ids /\ status[m] = "FAILED" /\ retryCount[m] >= MaxRetries
      /\ m \notin InFlight
  BY DEF DeadRows, Exhausted
<1>2. /\ retryCount \in [Ids -> Nat] /\ status \in [Ids -> Statuses]
      /\ batch \subseteq Ids
  BY DEF IInv, TypeOK, QueueTypeOK, WorkerTypeOK
<1>3. m # current /\ m \notin batch
  BY <1>1, IdsPositive DEF InFlight
<1>4. SUFFICES /\ status'[m] = "FAILED" /\ retryCount'[m] = retryCount[m]
               /\ m # current' /\ m \notin batch'
  BY <1>1, IdsPositive DEF DeadRows, Exhausted, InFlight
<1>5. CASE Receive
  BY <1>1, <1>2, <1>3, <1>5 DEF Receive, SaveMessage, NextId
<1>6. CASE Claim
  <2>1. m \notin PendingBatch
    BY <1>1, <1>2, BatchIsClaimable, RetriesAssumption
  <2>2. QED
    BY <1>1, <1>2, <1>3, <1>6, <2>1 DEF Claim, ClaimPending
<1>7. CASE RefuseRow \/ RegisterRow
  BY <1>1, <1>3, <1>7 DEF RefuseRow, RegisterRow, TakeRow, rowVars
<1>8. CASE RecordFailure
  BY <1>1, <1>2, <1>3, <1>8, IdsPositive DEF RecordFailure, MarkFailed, NextRow
<1>9. CASE Complete
  BY <1>1, <1>2, <1>3, <1>9 DEF Complete, MarkCompleted
<1>10. CASE WatchdogRecovers
  BY <1>1, <1>2, <1>3, <1>10 DEF WatchdogRecovers, ResetStale, StillProcessing
<1>11. CASE /\ UNCHANGED <<status, retryCount>>
            /\ batch' \subseteq batch /\ current' \in {current, None}
  BY <1>1, <1>3, <1>11, IdsPositive
<1>12. QED
  BY <1>5, <1>6, <1>7, <1>8, <1>9, <1>10, <1>11
     DEF Next, Step, Environment, Worker, Submission, ReceiveDuplicate, OtherTableWritten,
         Poll, AuthenticationFails, LeaveBatch, AbandonBatch, NextRow, StartChild,
         ChildSubmits, ChildExits, TimeOut, ChildKilled, BeginCompletion, CompletionRefused, PublishAck,
         RunOnceRaises, WatchdogLooks, Stop, Exit, Start, Tick, vars, rowVars, workerVars

\* The queue keeps its promise: a stored message is settled once and for good, and
\* answered only when it is done.
THEOREM PromiseKept == Spec => KeepsPromise
<1>1. Init => Promise!Init
  <2>1. Init => OpenRows = {} /\ DoneRows = {} /\ DeadRows = {} /\ acked = {}
    BY DEF Init, QueueInit, OpenRows, DoneRows, DeadRows, Exhausted
  <2>2. QED
    BY <2>1 DEF Promise!Init
<1>2. ASSUME IInv, IInv', [Next]_vars
      PROVE  [Promise!Next]_(Promise!promiseVars)
  <2>1. DeadRows \subseteq DeadRows'
    BY <1>2, DeadStaysDead
  <2>2. /\ status \in [Ids -> Statuses] /\ retryCount \in [Ids -> Nat]
        /\ current \in Ids \cup {None} /\ batch \subseteq Ids
    BY <1>2 DEF IInv, TypeOK, QueueTypeOK, WorkerTypeOK
  <2>3. CASE Receive
    <3>1. PICK m \in Ids : SaveMessage(m)
      BY <2>3 DEF Receive
    <3>2. \A k \in Ids \ {m} : status'[k] = status[k] /\ (Exhausted(k)' <=> Exhausted(k))
      BY <2>2, <2>3, <3>1 DEF Receive, SaveMessage, Exhausted, InFlight
    <3>3. status[m] = "ABSENT" /\ status'[m] = "NEW"
      BY <2>2, <3>1 DEF SaveMessage, NextId
    <3>4. /\ OpenRows' = OpenRows \cup {m} /\ m \notin OpenRows
          /\ DoneRows' = DoneRows /\ DeadRows' = DeadRows /\ m \notin DoneRows \cup DeadRows
      BY <3>2, <3>3 DEF OpenRows, DoneRows, DeadRows, Exhausted
    <3>5. Promise!Accept(m)
      BY <2>3, <3>4 DEF Receive, historyVars, Promise!Accept
    <3>6. QED
      BY <3>5 DEF Promise!Next
  <2>4. CASE Complete
    <3>1. current \in Ids /\ current \in InFlight /\ phase = "completing"
      BY <1>2, <2>2, <2>4, IdsPositive DEF Complete, IInv, WorkerInv, InFlight
    <3>2. status[current] \in {"PROCESSING", "FAILED"}
      BY <1>2, <3>1 DEF IInv, HeldInv
    <3>3. \A k \in Ids \ {current} : status'[k] = status[k] /\ (Exhausted(k)' <=> Exhausted(k))
      BY <2>2, <2>4 DEF Complete, MarkCompleted, Exhausted, InFlight
    <3>4. status'[current] = "COMPLETED"
      BY <2>2, <2>4, <3>1 DEF Complete, MarkCompleted
    <3>5. ~Exhausted(current) /\ ~(Exhausted(current)')
      <4>1. ~Exhausted(current)
        BY <3>1 DEF Exhausted
      <4>2. current' = current
        BY <2>4 DEF Complete
      <4>3. ~(Exhausted(current)')
        BY <3>4, <4>2 DEF Exhausted
      <4>4. QED
        BY <4>1, <4>3
    <3>6. /\ current \in OpenRows /\ OpenRows' = OpenRows \ {current}
          /\ DoneRows' = DoneRows \cup {current} /\ DeadRows' = DeadRows
      <4>1. DoneRows' = DoneRows \cup {current}
        BY <3>1, <3>3, <3>4 DEF DoneRows
      <4>2. DeadRows' = DeadRows
        BY <2>4, <3>3, <3>5 DEF DeadRows, Complete
      <4>3. \A k \in Ids : status'[k] # "ABSENT" <=> status[k] # "ABSENT"
        BY <3>2, <3>3, <3>4
      <4>4. current \in OpenRows
        BY <3>1, <3>2, <3>5 DEF OpenRows, DoneRows, DeadRows
      <4>5. OpenRows' = OpenRows \ {current}
        BY <4>1, <4>2, <4>3 DEF OpenRows
      <4>6. QED
        BY <4>1, <4>2, <4>4, <4>5
    <3>7. Promise!Finish(current)
      BY <2>4, <3>6 DEF Complete, historyVars, Promise!Finish
    <3>8. QED
      BY <3>1, <3>7 DEF Promise!Next
  <2>5. CASE PublishAck \/ ReceiveDuplicate
    <3>1. PICK m \in Ids : status[m] = "COMPLETED" /\ acked' \in {acked, acked \cup {m}}
      <4>1. CASE PublishAck
        <5>1. current \in Ids /\ status[current] = "COMPLETED"
          BY <1>2, <2>2, <4>1, IdsPositive DEF PublishAck, IInv, WorkerInv,
               HeldInv, InFlight
        <5>2. QED
          BY <4>1, <5>1 DEF PublishAck
      <4>2. CASE ReceiveDuplicate
        BY <4>2 DEF ReceiveDuplicate, Answerable
      <4>3. QED
        BY <2>5, <4>1, <4>2
    <3>2. UNCHANGED <<status, retryCount, batch>>
      BY <2>5 DEF PublishAck, ReceiveDuplicate, NextRow, rowVars
    <3>3. \A k \in Ids : Exhausted(k)' => Exhausted(k)
      <4>1. CASE PublishAck
        BY <1>2, <2>2, <3>2, <4>1, IdsPositive
           DEF PublishAck, NextRow, IInv, WorkerInv, HeldInv, Exhausted, InFlight
      <4>2. CASE ReceiveDuplicate
        BY <3>2, <4>2 DEF ReceiveDuplicate, Exhausted, InFlight
      <4>3. QED
        BY <2>5, <4>1, <4>2
    <3>4. UNCHANGED <<OpenRows, DoneRows, DeadRows>>
      BY <2>1, <3>2, <3>3 DEF OpenRows, DoneRows, DeadRows
    <3>5. CASE acked' = acked
      BY <3>4, <3>5 DEF Promise!promiseVars
    <3>6. CASE acked' = acked \cup {m}
      <4>1. Promise!Answer(m)
        BY <3>1, <3>4, <3>6 DEF Promise!Answer, DoneRows
      <4>2. QED
        BY <4>1 DEF Promise!Next
    <3>7. QED
      BY <3>1, <3>5, <3>6
  <2>6. CASE /\ UNCHANGED <<DoneRows, acked>>
             /\ \A m \in Ids : status'[m] = "ABSENT" <=> status[m] = "ABSENT"
    BY <2>1, <2>6, GivingUpMaps
  <2>7. CASE Claim
    <3>1. UNCHANGED DoneRows /\ \A m \in Ids : status'[m] = "ABSENT" <=> status[m] = "ABSENT"
      BY <2>2, <2>7, BatchIsClaimable DEF Claim, ClaimPending, DoneRows
    <3>2. QED
      BY <2>6, <2>7, <3>1 DEF Claim, historyVars
  <2>8. CASE RecordFailure
    <3>1. current \in Ids /\ status[current] \in {"PROCESSING", "FAILED"}
      BY <1>2, <2>2, <2>8, IdsPositive DEF RecordFailure, IInv, WorkerInv,
           HeldInv, InFlight
    <3>2. UNCHANGED DoneRows /\ \A m \in Ids : status'[m] = "ABSENT" <=> status[m] = "ABSENT"
      BY <2>2, <2>8, <3>1 DEF RecordFailure, MarkFailed, DoneRows
    <3>3. QED
      BY <2>6, <2>8, <3>2 DEF RecordFailure, historyVars
  <2>9. CASE WatchdogRecovers
    <3>1. UNCHANGED DoneRows /\ \A m \in Ids : status'[m] = "ABSENT" <=> status[m] = "ABSENT"
      BY <2>2, <2>9 DEF WatchdogRecovers, ResetStale, StillProcessing, DoneRows
    <3>2. QED
      BY <2>6, <2>9, <3>1 DEF WatchdogRecovers, historyVars
  <2>10. CASE UNCHANGED <<status, acked>>
    BY <2>6, <2>10 DEF DoneRows
  <2>11. QED
    BY <1>2, <2>3, <2>4, <2>5, <2>7, <2>8, <2>9, <2>10
       DEF Next, Step, Environment, Worker, Submission, OtherTableWritten, Poll,
           AuthenticationFails, LeaveBatch, RefuseRow, RegisterRow, TakeRow, StartChild,
           ChildSubmits, ChildExits, TimeOut, ChildKilled, BeginCompletion, CompletionRefused,
           RunOnceRaises, WatchdogLooks, Stop, Exit, Start, Tick, vars, rowVars, historyVars
<1>3. IInv /\ IInv' /\ [Next]_vars => [Promise!Next]_(Promise!promiseVars)
  BY <1>2
<1>4. QED
  BY Invariance, Inductive, <1>1, <1>3, PTL DEF Spec, KeepsPromise, Promise!Safety
=============================================================================
