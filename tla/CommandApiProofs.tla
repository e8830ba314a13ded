--------------------------- MODULE CommandApiProofs --------------------------
(***************************************************************************)
(* Proofs about CommandApi, for any number of requests and keys and any    *)
(* number of crashes and refused transactions: what clients are told is    *)
(* true, and no key is published twice within the time to live when raw    *)
(* rows are retained at least that long; and the handler keeps what        *)
(* CommandPromise says of it.                                              *)
(***************************************************************************)
EXTENDS CommandApi, TLAPS

\* What CodeOf says of an outcome.
LEMMA CodeOfOutcome ==
    \A o \in Outcomes : /\ CodeOf(o) \in {"200", "503", "4xx"}
                        /\ CodeOf(o) = "200" <=> o = "PUBLISHED"
BY DEF CodeOf, Outcomes

\* The table is empty at first.
LEMMA InitInv == Init => IInv
<1> SUFFICES ASSUME Init
             PROVE  IInv
  OBVIOUS
<1>1. TypeOK
  BY DEF Init, TypeOK, Headers, Phases, Outcomes, RowStates, Codes
<1>2. \A r \in Requests : RequestInv(r) /\ ReplyInv(r) /\ PendingInv(r)
  BY DEF Init, RequestInv, ReplyInv, PendingInv, Stored
<1>3. \A r, q \in Requests : KeyInv(r, q)
  BY DEF Init, KeyInv
<1> QED
  BY <1>1, <1>2, <1>3 DEF IInv

\* A row may be stored under a key that has none: an earlier one is deleted, and so
\* received more than the retention ago.
LEMMA InsertKeepsKeys ==
    ASSUME IInv, NEW r \in Requests, row[r] = "none", ~Conflicts(key[r]), InsertRow(r),
           UNCHANGED key
    PROVE  \A p, q \in Requests : KeyInv(p, q)'
<1>1. ASSUME NEW q \in Requests, q # r, key[q] = key[r], key[r] # NoKey, row[q] # "none"
      PROVE  row[q] = "deleted" /\ receivedAt[q] + Retention < now
  BY <1>1 DEF Conflicts, Stored, IInv, RequestInv
<1>2. /\ row' = [row EXCEPT ![r] = "RECEIVED"]
      /\ receivedAt' = [receivedAt EXCEPT ![r] = now]
  BY DEF InsertRow
<1>3. row \in [Requests -> RowStates] /\ receivedAt \in [Requests -> Nat]
  BY DEF IInv, TypeOK
<1> TAKE p, q \in Requests
<1>4. KeyInv(p, q)
  BY DEF IInv
<1> QED
  BY <1>1, <1>2, <1>3, <1>4 DEF KeyInv

\* A step that leaves the rows and keys alone keeps them in order.
LEMMA KeysUntouched ==
    ASSUME IInv, UNCHANGED <<key, row, receivedAt>>
    PROVE  \A p, q \in Requests : KeyInv(p, q)'
BY DEF IInv, KeyInv

\* A request that is answered without touching the table: with 500, or as a
\* duplicate of q, which 409 describes only after a fault.
LEMMA AnswerInv ==
    ASSUME IInv, NEW r \in Requests, NEW code \in Codes, NEW q \in Requests \cup {NoRequest},
           Answer(r, code, q), UNCHANGED <<key, valid, outcome, tableVars, sent, now>>,
           faults' \in Nat, faults <= faults', phase[r] # "done",
           \/ code = "500" /\ (faults' = 0 => ~Stored(r))
           \/ /\ q \in Requests /\ response[q] = code
              /\ code \in {"200", "503", "4xx"} /\ row[r] = "none"
           \/ code = "409" /\ faults > 0 /\ row[r] = "none"
    PROVE  IInv'
<1>1. TypeOK'
  BY DEF IInv, TypeOK, Answer, tableVars, Phases
<1>2. ASSUME NEW p \in Requests
      PROVE  RequestInv(p)'
  BY DEF IInv, TypeOK, RequestInv, Answer, tableVars, CodeOf
<1>3. ASSUME NEW p \in Requests
      PROVE  ReplyInv(p)'
  BY DEF IInv, TypeOK, ReplyInv, Answer, tableVars
<1>4. ASSUME NEW p \in Requests
      PROVE  PendingInv(p)'
  BY DEF IInv, TypeOK, PendingInv, Stored, Handled, Answer, tableVars
<1> QED
  BY <1>1, <1>2, <1>3, <1>4, KeysUntouched DEF IInv, tableVars

\* A request arrives.
LEMMA ArriveInv ==
    ASSUME IInv, NEW r \in Requests, NEW k \in Headers, NEW v \in BOOLEAN, Arrive(r, k, v)
    PROVE  IInv'
<1>1. TypeOK'
  BY DEF IInv, TypeOK, Arrive, Continue, tableVars, Phases
<1>2. ASSUME NEW p \in Requests
      PROVE  RequestInv(p)' /\ ReplyInv(p)' /\ PendingInv(p)'
  BY DEF IInv, TypeOK, RequestInv, ReplyInv, PendingInv, Stored, Handled,
         Arrive, Continue, tableVars, CodeOf
<1>3. row[r] = "none"
  BY DEF IInv, RequestInv, Arrive
<1>4. ASSUME NEW p \in Requests, NEW q \in Requests
      PROVE  KeyInv(p, q)'
  BY <1>3 DEF IInv, TypeOK, KeyInv, Arrive, tableVars
<1> QED
  BY <1>1, <1>2, <1>4 DEF IInv

\* A rejected request is stored, or fails on its key.
LEMMA RejectInv ==
    ASSUME IInv, NEW r \in Requests, Reject(r)
    PROVE  IInv'
<1>1. row[r] = "none" /\ phase[r] = "open" /\ response[r] = "none"
  BY DEF IInv, RequestInv, Reject
<1>2. CASE Conflicts(key[r])
  <2>1. /\ Answer(r, "500", NoRequest) /\ faults' = faults
        /\ UNCHANGED <<key, valid, outcome, tableVars, sent, now>>
    BY <1>2 DEF Reject
  <2>2. faults \in Nat /\ "500" \in Codes
    BY DEF IInv, TypeOK, Codes
  <2> QED
    BY <1>1, <2>1, <2>2, AnswerInv DEF Stored
<1>3. CASE ~Conflicts(key[r])
  <2>1. /\ InsertRow(r) /\ outcome' = [outcome EXCEPT ![r] = "REJECTED"]
        /\ Continue(r, "delivered")
        /\ UNCHANGED <<key, valid, sent, now, faults>>
    BY <1>3 DEF Reject
  <2>2. TypeOK'
    BY <2>1 DEF IInv, TypeOK, InsertRow, Continue, Phases, Outcomes, RowStates
  <2>3. ASSUME NEW p \in Requests
        PROVE  RequestInv(p)'
    BY <1>1, <2>1 DEF IInv, TypeOK, RequestInv, InsertRow, Continue, CodeOf
  <2>4. ASSUME NEW p \in Requests
        PROVE  ReplyInv(p)' /\ PendingInv(p)'
    BY <1>1, <2>1 DEF IInv, TypeOK, ReplyInv, PendingInv, Stored, Handled,
                      InsertRow, Continue
  <2>5. \A p, q \in Requests : KeyInv(p, q)'
    BY <1>1, <1>3, <2>1, InsertKeepsKeys
  <2> QED
    BY <2>2, <2>3, <2>4, <2>5 DEF IInv
<1> QED
  BY <1>2, <1>3

\* A duplicate hears what is stored for the original, or 409 when an interrupted
\* request left nothing.
LEMMA DuplicateInv ==
    ASSUME IInv, NEW r \in Requests, NEW q \in Original(key[r]),
           AnswerDuplicate(r, q), HoldsLoop(r), row[r] = "none", phase[r] # "done",
           UNCHANGED <<key, valid, outcome, tableVars, sent, now, faults>>
    PROVE  IInv'
<1>1. q \in Requests /\ Stored(q) /\ q # r
  BY DEF Original, Stored
<1>2. faults \in Nat /\ faults' = faults /\ response[q] \in Codes
  BY <1>1 DEF IInv, TypeOK
<1>3. CASE response[q] = "none"
  <2>1. faults > 0
    BY <1>1, <1>2, <1>3 DEF IInv, PendingInv, HoldsLoop
  <2>2. Answer(r, "409", q) /\ "409" \in Codes
    BY <1>3 DEF AnswerDuplicate, Codes
  <2> QED
    BY <1>1, <1>2, <2>1, <2>2, AnswerInv
<1>4. CASE response[q] # "none"
  <2>1. Answer(r, response[q], q)
    BY <1>4 DEF AnswerDuplicate
  <2>2. response[q] \in {"200", "503", "4xx"}
    BY <1>1, <1>4, CodeOfOutcome DEF IInv, TypeOK, RequestInv
  <2> QED
    BY <1>1, <1>2, <2>1, <2>2, AnswerInv
<1> QED
  BY <1>3, <1>4

\* A handler goes on to its next step without touching the table.
LEMMA ContinueInv ==
    ASSUME IInv, NEW r \in Requests, NEW p \in {"checked", "conflicted"}, Continue(r, p),
           phase[r] \in {"open", "checked"},
           UNCHANGED <<key, valid, outcome, tableVars, sent, now, faults>>
    PROVE  IInv'
<1>1. TypeOK'
  BY DEF IInv, TypeOK, Continue, tableVars, Phases
<1>2. ASSUME NEW q \in Requests
      PROVE  RequestInv(q)' /\ ReplyInv(q)' /\ PendingInv(q)'
  BY DEF IInv, TypeOK, RequestInv, ReplyInv, PendingInv, Stored, Handled,
         Continue, tableVars, CodeOf
<1> QED
  BY <1>1, <1>2, KeysUntouched DEF IInv, tableVars

\* Looking for a duplicate before the insertion.
LEMMA CheckInv ==
    ASSUME IInv, NEW r \in Requests, Check(r)
    PROVE  IInv'
<1>1. row[r] = "none" /\ phase[r] = "open"
  BY DEF IInv, RequestInv, Check
<1>2. CASE \E q \in Original(key[r]) : AnswerDuplicate(r, q)
  BY <1>1, <1>2, DuplicateInv DEF Check
<1>3. CASE Continue(r, "checked")
  BY <1>1, <1>3, ContinueInv DEF Check
<1> QED
  BY <1>2, <1>3 DEF Check

\* Looking for a duplicate after the insertion failed.
LEMMA RecheckInv ==
    ASSUME IInv, NEW r \in Requests, Recheck(r)
    PROVE  IInv'
<1>1. row[r] = "none" /\ phase[r] = "conflicted"
  BY DEF IInv, RequestInv, Recheck
<1>2. CASE \E q \in Original(key[r]) : AnswerDuplicate(r, q)
  BY <1>1, <1>2, DuplicateInv DEF Recheck
<1>3. CASE Answer(r, "500", NoRequest)
  <2>1. faults \in Nat /\ "500" \in Codes
    BY DEF IInv, TypeOK, Codes
  <2> QED
    BY <1>1, <1>3, <2>1, AnswerInv DEF Recheck, Stored
<1> QED
  BY <1>2, <1>3 DEF Recheck

\* The insertion of a valid request.
LEMMA InsertInv ==
    ASSUME IInv, NEW r \in Requests, Insert(r)
    PROVE  IInv'
<1>1. row[r] = "none" /\ phase[r] = "checked" /\ outcome[r] = "none" /\ response[r] = "none"
  BY DEF IInv, RequestInv, Insert
<1>2. CASE Conflicts(key[r])
  BY <1>1, <1>2, ContinueInv DEF Insert
<1>3. CASE ~Conflicts(key[r])
  <2>1. /\ InsertRow(r) /\ Continue(r, "inserted")
        /\ UNCHANGED <<key, valid, outcome, sent, now, faults>>
    BY <1>3 DEF Insert
  <2>2. TypeOK'
    BY <2>1 DEF IInv, TypeOK, InsertRow, Continue, Phases, RowStates
  <2>3. ASSUME NEW p \in Requests
        PROVE  RequestInv(p)'
    BY <1>1, <2>1 DEF IInv, TypeOK, RequestInv, InsertRow, Continue, CodeOf
  <2>4. ASSUME NEW p \in Requests
        PROVE  ReplyInv(p)' /\ PendingInv(p)'
    BY <1>1, <2>1 DEF IInv, TypeOK, ReplyInv, PendingInv, Stored, Handled,
                      InsertRow, Continue
  <2>5. \A p, q \in Requests : KeyInv(p, q)'
    BY <1>1, <1>3, <2>1, InsertKeepsKeys
  <2> QED
    BY <2>2, <2>3, <2>4, <2>5 DEF IInv
<1> QED
  BY <1>2, <1>3

\* The publication decides the outcome.
LEMMA DeliverInv ==
    ASSUME IInv, NEW r \in Requests, Deliver(r)
    PROVE  IInv'
<1>1. PICK success \in BOOLEAN :
         /\ outcome' = [outcome EXCEPT ![r] = IF success THEN "PUBLISHED" ELSE "FAILED"]
         /\ sent' = [sent EXCEPT ![r] = success]
  BY DEF Deliver
<1>2. /\ Continue(r, "delivered") /\ phase[r] = "inserted"
      /\ UNCHANGED <<key, valid, tableVars, now, faults>>
  BY DEF Deliver
<1>3. row[r] = "RECEIVED" /\ response[r] = "none"
  BY <1>2 DEF IInv, RequestInv
<1>4. TypeOK'
  BY <1>1, <1>2 DEF IInv, TypeOK, Continue, tableVars, Phases, Outcomes
<1>5. ASSUME NEW p \in Requests
      PROVE  RequestInv(p)'
  <2>1. RequestInv(p)
    BY DEF IInv
  <2>2. CASE p = r
    <3>1. /\ outcome'[r] = IF success THEN "PUBLISHED" ELSE "FAILED"
          /\ sent'[r] = success
      BY <1>1 DEF IInv, TypeOK
    <3>2. sent'[r] <=> outcome'[r] = "PUBLISHED"
      BY <3>1
    <3> QED
      BY <1>2, <1>3, <2>2, <3>1, <3>2 DEF IInv, TypeOK, RequestInv, Continue, tableVars
  <2>3. CASE p # r
    BY <1>1, <1>2, <2>1, <2>3 DEF IInv, TypeOK, RequestInv, Continue, tableVars, CodeOf
  <2> QED
    BY <2>2, <2>3
<1>6. ASSUME NEW p \in Requests
      PROVE  ReplyInv(p)' /\ PendingInv(p)'
  BY <1>2 DEF IInv, TypeOK, ReplyInv, PendingInv, Stored, Handled, Continue, tableVars
<1> QED
  BY <1>2, <1>4, <1>5, <1>6, KeysUntouched DEF IInv, tableVars

\* The outcome is stored.
LEMMA MarkInv ==
    ASSUME IInv, NEW r \in Requests, Mark(r)
    PROVE  IInv'
<1>1. /\ phase[r] = "delivered" /\ outcome[r] \in {"PUBLISHED", "FAILED", "REJECTED"}
      /\ response[r] = "none"
  BY DEF IInv, TypeOK, RequestInv, Mark, Outcomes
<1>2. CASE Stored(r)
  <2>1. /\ row' = [row EXCEPT ![r] = outcome[r]] /\ Continue(r, "marked")
        /\ UNCHANGED <<key, valid, outcome, receivedAt, response, sent, now, faults>>
    BY <1>2 DEF Mark
  <2>2. TypeOK'
    BY <1>1, <2>1 DEF IInv, TypeOK, Continue, Phases, RowStates
  <2>3. ASSUME NEW p \in Requests
        PROVE  RequestInv(p)'
    BY <1>1, <2>1 DEF IInv, TypeOK, RequestInv, Continue, CodeOf
  <2>4. ASSUME NEW p \in Requests
        PROVE  ReplyInv(p)' /\ PendingInv(p)'
    BY <1>1, <2>1 DEF IInv, TypeOK, ReplyInv, PendingInv, Stored, Handled, Continue
  <2>5. ASSUME NEW p \in Requests, NEW q \in Requests
        PROVE  KeyInv(p, q)'
    BY <1>1, <1>2, <2>1 DEF IInv, TypeOK, KeyInv, Stored
  <2> QED
    BY <2>2, <2>3, <2>4, <2>5 DEF IInv
<1>3. CASE ~Stored(r)
  <2>1. faults \in Nat /\ "500" \in Codes
    BY DEF IInv, TypeOK, Codes
  <2>2. /\ Answer(r, "500", NoRequest) /\ faults' = faults
        /\ UNCHANGED <<key, valid, outcome, tableVars, sent, now>>
    BY <1>3 DEF Mark, tableVars
  <2> QED
    BY <1>1, <1>3, <2>1, <2>2, AnswerInv
<1> QED
  BY <1>2, <1>3

\* The response is stored and sent.
LEMMA SaveInv ==
    ASSUME IInv, NEW r \in Requests, Save(r)
    PROVE  IInv'
<1>1. phase[r] = "marked" /\ outcome[r] \in Outcomes /\ outcome[r] # "none"
  BY DEF IInv, TypeOK, RequestInv, Save
<1>2. CASE Stored(r)
  <2> DEFINE code == CodeOf(outcome[r])
  <2>1. /\ response' = [response EXCEPT ![r] = code] /\ Answer(r, code, r)
        /\ UNCHANGED <<key, valid, outcome, row, receivedAt, sent, now, faults>>
    BY <1>2 DEF Save
  <2>2. code \in {"200", "503", "4xx"}
    BY <1>1, CodeOfOutcome
  <2>3. \A p \in Requests : p # r => CodeOf(outcome[p])' = CodeOf(outcome[p])
    BY <2>1 DEF CodeOf
  <2>4. CodeOf(outcome[r])' = code
    BY <2>1 DEF CodeOf
  <2> HIDE DEF code
  <2>5. TypeOK'
    BY <2>1, <2>2 DEF IInv, TypeOK, Answer, Phases, Codes
  <2>6. ASSUME NEW p \in Requests
        PROVE  RequestInv(p)'
    BY <1>1, <1>2, <2>1, <2>2, <2>3, <2>4
       DEF IInv, TypeOK, RequestInv, Answer, Stored
  <2>7. response[r] = "none"
    BY <1>1 DEF IInv, RequestInv
  <2>8. ASSUME NEW p \in Requests
        PROVE  ReplyInv(p)'
    BY <2>1, <2>2, <2>7 DEF IInv, TypeOK, ReplyInv, Answer
  <2>9. ASSUME NEW p \in Requests
        PROVE  PendingInv(p)'
    BY <2>1, <2>2 DEF IInv, TypeOK, PendingInv, Stored, Handled, Answer
  <2> QED
    BY <2>1, <2>5, <2>6, <2>8, <2>9, KeysUntouched DEF IInv
<1>3. CASE ~Stored(r)
  <2>1. faults \in Nat /\ "500" \in Codes
    BY DEF IInv, TypeOK, Codes
  <2>2. /\ Answer(r, "500", NoRequest) /\ faults' = faults
        /\ UNCHANGED <<key, valid, outcome, tableVars, sent, now>>
    BY <1>3 DEF Save, tableVars
  <2> QED
    BY <1>1, <1>3, <2>1, <2>2, AnswerInv
<1> QED
  BY <1>2, <1>3

\* A refused transaction.
LEMMA StoreFailsInv ==
    ASSUME IInv, NEW r \in Requests, StoreFails(r)
    PROVE  IInv'
<1>1. faults \in Nat /\ faults' = faults + 1 /\ "500" \in Codes
  BY DEF IInv, TypeOK, StoreFails, Codes
<1>2. /\ Answer(r, "500", NoRequest) /\ phase[r] # "done"
      /\ UNCHANGED <<key, valid, outcome, tableVars, sent, now>>
  BY DEF StoreFails
<1> QED
  BY <1>1, <1>2, AnswerInv

\* The end of the process, between any two steps.
LEMMA RestartInv ==
    ASSUME IInv, Restart
    PROVE  IInv'
<1>1. TypeOK'
  BY DEF IInv, TypeOK, Restart, tableVars, Phases
<1>2. ASSUME NEW p \in Requests
      PROVE  RequestInv(p)' /\ ReplyInv(p)'
  BY DEF IInv, TypeOK, RequestInv, ReplyInv, Restart, tableVars, CodeOf
<1>3. ASSUME NEW p \in Requests
      PROVE  PendingInv(p)'
  BY DEF IInv, TypeOK, PendingInv, Restart
<1> QED
  BY <1>1, <1>2, <1>3, KeysUntouched DEF IInv, Restart, tableVars

\* Cleanup deletes rows beyond the retention, whose outcome is stored.
LEMMA CleanupInv ==
    ASSUME IInv, Cleanup
    PROVE  IInv'
<1>1. PICK D \in SUBSET OldRows :
         row' = [r \in Requests |-> IF r \in D THEN "deleted" ELSE row[r]]
  BY DEF Cleanup
<1>2. UNCHANGED <<key, valid, phase, outcome, receivedAt, response, reply, sent, now, faults>>
  BY DEF Cleanup
<1>3. \A r \in D : /\ row[r] \in {"PUBLISHED", "FAILED", "REJECTED"}
                   /\ receivedAt[r] + Retention < now
  BY DEF OldRows
<1>4. TypeOK'
  BY <1>1, <1>2 DEF IInv, TypeOK, RowStates
<1>5. ASSUME NEW p \in Requests
      PROVE  RequestInv(p)'
  BY <1>1, <1>2, <1>3 DEF IInv, RequestInv, CodeOf
<1>6. ASSUME NEW p \in Requests
      PROVE  ReplyInv(p)' /\ PendingInv(p)'
  BY <1>1, <1>2 DEF IInv, ReplyInv, PendingInv, Stored, Handled
<1>7. ASSUME NEW p \in Requests, NEW q \in Requests
      PROVE  KeyInv(p, q)'
  BY <1>1, <1>2, <1>3 DEF IInv, KeyInv
<1> QED
  BY <1>4, <1>5, <1>6, <1>7 DEF IInv

\* Time passes, or nothing happens.
LEMMA QuietInv ==
    ASSUME IInv, Tick \/ UNCHANGED vars
    PROVE  IInv'
<1>1. UNCHANGED <<key, valid, phase, outcome, tableVars, reply, sent, faults>>
  BY DEF Tick, vars
<1>2. now \in Nat /\ now' \in Nat /\ now <= now'
  BY DEF IInv, TypeOK, Tick, vars
<1>3. TypeOK'
  BY <1>1, <1>2 DEF IInv, TypeOK, tableVars
<1>4. ASSUME NEW p \in Requests
      PROVE  RequestInv(p)'
  <2>1. RequestInv(p) /\ receivedAt[p] \in Nat
    BY DEF IInv, TypeOK
  <2> QED
    BY <1>1, <1>2, <2>1, RetentionAssumption DEF RequestInv, tableVars, CodeOf
<1>5. ASSUME NEW p \in Requests
      PROVE  ReplyInv(p)' /\ PendingInv(p)'
  BY <1>1 DEF IInv, ReplyInv, PendingInv, Stored, Handled, tableVars
<1> QED
  BY <1>1, <1>3, <1>4, <1>5, KeysUntouched DEF IInv, tableVars

\* The inductive invariant holds in every reachable state.
THEOREM ApiInvariance == Spec => []IInv
<1>1. ASSUME IInv, NEW r \in Requests, Handle(r)
      PROVE  IInv'
  BY <1>1, RejectInv, CheckInv, InsertInv, RecheckInv, DeliverInv, MarkInv, SaveInv
     DEF Handle
<1>2. IInv /\ [Next]_vars => IInv'
  BY <1>1, ArriveInv, StoreFailsInv, RestartInv, CleanupInv, QuietInv DEF Next
<1> QED
  BY <1>2, InitInv, PTL DEF Spec

\* No client is told something untrue about a command, through any sequence of
\* duplicates, crashes, refused transactions and cleanups.
THEOREM AnswersTrue == Spec => []AnswersAreTrue
<1>1. ASSUME IInv, NEW r \in Requests
      PROVE  LET q == reply[r].of IN
             /\ reply[r].code = "200" => sent[q]
             /\ reply[r].code \in {"503", "4xx"} => ~sent[q]
             /\ (reply[r].code \in {"200", "503", "4xx"} /\ phase[q] = "done")
                   => reply[q].code = reply[r].code
  <2> DEFINE q == reply[r].of
  <2>1. SUFFICES ASSUME reply[r].code \in {"200", "503", "4xx"}
                 PROVE  /\ reply[r].code = "200" <=> sent[q]
                        /\ reply[q].code = reply[r].code
    OBVIOUS
  <2>2. q \in Requests /\ response[q] = reply[r].code
    BY <1>1, <2>1 DEF IInv, ReplyInv
  <2> HIDE DEF q
  <2>3. /\ response[q] = CodeOf(outcome[q]) /\ outcome[q] \in Outcomes
        /\ reply[q] = [code |-> response[q], of |-> q]
        /\ sent[q] <=> outcome[q] = "PUBLISHED"
    BY <1>1, <2>1, <2>2 DEF IInv, TypeOK, RequestInv
  <2> QED
    BY <2>2, <2>3, CodeOfOutcome
<1>2. IInv => AnswersAreTrue
  BY <1>1 DEF AnswersAreTrue
<1> QED
  BY <1>2, ApiInvariance, PTL

\* With a retention no shorter than the time to live, no key is published twice
\* within the time to live.
THEOREM KeyPublishedOnce ==
    ASSUME Ttl <= Retention
    PROVE  Spec => []PublishedOncePerKey
<1>1. ASSUME IInv, NEW r \in Requests, NEW q \in Requests,
             r # q, sent[r], sent[q], key[r] = key[q], key[r] # NoKey
      PROVE  receivedAt[r] + Ttl < receivedAt[q] \/ receivedAt[q] + Ttl < receivedAt[r]
  <2>1. row[r] # "none" /\ row[q] # "none"
    BY <1>1 DEF IInv, RequestInv
  <2>2. \/ receivedAt[r] + Retention < receivedAt[q]
        \/ receivedAt[q] + Retention < receivedAt[r]
    BY <1>1, <2>1 DEF IInv, KeyInv
  <2>3. receivedAt[r] \in Nat /\ receivedAt[q] \in Nat
    BY <1>1 DEF IInv, TypeOK
  <2> QED
    BY <2>2, <2>3, TtlAssumption, RetentionAssumption
<1>2. IInv => PublishedOncePerKey
  BY <1>1 DEF PublishedOncePerKey
<1> QED
  BY <1>2, ApiInvariance, PTL

\* 409 duplicate_pending takes a crash or an error: in normal operation the event
\* loop keeps a request's duplicates out until its response is stored.
THEOREM PendingTakesFault == Spec => []PendingOnlyAfterFault
<1>1. IInv => PendingOnlyAfterFault
  BY DEF IInv, TypeOK, PendingInv, PendingOnlyAfterFault
<1> QED
  BY <1>1, ApiInvariance, PTL

-----------------------------------------------------------------------------
(***************************************************************************)
(* The promise to the clients: each step of the handler asks, decides,     *)
(* tells or leaves what was promised alone.                                *)
(***************************************************************************)
\* What a client heard, read off its reply.
LEMMA ToldIsReply ==
    ASSUME NEW r \in Requests
    PROVE  /\ reply[r].code = "none" => Told[r] = Promise!Nothing
           /\ reply[r].code \in {"409", "500"} => Told[r] = Promise!Excuse
           /\ reply[r].code = "200"
                => Told[r] = [verdict |-> "published", of |-> reply[r].of]
           /\ reply[r].code \in {"503", "4xx"}
                => Told[r] = [verdict |-> "withheld", of |-> reply[r].of]
BY DEF Told, Promise!Nothing, Promise!Excuse

\* The verdict a stored response stands for is the fate of its command.
LEMMA StoredIsFate ==
    ASSUME IInv, NEW q \in Requests, outcome[q] # "none"
    PROVE  /\ CodeOf(outcome[q]) \in {"200", "503", "4xx"}
           /\ CodeOf(outcome[q]) = "200" => Fate[q] = "published"
           /\ CodeOf(outcome[q]) \in {"503", "4xx"} => Fate[q] = "withheld"
           /\ Fate[q] # "open"
<1>1. outcome[q] \in Outcomes
  BY DEF IInv, TypeOK
<1> QED
  BY <1>1, CodeOfOutcome DEF Fate

\* A step that gives no new answer leaves what the clients were told.
LEMMA NothingTold ==
    ASSUME UNCHANGED reply
    PROVE  Told' = Told
BY DEF Told

\* An answer is given to one client, and only its phase changes.
LEMMA AnswerTells ==
    ASSUME IInv, NEW r \in Requests, NEW code \in Codes, NEW q, Answer(r, code, q),
           phase[r] \notin {"new", "done"}
    PROVE  /\ r \in Asked /\ Asked' = Asked /\ Told[r] = Promise!Nothing
           /\ code = "200"
                => Told' = [Told EXCEPT ![r] = [verdict |-> "published", of |-> q]]
           /\ code \in {"503", "4xx"}
                => Told' = [Told EXCEPT ![r] = [verdict |-> "withheld", of |-> q]]
           /\ code \in {"409", "500"} => Told' = [Told EXCEPT ![r] = Promise!Excuse]
           /\ code # "none" => Told' # Told
<1>1. /\ reply' = [reply EXCEPT ![r] = [code |-> code, of |-> q]]
      /\ phase' = [phase EXCEPT ![r] = "done"]
      /\ phase \in [Requests -> Phases]
      /\ reply \in [Requests -> [code : Codes, of : Requests \cup {NoRequest}]]
  BY DEF Answer, IInv, TypeOK
<1>2. r \in Asked /\ Asked' = Asked
  BY <1>1 DEF Asked
<1>3. Told[r] = Promise!Nothing
  BY ToldIsReply DEF IInv, RequestInv
<1>4. reply'[r].code = code /\ reply'[r].of = q
  BY <1>1
<1>5. \A p \in Requests \ {r} : reply'[p] = reply[p]
  BY <1>1
<1>6. \A p \in Requests \ {r} : Told'[p] = Told[p]
  BY <1>5 DEF Told
<1>7. Told = [p \in Requests |-> Told[p]] /\ Told' = [p \in Requests |-> Told'[p]]
  BY DEF Told
<1>8. /\ code = "200" => Told'[r] = [verdict |-> "published", of |-> q]
      /\ code \in {"503", "4xx"} => Told'[r] = [verdict |-> "withheld", of |-> q]
      /\ code \in {"409", "500"} => Told'[r] = Promise!Excuse
  BY <1>4 DEF Told, Promise!Excuse
<1> HIDE DEF Told
<1>9. code # "none" => Told'[r].verdict # "none"
  BY <1>8 DEF Codes, Promise!Excuse
<1>10. code # "none" => Told' # Told
  BY <1>3, <1>9 DEF Promise!Nothing
<1> QED
  BY <1>2, <1>3, <1>6, <1>7, <1>8, <1>10

\* An answer that excuses itself.
LEMMA ExcuseKeeps ==
    ASSUME IInv, NEW r \in Requests, NEW code \in {"409", "500"}, NEW q, Answer(r, code, q),
           phase[r] \notin {"new", "done"}, UNCHANGED <<key, outcome>>
    PROVE  Promise!Next
<1>1. Fate' = Fate
  BY DEF Fate
<1>2. code \in Codes
  BY DEF Codes
<1> QED
  BY <1>1, <1>2, AnswerTells DEF Promise!Next, Promise!TellNothing

\* An answer with the response stored for a request of its own or of its key.
LEMMA VerdictKeeps ==
    ASSUME IInv, NEW r \in Requests, NEW q \in Requests,
           outcome[q] # "none", Answer(r, CodeOf(outcome[q]), q),
           q = r \/ (key[q] = key[r] /\ key[r] # NoKey /\ q \in Asked),
           phase[r] \notin {"new", "done"}, UNCHANGED <<key, outcome>>
    PROVE  Promise!Next
<1> DEFINE code == CodeOf(outcome[q])
<1>1. Fate' = Fate
  BY DEF Fate
<1>2. /\ code \in {"200", "503", "4xx"} /\ Fate[q] # "open"
      /\ code = "200" => Fate[q] = "published"
      /\ code \in {"503", "4xx"} => Fate[q] = "withheld"
  BY StoredIsFate
<1>3. code \in Codes /\ Answer(r, code, q)
  BY <1>2 DEF Codes
<1> HIDE DEF code
<1>4. /\ Told' = [Told EXCEPT ![r] = [verdict |-> Fate[q], of |-> q]]
      /\ Told' # Told
  BY <1>2, <1>3, AnswerTells
<1>5. r \in Asked /\ Asked' = Asked /\ Told[r] = Promise!Nothing
  BY <1>3, AnswerTells
<1>6. Promise!Tell(r, q)
  BY <1>1, <1>2, <1>4, <1>5 DEF Promise!Tell
<1> QED
  BY <1>4, <1>6 DEF Promise!Next

\* A duplicate hears what is stored for the original of its key, or is excused.
LEMMA DuplicateKeeps ==
    ASSUME IInv, NEW r \in Requests, NEW q \in Original(key[r]), AnswerDuplicate(r, q),
           phase[r] \notin {"new", "done"}, UNCHANGED <<key, outcome>>
    PROVE  Promise!Next
<1>1. q \in Requests /\ key[q] = key[r] /\ key[r] # NoKey
  BY HeadersAssumption DEF Original
<1>2. CASE response[q] = "none"
  BY <1>2, ExcuseKeeps DEF AnswerDuplicate
<1>3. CASE response[q] # "none"
  <2>1. outcome[q] # "none" /\ response[q] = CodeOf(outcome[q]) /\ q \in Asked
    BY <1>1, <1>3 DEF IInv, RequestInv, Asked
  <2>2. Answer(r, CodeOf(outcome[q]), q)
    BY <1>3, <2>1 DEF AnswerDuplicate
  <2> QED
    BY <1>1, <2>1, <2>2, VerdictKeeps
<1> QED
  BY <1>2, <1>3

\* The handler goes on: the request was asked and stays so.
LEMMA ContinueKeeps ==
    ASSUME IInv, NEW r \in Requests, NEW p \in Phases \ {"new"}, Continue(r, p),
           phase[r] # "new"
    PROVE  r \in Asked /\ Asked' = Asked /\ Told' = Told
BY NothingTold DEF IInv, TypeOK, Continue, Asked

\* The fate of a command is decided.
LEMMA DecisionKeeps ==
    ASSUME IInv, NEW r \in Requests, NEW p \in Phases \ {"new"}, Continue(r, p),
           phase[r] \notin {"new", "done"}, outcome[r] = "none",
           NEW o \in Outcomes \ {"none"}, outcome' = [outcome EXCEPT ![r] = o],
           UNCHANGED key
    PROVE  Promise!Next
<1> DEFINE f == IF o = "PUBLISHED" THEN "published" ELSE "withheld"
<1>1. r \in Asked /\ Asked' = Asked /\ Told' = Told
  BY ContinueKeeps
<1>2. Told[r] = Promise!Nothing
  BY ToldIsReply DEF IInv, RequestInv
<1>3. Fate[r] = "open" /\ Fate' = [Fate EXCEPT ![r] = f]
  BY DEF Fate, IInv, TypeOK
<1>4. f \in {"published", "withheld"} /\ Fate'[r] = f
  BY DEF Fate, IInv, TypeOK
<1> HIDE DEF f
<1>5. Promise!Decide(r, f)
  BY <1>1, <1>2, <1>3 DEF Promise!Decide
<1>6. Fate' # Fate
  BY <1>3, <1>4
<1> QED
  BY <1>4, <1>5, <1>6 DEF Promise!Next

\* Each step of the handler.
LEMMA HandleKeeps ==
    ASSUME IInv, NEW r \in Requests, Handle(r)
    PROVE  Promise!Next \/ UNCHANGED <<Asked, key, Fate, Told>>
<1>1. CASE Reject(r)
  <2>1. phase[r] = "open" /\ outcome[r] = "none" /\ UNCHANGED key
    BY <1>1 DEF Reject, IInv, RequestInv
  <2>2. CASE Conflicts(key[r])
    BY <1>1, <2>1, <2>2, ExcuseKeeps DEF Reject
  <2>3. CASE ~Conflicts(key[r])
    BY <1>1, <2>1, <2>3, DecisionKeeps DEF Reject, Phases, Outcomes
  <2> QED
    BY <2>2, <2>3
<1>2. CASE Check(r)
  <2>1. phase[r] = "open" /\ UNCHANGED <<key, outcome>>
    BY <1>2 DEF Check
  <2>2. CASE \E q \in Original(key[r]) : AnswerDuplicate(r, q)
    BY <2>1, <2>2, DuplicateKeeps
  <2>3. CASE Continue(r, "checked")
    BY <2>1, <2>3, ContinueKeeps DEF Phases, Fate
  <2> QED
    BY <1>2, <2>2, <2>3 DEF Check
<1>3. CASE Insert(r)
  <2>1. /\ phase[r] = "checked" /\ UNCHANGED <<key, outcome>>
        /\ Continue(r, "conflicted") \/ Continue(r, "inserted")
    BY <1>3 DEF Insert
  <2> QED
    BY <2>1, ContinueKeeps DEF Phases, Fate
<1>4. CASE Recheck(r)
  <2>1. phase[r] = "conflicted" /\ UNCHANGED <<key, outcome>>
    BY <1>4 DEF Recheck
  <2>2. CASE \E q \in Original(key[r]) : AnswerDuplicate(r, q)
    BY <2>1, <2>2, DuplicateKeeps
  <2>3. CASE Answer(r, "500", NoRequest)
    BY <2>1, <2>3, ExcuseKeeps
  <2> QED
    BY <1>4, <2>2, <2>3 DEF Recheck
<1>5. CASE Deliver(r)
  <2>1. PICK success \in BOOLEAN :
           outcome' = [outcome EXCEPT ![r] = IF success THEN "PUBLISHED" ELSE "FAILED"]
    BY <1>5 DEF Deliver
  <2>2. /\ phase[r] = "inserted" /\ outcome[r] = "none" /\ UNCHANGED key
        /\ Continue(r, "delivered")
    BY <1>5 DEF Deliver, IInv, RequestInv
  <2>3. (IF success THEN "PUBLISHED" ELSE "FAILED") \in Outcomes \ {"none"}
    BY DEF Outcomes
  <2> QED
    BY <2>1, <2>2, <2>3, DecisionKeeps DEF Phases
<1>6. CASE Mark(r)
  <2>1. phase[r] = "delivered" /\ UNCHANGED <<key, outcome>>
    BY <1>6 DEF Mark
  <2>2. CASE Continue(r, "marked")
    BY <2>1, <2>2, ContinueKeeps DEF Phases, Fate
  <2>3. CASE Answer(r, "500", NoRequest)
    BY <2>1, <2>3, ExcuseKeeps
  <2> QED
    BY <1>6, <2>2, <2>3 DEF Mark
<1>7. CASE Save(r)
  <2>1. phase[r] = "marked" /\ outcome[r] # "none" /\ UNCHANGED <<key, outcome>>
    BY <1>7 DEF Save, IInv, RequestInv
  <2>2. CASE Answer(r, CodeOf(outcome[r]), r)
    BY <2>1, <2>2, VerdictKeeps
  <2>3. CASE Answer(r, "500", NoRequest)
    BY <2>1, <2>3, ExcuseKeeps
  <2> QED
    BY <1>7, <2>2, <2>3 DEF Save
<1> QED
  BY <1>1, <1>2, <1>3, <1>4, <1>5, <1>6, <1>7 DEF Handle

\* Through every interleaving of handlers, refused transactions, restarts and
\* cleanups, the handler does what the clients are promised.
THEOREM PromiseKept == Spec => KeepsCommandPromise
<1>1. ASSUME Init
      PROVE  Promise!Init
  BY <1>1 DEF Init, Promise!Init, Asked, Fate, Told, Promise!Nothing
<1>2. ASSUME IInv, [Next]_vars
      PROVE  Promise!Next \/ UNCHANGED <<Asked, key, Fate, Told>>
  <2>1. ASSUME NEW r \in Requests, NEW k \in Headers, NEW v \in BOOLEAN, Arrive(r, k, v)
        PROVE  Promise!Next
    <3>1. r \notin Asked /\ Asked' = Asked \cup {r}
      BY <1>2, <2>1 DEF IInv, TypeOK, Arrive, Continue, Asked
    <3>2. key' = [key EXCEPT ![r] = k] /\ Fate' = Fate /\ Told' = Told
      BY <2>1, NothingTold DEF Arrive, Continue, Fate
    <3>3. Promise!Ask(r, k)
      BY <3>1, <3>2 DEF Promise!Ask
    <3> QED
      BY <3>1, <3>3 DEF Promise!Next
  <2>2. ASSUME NEW r \in Requests, Handle(r)
        PROVE  Promise!Next \/ UNCHANGED <<Asked, key, Fate, Told>>
    BY <1>2, <2>2, HandleKeeps
  <2>3. ASSUME NEW r \in Requests, StoreFails(r)
        PROVE  Promise!Next
    BY <1>2, <2>3, ExcuseKeeps DEF StoreFails
  <2>4. CASE Restart
    BY <1>2, <2>4, NothingTold DEF Restart, Asked, Fate
  <2>5. CASE Cleanup
    BY <2>5, NothingTold DEF Cleanup, Asked, Fate
  <2>6. CASE Tick \/ UNCHANGED vars
    BY <2>6, NothingTold DEF Tick, vars, Asked, Fate
  <2> QED
    BY <1>2, <2>1, <2>2, <2>3, <2>4, <2>5, <2>6 DEF Next
<1>3. IInv /\ [Next]_vars => [Promise!Next]_(Promise!promiseVars)
  BY <1>2 DEF Promise!promiseVars
<1> QED
  BY <1>1, <1>3, ApiInvariance, PTL DEF Spec, KeepsCommandPromise, Promise!Spec
=============================================================================
