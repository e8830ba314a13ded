----------------------------- MODULE CommandApi ------------------------------
(***************************************************************************)
(* POST /api/v1/plc/command (app/api.py) with its audit table api_commands *)
(* (app/database.py): a command of Odoo is checked against the requests    *)
(* already stored under its Idempotency-Key, stored, published to the PLC  *)
(* by MQTT, and its response stored for later duplicates. Each action is   *)
(* one transaction or one publication of the handler; the cleanup thread,  *)
(* refused transactions and the end of the process come between any two.   *)
(*                                                                         *)
(* plc_command is a coroutine that awaits only the request body: from then *)
(* on it holds the event loop, and no other request is handled.            *)
(***************************************************************************)
EXTENDS Naturals

CONSTANTS
    MaxRequests,  \* bound: requests ever received
    Keys,         \* values of the Idempotency-Key header
    EmptyKey,     \* the header is there, and empty
    NoKey,        \* the header is missing
    Ttl,          \* BEB_API_IDEMPOTENCY_TTL_SECONDS, in ticks
    Retention,    \* SQLITE_RAW_RETENTION_DAYS, in ticks
    MaxFaults,    \* bound: refused transactions and ends of the process
    MaxTime       \* bound: ticks

Requests == 1 .. MaxRequests

\* What a row of the table is known by: request_id, which is UNIQUE.
NoRequest == 0

ASSUME RequestsAssumption  == MaxRequests \in Nat
ASSUME HeadersAssumption   == EmptyKey # NoKey /\ EmptyKey \notin Keys /\ NoKey \notin Keys
ASSUME TtlAssumption       == Ttl \in Nat
ASSUME RetentionAssumption == Retention \in Nat
ASSUME BoundsAssumption    == MaxFaults \in Nat /\ MaxTime \in Nat

VARIABLES
    key,         \* [Requests -> Headers] its Idempotency-Key
    valid,       \* [Requests -> BOOLEAN] whether size, JSON and command pass
    phase,       \* [Requests -> Phases]  how far the handler is
    outcome,     \* [Requests -> Outcomes] what mark_api_command_... will write
    row,         \* [Requests -> RowStates] status of its row in api_commands
    receivedAt,  \* [Requests -> time]    received_at of that row
    response,    \* [Requests -> Codes]   response_code of that row
    reply,       \* [Requests -> [code, of]] what the client was told, and of
                 \* which request the body speaks
    sent,        \* [Requests -> BOOLEAN] history: its command was published
    now,         \* the clock
    faults       \* history: refused transactions and ends of the process

tableVars == <<row, receivedAt, response>>
vars == <<key, valid, phase, outcome, tableVars, reply, sent, now, faults>>

Headers == Keys \cup {EmptyKey, NoKey}

Phases == {"new", "open", "checked", "conflicted", "inserted", "delivered",
           "marked", "done", "lost"}

Outcomes == {"none", "PUBLISHED", "FAILED", "REJECTED"}

RowStates == {"none", "RECEIVED", "PUBLISHED", "FAILED", "REJECTED", "deleted"}

\* none: no response stored, none sent. 4xx: any rejection (413, 422).
Codes == {"none", "200", "503", "4xx", "409", "500"}

Init ==
    /\ key = [r \in Requests |-> NoKey]
    /\ valid = [r \in Requests |-> FALSE]
    /\ phase = [r \in Requests |-> "new"]
    /\ outcome = [r \in Requests |-> "none"]
    /\ row = [r \in Requests |-> "none"]
    /\ receivedAt = [r \in Requests |-> 0]
    /\ response = [r \in Requests |-> "none"]
    /\ reply = [r \in Requests |-> [code |-> "none", of |-> NoRequest]]
    /\ sent = [r \in Requests |-> FALSE]
    /\ now = 0 /\ faults = 0

-----------------------------------------------------------------------------
(***************************************************************************)
(* The table.                                                              *)
(***************************************************************************)
Stored(q) == row[q] \notin {"none", "deleted"}

\* Mutated form of Conflicts: the column is not UNIQUE.
ConflictsNever(k) == FALSE

\* idempotency_key TEXT UNIQUE: an empty key is a value, a missing one is NULL.
Conflicts(k) == k # NoKey /\ \E q \in Requests : Stored(q) /\ key[q] = k

\* _record_within_ttl.
Fresh(q) == Ttl > 0 /\ receivedAt[q] + Ttl >= now

\* Mutated form of Original: the look-up does not compare the key.
OriginalOfAnyKey(k) == {q \in Requests : Stored(q) /\ Fresh(q)}

\* The row _get_duplicate_response answers from; an empty key is not looked up.
Original(k) == {q \in Requests : k \in Keys /\ Stored(q) /\ key[q] = k /\ Fresh(q)}

InsertRow(r) ==
    /\ row' = [row EXCEPT ![r] = "RECEIVED"]
    /\ receivedAt' = [receivedAt EXCEPT ![r] = now]
    /\ UNCHANGED response

-----------------------------------------------------------------------------
(***************************************************************************)
(* The handler.                                                            *)
(***************************************************************************)
Handled(r) == phase[r] \in {"checked", "conflicted", "inserted", "delivered", "marked"}

\* Mutated form of HoldsLoop: the handlers of several requests interleave.
HoldsNoLoop(r) == TRUE

HoldsLoop(r) == \A q \in Requests \ {r} : ~Handled(q)

Answer(r, code, q) ==
    /\ reply' = [reply EXCEPT ![r] = [code |-> code, of |-> q]]
    /\ phase' = [phase EXCEPT ![r] = "done"]

Continue(r, p) == phase' = [phase EXCEPT ![r] = p] /\ UNCHANGED reply

\* The response stored for the original, or 409 duplicate_pending without one.
AnswerDuplicate(r, q) ==
    Answer(r, IF response[q] = "none" THEN "409" ELSE response[q], q)

\* An authenticated request comes in and its body is awaited.
Arrive(r, k, v) ==
    /\ phase[r] = "new" /\ \A q \in Requests : q < r => phase[q] # "new"
    /\ key' = [key EXCEPT ![r] = k]
    /\ valid' = [valid EXCEPT ![r] = v]
    /\ Continue(r, "open")
    /\ UNCHANGED <<outcome, tableVars, sent, now, faults>>

\* _reject_request stores the refused request, whatever was stored under its key;
\* the insertion fails when there is a row.
Reject(r) ==
    /\ phase[r] = "open" /\ ~valid[r] /\ HoldsLoop(r)
    /\ IF Conflicts(key[r])
         THEN Answer(r, "500", NoRequest) /\ UNCHANGED <<outcome, tableVars>>
         ELSE /\ InsertRow(r)
              /\ outcome' = [outcome EXCEPT ![r] = "REJECTED"]
              /\ Continue(r, "delivered")
    /\ UNCHANGED <<key, valid, sent, now, faults>>

\* The first call of _get_duplicate_response.
Check(r) ==
    /\ phase[r] = "open" /\ valid[r] /\ HoldsLoop(r)
    /\ \/ \E q \in Original(key[r]) : AnswerDuplicate(r, q)
       \/ Original(key[r]) = {} /\ Continue(r, "checked")
    /\ UNCHANGED <<key, valid, outcome, tableVars, sent, now, faults>>

\* create_api_command_record.
Insert(r) ==
    /\ phase[r] = "checked" /\ HoldsLoop(r)
    /\ IF Conflicts(key[r])
         THEN Continue(r, "conflicted") /\ UNCHANGED tableVars
         ELSE Continue(r, "inserted") /\ InsertRow(r)
    /\ UNCHANGED <<key, valid, outcome, sent, now, faults>>

\* The second call, after an IntegrityError that is raised again without a
\* duplicate.
Recheck(r) ==
    /\ phase[r] = "conflicted" /\ HoldsLoop(r)
    /\ \/ \E q \in Original(key[r]) : AnswerDuplicate(r, q)
       \/ Original(key[r]) = {} /\ Answer(r, "500", NoRequest)
    /\ UNCHANGED <<key, valid, outcome, tableVars, sent, now, faults>>

\* The refresh of BR=1 for a print job, if it is due, and then the publication of
\* the command; the refresh failing leaves the command unsent.
Deliver(r) ==
    /\ phase[r] = "inserted" /\ HoldsLoop(r)
    /\ \E success \in BOOLEAN :
          /\ outcome' = [outcome EXCEPT ![r] = IF success THEN "PUBLISHED" ELSE "FAILED"]
          /\ sent' = [sent EXCEPT ![r] = success]
    /\ Continue(r, "delivered")
    /\ UNCHANGED <<key, valid, tableVars, now, faults>>

\* mark_api_command_published, _failed or _rejected: an error without the row.
Mark(r) ==
    /\ phase[r] = "delivered" /\ HoldsLoop(r)
    /\ IF Stored(r)
         THEN row' = [row EXCEPT ![r] = outcome[r]] /\ Continue(r, "marked")
         ELSE Answer(r, "500", NoRequest) /\ UNCHANGED row
    /\ UNCHANGED <<key, valid, outcome, receivedAt, response, sent, now, faults>>

\* Mutated form of CodeOf: a publication that failed is stored as a success.
CodeOptimistic(o) == IF o = "REJECTED" THEN "4xx" ELSE "200"

CodeOf(o) == CASE o = "PUBLISHED" -> "200" [] o = "FAILED" -> "503" [] OTHER -> "4xx"

\* _stored_json_response: the response is stored, then sent.
Save(r) ==
    /\ phase[r] = "marked" /\ HoldsLoop(r)
    /\ IF Stored(r)
         THEN /\ response' = [response EXCEPT ![r] = CodeOf(outcome[r])]
              /\ Answer(r, CodeOf(outcome[r]), r)
         ELSE Answer(r, "500", NoRequest) /\ UNCHANGED response
    /\ UNCHANGED <<key, valid, outcome, row, receivedAt, sent, now, faults>>

-----------------------------------------------------------------------------
(***************************************************************************)
(* What comes between two steps of the handler.                            *)
(***************************************************************************)
\* A transaction of the handler is refused (the database stays locked, the disk is
\* full): the exception leaves the handler, and the rows as they are.
StoreFails(r) ==
    /\ phase[r] \in {"open", "checked", "conflicted", "delivered", "marked"}
    /\ HoldsLoop(r)
    /\ faults < MaxFaults /\ faults' = faults + 1
    /\ Answer(r, "500", NoRequest)
    /\ UNCHANGED <<key, valid, outcome, tableVars, sent, now>>

\* The process ends and is started again: requests under way get no answer.
Restart ==
    /\ faults < MaxFaults /\ faults' = faults + 1
    /\ phase' = [r \in Requests |-> IF phase[r] \in {"new", "done"} THEN phase[r] ELSE "lost"]
    /\ UNCHANGED <<key, valid, outcome, tableVars, reply, sent, now>>

\* Mutated form of OldRows: the cutoff itself counts as old.
OldRowsAtCutoff ==
    {r \in Requests : row[r] \in {"PUBLISHED", "FAILED", "REJECTED"}
                        /\ receivedAt[r] + Retention <= now}

OldRows ==
    {r \in Requests : row[r] \in {"PUBLISHED", "FAILED", "REJECTED"}
                        /\ receivedAt[r] + Retention < now}

\* cleanup_raw_operational_data on its thread: some of the old terminal rows, as
\* many as the batch leaves room for. A row without an outcome stays for ever.
Cleanup ==
    /\ \E D \in SUBSET OldRows :
          row' = [r \in Requests |-> IF r \in D THEN "deleted" ELSE row[r]]
    /\ UNCHANGED <<key, valid, phase, outcome, receivedAt, response, reply, sent, now, faults>>

Tick ==
    /\ now < MaxTime /\ now' = now + 1
    /\ UNCHANGED <<key, valid, phase, outcome, tableVars, reply, sent, faults>>

Handle(r) ==
    Reject(r) \/ Check(r) \/ Insert(r) \/ Recheck(r) \/ Deliver(r) \/ Mark(r) \/ Save(r)

Next ==
    \/ \E r \in Requests :
          \/ \E k \in Headers, v \in BOOLEAN : Arrive(r, k, v)
          \/ Handle(r) \/ StoreFails(r)
    \/ Restart \/ Cleanup \/ Tick

Spec == Init /\ [][Next]_vars

-----------------------------------------------------------------------------
(***************************************************************************)
(* The invariant the proofs use.                                           *)
(***************************************************************************)
TypeOK ==
    /\ key \in [Requests -> Headers] /\ valid \in [Requests -> BOOLEAN]
    /\ phase \in [Requests -> Phases] /\ outcome \in [Requests -> Outcomes]
    /\ row \in [Requests -> RowStates] /\ receivedAt \in [Requests -> Nat]
    /\ response \in [Requests -> Codes]
    /\ reply \in [Requests -> [code : Codes, of : Requests \cup {NoRequest}]]
    /\ sent \in [Requests -> BOOLEAN]
    /\ now \in Nat /\ faults \in Nat

\* The row of a request, what was done for it and what its client was told.
RequestInv(r) ==
    /\ sent[r] <=> outcome[r] = "PUBLISHED"
    /\ phase[r] \in {"new", "open", "checked", "conflicted"} => row[r] = "none"
    /\ phase[r] # "done" => reply[r].code = "none"
    /\ row[r] = "none" => outcome[r] = "none"
    /\ phase[r] = "inserted" => row[r] = "RECEIVED" /\ outcome[r] = "none"
    /\ phase[r] \in {"delivered", "marked"} => row[r] # "none" /\ outcome[r] # "none"
    /\ row[r] \in {"PUBLISHED", "FAILED", "REJECTED"} => row[r] = outcome[r]
    /\ row[r] = "deleted" => outcome[r] # "none" /\ receivedAt[r] + Retention < now
    /\ response[r] # "none"
          => /\ outcome[r] # "none" /\ response[r] = CodeOf(outcome[r])
             /\ phase[r] = "done" /\ reply[r] = [code |-> response[r], of |-> r]

\* A key is stored again only when its earlier row is deleted.
KeyInv(r, q) ==
    (r # q /\ key[r] = key[q] /\ key[r] # NoKey /\ row[r] # "none" /\ row[q] # "none")
       => \/ row[r] = "deleted" /\ receivedAt[r] + Retention < receivedAt[q]
          \/ row[q] = "deleted" /\ receivedAt[q] + Retention < receivedAt[r]

\* What a client hears of the request q is what is stored for q.
ReplyInv(r) ==
    LET q == reply[r].of IN
    reply[r].code \in {"200", "503", "4xx"}
       => q \in Requests /\ response[q] = reply[r].code

\* As long as nothing failed, a row without a response belongs to the request that
\* holds the event loop.
PendingInv(r) ==
    faults = 0 => /\ Stored(r) /\ response[r] = "none" => Handled(r)
                  /\ reply[r].code # "409"

IInv ==
    /\ TypeOK
    /\ \A r \in Requests : RequestInv(r) /\ ReplyInv(r) /\ PendingInv(r)
    /\ \A r, q \in Requests : KeyInv(r, q)

-----------------------------------------------------------------------------
(***************************************************************************)
(* Properties.                                                             *)
(***************************************************************************)
\* README: "If the same key is received again within
\* BEB_API_IDEMPOTENCY_TTL_SECONDS, BEB ... does not publish to MQTT again". Two
\* commands published under one key were received more than the time to live
\* apart, through crashes, refused transactions and the cleanup of old rows. It
\* takes a retention no shorter than the time to live.
PublishedOncePerKey ==
    \A r, q \in Requests :
       (r # q /\ sent[r] /\ sent[q] /\ key[r] = key[q] /\ key[r] # NoKey)
          => (receivedAt[r] + Ttl < receivedAt[q] \/ receivedAt[q] + Ttl < receivedAt[r])

\* A client is told the truth about the command, by the request itself and by any
\* duplicate of it: 200 only when it was published, 503 and a rejection only when
\* it was not (so that trying again under a new key prints nothing twice); and a
\* duplicate hears what the original client heard, if that one heard anything.
AnswersAreTrue ==
    \A r \in Requests :
       LET q == reply[r].of IN
       /\ reply[r].code = "200" => sent[q]
       /\ reply[r].code \in {"503", "4xx"} => ~sent[q]
       /\ (reply[r].code \in {"200", "503", "4xx"} /\ phase[q] = "done")
             => reply[q].code = reply[r].code

\* 409 duplicate_pending is never given in normal operation, however requests of
\* one key overlap: it takes a request that a crash or an error interrupted.
PendingOnlyAfterFault ==
    (\E r \in Requests : reply[r].code = "409") => faults > 0

\* What the table, the handler's steps and the stored responses are for: whether
\* a command is published is decided once, before anyone is told of it; each
\* client is answered once, about its own command or one of the same key, and
\* what it hears is what was decided.
Asked == {r \in Requests : phase[r] # "new"}

Fate == [r \in Requests |-> CASE outcome[r] = "none"      -> "open"
                              [] outcome[r] = "PUBLISHED" -> "published"
                              [] OTHER                    -> "withheld"]

Told ==
    [r \in Requests |->
       CASE reply[r].code = "none" -> [verdict |-> "none", of |-> NoRequest]
         [] reply[r].code = "200"  -> [verdict |-> "published", of |-> reply[r].of]
         [] reply[r].code \in {"503", "4xx"}
                                   -> [verdict |-> "withheld", of |-> reply[r].of]
         [] OTHER                  -> [verdict |-> "unknown", of |-> NoRequest]]

Promise == INSTANCE CommandPromise WITH asked <- Asked, fate <- Fate, told <- Told

KeepsCommandPromise == Promise!Spec
=============================================================================
