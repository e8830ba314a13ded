----------------------------- MODULE AckReplay ------------------------------
(***************************************************************************)
(* The MQTT client's intake and its duplicate ACK replay                   *)
(* (app/mqtt_client.py with save_message and record_ack_replay_attempt of  *)
(* app/database.py): paho's connection and network thread, which runs      *)
(* _on_message to its end before it takes the next message, against the    *)
(* connections of the worker, the API and the cleanup. An exception that   *)
(* leaves _on_message ends the network thread, and nothing starts another. *)
(***************************************************************************)
EXTENDS Integers, FiniteSets

CONSTANTS
    Messages,     \* distinct topic and payload pairs, one row each
    NoMessage,    \* no message in _on_message
    MaxReplays,   \* ACK_REPLAY_MAX_COUNT
    MinInterval,  \* ACK_REPLAY_MIN_INTERVAL, in ticks
    Window,       \* ACK_REPLAY_WINDOW, in ticks
    Second,       \* ticks in a second, to which _format_timestamp truncates
    MaxRestarts,  \* bound: process restarts
    StoreFaults   \* whether a write may fail for another reason than its snapshot

ASSUME MessageAssumption  == NoMessage \notin Messages
ASSUME ReplaysAssumption  == MaxReplays \in Nat \ {0}
ASSUME WindowAssumption   ==
    /\ Second \in Nat \ {0}
    /\ MinInterval \in Nat /\ Second <= MinInterval
    /\ Window \in Nat /\ MinInterval <= Window
ASSUME RestartsAssumption == MaxRestarts \in Nat
ASSUME FaultsAssumption   == StoreFaults \in BOOLEAN

VARIABLES
    link,      \* "down", "deaf" (connected, subscribe refused) or "subscribed"
    at,        \* where the network thread is
    msg,       \* the message in _on_message
    stale,     \* another connection committed after save_message's SELECT
    gap, lag,  \* age of msg's last replay at the clock reading of
               \* record_ack_replay_attempt, and ticks since that reading
    phase,     \* the clock's ticks since its last full second
    frac,      \* phase at that reading: what its timestamp will leave out
    status,    \* [Messages -> Rows], the row in mqtt_messages
    replays,   \* [Messages -> Nat], ack_replay_count
    age,       \* [Messages -> 0 .. Window], ticks since last_ack_replayed_at:
               \* Window for NULL and for anything as old
    restarts,
    \* history
    recent,    \* [Messages -> ages of the grants younger than Span]
    heard      \* messages the PLC heard a replayed ACK for

rowVars == <<status, replays, age, recent>>
threadVars == <<at, msg, stale, gap, lag, frac>>
vars == <<link, threadVars, phase, rowVars, restarts, heard>>

\* What truncation leaves of the window and of the interval.
Span == Window - (Second - 1)
Interval == MinInterval - (Second - 1)

\* open: NEW, PROCESSING or FAILED. done: COMPLETED with a stored ACK.
\* noack: COMPLETED, but its response has no success or no ACK to repeat, as
\* rows of an earlier release may.
Rows == {"absent", "open", "done", "noack"}
Places == {"loop", "inserting", "reading", "attempting", "replaying", "dead"}

TypeOK ==
    /\ link \in {"down", "deaf", "subscribed"}
    /\ at \in Places
    /\ msg \in Messages \cup {NoMessage}
    /\ at \in Places \ {"loop", "dead"} => msg \in Messages
    /\ stale \in BOOLEAN
    /\ gap \in 0 .. Window
    /\ lag \in 0 .. Window
    /\ phase \in 0 .. Second - 1
    /\ frac \in 0 .. Second - 1
    /\ status \in [Messages -> Rows]
    /\ replays \in [Messages -> 0 .. MaxReplays]
    /\ age \in [Messages -> 0 .. Window]
    /\ restarts \in 0 .. MaxRestarts
    /\ recent \in [Messages -> SUBSET (0 .. Span - 1)]
    /\ heard \subseteq Messages

Init ==
    /\ link = "down"
    /\ at = "loop" /\ msg = NoMessage /\ stale = FALSE
    /\ gap = 0 /\ lag = 0 /\ frac = 0
    /\ phase = 0
    /\ status \in [Messages -> {"absent", "noack"}]
    /\ replays = [m \in Messages |-> 0]
    /\ age = [m \in Messages |-> Window]
    /\ restarts = 0
    /\ recent = [m \in Messages |-> {}]
    /\ heard = {}

\* on_message returns, or raises, with what it held.
Leave(place) ==
    /\ at' = place /\ msg' = NoMessage
    /\ stale' = FALSE /\ gap' = 0 /\ lag' = 0 /\ frac' = 0

-----------------------------------------------------------------------------
(***************************************************************************)
(* The connection.                                                         *)
(***************************************************************************)

\* _on_connect: the client subscribes anew; a refusal is logged, and nothing is
\* received until the next connection.
Connect(result) ==
    /\ link = "down" /\ at = "loop"
    /\ link' = result
    /\ UNCHANGED <<threadVars, phase, rowVars, restarts, heard>>

\* _on_disconnect only logs: the network loop connects again, if it runs.
Disconnect ==
    /\ link # "down"
    /\ link' = "down"
    /\ UNCHANGED <<threadVars, phase, rowVars, restarts, heard>>

-----------------------------------------------------------------------------
(***************************************************************************)
(* _on_message, on the network thread.                                     *)
(***************************************************************************)

\* A well-formed message arrives (a malformed one is logged and dropped):
\* save_message opens its transaction and looks for the message's row.
Deliver(m) ==
    /\ link = "subscribed" /\ at = "loop"
    /\ at' = IF status[m] = "absent" THEN "inserting" ELSE "reading"
    /\ msg' = m
    /\ UNCHANGED <<link, phase, stale, gap, lag, frac, rowVars, restarts, heard>>

\* save_message inserts the row in the snapshot of its SELECT; its replay columns
\* are NULL.
Insert ==
    /\ at = "inserting" /\ ~stale
    /\ status' = [status EXCEPT ![msg] = "open"]
    /\ Leave("loop")
    /\ UNCHANGED <<link, phase, replays, age, recent, restarts, heard>>

\* SQLite refuses the insertion: a snapshot that is not the newest one cannot
\* be written from, and no busy timeout applies.
InsertRefused ==
    /\ at = "inserting" /\ (stale \/ StoreFaults)
    /\ Leave("dead")
    /\ UNCHANGED <<link, phase, rowVars, restarts, heard>>

\* _handle_duplicate_message reads the row again: only a COMPLETED one with a
\* stored ACK goes on, to the clock reading of record_ack_replay_attempt.
ReadDuplicate ==
    /\ at = "reading"
    /\ IF status[msg] = "done"
       THEN /\ at' = "attempting" /\ gap' = age[msg] /\ frac' = phase
            /\ UNCHANGED <<msg, stale, lag>>
       ELSE Leave("loop")
    /\ UNCHANGED <<link, phase, rowVars, restarts, heard>>

AtMost(a) == IF a < Window THEN a ELSE Window

\* record_ack_replay_attempt starts counting anew once the last replay is Window
\* ticks old, and grants a replay below the limit and MinInterval ticks after
\* the last one.
Expired == gap = Window
Counted == IF Expired THEN 0 ELSE replays[msg]
Allowed == Counted < MaxReplays /\ gap >= MinInterval

\* The ages of the row's grants with the one just made, lag ticks ago.
WithGrant == IF lag < Span THEN [recent EXCEPT ![msg] = @ \cup {lag}] ELSE recent

\* Mutated form of Granted: the window is measured from the first replay.
GrantedFromTheFirst ==
    /\ replays' = [replays EXCEPT ![msg] = Counted + 1]
    /\ age' = IF Expired THEN [age EXCEPT ![msg] = AtMost(lag + frac)] ELSE age
    /\ recent' = WithGrant

\* The attempt is counted and stamped with the clock reading of lag ticks ago,
\* less what it had of a second.
Granted ==
    /\ replays' = [replays EXCEPT ![msg] = Counted + 1]
    /\ age' = [age EXCEPT ![msg] = AtMost(lag + frac)]
    /\ recent' = WithGrant

\* Mutated form of Refuse: a refused attempt is dated too.
RefuseAndStamp ==
    /\ at = "attempting" /\ status[msg] # "absent" /\ ~Allowed
    /\ age' = [age EXCEPT ![msg] = AtMost(lag + frac)]
    /\ Leave("loop")
    /\ UNCHANGED <<link, phase, status, replays, recent, restarts, heard>>

\* A refused attempt leaves no trace in the row.
Refuse ==
    /\ at = "attempting" /\ status[msg] # "absent" /\ ~Allowed
    /\ Leave("loop")
    /\ UNCHANGED <<link, phase, rowVars, restarts, heard>>

Grant ==
    /\ at = "attempting" /\ status[msg] # "absent" /\ Allowed
    /\ Granted
    /\ at' = "replaying" /\ gap' = 0 /\ lag' = 0 /\ frac' = 0
    /\ UNCHANGED <<link, phase, msg, stale, status, restarts, heard>>

\* The row was deleted after it was read (ValueError), or the database stays
\* locked for longer than its timeout: the exception leaves _on_message.
AttemptFails ==
    /\ at = "attempting" /\ (status[msg] = "absent" \/ StoreFaults)
    /\ Leave("dead")
    /\ UNCHANGED <<link, phase, rowVars, restarts, heard>>

\* publish_ack, QoS 0: a failure is logged and the attempt stays counted. The
\* PLC hears the ACK or not.
Replay(heardOf) ==
    /\ at = "replaying"
    /\ link = "down" => heardOf = {}
    /\ heard' = heard \cup heardOf
    /\ Leave("loop")
    /\ UNCHANGED <<link, phase, rowVars, restarts>>

-----------------------------------------------------------------------------
(***************************************************************************)
(* Everyone else. A commit of another connection between the SELECT and    *)
(* the INSERT of save_message leaves that transaction with an old snapshot.*)
(***************************************************************************)
OtherCommits == stale' = (at = "inserting")

\* The worker's mark_completed. Its own publication of the ACK is not in this
\* module: the replay is for the PLC that missed it.
Complete(m) ==
    /\ status[m] = "open"
    /\ status' = [status EXCEPT ![m] = "done"]
    /\ OtherCommits
    /\ UNCHANGED <<link, phase, at, msg, gap, lag, frac, replays, age, recent, restarts, heard>>

\* Any other commit: a claim, a retry, an API command, a summary.
Commit ==
    /\ at = "inserting" /\ OtherCommits
    /\ UNCHANGED <<link, phase, at, msg, gap, lag, frac, rowVars, restarts, heard>>

\* cleanup_raw_operational_data deletes a counted row whose retention is over,
\* however recently its ACK was replayed. A row without an ACK is never counted.
Delete(m) ==
    /\ status[m] = "done"
    /\ status' = [status EXCEPT ![m] = "absent"]
    /\ replays' = [replays EXCEPT ![m] = 0]
    /\ age' = [age EXCEPT ![m] = Window]
    /\ recent' = [recent EXCEPT ![m] = {}]
    /\ OtherCommits
    /\ UNCHANGED <<link, phase, at, msg, gap, lag, frac, restarts, heard>>

Restart ==
    /\ restarts < MaxRestarts
    /\ restarts' = restarts + 1
    /\ link' = "down"
    /\ Leave("loop")
    /\ UNCHANGED <<phase, rowVars, heard>>

Older(S) == {a + 1 : a \in {b \in S : b + 1 < Span}}

Tick ==
    /\ age' = [m \in Messages |-> AtMost(age[m] + 1)]
    /\ lag' = IF at = "attempting" THEN AtMost(lag + 1) ELSE lag
    /\ phase' = (phase + 1) % Second
    /\ recent' = [m \in Messages |-> Older(recent[m])]
    /\ UNCHANGED <<link, at, msg, stale, gap, frac, status, replays, restarts, heard>>

OnMessage ==
    \/ \E m \in Messages : Deliver(m)
    \/ Insert \/ InsertRefused
    \/ ReadDuplicate \/ Refuse \/ Grant \/ AttemptFails
    \/ \E h \in {{}, {msg}} : Replay(h)

Connection == Disconnect \/ \E r \in {"deaf", "subscribed"} : Connect(r)

Others == Commit \/ \E m \in Messages : Complete(m) \/ Delete(m)

Next == OnMessage \/ Connection \/ Others \/ Restart \/ Tick

Spec == Init /\ [][Next]_vars

(***************************************************************************)
(* Fairness. Time passes, the network thread runs its handler, and a       *)
(* client that lost its broker tries again. The PLC repeats a message      *)
(* until it hears the ACK, and QoS 0 loses neither every copy of the       *)
(* message nor every copy of the ACK.                                      *)
(***************************************************************************)
Fairness ==
    /\ WF_vars(Tick)
    /\ WF_vars(Insert \/ InsertRefused)
    /\ WF_vars(ReadDuplicate)
    /\ WF_vars(Refuse \/ Grant \/ AttemptFails)
    /\ WF_vars(Replay({}))
    /\ WF_vars(\E r \in {"deaf", "subscribed"} : Connect(r))
    /\ \A m \in Messages : SF_vars(m \notin heard /\ Deliver(m))
                          /\ SF_vars(msg = m /\ Replay({m}))

FairSpec == Spec /\ Fairness

-----------------------------------------------------------------------------
(***************************************************************************)
(* Properties.                                                             *)
(***************************************************************************)

\* The stamp of the last replay is less than a second older than the youngest
\* grant, the grants of a window are counted, and the clock reading of the attempt
\* under way is lag ticks old.
RecentInv(m) ==
    /\ \A a \in recent[m] : age[m] <= a + (Second - 1)
    /\ Cardinality(recent[m]) <= replays[m]

AttemptInv == IF at = "attempting" THEN age[msg] = Window \/ age[msg] >= gap + lag
                                   ELSE lag = 0

IInv ==
    /\ TypeOK
    /\ AttemptInv
    /\ \A m \in Messages : RecentInv(m)

\* record_ack_replay_attempt implements the replay budget, short of a second: in
\* whatever order repetitions, refusals, restarts, clean-ups and ticks come, no
\* Span ticks see more than MaxReplays granted replays of a row, and no two of
\* them are closer than Interval.
Budget == INSTANCE ReplayBudget WITH MinInterval <- Interval, Window <- Span
KeepsBudget == Budget!Spec

\* Once the connection to the broker stays up, a PLC that goes on repeating an
\* answered message hears its ACK in the end: refusals do not prolong the
\* silence of the throttle, and replays counted and lost do not use it up for
\* good. The promise ends with the row, and with the network thread.
RepeatedIsAnswered ==
    <>[](link = "subscribed") =>
        \A m \in Messages :
            status[m] = "done" ~> (m \in heard \/ status[m] # "done" \/ at = "dead")
=============================================================================
