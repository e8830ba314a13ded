---------------------------- MODULE ReplayBudget ----------------------------
(***************************************************************************)
(* What the ACK replay throttle of app/database.py promises, whatever      *)
(* columns it keeps: in any span of Window ticks a row is granted at most  *)
(* MaxReplays replays, and two grants are at least MinInterval ticks       *)
(* apart. A grant is dated by the clock reading the code decided on, which *)
(* may be some ticks old when the grant is committed.                      *)
(***************************************************************************)
EXTENDS Integers, FiniteSets

CONSTANTS
    Messages,     \* distinct topic and payload pairs, one row each
    MaxReplays,   \* ACK_REPLAY_MAX_COUNT
    MinInterval,  \* ACK_REPLAY_MIN_INTERVAL, in ticks
    Window        \* ACK_REPLAY_WINDOW, in ticks

VARIABLE recent  \* [Messages -> ages of the grants younger than Window]

Ages == 0 .. Window - 1

\* Time passes; a grant is forgotten once it is Window ticks old.
Older(S) == {a + 1 : a \in {b \in S : b + 1 < Window}}

Init == recent = [m \in Messages |-> {}]

Grant(m, a) ==
    /\ Cardinality(recent[m]) < MaxReplays
    /\ \A b \in recent[m] : b >= a + MinInterval
    /\ recent' = [recent EXCEPT ![m] = @ \cup {a}]

Tick == recent' = [m \in Messages |-> Older(recent[m])]

\* The row is deleted: a message stored again starts with nothing granted.
Forget(m) == recent' = [recent EXCEPT ![m] = {}]

Next ==
    \/ \E m \in Messages : Forget(m) \/ \E a \in Ages : Grant(m, a)
    \/ Tick

Spec == Init /\ [][Next]_recent
=============================================================================
