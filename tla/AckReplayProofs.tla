-------------------------- MODULE AckReplayProofs ---------------------------
(***************************************************************************)
(* Proofs about AckReplay, for any set of messages, any limit, interval    *)
(* and window of whole seconds or more: the columns ack_replay_count and   *)
(* last_ack_replayed_at keep the replay budget, short of a second.         *)
(***************************************************************************)
EXTENDS AckReplay, FiniteSetTheorems, TLAPS

\* Truncation leaves an interval and a window.
LEMMA SpanTypes ==
    /\ Second \in Nat \ {0} /\ MinInterval \in Nat /\ Window \in Nat
    /\ Span \in Nat \ {0} /\ Interval \in Nat \ {0} /\ Interval <= Span
    /\ Span = Window - (Second - 1) /\ Interval = MinInterval - (Second - 1)
    /\ Span <= Window
BY WindowAssumption DEF Span, Interval

\* The grants of a row are finitely many.
LEMMA RecentFinite ==
    ASSUME TypeOK, NEW m \in Messages
    PROVE  /\ recent[m] \subseteq Nat
           /\ IsFiniteSet(recent[m])
           /\ Cardinality(recent[m]) \in Nat
<1>1. recent[m] \subseteq 0 .. Span - 1
  BY DEF TypeOK
<1>2. IsFiniteSet(0 .. Span - 1)
  BY FS_Interval, SpanTypes
<1>3. IsFiniteSet(recent[m])
  BY <1>1, <1>2, FS_Subset
<1> QED
  BY <1>1, <1>3, FS_CardinalityType, SpanTypes

\* Time forgets grants and adds none.
LEMMA OlderIsSmaller ==
    ASSUME NEW S \in SUBSET Nat, IsFiniteSet(S)
    PROVE  /\ IsFiniteSet(Older(S))
           /\ Cardinality(Older(S)) <= Cardinality(S)
<1> DEFINE D == {b \in S : b + 1 < Span}
           f == [b \in D |-> b + 1]
<1>1. /\ IsFiniteSet(D)
      /\ Cardinality(D) <= Cardinality(S)
  BY FS_Subset
<1>2. f \in Surjection(D, Older(S))
  BY DEF Older, Surjection
<1>3. /\ IsFiniteSet(Older(S))
      /\ Cardinality(Older(S)) <= Cardinality(D)
  <2> HIDE DEF D, f
  <2> QED BY <1>1, <1>2, FS_Surjection
<1>4. /\ Cardinality(D) \in Nat
      /\ Cardinality(S) \in Nat
      /\ Cardinality(Older(S)) \in Nat
  BY <1>1, <1>3, FS_CardinalityType
<1> HIDE DEF D
<1> QED
  BY <1>1, <1>3, <1>4

\* Nothing has been granted at first.
LEMMA InitInv == Init => IInv
<1> SUFFICES ASSUME Init
             PROVE  IInv
  OBVIOUS
<1>1. TypeOK
  <2>1. /\ replays \in [Messages -> 0 .. MaxReplays]
        /\ restarts \in 0 .. MaxRestarts
    BY RestartsAssumption, ReplaysAssumption DEF Init
  <2>2. /\ age \in [Messages -> 0 .. Window]
        /\ gap \in 0 .. Window /\ lag \in 0 .. Window
        /\ frac \in 0 .. Second - 1 /\ phase \in 0 .. Second - 1
    BY WindowAssumption DEF Init
  <2>3. status \in [Messages -> Rows]
    BY DEF Init, Rows
  <2>4. recent \in [Messages -> SUBSET (0 .. Span - 1)]
    BY DEF Init
  <2> QED
    BY <2>1, <2>2, <2>3, <2>4 DEF Init, TypeOK, Places
<1>2. Cardinality({}) = 0
  BY FS_EmptySet
<1> QED
  BY <1>1, <1>2 DEF Init, IInv, AttemptInv, RecentInv

\* What an allowed attempt finds: fewer grants than the limit in the window, and
\* none of them closer to its clock reading than the interval.
LEMMA AllowedFits ==
    ASSUME IInv, at = "attempting", Allowed
    PROVE  /\ msg \in Messages
           /\ Cardinality(recent[msg]) <= Counted
           /\ Counted \in Nat
           /\ Counted + 1 <= MaxReplays
           /\ \A b \in recent[msg] : b >= lag + Interval
<1>1. /\ msg \in Messages
      /\ gap \in 0 .. Window /\ lag \in 0 .. Window
      /\ age[msg] \in 0 .. Window
      /\ replays[msg] \in 0 .. MaxReplays
      /\ recent[msg] \subseteq 0 .. Span - 1
  BY DEF IInv, TypeOK, Places
<1>2. /\ \A b \in recent[msg] : age[msg] <= b + (Second - 1)
      /\ Cardinality(recent[msg]) <= replays[msg]
      /\ age[msg] = Window \/ age[msg] >= gap + lag
  BY <1>1 DEF IInv, RecentInv, AttemptInv
<1>3. age[msg] = Window => recent[msg] = {}
  BY <1>1, <1>2, SpanTypes
<1>4. gap = Window => age[msg] = Window
  BY <1>1, <1>2, WindowAssumption
<1>5. Cardinality({}) = 0
  BY FS_EmptySet
<1>6. Cardinality(recent[msg]) <= Counted
  BY <1>2, <1>3, <1>4, <1>5 DEF Counted, Expired
<1>7. \A b \in recent[msg] : b >= lag + Interval
  BY <1>1, <1>2, <1>3, SpanTypes DEF Allowed
<1>8. Counted \in Nat /\ Counted + 1 <= MaxReplays
  BY <1>1, ReplaysAssumption DEF Allowed, Counted, Expired
<1> QED
  BY <1>1, <1>6, <1>7, <1>8

\* A grant is counted, is the youngest one, and ends the attempt.
LEMMA GrantKeeps == ASSUME IInv, Grant PROVE IInv'
<1>1. /\ msg \in Messages
      /\ Cardinality(recent[msg]) <= Counted
      /\ Counted \in Nat
      /\ Counted + 1 <= MaxReplays
      /\ \A b \in recent[msg] : b >= lag + Interval
  BY AllowedFits DEF Grant
<1>2. TypeOK
  BY DEF IInv
<1>3. /\ lag \in 0 .. Window /\ frac \in 0 .. Second - 1
      /\ AtMost(lag + frac) \in 0 .. Window
      /\ AtMost(lag + frac) <= lag + (Second - 1)
  BY <1>2, SpanTypes DEF TypeOK, AtMost
<1>4. TypeOK'
  <2>1. recent' \in [Messages -> SUBSET (0 .. Span - 1)]
    BY <1>1, <1>2, <1>3, SpanTypes DEF TypeOK, Grant, Granted, WithGrant
  <2>2. replays' \in [Messages -> 0 .. MaxReplays]
    BY <1>1, <1>2, ReplaysAssumption DEF TypeOK, Grant, Granted
  <2>3. age' \in [Messages -> 0 .. Window]
    BY <1>1, <1>2, <1>3 DEF TypeOK, Grant, Granted
  <2>4. 0 \in 0 .. Window /\ 0 \in 0 .. Second - 1
    BY SpanTypes
  <2> QED
    BY <1>1, <1>2, <2>1, <2>2, <2>3, <2>4 DEF TypeOK, Places, Grant
<1>5. AttemptInv'
  BY DEF Grant, AttemptInv
<1>6. ASSUME NEW m \in Messages, m # msg
      PROVE  RecentInv(m)'
  <2>1. recent'[m] = recent[m] /\ age'[m] = age[m] /\ replays'[m] = replays[m]
    BY <1>2, <1>6 DEF Grant, Granted, WithGrant, TypeOK
  <2> QED
    BY <2>1 DEF IInv, RecentInv
<1>7. RecentInv(msg)'
  <2>1. age'[msg] = AtMost(lag + frac) /\ replays'[msg] = Counted + 1 /\ msg' = msg
    BY <1>1, <1>2 DEF Grant, Granted, TypeOK
  <2>2. IsFiniteSet(recent[msg]) /\ Cardinality(recent[msg]) \in Nat /\ recent[msg] \subseteq Nat
    BY <1>1, <1>2, RecentFinite
  <2>3. CASE lag < Span
    <3>1. recent'[msg] = recent[msg] \cup {lag}
      BY <1>1, <1>2, <2>3 DEF Grant, Granted, WithGrant, TypeOK
    <3>2. Cardinality(recent[msg] \cup {lag}) <= Cardinality(recent[msg]) + 1
      BY <2>2, FS_AddElement
    <3>3. Cardinality(recent[msg] \cup {lag}) \in Nat
      BY <2>2, FS_AddElement, FS_CardinalityType
    <3>4. \A a \in recent[msg] \cup {lag} : AtMost(lag + frac) <= a + (Second - 1)
      BY <1>1, <1>3, <2>2, SpanTypes
    <3> QED
      BY <1>1, <2>1, <2>2, <3>1, <3>2, <3>3, <3>4 DEF RecentInv
  <2>4. CASE ~(lag < Span)
    <3>1. recent'[msg] = recent[msg]
      BY <2>4 DEF Grant, Granted, WithGrant
    <3>2. \A a \in recent[msg] : AtMost(lag + frac) <= a + (Second - 1)
      BY <1>1, <1>3, <2>2, SpanTypes
    <3> QED
      BY <1>1, <2>1, <2>2, <3>1, <3>2 DEF RecentInv
  <2> QED
    BY <2>3, <2>4
<1> QED
  BY <1>4, <1>5, <1>6, <1>7 DEF IInv, Grant

\* A row that is deleted takes its grants with it, and its age says so.
LEMMA DeleteKeeps == ASSUME IInv, NEW m \in Messages, Delete(m) PROVE IInv'
<1>1. TypeOK /\ AttemptInv /\ \A q \in Messages : RecentInv(q)
  BY DEF IInv
<1>2. TypeOK'
  BY <1>1, WindowAssumption, ReplaysAssumption DEF TypeOK, Rows, Delete, OtherCommits
<1>3. AttemptInv'
  <2>1. age'[msg] = age[msg] \/ age'[msg] = Window
    BY <1>1 DEF Delete, TypeOK
  <2> QED
    BY <1>1, <2>1 DEF AttemptInv, Delete
<1>4. ASSUME NEW q \in Messages
      PROVE  RecentInv(q)'
  <2>1. CASE q = m
    <3>1. recent'[q] = {} /\ replays'[q] = 0
      BY <1>1, <2>1 DEF Delete, TypeOK
    <3> QED
      BY <3>1, FS_EmptySet DEF RecentInv
  <2>2. CASE q # m
    <3>1. recent'[q] = recent[q] /\ age'[q] = age[q] /\ replays'[q] = replays[q]
      BY <1>1, <2>2 DEF Delete, TypeOK
    <3> QED
      BY <1>1, <3>1 DEF RecentInv
  <2> QED
    BY <2>1, <2>2
<1> QED
  BY <1>2, <1>3, <1>4 DEF IInv

\* Grants, the last replay and the clock reading age together.
LEMMA TickKeeps == ASSUME IInv, Tick PROVE IInv'
<1>1. TypeOK /\ AttemptInv /\ \A m \in Messages : RecentInv(m)
  BY DEF IInv
<1>2. ASSUME NEW m \in Messages
      PROVE  /\ age'[m] = AtMost(age[m] + 1) /\ age[m] \in 0 .. Window
             /\ recent'[m] = Older(recent[m]) /\ recent[m] \subseteq 0 .. Span - 1
             /\ replays'[m] = replays[m] /\ replays[m] \in 0 .. MaxReplays
  BY <1>1 DEF Tick, TypeOK
<1>3. TypeOK'
  <2>1. \A a \in 0 .. Window : AtMost(a + 1) \in 0 .. Window
    BY WindowAssumption DEF AtMost
  <2>2. \A S \in SUBSET (0 .. Span - 1) : Older(S) \in SUBSET (0 .. Span - 1)
    BY SpanTypes DEF Older
  <2>3. age' \in [Messages -> 0 .. Window]
    BY <1>2, <2>1 DEF Tick
  <2>4. recent' \in [Messages -> SUBSET (0 .. Span - 1)]
    BY <1>2, <2>2 DEF Tick
  <2>5. lag' \in 0 .. Window
    BY <1>1, <2>1 DEF Tick, TypeOK
  <2>6. phase' \in 0 .. Second - 1
    BY <1>1, WindowAssumption DEF Tick, TypeOK
  <2> QED
    BY <1>1, <2>3, <2>4, <2>5, <2>6 DEF Tick, TypeOK
<1>4. AttemptInv'
  <2>0. at # "attempting" => lag' = 0
    BY <1>1 DEF AttemptInv, Tick
  <2> SUFFICES ASSUME at = "attempting"
               PROVE  age'[msg] = Window \/ age'[msg] >= gap + lag'
    BY <2>0 DEF AttemptInv, Tick
  <2>1. msg \in Messages /\ gap \in 0 .. Window /\ lag \in 0 .. Window
    BY <1>1 DEF TypeOK, Places
  <2>2. age[msg] = Window \/ age[msg] >= gap + lag
    BY <1>1 DEF AttemptInv
  <2>3. lag' = AtMost(lag + 1) /\ age'[msg] = AtMost(age[msg] + 1) /\ age[msg] \in 0 .. Window
    BY <1>2, <2>1 DEF Tick
  <2> QED
    BY <2>1, <2>2, <2>3, WindowAssumption DEF AtMost
<1>5. ASSUME NEW m \in Messages
      PROVE  RecentInv(m)'
  <2>1. \A a \in recent'[m] : age'[m] <= a + (Second - 1)
    BY <1>1, <1>2, SpanTypes DEF RecentInv, Older, AtMost
  <2>2. Cardinality(recent'[m]) <= replays'[m]
    <3>1. IsFiniteSet(recent[m]) /\ recent[m] \subseteq Nat /\ Cardinality(recent[m]) \in Nat
      BY <1>1, RecentFinite
    <3>2. IsFiniteSet(Older(recent[m])) /\ Cardinality(Older(recent[m])) <= Cardinality(recent[m])
      BY <3>1, OlderIsSmaller
    <3>3. Cardinality(Older(recent[m])) \in Nat
      BY <3>2, FS_CardinalityType
    <3>4. Cardinality(recent[m]) <= replays[m]
      BY <1>1 DEF RecentInv
    <3> QED
      BY <1>2, <3>1, <3>2, <3>3, <3>4, ReplaysAssumption
  <2> QED
    BY <2>1, <2>2 DEF RecentInv
<1> QED
  BY <1>3, <1>4, <1>5 DEF IInv

\* _on_message ends with nothing in hand.
LEMMA LeaveTypes ==
    ASSUME NEW place \in {"loop", "dead"}, Leave(place)
    PROVE  /\ at' \in Places /\ at' # "attempting"
           /\ msg' \in Messages \cup {NoMessage}
           /\ at' \in Places \ {"loop", "dead"} => msg' \in Messages
           /\ stale' \in BOOLEAN
           /\ gap' \in 0 .. Window /\ lag' \in 0 .. Window
           /\ lag' = 0 /\ frac' \in 0 .. Second - 1
<1>1. 0 \in 0 .. Window /\ 0 \in 0 .. Second - 1
  BY WindowAssumption
<1> QED
  BY <1>1 DEF Leave, Places

\* A step that leaves the replay columns alone and does not enter an attempt with
\* an older clock reading keeps the invariant, if it keeps the types.
LEMMA ColumnsUntouched ==
    ASSUME IInv, TypeOK', UNCHANGED <<replays, age, recent>>,
           (at' # "attempting" /\ lag' = 0) \/ UNCHANGED <<at, msg, gap, lag>>
    PROVE  IInv'
BY DEF IInv, AttemptInv, RecentInv

\* Every step keeps the invariant.
LEMMA StepInv == IInv /\ [Next]_vars => IInv'
<1> SUFFICES ASSUME IInv, [Next]_vars
             PROVE  IInv'
  OBVIOUS
<1>0. TypeOK /\ AttemptInv
  BY DEF IInv
<1>1. CASE \E m \in Messages : Deliver(m)
  BY <1>0, <1>1, ColumnsUntouched DEF Deliver, AttemptInv, TypeOK, Places, rowVars
<1>2. CASE Insert
  BY <1>0, <1>2, ColumnsUntouched, LeaveTypes DEF Insert, TypeOK, Places, Rows
<1>3. CASE InsertRefused
  BY <1>0, <1>3, ColumnsUntouched, LeaveTypes DEF InsertRefused, TypeOK, Places, rowVars
<1>4. CASE ReadDuplicate
  <2>1. CASE status[msg] = "done"
    <3>1. TypeOK'
      BY <1>0, <1>4, <2>1 DEF ReadDuplicate, TypeOK, Places, rowVars
    <3>2. AttemptInv'
      <4>1. gap' = age[msg] /\ lag' = lag /\ msg' = msg /\ age' = age
        BY <1>4, <2>1 DEF ReadDuplicate, rowVars
      <4>2. msg \in Messages /\ age[msg] \in 0 .. Window
        BY <1>0, <1>4 DEF ReadDuplicate, TypeOK, Places
      <4>3. lag = 0
        BY <1>4 DEF ReadDuplicate, IInv, AttemptInv
      <4> QED
        BY <4>1, <4>2, <4>3, WindowAssumption DEF AttemptInv
    <3> QED
      BY <1>4, <3>1, <3>2 DEF ReadDuplicate, IInv, RecentInv, rowVars
  <2>2. CASE status[msg] # "done"
    BY <1>0, <1>4, <2>2, ColumnsUntouched, LeaveTypes
       DEF ReadDuplicate, TypeOK, Places, rowVars
  <2> QED
    BY <2>1, <2>2
<1>5. CASE Refuse
  BY <1>0, <1>5, ColumnsUntouched, LeaveTypes DEF Refuse, TypeOK, Places, rowVars
<1>6. CASE Grant
  BY <1>6, GrantKeeps
<1>7. CASE AttemptFails
  BY <1>0, <1>7, ColumnsUntouched, LeaveTypes DEF AttemptFails, TypeOK, Places, rowVars
<1>8. CASE \E h \in {{}, {msg}} : Replay(h)
  BY <1>0, <1>8, ColumnsUntouched, LeaveTypes DEF Replay, TypeOK, Places, rowVars
<1>9. CASE Connection
  BY <1>0, <1>9, ColumnsUntouched DEF Connection, Connect, Disconnect, TypeOK, rowVars, threadVars
<1>10. CASE Commit
  BY <1>0, <1>10, ColumnsUntouched DEF Commit, OtherCommits, TypeOK, rowVars
<1>11. CASE \E m \in Messages : Complete(m)
  BY <1>0, <1>11, ColumnsUntouched DEF Complete, OtherCommits, TypeOK, Rows
<1>12. CASE \E m \in Messages : Delete(m)
  BY <1>12, DeleteKeeps
<1>13. CASE Restart
  BY <1>0, <1>13, ColumnsUntouched, LeaveTypes, RestartsAssumption
     DEF Restart, TypeOK, Places, rowVars
<1>14. CASE Tick
  BY <1>14, TickKeeps
<1>15. CASE UNCHANGED vars
  BY <1>0, <1>15, ColumnsUntouched DEF vars, rowVars, threadVars, TypeOK
<1> QED
  BY <1>1, <1>2, <1>3, <1>4, <1>5, <1>6, <1>7, <1>8, <1>9, <1>10, <1>11, <1>12, <1>13,
     <1>14, <1>15 DEF Next, OnMessage, Others

\* The types and the account of the replay columns hold in every reachable state.
THEOREM ReplayInvariance == Spec => []IInv
<1> QED
  BY InitInv, StepInv, PTL DEF Spec

\* A step of the intake is a step of the budget, or none.
LEMMA StepRefines == IInv /\ [Next]_vars => [Budget!Next]_recent
<1> SUFFICES ASSUME IInv, [Next]_vars, recent' # recent
             PROVE  Budget!Next
  OBVIOUS
<1>1. TypeOK
  BY DEF IInv
<1>2. CASE Grant
  <2>1. lag < Span /\ recent' = [recent EXCEPT ![msg] = @ \cup {lag}]
    BY <1>2 DEF Grant, Granted, WithGrant
  <2>2. /\ msg \in Messages
        /\ Cardinality(recent[msg]) <= Counted
        /\ Counted \in Nat
        /\ Counted + 1 <= MaxReplays
        /\ \A b \in recent[msg] : b >= lag + Interval
    BY <1>2, AllowedFits DEF Grant
  <2>3. Cardinality(recent[msg]) \in Nat /\ lag \in 0 .. Window
    BY <1>1, <2>2, RecentFinite DEF TypeOK
  <2>4. lag \in Budget!Ages
    BY <2>1, <2>3, SpanTypes DEF Budget!Ages
  <2>5. Budget!Grant(msg, lag)
    <3>1. Cardinality(recent[msg]) < MaxReplays
      BY <2>2, <2>3, ReplaysAssumption
    <3>2. Budget!Cardinality(recent[msg]) = Cardinality(recent[msg])
      BY DEF Budget!Cardinality, Cardinality, Budget!IsFiniteSet, IsFiniteSet
    <3> QED
      BY <2>1, <2>2, <3>1, <3>2 DEF Budget!Grant
  <2> QED
    BY <2>2, <2>4, <2>5 DEF Budget!Next
<1>3. CASE \E m \in Messages : Delete(m)
  BY <1>3 DEF Delete, Budget!Next, Budget!Forget
<1>4. CASE Tick
  <2>1. Budget!Tick
    BY <1>4 DEF Tick, Budget!Tick, Budget!Older, Older
  <2> QED
    BY <2>1 DEF Budget!Next
<1> QED
  BY <1>2, <1>3, <1>4 DEF Next, OnMessage, Connection, Others, Deliver, Insert, InsertRefused,
     ReadDuplicate, Refuse, AttemptFails, Replay, Connect, Disconnect, Commit, Complete,
     Restart, vars, rowVars

\* No Span ticks see more than MaxReplays granted replays of a row,
\* nor two of them closer than Interval: the columns implement the budget.
THEOREM ReplayKeepsBudget == Spec => KeepsBudget
<1>1. Init => Budget!Init
  BY DEF Init, Budget!Init
<1> QED
  BY <1>1, StepRefines, ReplayInvariance, PTL DEF Spec, KeepsBudget, Budget!Spec
=============================================================================
