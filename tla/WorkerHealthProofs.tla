-------------------------- MODULE WorkerHealthProofs --------------------------
(***************************************************************************)
(* Proofs about the worker's health report: the silence since the last     *)
(* heartbeat is made up of the call to Odoo and the steps since then, and  *)
(* is never shorter than the current step.                                 *)
(***************************************************************************)
EXTENDS WorkerHealth, TLAPS

\* The ticks a worker can be silent for are natural numbers.
LEMMA TimesAreNatural ==
    /\ Quiet \in Nat /\ Top \in Nat /\ Top > Threshold /\ Top > Quiet
    /\ Housekeeping \in Nat /\ Housekeeping = Slack + Interval + (Second - 1)
    /\ 0 \in Ages /\ 0 .. Second - 1 \subseteq Ages
    /\ \A p \in Places : Limit(p) \in Nat /\ Limit(p) <= Quiet
<1>1. /\ Housekeeping \in Nat /\ Housekeeping = Slack + Interval + (Second - 1)
      /\ Quiet = Timeout + Slack + Housekeeping
    BY TimesAssumption DEF Housekeeping, Quiet
<1>2. /\ Quiet \in Nat /\ Top \in Nat /\ Top > Threshold /\ Top > Quiet
      /\ Second - 1 \in 0 .. Top
    BY <1>1, TimesAssumption DEF Top
<1>3. \A p \in Places : Limit(p) \in Nat /\ Limit(p) <= Quiet
    BY TimesAssumption DEF Quiet, Housekeeping, Places, Limit
<1> QED
    BY <1>1, <1>2, <1>3 DEF Ages

\* An age that grows stays within its bound and behind no older one.
LEMMA AgesGrow ==
    /\ \A a \in Ages : AtMost(a + 1) \in Ages
    /\ \A a, b \in Ages : b >= a => AtMost(b + 1) >= AtMost(a + 1)
    /\ \A a \in Nat : AtMost(a) <= a
    /\ \A a \in Nat : a <= Quiet => AtMost(a) = a
BY TimesAreNatural DEF Ages, AtMost

\* The parts of IInv that are about ages.
AgesAreTrue ==
    /\ beat # Unset => beat >= here
    /\ Calling => spent = 0
    /\ at \in {"submitting", "settling"} => current <= spent + here
    /\ ~late => here <= Limit(at)
    /\ ~late /\ beat # Unset => beat <= spent + Since + here + (Second - 1)

\* A step that leaves a heartbeat begins anew to count.
LEMMA HeartbeatRestarts ==
    ASSUME at' \in Places, here' = 0, Heartbeat,
           at' \in {"submitting", "settling"} => current' = 0
    PROVE  /\ here' \in Ages /\ beat' \in Ages /\ beat' # Unset
           /\ spent' \in Ages /\ late' = FALSE /\ AgesAreTrue'
<1>1. Since' \in Nat /\ Limit(at') \in Nat
    BY TimesAreNatural, TimesAssumption DEF Since
<1>2. /\ here' = 0 /\ spent' = 0 /\ late' = FALSE
      /\ beat' \in 0 .. Second - 1 /\ beat' \in Ages /\ 0 \in Ages
    BY TimesAreNatural DEF Heartbeat
<1>3. beat' \in Nat /\ beat' <= Second - 1 /\ beat' # Unset /\ Second - 1 \in Nat
    BY <1>2, TimesAssumption DEF Unset
<1>4. AgesAreTrue'
    BY <1>1, <1>2, <1>3 DEF AgesAreTrue
<1> QED
    BY <1>2, <1>3, <1>4

\* A step without a heartbeat remembers how long a call to Odoo took, and may go on
\* for as long as the next place allows.
LEMMA LeavingKeepsAges ==
    ASSUME TypeOK, AgesAreTrue, NoHeartbeat, NEW p \in Places, Leave(p),
           beat # Unset \/ ~Calling,
           \/ p = "sleeping" /\ at # "sleeping"
           \/ p = "between" /\ at = "pass"
           \/ p = "settling" /\ at = "submitting" /\ current' = current
    PROVE  AgesAreTrue' /\ here' \in Ages /\ spent' \in Ages /\ at' = p
<1>1. at' = p /\ here' = 0 /\ beat' = beat /\ late' = late /\ p \notin {"pass", "submitting"}
    BY DEF Leave, GoTo, NoHeartbeat
<1>2. here \in Nat /\ spent \in Nat /\ (beat = Unset \/ beat \in Nat) /\ Limit(p) \in Nat
    BY TimesAreNatural DEF TypeOK, Ages
<1>3. CASE Calling
  <2>1. spent' = here /\ spent = 0 /\ Since = 0 /\ Since' \in Nat
      BY <1>3, TimesAssumption DEF Leave, AgesAreTrue, Calling, Since
  <2>2. at' \in {"submitting", "settling"} => current' <= spent' + here'
      BY <1>1, <1>2, <2>1 DEF AgesAreTrue
  <2>3. ~late /\ beat # Unset => beat <= here + (Second - 1)
      BY <1>2, <2>1 DEF AgesAreTrue
  <2>4. ~late' /\ beat' # Unset => beat' <= spent' + Since' + here' + (Second - 1)
      BY <1>1, <1>2, <2>1, <2>3, TimesAssumption
  <2>5. beat' # Unset => beat' >= here'
      BY <1>1, <1>2
  <2>6. ~Calling' /\ here' <= Limit(at')
      BY <1>1, <1>2 DEF Calling
  <2> QED
      BY <1>1, <2>1, <2>2, <2>4, <2>5, <2>6, TimesAreNatural DEF AgesAreTrue, TypeOK
<1>4. CASE ~Calling
  <2>1. spent' = spent /\ p = "sleeping" /\ at \in {"between", "settling"}
      BY <1>4 DEF Leave, Calling, TypeOK, Places
  <2>2. Since = 0 /\ Since' = Slack /\ Limit(at) = Slack
      BY <1>1, <2>1, TimesAssumption DEF Since, Limit
  <2> QED
      BY <1>1, <1>2, <2>1, <2>2, TimesAreNatural, TimesAssumption
      DEF AgesAreTrue, Calling, TypeOK, Unset
<1> QED
    BY <1>3, <1>4

LEMMA InitInvariant == Init => IInv
<1> SUFFICES ASSUME Init PROVE IInv
    OBVIOUS
<1>1. TypeOK
  <2>1. 0 \in 0 .. BatchSize /\ "sleeping" \in Places
      BY BatchAssumption DEF Places
  <2> QED
      BY <2>1, TimesAreNatural DEF Init, TypeOK
<1>2. here <= Limit(at)
    BY TimesAreNatural DEF Init, Places
<1> QED
    BY <1>1, <1>2 DEF Init, IInv, Calling

LEMMA NextInvariant == IInv /\ [Next]_vars => IInv'
<1> SUFFICES ASSUME IInv, [Next]_vars PROVE IInv'
    OBVIOUS
<1> USE BatchAssumption
<1>a. TypeOK /\ AgesAreTrue
    BY DEF IInv, AgesAreTrue
<1>b. SUFFICES /\ TypeOK' /\ AgesAreTrue'
               /\ current' # Unset => raised' \/ at' \in {"submitting", "settling"}
               /\ raised' => at' \in {"sleeping", "pass", "between"}
               /\ beat' = Unset => at' = "sleeping"
    BY DEF IInv, AgesAreTrue
<1>1. CASE Wake
  <2>1. at' = "pass" /\ here' = 0 /\ Heartbeat /\ at' \in Places
      BY <1>1 DEF Wake, GoTo, Places
  <2> QED
      BY <1>1, <1>a, <2>1, HeartbeatRestarts DEF Wake, IInv, TypeOK
<1>2. CASE Claim
  <2>1. AgesAreTrue' /\ here' \in Ages /\ spent' \in Ages /\ at' = "between"
      BY <1>2, <1>a, LeavingKeepsAges DEF Claim, IInv, Places
  <2> QED
      BY <1>2, <1>a, <2>1 DEF Claim, NoHeartbeat, IInv, TypeOK, Places
<1>3. CASE EmptyPass
  <2>1. AgesAreTrue' /\ here' \in Ages /\ spent' \in Ages /\ at' = "sleeping"
      BY <1>3, <1>a, LeavingKeepsAges DEF EmptyPass, IInv, Places
  <2> QED
      BY <1>3, <1>a, <2>1 DEF EmptyPass, NoHeartbeat, IInv, TypeOK, Places
<1>4. CASE BeginRecord
  <2>1. at' = "submitting" /\ here' = 0 /\ Heartbeat /\ at' \in Places /\ current' = 0
      BY <1>4 DEF BeginRecord, GoTo, Places
  <2>2. left' \in 0 .. BatchSize
      BY <1>4, <1>a DEF BeginRecord, TypeOK
  <2>3. /\ here' \in Ages /\ beat' \in Ages /\ beat' # Unset
        /\ spent' \in Ages /\ late' = FALSE /\ AgesAreTrue'
      BY <2>1, HeartbeatRestarts
  <2>4. raised' = FALSE /\ 0 \in Ages
      BY <1>4, TimesAreNatural DEF BeginRecord
  <2> QED
      BY <2>1, <2>2, <2>3, <2>4 DEF TypeOK
<1>5. CASE EndBatch
  <2>1. AgesAreTrue' /\ here' \in Ages /\ spent' \in Ages /\ at' = "sleeping"
      BY <1>5, <1>a, LeavingKeepsAges DEF EndBatch, IInv, Places, Calling
  <2> QED
      BY <1>5, <1>a, <2>1 DEF EndBatch, NoHeartbeat, IInv, TypeOK, Places
<1>6. CASE EndSubmission
  <2>1. AgesAreTrue' /\ here' \in Ages /\ spent' \in Ages /\ at' = "settling"
      BY <1>6, <1>a, LeavingKeepsAges DEF EndSubmission, IInv, Places
  <2> QED
      BY <1>6, <1>a, <2>1 DEF EndSubmission, NoHeartbeat, IInv, TypeOK, Places
<1>7. CASE FinishRecord
  <2>1. at' = "between" /\ here' = 0 /\ Heartbeat /\ at' \in Places
      BY <1>7 DEF FinishRecord, GoTo, Places
  <2>2. /\ here' \in Ages /\ beat' \in Ages /\ beat' # Unset
        /\ spent' \in Ages /\ late' = FALSE /\ AgesAreTrue'
      BY <2>1, HeartbeatRestarts
  <2> QED
      BY <1>7, <1>a, <2>1, <2>2 DEF FinishRecord, IInv, TypeOK
<1>8. CASE RecordRaises
  <2>1. AgesAreTrue' /\ here' \in Ages /\ spent' \in Ages /\ at' = "sleeping"
      BY <1>8, <1>a, LeavingKeepsAges DEF RecordRaises, IInv, Places
  <2> QED
      BY <1>8, <1>a, <2>1 DEF RecordRaises, NoHeartbeat, IInv, TypeOK, Places
<1>9. CASE Tick
  <2> USE TimesAssumption
  <2>0. /\ at' = at /\ left' = left /\ spent' = spent /\ raised' = raised
        /\ here' = AtMost(here + 1) /\ beat' = Aged(beat) /\ current' = Aged(current)
        /\ Since' = Since /\ (Calling' <=> Calling)
      BY <1>9 DEF Tick, Since, Calling
  <2>t. /\ here \in Ages /\ beat \in Ages \cup {Unset} /\ current \in Ages \cup {Unset}
        /\ spent \in Ages /\ here \in Nat /\ spent \in Nat /\ Since \in Nat
      BY <1>a DEF TypeOK, Ages, Since
  <2>1. /\ here' \in Ages /\ beat' \in Ages \cup {Unset} /\ current' \in Ages \cup {Unset}
        /\ (beat' = Unset <=> beat = Unset) /\ (current' = Unset <=> current = Unset)
      BY <2>0, <2>t, AgesGrow DEF Aged, Ages, Unset
  <2>2. TypeOK'
      BY <1>9, <1>a, <2>0, <2>1 DEF Tick, TypeOK
  <2>3. beat' # Unset => beat' >= here'
      BY <1>a, <2>0, <2>1, <2>t, AgesGrow DEF Aged, AgesAreTrue
  <2>4. Calling' => spent' = 0
      BY <1>a, <2>0 DEF AgesAreTrue
  <2>5. at' \in {"submitting", "settling"} => current' <= spent' + here'
    <3> SUFFICES ASSUME at \in {"submitting", "settling"}, current # Unset
                 PROVE  current' <= spent' + here'
        BY <2>0, <2>1, <2>t, TimesAreNatural DEF Aged, Unset, Ages
    <3>1. current <= spent + here /\ current \in Nat /\ current' = AtMost(current + 1)
        BY <1>a, <2>0, <2>t DEF AgesAreTrue, Aged, Ages
    <3> QED
        BY <3>1, <2>0, <2>t, TimesAreNatural DEF AtMost
  <2>6. ~late' => ~late /\ here' = here + 1 /\ here' <= Limit(at)
    <3>1. ~late' => ~late /\ ~(here + 1 > Limit(at))
        BY <1>9, Zenon DEF Tick
    <3>2. Limit(at) \in Nat /\ Limit(at) <= Quiet
        BY <1>a, TimesAreNatural DEF TypeOK
    <3> SUFFICES ASSUME ~late' PROVE here' = here + 1 /\ here' <= Limit(at)
        BY <3>1
    <3>3. here + 1 <= Quiet /\ here + 1 \in Nat /\ here + 1 <= Limit(at)
        BY <3>1, <3>2, <2>t, TimesAreNatural
    <3>4. AtMost(here + 1) = here + 1
        BY <3>3, AgesGrow
    <3> QED
        BY <2>0, <3>3, <3>4
  <2>7. ~late' /\ beat' # Unset => beat' <= spent' + Since' + here' + (Second - 1)
    <3> SUFFICES ASSUME ~late', beat' # Unset
                 PROVE  beat' <= spent' + Since' + here' + (Second - 1)
        OBVIOUS
    <3>1. beat <= spent + Since + here + (Second - 1) /\ beat \in Nat
        BY <1>a, <2>1, <2>6, <2>t DEF AgesAreTrue, Ages
    <3>2. beat' = AtMost(beat + 1) /\ AtMost(beat + 1) <= beat + 1
        BY <2>0, <2>1, <3>1, AgesGrow DEF Aged
    <3> QED
        BY <3>1, <3>2, <2>0, <2>1, <2>6, <2>t DEF Ages
  <2>8. AgesAreTrue'
      BY <2>0, <2>3, <2>4, <2>5, <2>6, <2>7 DEF AgesAreTrue
  <2> QED
      BY <2>0, <2>1, <2>2, <2>8 DEF IInv
<1>10. CASE UNCHANGED vars
    BY <1>10 DEF vars, IInv, TypeOK, AgesAreTrue, Calling, Since
<1> QED
    BY <1>1, <1>2, <1>3, <1>4, <1>5, <1>6, <1>7, <1>8, <1>9, <1>10 DEF Next, Worker

\* IInv, which makes the heartbeat's and the record's age up from the call to Odoo
\* and the steps since, holds in every reachable state.
THEOREM HealthInvariance == Spec => []IInv
BY InitInvariant, NextInvariant, PTL DEF Spec

\* Whatever the threshold, also below the limit of a submission as in the defaults:
\* a worker whose steps keep their time is reported unhealthy only if a call to Odoo
\* has used up the threshold, or the limit of a submission, but for what must follow
\* the call, or after an exception left a record behind.
THEOREM NoAlarmWithoutSlowCall == Spec => []AlarmsAreTrue
<1>1. IInv => AlarmsAreTrue
  <2> SUFFICES ASSUME IInv, beat # Unset, ~late
               PROVE  /\ beat > Threshold => CallTime > Threshold - Housekeeping
                      /\ current > Timeout => raised \/ CallTime > Timeout - Slack
      BY DEF AlarmsAreTrue
  <2>1. /\ beat <= spent + Since + here + (Second - 1) /\ here <= Limit(at)
        /\ Calling => spent = 0
        /\ at \in {"submitting", "settling"} => current <= spent + here
        /\ current # Unset => raised \/ at \in {"submitting", "settling"}
        /\ beat \in Nat /\ here \in Nat /\ spent \in Nat /\ at \in Places
        /\ current = Unset \/ current \in Nat
      BY TimesAreNatural DEF IInv, TypeOK, Ages
  <2>2. CASE Calling
    <3>1. CallTime = here /\ Since = 0
        BY <2>2 DEF CallTime, Calling, Since
    <3> QED
        BY <2>1, <2>2, <3>1, TimesAreNatural, TimesAssumption DEF Unset
  <2>3. CASE at = "sleeping"
    <3>1. CallTime = spent /\ Since = Slack /\ Limit(at) = Interval
        BY <2>3 DEF CallTime, Calling, Since, Limit
    <3> QED
        BY <2>1, <2>3, <3>1, TimesAreNatural, TimesAssumption DEF Unset
  <2>4. CASE at \in {"between", "settling"}
    <3>1. CallTime = spent /\ Since = 0 /\ Limit(at) = Slack
        BY <2>4 DEF CallTime, Calling, Since, Limit
    <3> QED
        BY <2>1, <2>4, <3>1, TimesAreNatural, TimesAssumption DEF Unset
  <2> QED
      BY <2>1, <2>2, <2>3, <2>4 DEF Calling, Places
<1> QED
    BY <1>1, HealthInvariance, PTL

\* A worker that is stuck in a step for longer than the threshold is reported
\* unhealthy, for as long as it is.
THEOREM StuckWorkerIsReported == Spec => []StuckIsReported
<1>1. IInv => StuckIsReported
    BY TimesAssumption, TimesAreNatural DEF StuckIsReported, Healthy, IInv, TypeOK, Ages, Unset
<1> QED
    BY <1>1, HealthInvariance, PTL
=============================================================================
