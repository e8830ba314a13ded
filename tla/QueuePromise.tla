---------------------------- MODULE QueuePromise ----------------------------
(***************************************************************************)
(* What the durable queue promises the PLC, with no thread, table column,  *)
(* retry, crash or clock in it: a message that was stored is settled once  *)
(* and for good, done or given up, and only a message that is done is      *)
(* answered with its ACK.                                                  *)
(***************************************************************************)
CONSTANT Messages

VARIABLES
    open,      \* stored and still worked on
    done,      \* accepted by Odoo, durably
    dead,      \* given up, left for an operator
    answered   \* its ACK was published at least once

promiseVars == <<open, done, dead, answered>>

Init == open = {} /\ done = {} /\ dead = {} /\ answered = {}

Accept(m) ==
    /\ m \notin open \cup done \cup dead
    /\ open' = open \cup {m}
    /\ UNCHANGED <<done, dead, answered>>

Finish(m) ==
    /\ m \in open
    /\ open' = open \ {m}
    /\ done' = done \cup {m}
    /\ UNCHANGED <<dead, answered>>

\* A crash or a pass of the watchdog may give up several at once.
GiveUp(S) ==
    /\ S \subseteq open /\ S # {}
    /\ open' = open \ S
    /\ dead' = dead \cup S
    /\ UNCHANGED <<done, answered>>

Answer(m) ==
    /\ m \in done
    /\ answered' = answered \cup {m}
    /\ UNCHANGED <<open, done, dead>>

Next ==
    \/ \E m \in Messages : Accept(m) \/ Finish(m) \/ Answer(m)
    \/ \E S \in SUBSET Messages : GiveUp(S)

Settling == \A m \in Messages : (m \in open) ~> (m \notin open)

Safety == Init /\ [][Next]_promiseVars

Spec == Safety /\ Settling
=============================================================================
