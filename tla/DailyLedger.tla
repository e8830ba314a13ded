---------------------------- MODULE DailyLedger -----------------------------
(***************************************************************************)
(* What daily_production_summary promises, with no production record, raw  *)
(* row, batch, retention or restart in it: behind it stands a ledger of    *)
(* completions that is only ever added to, each row once and for good with *)
(* its time, and the summary is a view of that ledger. The ledger itself   *)
(* is stored nowhere: the rows it came from are deleted.                   *)
(***************************************************************************)
EXTENDS Naturals, FiniteSets

CONSTANTS
    Rows,   \* rows of mqtt_messages
    Keys,   \* dimensions of the daily summary
    KeyOf,  \* [Rows -> Keys]
    NoRow   \* names no row

VARIABLES
    ledger,  \* a function from the rows counted so far to their completion times
    summary  \* [Keys -> [count, first, last]]

ledgerVars == <<ledger, summary>>

Entered(l, k) == {i \in DOMAIN l : KeyOf[i] = k}

\* How many rows of each key the ledger has, and an earliest and a latest of them.
IsView(s, l) ==
    \A k \in Keys :
       /\ s[k].count = Cardinality(Entered(l, k))
       /\ Entered(l, k) # {} =>
             /\ s[k].first \in Entered(l, k) /\ s[k].last \in Entered(l, k)
             /\ \A i \in Entered(l, k) : l[s[k].first] <= l[i] /\ l[i] <= l[s[k].last]

Init ==
    /\ ledger = [i \in {} |-> 0]
    /\ summary = [k \in Keys |-> [count |-> 0, first |-> NoRow, last |-> NoRow]]

\* One row completes, or several are reconciled at once.
Enter ==
    /\ DOMAIN ledger \subseteq DOMAIN ledger' /\ DOMAIN ledger # DOMAIN ledger'
    /\ DOMAIN ledger' \subseteq Rows
    /\ \A i \in DOMAIN ledger : ledger'[i] = ledger[i]
    /\ IsView(summary', ledger')

Spec == Init /\ [][Enter]_ledgerVars
=============================================================================
