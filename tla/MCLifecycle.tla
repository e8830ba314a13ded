---------------------------- MODULE MCLifecycle -----------------------------
(***************************************************************************)
(* ProductionLifecycle with three rows: the first and the third are        *)
(* counted under the same dimensions of the daily summary.                 *)
(***************************************************************************)
EXTENDS ProductionLifecycle

CONSTANTS c1, c2, c3, table1, table2

MCContents == {c1, c2, c3}
MCKeys == {table1, table2}
MCKeyOf == [i \in Rows |-> IF i = 2 THEN table2 ELSE table1]
=============================================================================
