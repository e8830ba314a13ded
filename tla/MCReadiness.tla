---------------------------- MODULE MCReadiness -----------------------------
(***************************************************************************)
(* Model checking of the readiness signal: what the README says of BR.     *)
(***************************************************************************)
EXTENDS Readiness

\* README.md:104, "{"BR":1} means BEB has confirmed that the Odoo XML-RPC path is
\* reachable": a PLC is not left with BR=1 while the confirmed state is NOT_READY.
NotReadyIsHeard == state = "NOT_READY" ~> (br # 1 \/ state # "NOT_READY")
=============================================================================
