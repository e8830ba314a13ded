------------------------------ MODULE MCReplay ------------------------------
(***************************************************************************)
(* Model checking of the MQTT intake: what the audit report says of the    *)
(* connection to the broker.                                               *)
(***************************************************************************)
EXTENDS AckReplay

\* BEB_COMPLETE_AUDIT_REPORT.md:554, "BEB should reconnect and resubscribe
\* automatically": a client without its broker connects to it again.
Reconnects == link = "down" ~> link # "down"
=============================================================================
