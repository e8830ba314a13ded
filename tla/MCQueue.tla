------------------------------ MODULE MCQueue -------------------------------
(***************************************************************************)
(* Model checking of the queue worker: a specification in which no thread  *)
(* dawdles, and what the README says of the queue's rows, stated as it     *)
(* says it.                                                                *)
(***************************************************************************)
EXTENDS QueueWorker

\* Time passes only while the worker waits: for its interval, for Odoo to
\* authenticate it, or for a child that still has time. No step of its own
\* takes a tick, so what goes wrong here is not the fault of a slow machine.
WorkerWaits ==
    \/ phase \in {"idle", "polling"}
    \/ phase = "waiting" /\ elapsed < SubmitTimeout

PromptSpec == Init /\ [][Step \/ (Tick /\ WorkerWaits)]_vars /\ Fairness

\* README.md:277, "Any successful XML-RPC return marks the row COMPLETED": once
\* Odoo has returned success with an ACK, the message is not sent to it again.
SuccessIsNotResubmitted ==
    [][\A m \in accepted : submits'[m] = submits[m]]_vars

\* README.md:254, "They are not retried automatically": a message whose
\* submission ran into the hard limit is not sent to Odoo again.
TimedOutIsNotRetried ==
    [][\A m \in timedOut : submits'[m] = submits[m]]_vars
=============================================================================
