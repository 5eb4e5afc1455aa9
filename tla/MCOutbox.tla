------------------------------ MODULE MCOutbox ------------------------------
(* Values of the constants of Outbox, and what clients enqueue: one        *)
(* message of any kind to up to two recipients, or two plain ones to the   *)
(* same recipient, of which either may opt out of reports.                 *)
EXTENDS Outbox

Opt(report, text, valid, sched) ==
  [wantsReport |-> report, sendable |-> text, expires |-> valid, scheduled |-> sched]

PlainOptions == {Opt(TRUE, TRUE, FALSE, FALSE), Opt(FALSE, TRUE, FALSE, FALSE)}
AllOptions   == PlainOptions \cup {Opt(TRUE, TRUE, TRUE, TRUE), Opt(TRUE, FALSE, FALSE, FALSE)}

(* The first and last octet of each class of TP-ST, 3GPP TS 23.040 9.2.3.15. *)
Statuses == [f \in Fates |-> CASE f = "Delivered" -> {0, 31}
                              [] f = "Retrying"  -> {32, 63}
                              [] OTHER           -> {64, 127}]

Enqueued ==
  \/ last <= 1
  \/ \A m \in Created : recipients[m] = {1} /\ options[m] \in PlainOptions

MCSpec == Init /\ [][Next /\ Enqueued']_vars /\ Fairness
=============================================================================
