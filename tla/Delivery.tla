------------------------------ MODULE Delivery ------------------------------
(***************************************************************************)
(* What the webhook queue (internal/webhooks) promises of each delivery it *)
(* has accepted: it is owed until a request succeeded or until the first   *)
(* request and all its retries were made, and it then stays as it is.      *)
(* Every disruption (a crash, a database error) may cost one request more  *)
(* than the retries allow, and none ever drops a delivery.                 *)
(***************************************************************************)
EXTENDS Naturals

CONSTANTS Deliveries, Retries

VARIABLES
  phase,       \* "none", "owed", "delivered" or "given up"
  requests,    \* requests made for each delivery
  disruptions  \* crashes and database errors

vars == <<phase, requests, disruptions>>

Init ==
  /\ phase = [d \in Deliveries |-> "none"]
  /\ requests = [d \in Deliveries |-> 0]
  /\ disruptions = 0

Owe(d) ==
  /\ phase[d] = "none"
  /\ phase' = [phase EXCEPT ![d] = "owed"]
  /\ UNCHANGED <<requests, disruptions>>

Request(d) ==
  /\ phase[d] = "owed"
  /\ requests[d] < Retries + 1 + disruptions
  /\ requests' = [requests EXCEPT ![d] = @ + 1]
  /\ UNCHANGED <<phase, disruptions>>

Deliver(d) ==
  /\ phase[d] = "owed"
  /\ requests[d] > 0
  /\ phase' = [phase EXCEPT ![d] = "delivered"]
  /\ UNCHANGED <<requests, disruptions>>

GiveUp(d) ==
  /\ phase[d] = "owed"
  /\ requests[d] > Retries
  /\ phase' = [phase EXCEPT ![d] = "given up"]
  /\ UNCHANGED <<requests, disruptions>>

Disrupt ==
  /\ disruptions' = disruptions + 1
  /\ UNCHANGED <<phase, requests>>

Next ==
  \/ \E d \in Deliveries : Owe(d) \/ Request(d) \/ Deliver(d) \/ GiveUp(d)
  \/ Disrupt

Spec == Init /\ [][Next]_vars
=============================================================================
