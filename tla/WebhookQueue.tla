---------------------------- MODULE WebhookQueue ----------------------------
(***************************************************************************)
(* The webhook registry and delivery queue (internal/webhooks): emissions  *)
(* that store one queue row per registered webhook, the single delivery    *)
(* goroutine that claims due rows, posts them, retries with exponential    *)
(* back-off, recovers claims a crash or a failed database call left        *)
(* behind, and cleans up; the receivers, and the clock.                    *)
(*                                                                         *)
(* Abstractions.  Row <<e, h>> is what the e-th emission stores for        *)
(* webhook h; all emissions are of the event the webhooks are registered   *)
(* for.  Of a row's next_attempt only its distance to the clock is kept,   *)
(* down to where RecoverStuck no longer tells values apart.  The retention *)
(* of Cleanup is any time.  RecoverStuck and DueItems use one reading of   *)
(* the clock and only emissions, whose rows are younger, can come between  *)
(* them, so they are one action.                                           *)
(***************************************************************************)
EXTENDS Integers, FiniteSets

CONSTANTS
  Hooks,         \* webhooks that may be registered
  Redirecting,   \* those whose receiver answers with a redirect
  MaxEmissions,  \* emissions (bounds the model)
  RetryCount,    \* Config.RetryCount (15)
  BatchSize,     \* Queue.BatchSize (20)
  BaseDelay,     \* Queue.RetryBaseDelay, in clock units
  StuckTimeout,  \* Queue.StuckProcessingTimeout, in clock units
  DurationBits,  \* width of time.Duration (64)
  MaxFaults      \* crashes and failed database calls (bounds the model)

Items == (1..MaxEmissions) \X Hooks

\* retryDelay, a shift of a signed DurationBits-bit number.  (A definition
\* whose name ends in _Bug is a fault the properties must notice.)
RetryDelay(n) ==
  LET d == (BaseDelay * 2^n) % 2^DurationBits
  IN  IF d < 2^(DurationBits - 1) THEN d ELSE d - 2^DurationBits

\* No back-off of the configured number of retries overflows.
MaxDelay == RetryDelay(RetryCount)

ASSUME ConfigAssumption ==
  /\ MaxEmissions \in Nat /\ MaxFaults \in Nat
  /\ RetryCount \in Nat /\ BatchSize \in Nat \ {0} /\ StuckTimeout \in Nat
  /\ BaseDelay \in Nat \ {0} /\ DurationBits \in Nat \ {0}
  /\ \A n \in 0..RetryCount : RetryDelay(n) \in 1..MaxDelay
  /\ Redirecting \subseteq Hooks /\ IsFiniteSet(Hooks)

-----------------------------------------------------------------------------
Waiting  == {"pending", "failed"}
Terminal == {"completed", "permanently_failed"}
Statuses == Waiting \cup {"processing"} \cup Terminal

VARIABLES
  registered,  \* the webhooks table
  emissions,   \* emissions so far
  toStore,     \* rows running emissions are still to store
  rows,        \* ids in webhook_queue
  status,      \* status of a row, of a removed one the last
  retries,     \* retry_count
  due,         \* next_attempt minus now
  pc,          \* where the delivery goroutine is
  cur,         \* the row in its hands
  batch,       \* rows of the batch still to be taken
  loaded,      \* retry counts as DueItems loaded them
  posts,       \* requests made for a row
  received,    \* requests whose payload the receiver got
  faults       \* crashes and failed database calls so far

worker  == <<pc, cur, batch, loaded>>
history == <<posts, received>>
vars    == <<registered, emissions, toStore, rows, status, retries, due, worker, history, faults>>

NoItem == <<0, 0>>
Stale  == -(StuckTimeout + 1)

Fault == faults < MaxFaults /\ faults' = faults + 1

-----------------------------------------------------------------------------
(* The registry and emissions.                                             *)

Replace(h) ==
  /\ registered' = registered \cup {h}
  /\ UNCHANGED <<emissions, toStore, rows, status, retries, due, worker, history, faults>>

\* Delete leaves the rows already queued for the webhook alone.
Delete(h) ==
  /\ registered' = registered \ {h}
  /\ UNCHANGED <<emissions, toStore, rows, status, retries, due, worker, history, faults>>

\* emit, emitTracked: SelectByEvent and one reading of the clock.
Emit ==
  LET new == {emissions + 1} \X registered IN
  /\ emissions < MaxEmissions
  /\ emissions' = emissions + 1
  /\ toStore' = toStore \cup new
  /\ due' = [i \in Items |-> IF i \in new THEN 0 ELSE due[i]]
  /\ UNCHANGED <<registered, rows, status, retries, worker, history, faults>>

\* enqueue of one selected webhook.
Store(i) ==
  /\ i \in toStore
  /\ toStore' = toStore \ {i}
  /\ rows' = rows \cup {i}
  /\ status' = [status EXCEPT ![i] = "pending"]
  /\ retries' = [retries EXCEPT ![i] = 0]
  /\ UNCHANGED <<registered, emissions, due, worker, history, faults>>

\* Its insert fails: the emission goes on with the next webhook.
StoreFails(i) ==
  /\ i \in toStore
  /\ toStore' = toStore \ {i}
  /\ Fault
  /\ UNCHANGED <<registered, emissions, rows, status, retries, due, worker, history>>

-----------------------------------------------------------------------------
(* The delivery goroutine: processQueuePass.                               *)

\* RecoverStuck: stale claims are pending again, their retry_count as it was.
RecoverStuck_Bug ==
  [i \in Items |-> IF i \in rows /\ status[i] = "processing" /\ due[i] < Stale
                   THEN "pending" ELSE status[i]]

RecoverStuck ==
  [i \in Items |-> IF i \in rows /\ status[i] = "processing" /\ due[i] <= Stale
                   THEN "pending" ELSE status[i]]

\* DueItems among rows of states st: the BatchSize ones due first.
DueRowsClaimed_Bug(st) == {i \in rows : st[i] \notin Terminal /\ due[i] <= 0}

DueRows(st) == {i \in rows : st[i] \in Waiting /\ due[i] <= 0}

Batches(D) ==
  {B \in SUBSET D :
     /\ Cardinality(B) = IF Cardinality(D) < BatchSize THEN Cardinality(D) ELSE BatchSize
     /\ \A i \in B, j \in D \ B : due[i] <= due[j]}

\* Cleanup: any finished rows may be older than the retention.
Cleanup(st) == {i \in rows : st[i] \in Terminal}

\* The head of a pass whose DueItems succeeded.
Poll ==
  /\ pc = "poll"
  /\ \/ status' = RecoverStuck /\ UNCHANGED faults
     \/ UNCHANGED status /\ Fault
  /\ LET D == DueRows(status') IN
     \/ /\ D # {}
        /\ batch' \in Batches(D)
        /\ loaded' = retries
        /\ pc' = "next"
        /\ UNCHANGED rows
     \/ /\ D = {}
        /\ \E old \in SUBSET Cleanup(status') : rows' = rows \ old
        /\ UNCHANGED <<pc, batch, loaded>>
  /\ UNCHANGED <<registered, emissions, toStore, retries, due, cur, history>>

\* DueItems fails: the pass ends after its recovery.
PollFails ==
  /\ pc = "poll"
  /\ Fault
  /\ status' = RecoverStuck
  /\ UNCHANGED <<registered, emissions, toStore, rows, retries, due, worker, history>>

\* What follows the item in hand: the next of the batch, or a new pass.
Done ==
  /\ cur' = NoItem
  /\ pc' = IF batch = {} THEN "poll" ELSE "next"
  /\ UNCHANGED <<batch, loaded>>

\* MarkProcessing of the first row of the batch.
MarkProcessing ==
  /\ pc = "next"
  /\ \E i \in batch :
       /\ \A j \in batch : due[i] <= due[j]
       /\ batch' = batch \ {i}
       /\ cur' = i
       /\ status' = [status EXCEPT ![i] = "processing"]
  /\ pc' = "post"
  /\ UNCHANGED <<registered, emissions, toStore, rows, retries, due, loaded, history, faults>>

\* It fails: the row is skipped as it is.
MarkProcessingFails ==
  /\ pc = "next"
  /\ Fault
  /\ \E i \in batch :
       /\ \A j \in batch : due[i] <= due[j]
       /\ batch' = batch \ {i}
       /\ pc' = IF batch' = {} THEN "poll" ELSE "next"
  /\ UNCHANGED <<registered, emissions, toStore, rows, status, retries, due, cur, loaded, history>>

\* deliver: the request may be answered with success, be received and not
\* answered so (in time), or not be received.  net/http follows a redirect of
\* a POST with a GET that carries no payload.
Post_Bug ==
  /\ pc = "post" /\ pc' = "delivered"
  /\ posts' = [posts EXCEPT ![cur] = @ + 1]
  /\ received' \in {received, [received EXCEPT ![cur] = @ + 1]}
  /\ UNCHANGED <<registered, emissions, toStore, rows, status, retries, due, cur, batch,
                 loaded, faults>>

Post ==
  /\ pc = "post"
  /\ posts' = [posts EXCEPT ![cur] = @ + 1]
  /\ \/ /\ pc' = "delivered"
        /\ received' = IF cur[2] \in Redirecting THEN received
                                                 ELSE [received EXCEPT ![cur] = @ + 1]
     \/ /\ pc' = "failed"
        /\ received' \in {received, [received EXCEPT ![cur] = @ + 1]}
  /\ UNCHANGED <<registered, emissions, toStore, rows, status, retries, due, cur, batch,
                 loaded, faults>>

MarkCompleted ==
  /\ pc = "delivered"
  /\ status' = [status EXCEPT ![cur] = "completed"]
  /\ Done
  /\ UNCHANGED <<registered, emissions, toStore, rows, retries, due, history, faults>>

\* markDeliveryFailure's test, on the retry count the batch was loaded with.
Exhausted_Bug(n) == n + 1 >= RetryCount
Exhausted(n) == n >= RetryCount

MarkFailed ==
  /\ pc = "failed"
  /\ ~Exhausted(loaded[cur])
  /\ status' = [status EXCEPT ![cur] = "failed"]
  /\ retries' = [retries EXCEPT ![cur] = @ + 1]
  /\ due' = [due EXCEPT ![cur] = RetryDelay(loaded[cur])]
  /\ Done
  /\ UNCHANGED <<registered, emissions, toStore, rows, history, faults>>

MarkPermanentlyFailed ==
  /\ pc = "failed"
  /\ Exhausted(loaded[cur])
  /\ status' = [status EXCEPT ![cur] = "permanently_failed"]
  /\ Done
  /\ UNCHANGED <<registered, emissions, toStore, rows, retries, due, history, faults>>

\* The statement that records the outcome fails: the row stays processing.
RecordFails ==
  /\ pc \in {"delivered", "failed"}
  /\ Fault
  /\ Done
  /\ UNCHANGED <<registered, emissions, toStore, rows, status, retries, due, history>>

-----------------------------------------------------------------------------
(* The clock and crashes.                                                  *)

Tick ==
  /\ due' = [i \in Items |-> IF due[i] > Stale THEN due[i] - 1 ELSE due[i]]
  /\ due' # due
  /\ UNCHANGED <<registered, emissions, toStore, rows, status, retries, worker, history, faults>>

\* The process dies or is shut down, in the middle of whatever it does.
Crash ==
  /\ Fault
  /\ toStore' = {}
  /\ pc' = "poll" /\ cur' = NoItem /\ batch' = {} /\ loaded' = [i \in Items |-> 0]
  /\ UNCHANGED <<registered, emissions, rows, status, retries, due, history>>

-----------------------------------------------------------------------------
Init ==
  /\ registered = {} /\ emissions = 0 /\ toStore = {}
  /\ rows = {}
  /\ status  = [i \in Items |-> "none"]
  /\ retries = [i \in Items |-> 0]
  /\ due     = [i \in Items |-> Stale]
  /\ pc = "poll" /\ cur = NoItem /\ batch = {} /\ loaded = [i \in Items |-> 0]
  /\ posts = [i \in Items |-> 0] /\ received = [i \in Items |-> 0]
  /\ faults = 0

Registry == \E h \in Hooks : Replace(h) \/ Delete(h)

Storing == \E i \in Items : Store(i)

Pass ==
  \/ Poll \/ MarkProcessing \/ Post
  \/ MarkCompleted \/ MarkFailed \/ MarkPermanentlyFailed

Failure ==
  \/ \E i \in Items : StoreFails(i)
  \/ PollFails \/ MarkProcessingFails \/ RecordFails \/ Crash

Next == Registry \/ Emit \/ Storing \/ Pass \/ Failure \/ Tick

Spec == Init /\ [][Next]_vars

\* The delivery goroutine runs, its requests time out, and time passes.
Fairness == WF_vars(Pass) /\ WF_vars(Tick)

FairSpec == Spec /\ Fairness

-----------------------------------------------------------------------------
(* Properties.                                                             *)

Pcs == {"poll", "next", "post", "delivered", "failed"}

TypeOK ==
  /\ registered \subseteq Hooks /\ emissions \in 0..MaxEmissions
  /\ toStore \subseteq Items /\ rows \subseteq Items
  /\ status \in [Items -> Statuses \cup {"none"}]
  /\ retries \in [Items -> 0..RetryCount]
  /\ due \in [Items -> Stale..MaxDelay]
  /\ pc \in Pcs
  /\ cur \in Items \cup {NoItem}
  /\ pc \in {"post", "delivered", "failed"} <=> cur # NoItem
  /\ batch \subseteq Items
  /\ pc = "next" => batch # {}
  /\ loaded \in [Items -> 0..RetryCount]
  /\ posts \in [Items -> Nat] /\ received \in [Items -> Nat]
  /\ faults \in 0..MaxFaults

\* The decision to retry is taken on a retry count read before the request:
\* that count is still the row's, and the row is where the goroutine left it.
LoadedIsCurrent ==
  /\ \A i \in batch : i \in rows /\ status[i] \in Waiting /\ loaded[i] = retries[i]
  /\ cur # NoItem => cur \in rows /\ status[cur] = "processing" /\ loaded[cur] = retries[cur]

\* Completed means the receiver got the payload, unless it redirects.
CompletedWasReceived ==
  \A i \in Items :
    status[i] = "completed" /\ i[2] \notin Redirecting => received[i] >= 1

\* A retry is never made before its back-off has passed, not even after a
\* recovery.
BackoffHonoured == pc = "post" => due[cur] <= 0

\* service.go:254-293 and :360-380: what a pass decides on was read before the
\* claim and the request, and still holds when it decides.
DecisionIsCurrent == LoadedIsCurrent /\ BackoffHonoured

\* Every queued delivery ends completed or permanently failed, also when a
\* crash or failed call left its row processing.
EveryDeliveryEnds ==
  \A i \in Items : i \in rows ~> status[i] \in Terminal

-----------------------------------------------------------------------------
(* The promise the queue implements.  A removed row keeps its last status. *)

Phase ==
  [i \in Items |-> CASE status[i] = "none"               -> "none"
                     [] status[i] = "completed"          -> "delivered"
                     [] status[i] = "permanently_failed" -> "given up"
                     [] OTHER                            -> "owed"]

Promise == INSTANCE Delivery
  WITH Deliveries <- Items, Retries <- RetryCount,
       phase <- Phase, requests <- posts, disruptions <- faults

\* What happens to a queued delivery is what Delivery allows: no path through
\* crashes, failed statements, recovery and clean-up drops an owed delivery,
\* repeats a finished one or makes more requests than the faults excuse.
ImplementsDelivery == Promise!Spec
=============================================================================
