------------------------- MODULE WebhookQueueProofs -------------------------
(***************************************************************************)
(* Theorems about the webhook queue, for all webhooks, emissions, faults   *)
(* and configurations whose back-off does not overflow.                    *)
(***************************************************************************)
EXTENDS WebhookQueue, FiniteSetTheorems, TLAPS

\* The constants the arithmetic needs, without the width of durations.
LEMMA Constants ==
  /\ MaxEmissions \in Nat /\ MaxFaults \in Nat /\ RetryCount \in Nat /\ StuckTimeout \in Nat
  /\ MaxDelay \in Int /\ MaxDelay >= 1
  /\ Stale \in Int /\ Stale <= -1
  /\ \A n \in 0..RetryCount : RetryDelay(n) \in 1..MaxDelay
<1>1. RetryDelay(RetryCount) = MaxDelay
  BY DEF MaxDelay
<1>2. RetryCount \in 0..RetryCount
  BY ConfigAssumption
<1>3. MaxDelay \in 1..MaxDelay
  BY ConfigAssumption, <1>1, <1>2
<1>. QED  BY <1>3, ConfigAssumption DEF Stale

LEMMA NoItemIsNone == NoItem \notin Items
BY Constants DEF NoItem, Items

\* A batch taken from due rows is not empty.
LEMMA BatchNonempty ==
  ASSUME NEW D \in SUBSET Items, D # {}, NEW B \in Batches(D)
  PROVE  B # {}
<1>0. IsFiniteSet(1..MaxEmissions) /\ IsFiniteSet(Hooks)
  BY ConfigAssumption, FS_Interval
<1>1. IsFiniteSet(Items)
  BY <1>0, FS_Product DEF Items
<1>2. IsFiniteSet(D) /\ Cardinality(D) \in Nat /\ Cardinality(D) # 0
  BY <1>1, FS_Subset, FS_CardinalityType, FS_EmptySet
<1>3. Cardinality(B) # 0
  BY <1>2, ConfigAssumption DEF Batches
<1>. QED
  BY <1>3, FS_EmptySet

-----------------------------------------------------------------------------
(* The inductive invariant.                                                *)

Busy == {"post", "delivered", "failed"}

\* A row still to be stored, or of an emission still to come, has no history.
StoreInv ==
  /\ \A i \in toStore : status[i] = "none" /\ i[1] <= emissions
  /\ \A i \in Items : i[1] > emissions => status[i] = "none" /\ i \notin toStore
  /\ \A i \in Items : status[i] = "none" => posts[i] = 0 /\ received[i] = 0 /\ retries[i] = 0
  /\ \A i \in rows : status[i] \in Statuses

\* A request of the row in hand that is not accounted for yet, or the last one
\* of a finished row.
Unrecorded(i) == status[i] \in Terminal \/ (i = cur /\ pc \in {"delivered", "failed"})

\* Requests are the recorded retries, the one in hand, and at most one per fault.
CountInv ==
  /\ \A i \in Items : retries[i] <= posts[i]
  /\ \A i \in Items : posts[i] <= retries[i] + faults + (IF Unrecorded(i) THEN 1 ELSE 0)
  /\ pc \in {"delivered", "failed"} => posts[cur] >= retries[cur] + 1

\* Success in hand, or stored, means that the receiver has the payload.
ReceivedInv ==
  /\ CompletedWasReceived
  /\ pc = "delivered" /\ cur[2] \notin Redirecting => received[cur] >= 1

\* What was due when it was selected stays due until it is handled.
DueInv == (\A i \in batch : due[i] <= 0) /\ (pc \in Busy => due[cur] <= 0)

Rest ==
  /\ LoadedIsCurrent /\ cur \notin batch
  /\ StoreInv /\ CountInv /\ ReceivedInv /\ DueInv

Inv == TypeOK /\ Rest

-----------------------------------------------------------------------------
(* Type correctness.                                                       *)

LEMMA TypeInit == Init => TypeOK
BY Constants, NoItemIsNone DEF Init, TypeOK, Items, Pcs

LEMMA TypeStep == TypeOK /\ LoadedIsCurrent /\ [Next]_vars => TypeOK'
<1> SUFFICES ASSUME TypeOK, LoadedIsCurrent, [Next]_vars PROVE TypeOK'
  OBVIOUS
<1> USE Constants, NoItemIsNone
<1>1. ASSUME NEW h \in Hooks, Replace(h) \/ Delete(h)
      PROVE  TypeOK'
  BY <1>1 DEF Replace, Delete, TypeOK, worker, history
<1>2. CASE Emit
  <2>1. emissions' \in 0..MaxEmissions
    BY <1>2 DEF Emit, TypeOK
  <2>2. toStore' \subseteq Items
    BY <1>2, <2>1 DEF Emit, TypeOK, Items
  <2>3. due' \in [Items -> Stale..MaxDelay]
    BY <1>2 DEF Emit, TypeOK
  <2>. QED
    BY <1>2, <2>1, <2>2, <2>3 DEF Emit, TypeOK, worker, history
<1>3. ASSUME NEW i \in Items, Store(i)
      PROVE  TypeOK'
  BY <1>3 DEF Store, TypeOK, Statuses, Waiting, worker, history
<1>4. ASSUME NEW i \in Items, StoreFails(i)
      PROVE  TypeOK'
  BY <1>4 DEF StoreFails, Fault, TypeOK, worker, history
<1>5. RecoverStuck \in [Items -> Statuses \cup {"none"}]
  BY DEF RecoverStuck, TypeOK, Statuses, Waiting
<1>6. CASE Poll
  <2>1. status' \in [Items -> Statuses \cup {"none"}] /\ faults' \in 0..MaxFaults
    BY <1>5, <1>6 DEF Poll, Fault, TypeOK
  <2>2. /\ rows' \subseteq Items /\ batch' \subseteq Items
        /\ pc' \in {"poll", "next"} /\ loaded' \in [Items -> 0..RetryCount]
        /\ pc' = "next" => batch' # {}
    <3>1. CASE /\ DueRows(status') # {} /\ batch' \in Batches(DueRows(status'))
               /\ loaded' = retries /\ pc' = "next" /\ UNCHANGED rows
      <4>1. DueRows(status') \subseteq Items
        BY DEF DueRows, TypeOK
      <4>2. batch' # {} /\ batch' \subseteq Items
        BY <3>1, <4>1, BatchNonempty DEF Batches
      <4>. QED
        BY <3>1, <4>2 DEF TypeOK
    <3>2. CASE /\ \E old \in SUBSET Cleanup(status') : rows' = rows \ old
               /\ UNCHANGED <<pc, batch, loaded>>
      BY <1>6, <3>2 DEF Poll, TypeOK
    <3>. QED
      BY <1>6, <3>1, <3>2 DEF Poll
  <2>. QED
    BY <1>6, <2>1, <2>2 DEF Poll, TypeOK, Pcs, history
<1>7. CASE PollFails
  BY <1>5, <1>7 DEF PollFails, Fault, TypeOK, worker, history
<1>8. CASE MarkProcessing
  BY <1>8 DEF MarkProcessing, TypeOK, Statuses, Pcs, history
<1>9. CASE MarkProcessingFails
  BY <1>9 DEF MarkProcessingFails, Fault, TypeOK, Pcs, history
<1>10. CASE Post
  <2>1. cur \in Items
    BY <1>10 DEF Post, TypeOK
  <2>2. posts' \in [Items -> Nat] /\ received' \in [Items -> Nat]
    BY <1>10, <2>1 DEF Post, TypeOK
  <2>. QED
    BY <1>10, <2>1, <2>2 DEF Post, TypeOK, Pcs
<1>11. CASE MarkCompleted \/ MarkPermanentlyFailed
  BY <1>11 DEF MarkCompleted, MarkPermanentlyFailed, Done, TypeOK, Statuses, Terminal, Pcs, history
<1>12. CASE MarkFailed
  <2>1. cur \in Items /\ loaded[cur] = retries[cur] /\ loaded[cur] \in 0..RetryCount
    BY <1>12 DEF MarkFailed, TypeOK, LoadedIsCurrent
  <2>2. retries' \in [Items -> 0..RetryCount]
    BY <1>12, <2>1 DEF MarkFailed, Exhausted, TypeOK
  <2>3. due' \in [Items -> Stale..MaxDelay]
    <3>1. RetryDelay(loaded[cur]) \in Stale..MaxDelay
      BY <2>1
    <3>. QED
      BY <1>12, <3>1 DEF MarkFailed, TypeOK
  <2>. QED
    BY <1>12, <2>2, <2>3 DEF MarkFailed, Done, TypeOK, Statuses, Waiting, Pcs, history
<1>13. CASE RecordFails
  BY <1>13 DEF RecordFails, Fault, Done, TypeOK, Pcs, history
<1>14. CASE Crash
  BY <1>14 DEF Crash, Fault, TypeOK, Pcs, history
<1>15. CASE Tick
  <2>1. due' \in [Items -> Stale..MaxDelay]
    BY <1>15 DEF Tick, TypeOK
  <2>. QED
    BY <1>15, <2>1 DEF Tick, TypeOK, worker, history
<1>16. CASE UNCHANGED vars
  BY <1>16 DEF TypeOK, vars, worker, history
<1>. QED
  BY <1>1, <1>2, <1>3, <1>4, <1>6, <1>7, <1>8, <1>9, <1>10, <1>11, <1>12, <1>13,
     <1>14, <1>15, <1>16
  DEF Next, Registry, Storing, Pass, Failure

-----------------------------------------------------------------------------
(* The invariant is inductive.                                             *)

\* A row is on its way to one state only.
LEMMA StatusFacts ==
  /\ "none" \notin Statuses
  /\ Waiting \cap Terminal = {}
  /\ "processing" \notin Waiting /\ "processing" \notin Terminal
  /\ "none" \notin Waiting /\ "none" \notin Terminal
  /\ \A s : s \in Statuses <=> (s \in Waiting \/ s = "processing" \/ s \in Terminal)
BY DEF Statuses, Waiting, Terminal

\* A row in hand exists exactly while a request of it is being made.
LEMMA HandFacts ==
  ASSUME TypeOK
  PROVE  /\ pc \in Busy => cur \in Items /\ cur # NoItem
         /\ pc \notin Busy => cur = NoItem
BY NoItemIsNone DEF TypeOK, Busy

LEMMA InvInit == Init => Inv
BY TypeInit, NoItemIsNone
DEF Init, Inv, Rest, LoadedIsCurrent, StoreInv, CountInv, Unrecorded, ReceivedInv,
    CompletedWasReceived, DueInv, Busy, Terminal

LEMMA InvStep == Inv /\ [Next]_vars => Inv'
<1> SUFFICES ASSUME Inv, [Next]_vars PROVE Rest'
  BY TypeStep DEF Inv, Rest
<1> USE Constants, NoItemIsNone, StatusFacts, HandFacts
<1>1. CASE Emit
  <2>1. emissions' = emissions + 1 /\ emissions \in Nat
    BY <1>1 DEF Emit, Inv, TypeOK
  <2>. QED
    BY <1>1, <2>1 DEF Emit, Inv, TypeOK, Items, worker, history, Rest, LoadedIsCurrent,
       StoreInv, CountInv, Unrecorded, ReceivedInv, CompletedWasReceived, DueInv, Busy
<1>2. ASSUME NEW i \in Items, Store(i)
      PROVE  Rest'
  BY <1>2 DEF Store, Inv, TypeOK, worker, history, Rest, LoadedIsCurrent, StoreInv,
     CountInv, Unrecorded, ReceivedInv, CompletedWasReceived, DueInv, Busy, Waiting
<1>3. ASSUME NEW i \in Items, StoreFails(i)
      PROVE  Rest'
  BY <1>3 DEF StoreFails, Fault, Inv, TypeOK, worker, history, Rest, LoadedIsCurrent, StoreInv,
     CountInv, Unrecorded, ReceivedInv, CompletedWasReceived, DueInv, Busy
<1>4. \A i \in Items : \/ RecoverStuck[i] = status[i]
                       \/ status[i] = "processing" /\ RecoverStuck[i] = "pending"
  BY DEF RecoverStuck
<1>5. CASE Poll
  <2>1. /\ pc = "poll" /\ cur = NoItem /\ pc' \in {"poll", "next"}
        /\ UNCHANGED <<emissions, toStore, retries, due, cur, posts, received>>
        /\ faults \in Nat /\ faults' \in Nat /\ faults <= faults'
    BY <1>5 DEF Poll, Fault, Inv, TypeOK, history, Busy
  <2>2. \A i \in Items : \/ status'[i] = status[i]
                         \/ status[i] = "processing" /\ status'[i] = "pending"
    BY <1>4, <1>5 DEF Poll
  <2>3. /\ rows' \subseteq rows
        /\ \/ batch' \subseteq DueRows(status') /\ rows' = rows /\ loaded' = retries
           \/ batch' = batch /\ pc' = "poll" /\ loaded' = loaded
              /\ rows' \cap DueRows(status') = {} /\ DueRows(status') = {}
    BY <1>5 DEF Poll, Batches
  <2>4. posts \in [Items -> Nat] /\ retries \in [Items -> 0..RetryCount] /\ rows \subseteq Items
        /\ toStore \subseteq Items
    BY DEF Inv, TypeOK
  <2>5. LoadedIsCurrent' /\ DueInv' /\ cur' \notin batch'
    <3>1. batch \subseteq DueRows(status')
      <4> SUFFICES ASSUME NEW i \in batch PROVE i \in DueRows(status')
        OBVIOUS
      <4>1. i \in rows /\ status[i] \in Waiting /\ due[i] <= 0
        BY DEF Inv, Rest, LoadedIsCurrent, DueInv
      <4>2. status'[i] = status[i]
        BY <2>2, <2>4, <4>1
      <4>. QED
        BY <4>1, <4>2 DEF DueRows
    <3>2. \A i \in batch' : /\ i \in rows' /\ status'[i] \in Waiting /\ due'[i] <= 0
                            /\ loaded'[i] = retries'[i]
      BY <2>1, <2>3, <3>1 DEF DueRows
    <3>. QED
      BY <2>1, <2>3, <2>4, <3>2 DEF LoadedIsCurrent, DueInv, Busy
  <2>6. StoreInv' /\ ReceivedInv'
    BY <2>1, <2>2, <2>3, <2>4
    DEF Inv, Rest, StoreInv, ReceivedInv, CompletedWasReceived, Waiting
  <2>7. CountInv'
    BY <2>1, <2>2, <2>4 DEF Inv, Rest, CountInv, Unrecorded
  <2>. QED
    BY <2>5, <2>6, <2>7 DEF Rest
<1>6. CASE PollFails
  BY <1>4, <1>6 DEF PollFails, Fault, Inv, TypeOK, worker, history, Rest, LoadedIsCurrent, StoreInv,
     CountInv, Unrecorded, ReceivedInv, CompletedWasReceived, DueInv, Busy, Waiting
<1>7. CASE MarkProcessing
  BY <1>7 DEF MarkProcessing, Inv, TypeOK, history, Rest, LoadedIsCurrent, StoreInv,
     CountInv, Unrecorded, ReceivedInv, CompletedWasReceived, DueInv, Busy
<1>8. CASE MarkProcessingFails
  BY <1>8 DEF MarkProcessingFails, Fault, Inv, TypeOK, history, Rest, LoadedIsCurrent, StoreInv,
     CountInv, Unrecorded, ReceivedInv, CompletedWasReceived, DueInv, Busy
<1>9. CASE Post
  BY <1>9 DEF Post, Inv, TypeOK, Rest, LoadedIsCurrent, StoreInv,
     CountInv, Unrecorded, ReceivedInv, CompletedWasReceived, DueInv, Busy
<1>10. CASE MarkCompleted \/ MarkPermanentlyFailed
  <2>1. CASE MarkCompleted
    BY <2>1 DEF MarkCompleted, Done, Inv, TypeOK, history, Rest,
       LoadedIsCurrent, StoreInv, CountInv, Unrecorded, ReceivedInv, CompletedWasReceived,
       DueInv, Busy, Terminal
  <2>2. CASE MarkPermanentlyFailed
    BY <2>2 DEF MarkPermanentlyFailed, Done, Inv, TypeOK, history, Rest,
       LoadedIsCurrent, StoreInv, CountInv, Unrecorded, ReceivedInv, CompletedWasReceived,
       DueInv, Busy, Terminal
  <2>. QED  BY <1>10, <2>1, <2>2
<1>11. CASE MarkFailed
  BY <1>11 DEF MarkFailed, Done, Inv, TypeOK, history, Rest,
     LoadedIsCurrent, StoreInv, CountInv, Unrecorded, ReceivedInv, CompletedWasReceived,
     DueInv, Busy, Waiting
<1>12. CASE RecordFails
  BY <1>12 DEF RecordFails, Fault, Done, Inv, TypeOK, history, Rest,
     LoadedIsCurrent, StoreInv, CountInv, Unrecorded, ReceivedInv, CompletedWasReceived,
     DueInv, Busy
<1>13. CASE Crash
  BY <1>13 DEF Crash, Fault, Inv, TypeOK, history, Rest,
     LoadedIsCurrent, StoreInv, CountInv, Unrecorded, ReceivedInv, CompletedWasReceived,
     DueInv, Busy
<1>14. CASE Tick
  BY <1>14 DEF Tick, Inv, TypeOK, worker, history, Rest, LoadedIsCurrent, StoreInv,
     CountInv, Unrecorded, ReceivedInv, CompletedWasReceived, DueInv, Busy
<1>15. CASE UNCHANGED <<emissions, toStore, rows, status, retries, due, worker, history, faults>>
  BY <1>15 DEF Inv, worker, history, Rest, LoadedIsCurrent, StoreInv,
     CountInv, Unrecorded, ReceivedInv, CompletedWasReceived, DueInv
<1>. QED
  BY <1>1, <1>2, <1>3, <1>5, <1>6, <1>7, <1>8, <1>9, <1>10, <1>11, <1>12, <1>13,
     <1>14, <1>15
  DEF Next, Registry, Storing, Pass, Failure, Replace, Delete, vars

\* The inductive invariant holds in every reachable state.
THEOREM InvCorrect == Spec => []Inv
BY InvInit, InvStep, PTL DEF Spec

-----------------------------------------------------------------------------
(* What follows from it.                                                   *)

\* Every variable keeps its type: among others no retry count passes
\* RetryCount and a row is in hand exactly while a request of it is made.
THEOREM TypeCorrect == Spec => []TypeOK
<1>1. Inv => TypeOK
  BY DEF Inv
<1>. QED  BY <1>1, InvCorrect, PTL

\* What the batch was loaded with is still what the rows say when the
\* goroutine decides about a retry.
THEOREM LoadedIsCurrentCorrect == Spec => []LoadedIsCurrent
<1>1. Inv => LoadedIsCurrent
  BY DEF Inv, Rest
<1>. QED  BY <1>1, InvCorrect, PTL

\* A delivery marked completed reached its receiver, unless that redirects.
THEOREM CompletedWasReceivedCorrect == Spec => []CompletedWasReceived
<1>1. Inv => CompletedWasReceived
  BY DEF Inv, Rest, ReceivedInv
<1>. QED  BY <1>1, InvCorrect, PTL

\* No request is made before the back-off of the previous one has passed.
THEOREM BackoffHonouredCorrect == Spec => []BackoffHonoured
<1>1. Inv => BackoffHonoured
  BY DEF Inv, Rest, DueInv, BackoffHonoured, Busy
<1>. QED  BY <1>1, InvCorrect, PTL

\* A pass decides on what is still true: the retry count it loaded is the row's
\* when the request has failed, and no request is early (service.go:254-380).
THEOREM DecisionIsCurrentCorrect == Spec => []DecisionIsCurrent
<1>1. LoadedIsCurrent /\ BackoffHonoured => DecisionIsCurrent
  BY DEF DecisionIsCurrent
<1>. QED  BY <1>1, LoadedIsCurrentCorrect, BackoffHonouredCorrect, PTL

-----------------------------------------------------------------------------
(* The queue implements Delivery.                                          *)

LEMMA PhaseInit == Init => Promise!Init
BY DEF Init, Promise!Init, Phase

\* A step that keeps the requests and the faults and every row's phase is a
\* stutter of Delivery.
LEMMA PhaseKept ==
  ASSUME \A i \in Items : Phase'[i] = Phase[i]
  PROVE  Phase' = Phase
BY DEF Phase

\* A step that stores one status changes one phase.
LEMMA PhaseStep ==
  ASSUME TypeOK, NEW i \in Items, NEW s \in Statuses, status' = [status EXCEPT ![i] = s]
  PROVE  Phase' = [Phase EXCEPT ![i] = IF s = "completed" THEN "delivered"
                                       ELSE IF s = "permanently_failed" THEN "given up"
                                       ELSE "owed"]
BY DEF TypeOK, Phase, Statuses, Waiting, Terminal

LEMMA PromiseStep == Inv /\ [Next]_vars => [Promise!Next]_(Promise!vars)
<1> SUFFICES ASSUME Inv, [Next]_vars PROVE [Promise!Next]_(Promise!vars)
  OBVIOUS
<1> USE Constants, NoItemIsNone, StatusFacts
<1>0. /\ TypeOK /\ LoadedIsCurrent
      /\ pc \in Busy => cur \in Items /\ status[cur] = "processing"
      /\ \A i \in Items : status[i] = "processing" => Phase[i] = "owed"
  BY HandFacts DEF Inv, Rest, LoadedIsCurrent, Phase
<1>1. ASSUME NEW i \in Items, Store(i)
      PROVE  Promise!Owe(i)
  <2>1. status[i] = "none" /\ status' = [status EXCEPT ![i] = "pending"]
        /\ UNCHANGED <<posts, faults>>
    BY <1>1 DEF Store, Inv, Rest, StoreInv, history
  <2>2. Phase[i] = "none" /\ Phase' = [Phase EXCEPT ![i] = "owed"]
    BY <1>0, <2>1, PhaseStep DEF Phase, Statuses, Waiting
  <2>. QED
    BY <2>1, <2>2 DEF Promise!Owe
<1>2. CASE Post
  <2>1. /\ cur \in Items /\ Phase[cur] = "owed" /\ UNCHANGED <<status, faults>>
        /\ posts' = [posts EXCEPT ![cur] = @ + 1] /\ pc = "post"
    BY <1>0, <1>2 DEF Post, Busy
  <2>2. posts[cur] < RetryCount + 1 + faults
    <3>1. ~Unrecorded(cur)
      BY <1>0, <2>1 DEF Unrecorded, Busy
    <3>2. posts[cur] <= retries[cur] + faults
      BY <2>1, <3>1 DEF Inv, Rest, CountInv, TypeOK
    <3>. QED
      BY <1>0, <2>1, <3>2 DEF TypeOK
  <2>3. Promise!Request(cur)
    BY <2>1, <2>2 DEF Promise!Request, Phase
  <2>. QED
    BY <2>1, <2>3 DEF Promise!Next
<1>3. CASE MarkCompleted
  <2>1. /\ cur \in Items /\ Phase[cur] = "owed" /\ UNCHANGED <<posts, faults>>
        /\ status' = [status EXCEPT ![cur] = "completed"] /\ pc = "delivered"
    BY <1>0, <1>3 DEF MarkCompleted, history, Busy
  <2>2. posts[cur] > 0
    BY <1>0, <2>1 DEF Inv, Rest, CountInv, TypeOK
  <2>3. Phase' = [Phase EXCEPT ![cur] = "delivered"]
    BY <1>0, <2>1, PhaseStep DEF Statuses, Terminal
  <2>4. Promise!Deliver(cur)
    BY <2>1, <2>2, <2>3 DEF Promise!Deliver
  <2>. QED
    BY <2>1, <2>4 DEF Promise!Next
<1>4. CASE MarkPermanentlyFailed
  <2>1. /\ cur \in Items /\ Phase[cur] = "owed" /\ UNCHANGED <<posts, faults>>
        /\ status' = [status EXCEPT ![cur] = "permanently_failed"] /\ pc = "failed"
        /\ loaded[cur] >= RetryCount
    BY <1>0, <1>4 DEF MarkPermanentlyFailed, Exhausted, history, Busy
  <2>2. posts[cur] > RetryCount
    BY <1>0, <2>1 DEF Inv, Rest, CountInv, TypeOK, LoadedIsCurrent
  <2>3. Phase' = [Phase EXCEPT ![cur] = "given up"]
    BY <1>0, <2>1, PhaseStep DEF Statuses, Terminal
  <2>4. Promise!GiveUp(cur)
    BY <2>1, <2>2, <2>3 DEF Promise!GiveUp
  <2>. QED
    BY <2>1, <2>4 DEF Promise!Next
<1>5. ASSUME UNCHANGED posts, UNCHANGED faults \/ faults' = faults + 1,
             \A i \in Items : \/ status'[i] = status[i]
                              \/ status[i] \in Waiting \cup {"processing"}
                                 /\ status'[i] \in Waiting \cup {"processing"}
      PROVE  [Promise!Next]_(Promise!vars)
  <2>1. Phase' = Phase
    BY <1>5 DEF Phase, Waiting
  <2>. QED
    BY <1>5, <2>1 DEF Promise!Next, Promise!Disrupt, Promise!vars
<1>6. CASE Poll \/ PollFails
  <2>1. \A i \in Items : \/ RecoverStuck[i] = status[i]
                         \/ status[i] = "processing" /\ RecoverStuck[i] = "pending"
    BY DEF RecoverStuck
  <2>2. /\ UNCHANGED posts /\ (UNCHANGED faults \/ faults' = faults + 1)
        /\ status' = status \/ status' = RecoverStuck
    BY <1>6 DEF Poll, PollFails, Fault, history
  <2>. QED
    BY <1>5, <2>1, <2>2 DEF Waiting
<1>7. CASE MarkProcessing
  <2>1. PICK i \in batch : status' = [status EXCEPT ![i] = "processing"]
    BY <1>7 DEF MarkProcessing
  <2>2. status[i] \in Waiting
    BY <1>0 DEF LoadedIsCurrent
  <2>. QED
    BY <1>0, <1>5, <1>7, <2>1, <2>2 DEF MarkProcessing, history, TypeOK
<1>8. CASE MarkFailed
  <2>1. status' = [status EXCEPT ![cur] = "failed"] /\ status[cur] = "processing"
    BY <1>0, <1>8 DEF MarkFailed, Busy
  <2>. QED
    BY <1>0, <1>5, <1>8, <2>1 DEF MarkFailed, history, TypeOK, Waiting
<1>9. CASE UNCHANGED <<status, posts>> /\ (UNCHANGED faults \/ faults' = faults + 1)
  BY <1>5, <1>9
<1>. QED
  <2>1. (\/ Registry \/ Emit \/ MarkProcessingFails \/ RecordFails \/ Crash \/ Tick
         \/ (\E i \in Items : StoreFails(i)) \/ UNCHANGED vars)
        => UNCHANGED <<status, posts>> /\ (UNCHANGED faults \/ faults' = faults + 1)
    BY DEF Registry, Replace, Delete, Emit, MarkProcessingFails, RecordFails, Crash, Tick,
           StoreFails, Fault, vars, history
  <2>2. Storing => Promise!Next
    BY <1>1 DEF Storing, Promise!Next
  <2>. QED
    BY <1>2, <1>3, <1>4, <1>6, <1>7, <1>8, <1>9, <2>1, <2>2 DEF Next, Pass, Failure

\* Every behaviour of the queue, with its crashes, failing statements, recovery
\* and clean-up, is one of Delivery: no owed delivery is dropped, no finished
\* one repeated, and requests beyond the retries are paid for by faults.
THEOREM ImplementsDeliveryCorrect == Spec => ImplementsDelivery
<1>1. Spec => Promise!Init /\ [][Promise!Next]_(Promise!vars)
  BY PhaseInit, PromiseStep, InvCorrect, PTL DEF Spec
<1>. QED
  BY <1>1 DEF ImplementsDelivery, Promise!Spec
=============================================================================
