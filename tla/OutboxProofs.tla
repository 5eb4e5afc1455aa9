---------------------------- MODULE OutboxProofs ----------------------------
(***************************************************************************)
(* Theorems about the outbox, for every number of messages, recipients,    *)
(* references and faults.                                                  *)
(***************************************************************************)
EXTENDS Outbox, TLAPS, FiniteSetTheorems

USE BoundsAssumption

-----------------------------------------------------------------------------
(* Facts about the helpers.                                                *)

\* Creating a message only extends the set of existing ones.
LEMMA OptionsOK ==
  ASSUME NEW o \in Options
  PROVE  /\ o \in [wantsReport: BOOLEAN, sendable: BOOLEAN,
                   expires: BOOLEAN, scheduled: BOOLEAN]
BY OptionsAssumption

\* The resolved message state is a state, and Failed only for Failed recipients.
LEMMA ResolveFacts ==
  ASSUME NEW ss
  PROVE  /\ ResolveFinalState(ss) \in States
         /\ ResolveFinalState(ss) = "Failed" => ss \subseteq {"Failed"}
         /\ ResolveFinalState(ss) = "Cancelled" => "Cancelled" \in ss
BY DEF ResolveFinalState, States

\* A report turns its recipient Delivered or Failed.
LEMMA ReportStateFacts ==
  ASSUME NEW status
  PROVE  DeliveryReportState(status) \in {"Delivered", "Failed", "Ignored"}
BY DEF DeliveryReportState

\* The worker's locals between two passes are of their types.
LEMMA IdleLocals ==
  /\ AllAbsent \in [Phones -> States \cup {Absent}]
  /\ NothingInHand \in [phone: Phones \cup {NoPhone}, ref: Refs \cup {NoRef},
                        to: States \cup {Absent}, was: States \cup {Absent}]
BY DEF AllAbsent, NothingInHand

\* Storing a state in a recipient row keeps the table's type.
LEMMA SetRecipientType ==
  ASSUME rstate \in [Messages -> [Phones -> States \cup {Absent}]],
         NEW m \in Messages, NEW k \in Phones, NEW s \in States,
         SetRecipient(m, k, s)
  PROVE  rstate' \in [Messages -> [Phones -> States \cup {Absent}]]
BY DEF SetRecipient

-----------------------------------------------------------------------------
(* Type correctness.                                                       *)

LEMMA TypeInit == Init => TypeOK
BY IdleLocals DEF Init, TypeOK, Messages, Created, Pcs, Refs, NoMessage, AllAbsent

LEMMA TypeStep == TypeOK /\ [Next]_vars => TypeOK'
<1> SUFFICES ASSUME TypeOK, [Next]_vars PROVE TypeOK'
  OBVIOUS
<1>0. Messages \subseteq Nat /\ Created \subseteq Messages /\ NoMessage \notin Created
  BY DEF TypeOK, Messages, Created, NoMessage
<1>a. pc \notin {"idle", "drain"} => cur \in Created /\ cur \in Messages
  BY <1>0 DEF TypeOK
<1> DEFINE Hands == [phone: Phones \cup {NoPhone}, ref: Refs \cup {NoRef},
                     to: States \cup {Absent}, was: States \cup {Absent}]
           Events == (States \cup {Absent}) \X Messages \X Phones
<1>1. ASSUME NEW o \in Options, NEW ps \in SUBSET Phones, Enqueue(o, ps)
      PROVE  TypeOK'
  <2>1. /\ last + 1 \in Messages
        /\ Created' = Created \cup {last + 1}
        /\ last' \in 0..MaxMessages
    BY <1>1 DEF Enqueue, TypeOK, Messages, Created
  <2>2. /\ options' \in [Messages -> [wantsReport: BOOLEAN, sendable: BOOLEAN,
                                      expires: BOOLEAN, scheduled: BOOLEAN]]
        /\ recipients' \in [Messages -> SUBSET Phones]
        /\ state' \in [Messages -> States \cup {Absent}]
    BY <1>1, <2>1, OptionsOK DEF Enqueue, TypeOK, States
  <2>3. rstate' \in [Messages -> [Phones -> States \cup {Absent}]]
    BY <1>1, <2>1 DEF Enqueue, TypeOK, States
  <2>4. early' \subseteq Created'
    BY <1>1, <2>1 DEF Enqueue, TypeOK
  <2>. QED
    BY <1>1, <2>1, <2>2, <2>3, <2>4
    DEF Enqueue, TypeOK, worker, network, history
<1>2. ASSUME NEW m \in Messages, CancelCommit(m)
      PROVE  TypeOK'
  <2>1. rstate' \in [Messages -> [Phones -> States \cup {Absent}]]
    BY <1>2 DEF CancelCommit, TypeOK, States
  <2>2. state' \in [Messages -> States \cup {Absent}]
    BY <1>2 DEF CancelCommit, TypeOK, States
  <2>. QED
    BY <1>2, <2>1, <2>2 DEF CancelCommit, TypeOK, Created, clock, worker, network, history
<1>3. ASSUME NEW m \in Messages, CancelAnnounce(m)
      PROVE  TypeOK'
  <2>1. events' \subseteq Events
    BY <1>3 DEF CancelAnnounce, TypeOK, States
  <2>. QED
    BY <1>3, <2>1 DEF CancelAnnounce, TypeOK, Created, db, clock, worker, network
<1>4. CASE Dequeue
  BY <1>4, <1>0 DEF Dequeue, TypeOK, Due, First, Created, clock, network, history, States, Pcs
<1>5. CASE Load
  BY <1>5, <1>a DEF Load, TypeOK, Created, db, clock, network, history, Pcs
<1>6. CASE BeginRecipient
  <2>1. PICK k \in todo : hand' = [NothingInHand EXCEPT !.phone = k]
                           /\ \/ SetRecipient(cur, k, "Processed")
                              \/ UNCHANGED rstate
    BY <1>6 DEF BeginRecipient, First
  <2>2. hand' \in Hands /\ hand'.phone \in Phones
    BY <2>1 DEF NothingInHand, TypeOK
  <2>3. rstate' \in [Messages -> [Phones -> States \cup {Absent}]]
    <3>1. k \in Phones /\ cur \in Messages
      BY <1>6, <1>a, k \in todo DEF BeginRecipient, TypeOK
    <3>. QED
      BY <2>1, <3>1, SetRecipientType DEF TypeOK, States
  <2>. QED
    BY <1>6, <1>a, <2>2, <2>3 DEF BeginRecipient, TypeOK, Created, clock, network, history, Pcs
<1>7. CASE SendConfirmed \/ SendUnconfirmed
  <2>1. hand.phone \in Phones /\ cur \in Created /\ cur \in Messages
    BY <1>7, <1>a DEF SendConfirmed, SendUnconfirmed, TypeOK
  <2>2. nextRef' \in Refs
    BY <1>7 DEF SendConfirmed, SendUnconfirmed, Accept, TypeOK, Refs
  <2>3. hand' \in Hands /\ hand'.phone \in Phones
    BY <1>7, <2>1 DEF SendConfirmed, SendUnconfirmed, TypeOK
  <2>4. submits' \in [Messages -> [Phones -> Nat]]
    <3>1. submits' = [submits EXCEPT ![cur][hand.phone] = @ + 1]
      BY <1>7 DEF SendConfirmed, SendUnconfirmed, Accept
    <3>2. submits \in [Messages -> [Phones -> Nat]]
      BY DEF TypeOK
    <3>. QED
      BY <2>1, <3>1, <3>2
  <2>5. air' \subseteq [msg: Created, phone: Phones, ref: Refs, fate: FinalFates \cup {"Open"}]
    BY <1>7, <2>1 DEF SendConfirmed, SendUnconfirmed, Accept, TypeOK
  <2>. QED
    BY <1>7, <2>1, <2>2, <2>3, <2>4, <2>5
    DEF SendConfirmed, SendUnconfirmed, TypeOK, Created, db, clock, Pcs
<1>8. CASE SendRefused
  BY <1>8 DEF SendRefused, TypeOK, Created, db, clock, network, history, Pcs
<1>9. CASE RecordSent
  <2>1. hand.phone \in Phones /\ cur \in Messages
    BY <1>9, <1>a DEF RecordSent, TypeOK
  <2>2. seen' \in [Phones -> States \cup {Absent}]
    BY <1>9, <2>1 DEF RecordSent, TypeOK, States
  <2>a. rstate' \in [Messages -> [Phones -> States \cup {Absent}]]
    BY <1>9, <2>1, SetRecipientType DEF RecordSent, TypeOK, States
  <2>3. refId' \in [Messages -> [Phones -> Refs \cup {NoRef}]]
    <3>1. \/ refId' = refId
          \/ refId' = [refId EXCEPT ![cur][hand.phone] = hand.ref]
      BY <1>9 DEF RecordSent
    <3>2. refId \in [Messages -> [Phones -> Refs \cup {NoRef}]] /\ hand.ref \in Refs \cup {NoRef}
      BY DEF TypeOK
    <3>. QED
      BY <2>1, <3>1, <3>2
  <2>. QED
    BY <1>9, <2>1, <2>2, <2>a, <2>3 DEF RecordSent, TypeOK, Created, clock, network, history, Pcs
<1>10. CASE RecordFailed
  BY <1>10 DEF RecordFailed, SetRecipient, TypeOK, Created, clock, network, history, States, Pcs
<1>11. CASE EmitOutcome
  <2>1. hand.phone \in Phones /\ cur \in Messages
    BY <1>11, <1>a DEF EmitOutcome, TypeOK
  <2>2. events' \subseteq Events
    BY <1>11, <2>1 DEF EmitOutcome, TypeOK
  <2>. QED
    BY <1>11, <2>1, <2>2, IdleLocals DEF EmitOutcome, TypeOK, Created, db, clock, network, Pcs
<1>12. CASE Settle
  BY <1>12, IdleLocals, ResolveFacts
  DEF Settle, SetState, WorkerTo, TypeOK, Created, clock, network, history, Pcs, NoMessage
<1>13. ASSUME NEW x \in air, NEW fate \in Fates, NEW again \in BOOLEAN,
              NEW phone \in {NoPhone, x.phone}, TakeReport(x, fate, phone, again)
       PROVE  TypeOK'
  <2>1. UNCHANGED <<last, options, recipients, state, refId, early, lapsed, todo, seen,
                    cancelling, nextRef, submits, events, faults, Created>>
    BY <1>13 DEF TakeReport, clock, Created
  <2>2. x \in [msg: Created, phone: Phones, ref: Refs, fate: FinalFates \cup {"Open"}]
    BY DEF TypeOK
  <2>3. air' \subseteq [msg: Created, phone: Phones, ref: Refs, fate: FinalFates \cup {"Open"}]
    <3>1. fate \in FinalFates =>
            [x EXCEPT !.fate = fate]
              \in [msg: Created, phone: Phones, ref: Refs, fate: FinalFates \cup {"Open"}]
      BY <2>2
    <3>. QED
      BY <1>13, <2>2, <3>1 DEF TakeReport, Reported, TypeOK
  <2>4. verdicts' \subseteq FinalFates \X Messages \X Phones
    <3>1. x.msg \in Messages /\ x.phone \in Phones
      BY <1>0, <2>2
    <3>2. fate \in FinalFates => <<fate, x.msg, x.phone>> \in FinalFates \X Messages \X Phones
      BY <3>1
    <3>. QED
      BY <1>13, <3>2 DEF TakeReport, TypeOK
  <2>5. CASE UNCHANGED <<rstate, pc, cur, hand>>
    BY <2>1, <2>3, <2>4, <2>5 DEF TypeOK, Created
  <2>6. ASSUME NEW to \in {"Delivered", "Failed"},
               NEW row \in ReportCandidates(x.ref, phone),
               SetRecipient(row[1], row[2], to), pc' = "reload", cur' = row[1],
               hand' = [NothingInHand EXCEPT !.ref = x.ref, !.to = to]
        PROVE  TypeOK'
    <3>0. row[1] \in Created /\ row[1] \in Messages /\ row[2] \in Phones
      BY <1>0 DEF ReportCandidates
    <3>1. rstate' \in [Messages -> [Phones -> States \cup {Absent}]]
      BY <2>6, <3>0 DEF SetRecipient, TypeOK, States
    <3>2. hand' \in [phone: Phones \cup {NoPhone}, ref: Refs \cup {NoRef},
                     to: States \cup {Absent}, was: States \cup {Absent}]
      BY <2>2, <2>6 DEF NothingInHand, States
    <3>. QED
      BY <1>0, <2>1, <2>3, <2>4, <2>6, <3>0, <3>1, <3>2 DEF TypeOK, Pcs
  <2>7. \/ UNCHANGED <<rstate, pc, cur, hand>>
        \/ \E to \in {"Delivered", "Failed"} : SetRecipientByRef(x.ref, phone, to)
    BY <1>13, ReportStateFacts DEF TakeReport
  <2>. QED
    BY <2>5, <2>6, <2>7 DEF SetRecipientByRef, OldestRow
<1>14. CASE ReloadReported
  <2>1. cur \in Messages /\ cur \in Created
    BY <1>0, <1>14 DEF ReloadReported, TypeOK
  <2>2. events' \subseteq (States \cup {Absent}) \X Messages \X Phones
    BY <1>14, <2>1 DEF ReloadReported, First, TypeOK
  <2>3. hand' \in [phone: Phones \cup {NoPhone}, ref: Refs \cup {NoRef},
                   to: States \cup {Absent}, was: States \cup {Absent}]
    BY <1>14, <2>1 DEF ReloadReported, TypeOK
  <2>. QED
    BY <1>14, <2>1, <2>2, <2>3 DEF ReloadReported, TypeOK, Created, db, clock, network, Pcs
<1>15. CASE ResolveReported
  BY <1>15, IdleLocals, ResolveFacts
  DEF ResolveReported, SetState, WorkerTo, TypeOK, Created, clock, network, history, Pcs, NoMessage
<1>16. ASSUME NEW m \in Messages, ScheduleReached(m) \/ ValidityLapses(m)
       PROVE  TypeOK'
  BY <1>16 DEF ScheduleReached, ValidityLapses, TypeOK, Created, db, worker, network, history
<1>17. CASE WorkerFault
  BY <1>17, IdleLocals DEF WorkerFault, WorkerTo, TypeOK, Created, db, clock, network, history, Pcs, NoMessage
<1>18. CASE Crash
  BY <1>18, IdleLocals DEF Crash, WorkerTo, TypeOK, Created, db, clock, network, history, Pcs, NoMessage
<1>19. CASE UNCHANGED vars
  BY <1>19 DEF TypeOK, Created, vars, db, clock, worker, network, history
<1>20. QED
  BY <1>1, <1>2, <1>3, <1>4, <1>5, <1>6, <1>7, <1>8, <1>9, <1>10, <1>11, <1>12,
     <1>13, <1>14, <1>15, <1>16, <1>17, <1>18, <1>19
  DEF Next, Api, Pass, Send, Report, Time

\* Every variable keeps its type: ids stay within the created rows, the
\* worker holds a message exactly while it is busy, references stay below
\* RefCount.
THEOREM TypeCorrect == Spec => []TypeOK
BY TypeInit, TypeStep, PTL DEF Spec


-----------------------------------------------------------------------------
(* The inductive invariant.  What the invariants of Outbox miss is how the *)
(* worker's snapshot relates to the rows while API calls change them: a    *)
(* row seen Failed is Failed, a row still to be handled is not, and once a *)
(* row was seen Cancelled no row of that message can be submitted again.   *)

InPass == {"next", "send", "accepted", "refused", "emit"}

FailedInv ==
  /\ FailedMessageAllFailed
  /\ pc \notin {"idle", "drain"} => state[cur] # "Failed"
  /\ pc \in InPass \cup {"resolve"} =>
       \A k \in recipients[cur] : seen[k] = "Failed" => rstate[cur][k] = "Failed"

HandInv ==
  /\ pc \in InPass => \A k \in todo : rstate[cur][k] # "Failed"
  /\ pc \in {"send", "accepted", "refused"} =>
       hand.phone \notin todo /\ rstate[cur][hand.phone] # "Failed"

NoneToSend(m) == \A k \in recipients[m] : ~Processable(rstate[m][k])

CancelInv ==
  /\ CancelledNothingToSend
  /\ \A m \in Created : (\E k \in recipients[m] : rstate[m][k] = "Cancelled") => NoneToSend(m)
  /\ pc \in InPass \cup {"resolve"} =>
       ((\E k \in recipients[cur] : seen[k] = "Cancelled") => NoneToSend(cur))

Inv == TypeOK /\ FailedInv /\ HandInv /\ CancelInv

\* Of all the recipient rows at most that of <<m, k>> changes.
RowChange(m, k) ==
  /\ \A j \in Phones \ {k} : rstate'[m][j] = rstate[m][j]
  /\ \A n \in Messages \ {m} : rstate'[n] = rstate[n]

\* SetRecipient stores its state, and in that row only.
LEMMA RowFacts ==
  ASSUME rstate \in [Messages -> [Phones -> States \cup {Absent}]],
         NEW m \in Messages, NEW k \in Phones, NEW s,
         SetRecipient(m, k, s)
  PROVE  rstate'[m][k] = s /\ RowChange(m, k)
BY DEF SetRecipient, RowChange

\* What the parts of the invariant speak about.
rows == <<last, recipients, state, rstate>>

\* A step that touches neither the rows nor the worker keeps the invariant.
LEMMA FrameStep ==
  ASSUME Inv, UNCHANGED <<rows, pc, cur, todo, seen, hand>>
  PROVE  FailedInv' /\ HandInv' /\ CancelInv'
BY DEF Inv, FailedInv, HandInv, CancelInv, FailedMessageAllFailed, CancelledNothingToSend,
       NoneToSend, rows, Created

\* So does one that only drops the worker's work.
LEMMA DropStep ==
  ASSUME Inv, UNCHANGED rows, pc' = "idle"
  PROVE  FailedInv' /\ HandInv' /\ CancelInv'
BY DEF Inv, FailedInv, HandInv, CancelInv, FailedMessageAllFailed, CancelledNothingToSend,
       NoneToSend, rows, Created, InPass

LEMMA InvInit == Init => Inv
BY TypeInit DEF Init, Inv, FailedInv, HandInv, CancelInv, FailedMessageAllFailed,
                CancelledNothingToSend, Created, InPass

LEMMA InvStep == Inv /\ [Next]_vars => Inv'
<1> SUFFICES ASSUME Inv, [Next]_vars PROVE FailedInv' /\ HandInv' /\ CancelInv'
  BY TypeStep DEF Inv
<1> USE DEF Inv
<1>0. /\ Created \subseteq Messages
      /\ pc \notin {"idle", "drain"} => cur \in Created /\ cur \in Messages
      /\ \A m \in Messages : recipients[m] \subseteq Phones
  BY DEF TypeOK, Messages, Created, NoMessage
<1>1. ASSUME NEW o \in Options, NEW ps \in SUBSET Phones, Enqueue(o, ps)
      PROVE  FailedInv' /\ HandInv' /\ CancelInv'
  <2>1. /\ last + 1 \in Messages /\ last + 1 \notin Created
        /\ Created' = Created \cup {last + 1}
    BY <1>1 DEF Enqueue, TypeOK, Messages, Created
  <2>2. /\ recipients'[last + 1] = ps /\ state'[last + 1] = "Pending"
        /\ \A k \in ps : rstate'[last + 1][k] = "Pending"
    BY <1>1, <2>1 DEF Enqueue, TypeOK
  <2>3. \A m \in Created : /\ recipients'[m] = recipients[m] /\ state'[m] = state[m]
                           /\ rstate'[m] = rstate[m]
    BY <1>1, <2>1, <1>0 DEF Enqueue, TypeOK
  <2>4. UNCHANGED <<pc, cur, todo, seen, hand>>
    BY <1>1 DEF Enqueue, worker
  <2>. QED
    BY <1>0, <2>1, <2>2, <2>3, <2>4
    DEF FailedInv, HandInv, CancelInv, FailedMessageAllFailed, CancelledNothingToSend,
        NoneToSend, InPass
<1>2. ASSUME NEW m \in Messages, CancelCommit(m)
      PROVE  FailedInv' /\ HandInv' /\ CancelInv'
  <2>1. m \in Created /\ UNCHANGED <<last, recipients, pc, cur, todo, seen, hand, Created>>
    BY <1>2 DEF CancelCommit, worker, Created
  <2>2. /\ state[m] # "Failed" /\ state'[m] = "Cancelled"
        /\ \A n \in Messages : n # m => state'[n] = state[n] /\ rstate'[n] = rstate[n]
        /\ \A k \in recipients[m] : /\ rstate[m][k] = "Failed" <=> rstate'[m][k] = "Failed"
                                    /\ rstate'[m][k] \in {"Failed", "Cancelled"}
    BY <1>2, <1>0 DEF CancelCommit, Cancellable, TypeOK
  <2>3. \A k \in recipients[m] : ~Processable(rstate'[m][k])
    BY <2>2 DEF Processable, Claimable
  <2>4. \A k \in Phones \ recipients[m] : rstate'[m][k] = rstate[m][k]
    BY <1>2 DEF CancelCommit, TypeOK
  <2>a. \A n \in Messages : \A k \in Phones :
           rstate[n][k] # "Failed" => rstate'[n][k] # "Failed"
    BY <2>2, <2>4
  <2>b. /\ todo \subseteq Phones
        /\ pc \in {"send", "accepted", "refused", "emit"} => hand.phone \in Phones
    BY DEF TypeOK
  <2>5. FailedInv'
    BY <1>0, <2>1, <2>2 DEF FailedInv, FailedMessageAllFailed, InPass
  <2>6. HandInv'
    BY <1>0, <2>1, <2>a, <2>b DEF HandInv, InPass
  <2>7. CancelInv'
    BY <1>0, <2>1, <2>2, <2>3
    DEF CancelInv, CancelledNothingToSend, NoneToSend, InPass
  <2>. QED  BY <2>5, <2>6, <2>7
<1>3. CASE Dequeue
  <2>1. UNCHANGED <<last, recipients, Created>> /\ pc' \in {"idle", "load"}
    BY <1>3 DEF Dequeue, Created
  <2>2. \A m \in Messages :
          IF m \in Expiring
          THEN /\ state'[m] = "Failed"
               /\ \A k \in recipients[m] : rstate'[m][k] = "Failed"
          ELSE /\ state'[m] \in {"Processed", state[m]}
               /\ \A k \in recipients[m] : rstate'[m][k] = rstate[m][k]
    BY <1>3, <1>0 DEF Dequeue
  <2>3. pc' = "load" => /\ cur' \in Messages \ Expiring
                        /\ state'[cur'] = "Processed"
    BY <1>3, <1>0 DEF Dequeue, First, Due
  <2>. QED
    BY <1>0, <2>1, <2>2, <2>3
    DEF FailedInv, HandInv, CancelInv, FailedMessageAllFailed, CancelledNothingToSend,
        NoneToSend, InPass, Processable, Claimable
<1>4. CASE Load
  <2>1. /\ UNCHANGED <<rows, cur, Created>> /\ pc' = "next" /\ seen' = rstate[cur]
        /\ todo' = {k \in recipients[cur] : Processable(rstate[cur][k])}
        /\ pc = "load"
    BY <1>4 DEF Load, db, rows, Created
  <2>. QED
    BY <1>0, <2>1
    DEF FailedInv, HandInv, CancelInv, FailedMessageAllFailed, CancelledNothingToSend,
        NoneToSend, InPass, Processable, Claimable, rows
<1>5. CASE BeginRecipient
  <2>1. PICK k \in todo :
          /\ pc = "next" /\ pc' = "send" /\ todo' = todo \ {k}
          /\ hand' = [NothingInHand EXCEPT !.phone = k]
          /\ IF rstate[cur][k] = "Pending" THEN SetRecipient(cur, k, "Processed")
                                           ELSE UNCHANGED rstate
          /\ UNCHANGED <<last, recipients, state, cur, seen, Created>>
    BY <1>5 DEF BeginRecipient, First, Created
  <2>2. hand'.phone = k /\ k \in Phones /\ cur \in Created /\ cur \in Messages
    BY <1>0, <2>1 DEF NothingInHand, TypeOK
  <2>3. \/ UNCHANGED rstate
        \/ /\ rstate[cur][k] = "Pending" /\ rstate'[cur][k] = "Processed"
           /\ RowChange(cur, k)
    BY <2>1, <2>2, RowFacts DEF TypeOK, States
  <2>a. todo \subseteq Phones /\ rstate[cur][k] # "Failed"
    BY <2>1 DEF TypeOK, HandInv, InPass
  <2>4. HandInv'
    BY <2>1, <2>2, <2>3, <2>a DEF HandInv, InPass, RowChange
  <2>b. FailedInv'
    BY <1>0, <2>1, <2>2, <2>3
    DEF FailedInv, FailedMessageAllFailed, InPass, RowChange
  <2>5. CancelInv'
    BY <1>0, <2>1, <2>2, <2>3
    DEF CancelInv, CancelledNothingToSend, NoneToSend, Processable, Claimable, InPass, RowChange
  <2>. QED  BY <2>4, <2>5, <2>b
<1>6. CASE SendConfirmed \/ SendUnconfirmed \/ SendRefused
  <2>1. /\ UNCHANGED <<rows, cur, todo, seen, Created>>
        /\ pc = "send" /\ pc' \in {"accepted", "refused"}
    BY <1>6 DEF SendConfirmed, SendUnconfirmed, SendRefused, db, rows, Created
  <2>2. hand'.phone = hand.phone
    BY <1>6 DEF SendConfirmed, SendUnconfirmed, SendRefused, TypeOK
  <2>. QED
    BY <1>0, <2>1, <2>2
    DEF FailedInv, HandInv, CancelInv, FailedMessageAllFailed, CancelledNothingToSend,
        NoneToSend, InPass, rows
<1>7. CASE RecordSent \/ RecordFailed
  <2> DEFINE k == hand.phone
  <2>1. /\ pc \in {"accepted", "refused"} /\ pc' = "emit"
        /\ UNCHANGED <<last, recipients, state, cur, todo, Created>>
    BY <1>7 DEF RecordSent, RecordFailed, Created
  <2>2. k \in Phones /\ cur \in Created /\ cur \in Messages
    BY <1>0, <2>1 DEF TypeOK
  <2>3. /\ seen'[k] \in {"Sent", "Failed"} /\ rstate'[cur][k] = seen'[k]
        /\ \A j \in Phones \ {k} : seen'[j] = seen[j]
        /\ UNCHANGED rstate \/ RowChange(cur, k)
    <3>1. seen \in [Phones -> States \cup {Absent}]
      BY DEF TypeOK
    <3>2. CASE RecordSent
      BY <2>2, <3>1, <3>2, RowFacts DEF RecordSent, TypeOK, States
    <3>3. CASE RecordFailed
      BY <2>2, <3>1, <3>3, RowFacts DEF RecordFailed, TypeOK, States
    <3>. QED  BY <1>7, <3>2, <3>3
  <2>4. k \notin todo /\ state[cur] # "Failed"
    BY <2>1 DEF HandInv, FailedInv
  <2>5. FailedInv'
    BY <1>0, <2>1, <2>2, <2>3, <2>4 DEF FailedInv, FailedMessageAllFailed, InPass, RowChange
  <2>6. HandInv'
    BY <1>0, <2>1, <2>2, <2>3, <2>4 DEF HandInv, InPass, RowChange, TypeOK
  <2>7. CancelInv'
    BY <1>0, <2>1, <2>2, <2>3
    DEF CancelInv, CancelledNothingToSend, NoneToSend, Processable, Claimable, InPass, RowChange
  <2>. QED  BY <2>5, <2>6, <2>7
<1>8. CASE EmitOutcome
  <2>1. /\ UNCHANGED <<rows, cur, todo, seen, Created>>
        /\ pc = "emit" /\ pc' = "next"
    BY <1>8 DEF EmitOutcome, db, rows, Created
  <2>. QED
    BY <1>0, <2>1
    DEF FailedInv, HandInv, CancelInv, FailedMessageAllFailed, CancelledNothingToSend,
        NoneToSend, InPass, rows
<1>9. CASE Settle \/ ResolveReported
  <2> DEFINE s == ResolveFinalState({seen[k] : k \in recipients[cur]})
  <2>1. /\ UNCHANGED <<last, recipients, rstate, Created>>
        /\ pc \in {"next", "resolve"} /\ pc' \in {"idle", "drain"}
        /\ UNCHANGED state \/ state' = [state EXCEPT ![cur] = s]
    BY <1>9 DEF Settle, ResolveReported, SetState, WorkerTo, Created
  <2>2. s = "Failed" => \A k \in recipients[cur] : rstate[cur][k] = "Failed"
    BY <2>1, ResolveFacts DEF FailedInv, InPass
  <2>3. s = "Cancelled" => NoneToSend(cur)
    BY <2>1, ResolveFacts DEF CancelInv, InPass
  <2>4. \A m \in Created : state'[m] = state[m] \/ (m = cur /\ state'[m] = s)
    BY <1>0, <2>1 DEF TypeOK
  <2>. QED
    BY <1>0, <2>1, <2>2, <2>3, <2>4
    DEF FailedInv, HandInv, CancelInv, FailedMessageAllFailed, CancelledNothingToSend,
        NoneToSend, InPass
<1>10. ASSUME NEW x \in air, NEW fate \in Fates, NEW again \in BOOLEAN,
              NEW phone \in {NoPhone, x.phone}, TakeReport(x, fate, phone, again)
       PROVE  FailedInv' /\ HandInv' /\ CancelInv'
  <2>1. /\ UNCHANGED <<last, recipients, state, todo, seen, Created>>
        /\ pc = "idle"
    BY <1>10 DEF TakeReport, Created
  <2>2. CASE UNCHANGED <<rstate, pc, cur, hand>>
    BY <2>1, <2>2, FrameStep DEF rows
  <2>3. ASSUME NEW to \in {"Delivered", "Failed"},
               NEW row \in ReportCandidates(x.ref, phone),
               SetRecipient(row[1], row[2], to), pc' = "reload", cur' = row[1]
        PROVE  FailedInv' /\ HandInv' /\ CancelInv'
    <3> DEFINE m == row[1]
               k == row[2]
    <3>1. /\ m \in Created /\ m \in Messages /\ k \in Phones
          /\ k \in recipients[m] /\ rstate[m][k] = "Sent"
      BY <1>0 DEF ReportCandidates
    <3>2. rstate'[m][k] = to /\ RowChange(m, k)
      BY <2>3, <3>1, RowFacts DEF TypeOK, States
    <3>3. state[m] # "Failed"
      BY <3>1 DEF FailedInv, FailedMessageAllFailed
    <3>4. FailedInv' /\ HandInv'
      BY <1>0, <2>1, <2>3, <3>1, <3>2, <3>3
      DEF FailedInv, HandInv, FailedMessageAllFailed, InPass, RowChange
    <3>5. CancelInv'
      BY <1>0, <2>1, <2>3, <3>1, <3>2
      DEF CancelInv, CancelledNothingToSend, NoneToSend, Processable, Claimable, InPass, RowChange
    <3>. QED  BY <3>4, <3>5
  <2>4. \/ UNCHANGED <<rstate, pc, cur, hand>>
        \/ \E to \in {"Delivered", "Failed"} : SetRecipientByRef(x.ref, phone, to)
    BY <1>10, ReportStateFacts DEF TakeReport
  <2>. QED
    BY <2>2, <2>3, <2>4 DEF SetRecipientByRef, OldestRow
<1>11. CASE ReloadReported
  <2>1. /\ UNCHANGED <<rows, cur, todo, Created>> /\ seen' = rstate[cur]
        /\ pc = "reload" /\ pc' = "resolve"
    BY <1>11 DEF ReloadReported, db, rows, Created
  <2>. QED
    BY <1>0, <2>1
    DEF FailedInv, HandInv, CancelInv, FailedMessageAllFailed, CancelledNothingToSend,
        NoneToSend, InPass, rows
<1>12. CASE \E m \in Messages : CancelAnnounce(m) \/ ScheduleReached(m) \/ ValidityLapses(m)
  BY <1>12, FrameStep DEF CancelAnnounce, ScheduleReached, ValidityLapses, rows, db, worker
<1>13. CASE WorkerFault \/ Crash
  BY <1>13, DropStep DEF WorkerFault, Crash, WorkerTo, rows, db
<1>14. CASE UNCHANGED vars
  BY <1>14, FrameStep DEF vars, rows, db, worker
<1>. QED
  BY <1>1, <1>2, <1>3, <1>4, <1>5, <1>6, <1>7, <1>8, <1>9, <1>10, <1>11, <1>12,
     <1>13, <1>14
  DEF Next, Api, Pass, Send, Report, Time

\* The inductive invariant holds in every reachable state.
THEOREM InvCorrect == Spec => []Inv
BY InvInit, InvStep, PTL DEF Spec

-----------------------------------------------------------------------------
(* What follows from it.                                                   *)

\* A message marked Failed has only Failed recipients, however Cancel, expiry,
\* delivery reports and the passes of the worker interleave.
THEOREM FailedMessageCorrect == Spec => []FailedMessageAllFailed
<1>1. Inv => FailedMessageAllFailed
  BY DEF Inv, FailedInv
<1>. QED  BY <1>1, InvCorrect, PTL

\* Once Cancel has returned, no later pass finds a recipient to submit, even
\* when the pass that was running stores its outcome over the cancellation.
THEOREM CancelledNothingToSendCorrect == Spec => []CancelledNothingToSend
<1>1. Inv => CancelledNothingToSend
  BY DEF Inv, CancelInv
<1>. QED  BY <1>1, InvCorrect, PTL

FailedKept ==
  \A m \in Created :
    /\ state[m] = "Failed" => state'[m] = "Failed"
    /\ \A k \in recipients[m] : rstate[m][k] = "Failed" => rstate'[m][k] = "Failed"

\* Every step keeps what is Failed: the worker only overwrites rows that its
\* invariant says are not.
LEMMA FailedKeptStep == Inv /\ [Next]_vars => FailedKept
<1> SUFFICES ASSUME Inv, [Next]_vars PROVE FailedKept
  OBVIOUS
<1> USE DEF Inv
<1>0. /\ Created \subseteq Messages
      /\ pc \notin {"idle", "drain"} => cur \in Created /\ cur \in Messages
      /\ \A m \in Messages : recipients[m] \subseteq Phones
  BY DEF TypeOK, Messages, Created, NoMessage
<1>1. ASSUME NEW o \in Options, NEW ps \in SUBSET Phones, Enqueue(o, ps)
      PROVE  FailedKept
  <2>1. last + 1 \in Messages /\ last + 1 \notin Created
    BY <1>1 DEF Enqueue, TypeOK, Messages, Created
  <2>2. \A m \in Created : state'[m] = state[m] /\ rstate'[m] = rstate[m]
    BY <1>0, <1>1, <2>1 DEF Enqueue, TypeOK
  <2>. QED  BY <2>2 DEF FailedKept
<1>2. ASSUME NEW m \in Messages, CancelCommit(m)
      PROVE  FailedKept
  <2>1. /\ state[m] # "Failed"
        /\ \A n \in Messages : n # m => state'[n] = state[n] /\ rstate'[n] = rstate[n]
        /\ \A k \in recipients[m] : rstate[m][k] = "Failed" => rstate'[m][k] = "Failed"
    BY <1>2, <1>0 DEF CancelCommit, Cancellable, TypeOK
  <2>. QED  BY <1>0, <2>1 DEF FailedKept
<1>3. CASE Dequeue
  BY <1>0, <1>3 DEF Dequeue, First, Due, Claimable, FailedKept
<1>4. CASE BeginRecipient
  <2>1. PICK k \in todo :
          /\ pc = "next" /\ UNCHANGED state
          /\ IF rstate[cur][k] = "Pending" THEN SetRecipient(cur, k, "Processed")
                                           ELSE UNCHANGED rstate
    BY <1>4 DEF BeginRecipient, First
  <2>2. k \in Phones /\ cur \in Messages
    BY <1>0, <2>1 DEF TypeOK
  <2>3. UNCHANGED rstate \/ (rstate[cur][k] = "Pending" /\ RowChange(cur, k))
    BY <2>1, <2>2, RowFacts DEF TypeOK
  <2>. QED  BY <1>0, <2>1, <2>2, <2>3 DEF RowChange, FailedKept
<1>5. CASE RecordSent \/ RecordFailed
  <2> DEFINE k == hand.phone
  <2>1. pc \in {"accepted", "refused"} /\ UNCHANGED state
    BY <1>5 DEF RecordSent, RecordFailed
  <2>2. k \in Phones /\ cur \in Messages /\ rstate[cur][k] # "Failed"
    BY <1>0, <2>1 DEF TypeOK, HandInv
  <2>3. UNCHANGED rstate \/ RowChange(cur, k)
    BY <1>5, <2>2, RowFacts DEF RecordSent, RecordFailed, TypeOK
  <2>. QED  BY <1>0, <2>1, <2>2, <2>3 DEF RowChange, FailedKept
<1>6. CASE Settle \/ ResolveReported
  <2>1. /\ UNCHANGED rstate /\ pc \in {"next", "resolve"}
        /\ \A m \in Messages \ {cur} : state'[m] = state[m]
    BY <1>0, <1>6 DEF Settle, ResolveReported, SetState, TypeOK
  <2>2. state[cur] # "Failed"
    BY <2>1 DEF FailedInv
  <2>. QED  BY <1>0, <2>1, <2>2 DEF FailedKept
<1>7. ASSUME NEW x \in air, NEW fate \in Fates, NEW again \in BOOLEAN,
             NEW phone \in {NoPhone, x.phone}, TakeReport(x, fate, phone, again)
      PROVE  FailedKept
  <2>1. UNCHANGED state
    BY <1>7 DEF TakeReport
  <2>2. ASSUME NEW to, NEW row \in ReportCandidates(x.ref, phone),
               SetRecipient(row[1], row[2], to)
        PROVE  FailedKept
    <3>1. row[1] \in Messages /\ row[2] \in Phones /\ rstate[row[1]][row[2]] = "Sent"
      BY <1>0 DEF ReportCandidates
    <3>2. RowChange(row[1], row[2])
      BY <2>2, <3>1, RowFacts DEF TypeOK
    <3>. QED  BY <1>0, <2>1, <3>1, <3>2 DEF RowChange, FailedKept
  <2>. QED
    BY <1>7, <2>1, <2>2 DEF TakeReport, SetRecipientByRef, OldestRow, FailedKept
<1>8. CASE UNCHANGED <<state, rstate>>
  BY <1>8 DEF FailedKept
<1>9. (\/ Load \/ Send \/ EmitOutcome \/ ReloadReported \/ Time \/ WorkerFault \/ Crash
       \/ (\E m \in Messages : CancelAnnounce(m)) \/ UNCHANGED vars)
      => UNCHANGED <<state, rstate>>
  BY DEF Load, Send, SendConfirmed, SendUnconfirmed, SendRefused, EmitOutcome,
         ReloadReported, Time, ScheduleReached, ValidityLapses, WorkerFault, Crash,
         CancelAnnounce, vars, db
<1>. QED
  BY <1>1, <1>2, <1>3, <1>4, <1>5, <1>6, <1>7, <1>8, <1>9 DEF Next, Api, Pass, Report

\* Failed is final for messages and for recipients: no pass, late delivery
\* report or cancellation ever takes it back.
THEOREM FailedIsFinalCorrect == Spec => FailedIsFinal
<1>1. Inv /\ [Next]_vars => [FailedKept]_vars
  BY FailedKeptStep
<1>. QED
  BY <1>1, InvCorrect, PTL DEF Spec, FailedIsFinal, FailedKept

-----------------------------------------------------------------------------
(* How a step changes one recipient row.                                   *)

LEMMA Basics ==
  ASSUME TypeOK
  PROVE  /\ Created \subseteq Messages /\ Messages \subseteq Nat /\ Phones \subseteq Nat
         /\ pc \notin {"idle", "drain"} => cur \in Created /\ cur \in Messages
         /\ pc \in {"send", "accepted", "refused", "emit"} => hand.phone \in Phones
         /\ \A m \in Messages : recipients[m] \subseteq Phones
         /\ NoMessage \notin Messages /\ todo \subseteq Phones
BY DEF TypeOK, Messages, Phones, Created, NoMessage

\* The recipient in hand, in a pass over m.
Held(m, k) == cur = m /\ pc \in {"accepted", "refused"} /\ hand.phone = k

\* What may happen to the row of recipient k of message m in one step, and by
\* whose hand.
RowStep(m, k) ==
  \/ rstate'[m][k] = rstate[m][k]
  \/ /\ m = last + 1 /\ last' = last + 1
     /\ rstate'[m][k] \in {"Pending", Absent}
  \/ /\ CancelCommit(m)
     /\ rstate[m][k] # "Failed" /\ rstate'[m][k] = "Cancelled"
  \/ /\ Dequeue /\ m \in Expiring
     /\ rstate'[m][k] = "Failed"
  \/ /\ pc = "next" /\ pc' = "send" /\ cur = m /\ k \in todo
     /\ rstate[m][k] = "Pending" /\ rstate'[m][k] = "Processed"
  \/ /\ Held(m, k) /\ pc' = "emit" /\ UNCHANGED verdicts
     /\ rstate'[m][k] = IF pc = "accepted" THEN "Sent" ELSE "Failed"
     /\ seen'[k] = rstate'[m][k]
  \/ /\ pc = "idle" /\ pc' = "reload" /\ cur' = m /\ m \in Created /\ k \in recipients[m]
     /\ rstate[m][k] = "Sent" /\ rstate'[m][k] \in {"Delivered", "Failed"}

LEMMA RowSteps ==
  ASSUME TypeOK, [Next]_vars, NEW m \in Messages, NEW k \in Phones
  PROVE  RowStep(m, k)
<1>0. /\ Created \subseteq Messages
      /\ pc \notin {"idle", "drain"} => cur \in Created /\ cur \in Messages
      /\ pc \in {"send", "accepted", "refused", "emit"} => hand.phone \in Phones
      /\ todo \subseteq Phones
      /\ rstate \in [Messages -> [Phones -> States \cup {Absent}]]
      /\ seen \in [Phones -> States \cup {Absent}]
  BY Basics DEF TypeOK
<1>1. ASSUME NEW o \in Options, NEW ps \in SUBSET Phones, Enqueue(o, ps)
      PROVE  RowStep(m, k)
  BY <1>0, <1>1 DEF Enqueue, RowStep
<1>2. ASSUME NEW n \in Messages, CancelCommit(n)
      PROVE  RowStep(m, k)
  BY <1>0, <1>2 DEF CancelCommit, Cancellable, RowStep
<1>3. CASE Dequeue
  <2>1. rstate' = [x \in Messages |-> [j \in Phones |->
                    IF x \in Expiring /\ j \in recipients[x] THEN "Failed" ELSE rstate[x][j]]]
    BY <1>3 DEF Dequeue
  <2>. QED  BY <1>3, <2>1 DEF RowStep
<1>4. CASE BeginRecipient
  <2>1. PICK j \in todo :
          /\ pc = "next" /\ pc' = "send"
          /\ IF rstate[cur][j] = "Pending" THEN SetRecipient(cur, j, "Processed")
                                           ELSE UNCHANGED rstate
    BY <1>4 DEF BeginRecipient, First
  <2>2. cur \in Messages /\ j \in Phones
    BY <1>0, <2>1
  <2>. QED  BY <1>0, <2>1, <2>2, RowFacts DEF RowChange, RowStep
<1>5. CASE RecordSent \/ RecordFailed
  <2>1. /\ pc' = "emit" /\ pc \in {"accepted", "refused"} /\ UNCHANGED verdicts
        /\ cur \in Messages /\ hand.phone \in Phones
    BY <1>0, <1>5 DEF RecordSent, RecordFailed, history
  <2>2. /\ rstate'[cur][hand.phone] = IF pc = "accepted" THEN "Sent" ELSE "Failed"
        /\ seen'[hand.phone] = rstate'[cur][hand.phone]
        /\ UNCHANGED rstate \/ RowChange(cur, hand.phone)
    BY <1>0, <1>5, <2>1, RowFacts DEF RecordSent, RecordFailed
  <2>. QED  BY <1>0, <2>1, <2>2 DEF RowChange, RowStep, Held
<1>6. ASSUME NEW x \in air, NEW fate \in Fates, NEW again \in BOOLEAN,
             NEW phone \in {NoPhone, x.phone}, TakeReport(x, fate, phone, again)
      PROVE  RowStep(m, k)
  <2>1. pc = "idle"
    BY <1>6 DEF TakeReport
  <2>2. ASSUME NEW to \in {"Delivered", "Failed"}, NEW row \in ReportCandidates(x.ref, phone),
               SetRecipient(row[1], row[2], to), pc' = "reload", cur' = row[1]
        PROVE  RowStep(m, k)
    <3>1. /\ row[1] \in Created /\ row[1] \in Messages /\ row[2] \in Phones
          /\ row[2] \in recipients[row[1]] /\ rstate[row[1]][row[2]] = "Sent"
      BY <1>0 DEF ReportCandidates
    <3>2. rstate'[row[1]][row[2]] = to /\ RowChange(row[1], row[2])
      BY <1>0, <2>2, <3>1, RowFacts
    <3>. QED  BY <1>0, <2>1, <2>2, <3>1, <3>2 DEF RowChange, RowStep
  <2>3. \/ UNCHANGED rstate
        \/ \E to \in {"Delivered", "Failed"} : SetRecipientByRef(x.ref, phone, to)
    BY <1>6, ReportStateFacts DEF TakeReport
  <2>. QED
    BY <2>2, <2>3 DEF SetRecipientByRef, OldestRow, RowStep
<1>7. CASE UNCHANGED rstate
  BY <1>7 DEF RowStep
<1>8. (\/ Load \/ Send \/ EmitOutcome \/ Settle \/ ReloadReported \/ ResolveReported
       \/ Time \/ WorkerFault \/ Crash
       \/ (\E n \in Messages : CancelAnnounce(n)) \/ UNCHANGED vars) => UNCHANGED rstate
  BY DEF Load, Send, SendConfirmed, SendUnconfirmed, SendRefused, EmitOutcome, Settle,
         ReloadReported, ResolveReported, Time, ScheduleReached, ValidityLapses,
         WorkerFault, Crash, CancelAnnounce, vars, db
<1>. QED
  BY <1>1, <1>2, <1>3, <1>4, <1>5, <1>6, <1>7, <1>8 DEF Next, Api, Pass, Report

-----------------------------------------------------------------------------
(* Who writes what.                                                        *)

Accepted == SendConfirmed \/ SendUnconfirmed
Enqueued == \E o \in Options, ps \in SUBSET Phones : Enqueue(o, ps)
Reporting ==
  \E x \in air, fate \in Fates, again \in BOOLEAN :
    \E phone \in {NoPhone, x.phone} : TakeReport(x, fate, phone, again)

LEMMA Writers ==
  ASSUME [Next]_vars
  PROVE  /\ Enqueued \/ UNCHANGED <<last, options, recipients>>
         /\ Accepted \/ UNCHANGED <<submits, nextRef>>
         /\ RecordSent \/ UNCHANGED refId
         /\ WorkerFault \/ Crash \/ UNCHANGED faults
         /\ Accepted \/ Reporting \/ UNCHANGED air
         /\ Reporting \/ UNCHANGED verdicts
<1>. DEFINE Goal == /\ Enqueued \/ UNCHANGED <<last, options, recipients>>
                    /\ Accepted \/ UNCHANGED <<submits, nextRef>>
                    /\ RecordSent \/ UNCHANGED refId
                    /\ WorkerFault \/ Crash \/ UNCHANGED faults
                    /\ Accepted \/ Reporting \/ UNCHANGED air
                    /\ Reporting \/ UNCHANGED verdicts
<1>1. CASE Api
  BY <1>1 DEF Api, Enqueue, CancelCommit, CancelAnnounce, Enqueued, history, db, network
<1>2. CASE Dequeue \/ Time \/ WorkerFault \/ Crash \/ UNCHANGED vars
  BY <1>2 DEF Dequeue, Time, ScheduleReached, ValidityLapses, WorkerFault, Crash, vars, db,
             history, network
<1>3. CASE Pass
  BY <1>3 DEF Pass, Send, Load, BeginRecipient, SendConfirmed, SendUnconfirmed, SendRefused,
             RecordSent, RecordFailed, EmitOutcome, Settle, Accepted, db, history, network
<1>4. CASE Report
  BY <1>4 DEF Report, TakeReport, ReloadReported, ResolveReported, Reporting, db, history, network
<1>. QED  BY <1>1, <1>2, <1>3, <1>4 DEF Next

-----------------------------------------------------------------------------
(* Rows not created yet are blank.                                         *)

FreshInv ==
  \A m \in Messages \ Created : \A k \in Phones :
    rstate[m][k] = Absent /\ submits[m][k] = 0 /\ refId[m][k] = NoRef

LEMMA FreshInit == Init => FreshInv
BY DEF Init, FreshInv, AllAbsent

LEMMA FreshStep == TypeOK /\ FreshInv /\ [Next]_vars => FreshInv'
<1>. SUFFICES ASSUME TypeOK, FreshInv, [Next]_vars,
                     NEW m \in Messages \ Created', NEW k \in Phones
              PROVE  rstate'[m][k] = Absent /\ submits'[m][k] = 0 /\ refId'[m][k] = NoRef
  BY DEF FreshInv
<1>0. /\ Created \subseteq Messages
      /\ pc \notin {"idle", "drain"} => cur \in Created /\ cur \in Messages
  BY Basics
<1>1. Created \subseteq Created' /\ m \in Messages
  <2>1. last' \in {last, last + 1}
    BY Writers DEF Enqueued, Enqueue
  <2>. QED  BY <2>1 DEF Created, TypeOK, Messages
<1>2. m \notin Created /\ rstate[m][k] = Absent /\ submits[m][k] = 0 /\ refId[m][k] = NoRef
  BY <1>1 DEF FreshInv
<1>3. rstate'[m][k] = Absent
  <2>1. m = last + 1 /\ last' = last + 1 => m \in Created'
    BY <1>1 DEF Created, TypeOK, Messages
  <2>2. ~CancelCommit(m) /\ m \notin Expiring /\ (cur = m => pc \in {"idle", "drain"})
    BY <1>0, <1>2 DEF CancelCommit, Expiring
  <2>. QED  BY <1>1, <1>2, <2>1, <2>2, RowSteps DEF RowStep, Held, Absent
<1>4. submits'[m][k] = 0
  <2>1. Accepted => submits' = [submits EXCEPT ![cur][hand.phone] = @ + 1] /\ cur # m
    BY <1>0, <1>2 DEF Accepted, SendConfirmed, SendUnconfirmed, Accept
  <2>. QED  BY <1>1, <1>2, <2>1, Writers DEF TypeOK
<1>5. refId'[m][k] = NoRef
  <2>1. RecordSent => cur # m /\ (UNCHANGED refId \/ refId' = [refId EXCEPT ![cur][hand.phone] = hand.ref])
    BY <1>0, <1>2 DEF RecordSent
  <2>. QED  BY <1>1, <1>2, <2>1, Writers DEF TypeOK
<1>. QED  BY <1>3, <1>4, <1>5

-----------------------------------------------------------------------------
CancelledKept ==
  \A m \in Messages, k \in Phones :
    rstate[m][k] = "Cancelled" /\ rstate'[m][k] # "Cancelled" =>
      \/ cur = m /\ hand.phone = k
      \/ m \in Expiring /\ state'[m] = "Failed" /\ rstate'[m][k] = "Failed"

LEMMA CancelledKeptStep == TypeOK /\ FreshInv /\ [Next]_vars => CancelledKept
<1>. SUFFICES ASSUME TypeOK, FreshInv, [Next]_vars, NEW m \in Messages, NEW k \in Phones,
                     rstate[m][k] = "Cancelled", rstate'[m][k] # "Cancelled"
              PROVE  \/ cur = m /\ hand.phone = k
                     \/ m \in Expiring /\ state'[m] = "Failed" /\ rstate'[m][k] = "Failed"
  BY DEF CancelledKept
<1>1. m # last + 1
  <2>1. last \in Nat /\ last + 1 \notin Created
    BY DEF TypeOK, Created
  <2>. QED  BY <2>1 DEF FreshInv, Absent
<1>2. Dequeue /\ m \in Expiring => state'[m] = "Failed"
  BY DEF Dequeue
<1>. QED  BY <1>1, <1>2, RowSteps DEF RowStep, Held

-----------------------------------------------------------------------------
(* The pass.                                                               *)

\* What the worker has left to do is of the message it holds, and a recipient
\* is in hand only once.
TodoInv ==
  pc \in InPass =>
    /\ todo \subseteq recipients[cur]
    /\ pc # "next" => hand.phone \in recipients[cur] \ todo

LEMMA WorkerSteps ==
  ASSUME [Next]_vars
  PROVE  \/ UNCHANGED <<pc, cur, todo, seen, hand>>
         \/ Dequeue \/ Pass \/ Report
         \/ (WorkerFault \/ Crash) /\ faults' = faults + 1 /\ WorkerTo("idle") /\ UNCHANGED db
BY DEF Next, Api, Time, Enqueue, CancelCommit, CancelAnnounce, ScheduleReached, ValidityLapses,
       vars, worker, WorkerFault, Crash

LEMMA RecipientsKept ==
  ASSUME TypeOK, [Next]_vars, NEW m \in Created
  PROVE  m \in Created' /\ recipients'[m] = recipients[m] /\ options'[m] = options[m]
<1>1. m \in Messages /\ m # last + 1
  BY Basics DEF Created, TypeOK
<1>2. last' \in {last, last + 1} /\ recipients'[m] = recipients[m] /\ options'[m] = options[m]
  BY <1>1, Writers DEF Enqueued, Enqueue, TypeOK
<1>. QED  BY <1>2 DEF Created, TypeOK

LEMMA TodoStep == TypeOK /\ TodoInv /\ [Next]_vars => TodoInv'
<1>. SUFFICES ASSUME TypeOK, TodoInv, [Next]_vars, pc' \in InPass
              PROVE  /\ todo' \subseteq recipients'[cur']
                     /\ pc' # "next" => hand'.phone \in recipients'[cur'] \ todo'
  BY DEF TodoInv
<1>0. pc \notin {"idle", "drain"} => cur \in Created /\ recipients'[cur] = recipients[cur]
  BY Basics, RecipientsKept
<1>1. CASE UNCHANGED <<pc, cur, todo, seen, hand>>
  BY <1>0, <1>1 DEF TodoInv, InPass
<1>2. CASE Load
  BY <1>0, <1>2 DEF Load
<1>3. CASE BeginRecipient
  <2>1. PICK k \in todo : /\ pc = "next" /\ todo' = todo \ {k} /\ cur' = cur
                          /\ hand' = [NothingInHand EXCEPT !.phone = k]
    BY <1>3 DEF BeginRecipient, First
  <2>2. hand'.phone = k
    BY <2>1 DEF NothingInHand
  <2>. QED  BY <1>0, <2>1, <2>2 DEF TodoInv, InPass
<1>4. CASE Send \/ RecordSent \/ RecordFailed \/ EmitOutcome
  <2>1. pc \in InPass \ {"next"} /\ UNCHANGED <<cur, todo>>
    BY <1>4 DEF Send, SendConfirmed, SendUnconfirmed, SendRefused, RecordSent, RecordFailed,
               EmitOutcome, InPass
  <2>2. pc' # "next" => hand'.phone = hand.phone
    BY <1>4 DEF Send, SendConfirmed, SendUnconfirmed, SendRefused, RecordSent, RecordFailed,
               EmitOutcome, TypeOK
  <2>. QED  BY <1>0, <2>1, <2>2 DEF TodoInv, InPass
<1>5. Dequeue \/ Settle \/ ReloadReported \/ ResolveReported \/ WorkerTo("idle") => pc' \notin InPass
  BY DEF Dequeue, Settle, ReloadReported, ResolveReported, WorkerTo, InPass
<1>6. Reporting => pc' \notin InPass
  BY DEF Reporting, TakeReport, SetRecipientByRef, InPass
<1>. QED
  BY <1>1, <1>2, <1>3, <1>4, <1>5, <1>6, WorkerSteps DEF Pass, Report, Reporting

LEMMA TodoInit == Init => TodoInv
BY DEF Init, TodoInv, InPass

-----------------------------------------------------------------------------
(* Duplicates.  A recipient the modem already took, and that may be        *)
(* submitted again, is a duplicate to be: it costs the fault that brought  *)
(* it about.                                                               *)

Waiting(m, k) ==
  cur = m /\ pc \in InPass /\ (k \in todo \/ (pc = "send" /\ hand.phone = k))

Risky(m, k) ==
  submits[m][k] > 0 /\ ~Held(m, k) /\ (Processable(rstate[m][k]) \/ Waiting(m, k))

Duplicates ==
  {d \in Messages \X Phones \X (2..(MaxFaults + 2)) : d[3] <= submits[d[1]][d[2]]}

Tokens == Duplicates \cup {t \in Messages \X Phones \X {1} : Risky(t[1], t[2])}

FaultInv == IsFiniteSet(Tokens) /\ Cardinality(Tokens) <= faults

LEMMA NoneAdded ==
  ASSUME NEW S, IsFiniteSet(S), NEW T \in SUBSET S
  PROVE  IsFiniteSet(T) /\ Cardinality(T) <= Cardinality(S)
BY FS_Subset

LEMMA OneAdded ==
  ASSUME NEW S, IsFiniteSet(S), NEW y, NEW T \in SUBSET (S \cup {y})
  PROVE  IsFiniteSet(T) /\ Cardinality(T) <= Cardinality(S) + 1
<1>1. /\ IsFiniteSet(S \cup {y}) /\ Cardinality(S) \in Nat
      /\ Cardinality(S \cup {y}) \in {Cardinality(S), Cardinality(S) + 1}
  BY FS_AddElement, FS_CardinalityType
<1>2. IsFiniteSet(T) /\ Cardinality(T) <= Cardinality(S \cup {y}) /\ Cardinality(T) \in Nat
  BY <1>1, FS_Subset, FS_CardinalityType
<1>. QED  BY <1>1, <1>2

LEMMA OneReplaced ==
  ASSUME NEW S, IsFiniteSet(S), NEW x \in S, NEW y, NEW T \in SUBSET ((S \ {x}) \cup {y})
  PROVE  IsFiniteSet(T) /\ Cardinality(T) <= Cardinality(S)
<1>1. /\ IsFiniteSet(S \ {x}) /\ Cardinality(S) \in Nat
      /\ Cardinality(S \ {x}) = Cardinality(S) - 1
  BY FS_RemoveElement, FS_CardinalityType
<1>2. IsFiniteSet(T) /\ Cardinality(T) <= Cardinality(S \ {x}) + 1
  BY <1>1, OneAdded
<1>. QED  BY <1>1, <1>2

\* No row becomes processable again.
LEMMA ProcessableBefore ==
  ASSUME TypeOK, [Next]_vars, NEW m \in Created, NEW k \in Phones, Processable(rstate'[m][k])
  PROVE  Processable(rstate[m][k])
<1>1. m \in Messages /\ m # last + 1
  BY Basics DEF Created, TypeOK
<1>. QED  BY <1>1, RowSteps DEF RowStep, Processable, Claimable

LEMMA WaitingBefore ==
  ASSUME TypeOK, [Next]_vars, NEW m, NEW k, Waiting(m, k)'
  PROVE  Waiting(m, k) \/ (pc = "load" /\ Processable(rstate[m][k]))
<1>1. CASE UNCHANGED <<pc, cur, todo, seen, hand>>
  BY <1>1 DEF Waiting
<1>2. CASE Load
  BY <1>2 DEF Load, Waiting
<1>3. CASE BeginRecipient
  <2>1. PICK j \in todo : /\ pc = "next" /\ todo' = todo \ {j} /\ cur' = cur
                          /\ hand' = [NothingInHand EXCEPT !.phone = j]
    BY <1>3 DEF BeginRecipient, First
  <2>2. hand'.phone = j
    BY <2>1 DEF NothingInHand
  <2>. QED  BY <2>1, <2>2 DEF Waiting, InPass
<1>4. CASE Send \/ RecordSent \/ RecordFailed \/ EmitOutcome
  BY <1>4 DEF Send, SendConfirmed, SendUnconfirmed, SendRefused, RecordSent, RecordFailed,
             EmitOutcome, Waiting, InPass
<1>5. Dequeue \/ Settle \/ ReloadReported \/ ResolveReported \/ WorkerTo("idle") => pc' \notin InPass
  BY DEF Dequeue, Settle, ReloadReported, ResolveReported, WorkerTo, InPass
<1>6. Reporting => pc' \notin InPass
  BY DEF Reporting, TakeReport, SetRecipientByRef, Waiting, InPass
<1>. QED
  BY <1>1, <1>2, <1>3, <1>4, <1>5, <1>6, WorkerSteps DEF Pass, Report, Reporting, Waiting

\* A recipient leaves the worker's hand with its outcome stored, or by a fault.
LEMMA HeldAfter ==
  ASSUME TypeOK, [Next]_vars, NEW m, NEW k, Held(m, k)
  PROVE  \/ Held(m, k)' /\ UNCHANGED <<pc, cur, hand, todo>>
         \/ RecordSent \/ RecordFailed
         \/ faults' = faults + 1 /\ pc' = "idle" /\ UNCHANGED submits
<1>1. UNCHANGED <<pc, cur, todo, seen, hand>> => Held(m, k)'
  BY DEF Held
<1>2. ~Dequeue /\ ~Load /\ ~BeginRecipient /\ ~Send /\ ~EmitOutcome /\ ~Settle /\ ~Report
  BY DEF Held, Dequeue, Load, BeginRecipient, Send, SendConfirmed, SendUnconfirmed, SendRefused,
         EmitOutcome, Settle, Report, TakeReport, ReloadReported, ResolveReported
<1>3. UNCHANGED submits
  BY <1>2, Writers DEF Accepted, Send
<1>. QED  BY <1>1, <1>2, <1>3, WorkerSteps DEF Pass, WorkerTo

LEMMA AcceptedFacts ==
  ASSUME TypeOK, Accepted
  PROVE  /\ cur \in Messages /\ cur \in Created /\ hand.phone \in Phones
         /\ pc = "send" /\ Held(cur, hand.phone)' /\ UNCHANGED <<cur, todo, rstate>>
         /\ submits' = [submits EXCEPT ![cur][hand.phone] = @ + 1]
         /\ submits'[cur][hand.phone] = submits[cur][hand.phone] + 1
         /\ hand'.phone = hand.phone
         /\ \A m \in Messages, k \in Phones : m # cur \/ k # hand.phone =>
              submits'[m][k] = submits[m][k]
         /\ nextRef' = (nextRef + 1) % RefCount
<1>1. /\ cur \in Messages /\ cur \in Created /\ hand.phone \in Phones /\ pc = "send"
  BY Basics DEF Accepted, SendConfirmed, SendUnconfirmed
<1>2. /\ submits' = [submits EXCEPT ![cur][hand.phone] = @ + 1]
      /\ nextRef' = (nextRef + 1) % RefCount /\ UNCHANGED <<cur, todo, rstate>>
      /\ pc' \in {"accepted", "refused"}
      /\ hand' = [hand EXCEPT !.ref = nextRef] \/ hand' = hand
  BY DEF Accepted, SendConfirmed, SendUnconfirmed, Accept, db
<1>3. hand'.phone = hand.phone
  BY <1>2 DEF TypeOK
<1>4. submits \in [Messages -> [Phones -> Nat]]
  BY DEF TypeOK
<1>. QED  BY <1>1, <1>2, <1>3, <1>4 DEF Held

LEMMA RiskyBefore ==
  ASSUME TypeOK, FreshInv, TodoInv, [Next]_vars, NEW m \in Messages, NEW k \in Phones, Risky(m, k)'
  PROVE  /\ submits'[m][k] = submits[m][k]
         /\ Risky(m, k) \/ (Held(m, k) /\ faults' = faults + 1)
<1>1. submits'[m][k] = submits[m][k]
  BY AcceptedFacts, Writers DEF Risky
<1>2. m \in Created
  BY <1>1 DEF FreshInv, Risky
<1>3. Processable(rstate[m][k]) \/ Waiting(m, k)
  BY <1>2, ProcessableBefore, WaitingBefore DEF Risky
<1>4. CASE Held(m, k)
  <2>1. ~RecordSent /\ ~RecordFailed
    <3>. SUFFICES ASSUME RecordSent \/ RecordFailed  PROVE FALSE
      OBVIOUS
    <3>1. pc' = "emit" /\ UNCHANGED <<cur, todo, hand>> /\ pc \in {"accepted", "refused"}
      BY DEF RecordSent, RecordFailed
    <3>2. ~Waiting(m, k)'
      BY <1>4, <3>1 DEF Waiting, Held, TodoInv, InPass
    <3>3. rstate'[cur][hand.phone] \in {"Sent", "Failed"}
      BY <1>4, RowFacts DEF RecordSent, RecordFailed, Held, TypeOK
    <3>. QED  BY <1>4, <3>2, <3>3 DEF Risky, Held, Processable, Claimable
  <2>. QED  BY <1>1, <1>4, <2>1, HeldAfter DEF Risky
<1>. QED  BY <1>1, <1>3, <1>4 DEF Risky

LEMMA DuplicatesBefore ==
  ASSUME TypeOK, [Next]_vars, NEW d \in Duplicates'
  PROVE  \/ d \in Duplicates
         \/ /\ Accepted /\ submits[cur][hand.phone] > 0
            /\ d = <<cur, hand.phone, submits[cur][hand.phone] + 1>>
<1>1. /\ d \in Messages \X Phones \X (2..(MaxFaults + 2))
      /\ d = <<d[1], d[2], d[3]>> /\ d[1] \in Messages /\ d[2] \in Phones
      /\ d[3] \in Nat /\ d[3] >= 2 /\ d[3] <= submits'[d[1]][d[2]]
  BY DEF Duplicates
<1>2. submits[d[1]][d[2]] \in Nat
  BY <1>1 DEF TypeOK
<1>3. CASE submits'[d[1]][d[2]] = submits[d[1]][d[2]]
  BY <1>1, <1>3 DEF Duplicates
<1>4. CASE Accepted /\ d[1] = cur /\ d[2] = hand.phone
  <2>1. d[3] <= submits[cur][hand.phone] + 1
    BY <1>1, <1>4, AcceptedFacts
  <2>2. CASE d[3] <= submits[cur][hand.phone]
    BY <1>1, <1>4, <2>2 DEF Duplicates
  <2>. QED  BY <1>1, <1>2, <1>4, <2>1, <2>2
<1>. QED  BY <1>1, <1>3, <1>4, AcceptedFacts, Writers

LEMMA FaultInit == Init => FaultInv
<1>. SUFFICES ASSUME Init  PROVE FaultInv
  OBVIOUS
<1>1. \A m \in Messages, k \in Phones : submits[m][k] = 0
  BY DEF Init
<1>2. Tokens = {}
  BY <1>1 DEF Tokens, Duplicates, Risky
<1>. QED  BY <1>2, FS_EmptySet DEF FaultInv, Init

LEMMA FaultStep ==
  TypeOK /\ FreshInv /\ TodoInv /\ FaultInv /\ [Next]_vars => FaultInv'
<1>. SUFFICES ASSUME TypeOK, FreshInv, TodoInv, FaultInv, [Next]_vars
              PROVE  FaultInv'
  OBVIOUS
<1>. DEFINE m == cur
            k == hand.phone
            n == submits[m][k]
<1>0. /\ IsFiniteSet(Tokens) /\ Cardinality(Tokens) \in Nat /\ faults \in Nat
      /\ faults' \in {faults, faults + 1}
  BY FS_CardinalityType, Writers DEF FaultInv, TypeOK, WorkerFault, Crash
<1>1. ASSUME NEW t \in Tokens'
      PROVE  \/ t \in Tokens /\ (Accepted => t # <<m, k, 1>>)
             \/ Accepted /\ n > 0 /\ t = <<m, k, n + 1>>
             \/ faults' = faults + 1 /\ ~Accepted /\ t = <<m, k, 1>>
  <2>1. CASE t \in Duplicates'
    <3>1. t[3] >= 2
      BY <2>1 DEF Duplicates
    <3>2. t # <<m, k, 1>>
      BY <3>1
    <3>. QED  BY <2>1, <3>2, DuplicatesBefore DEF Tokens
  <2>2. CASE t \in Messages \X Phones \X {1} /\ Risky(t[1], t[2])'
    <3>1. t = <<t[1], t[2], 1>> /\ t[1] \in Messages /\ t[2] \in Phones
      BY <2>2
    <3>2. Accepted => ~(t[1] = m /\ t[2] = k)
      BY <2>2, AcceptedFacts DEF Risky
    <3>3. Held(t[1], t[2]) => ~Accepted /\ t = <<m, k, 1>>
      BY <3>1, AcceptedFacts DEF Held
    <3>4. Risky(t[1], t[2]) => t \in Tokens
      BY <2>2 DEF Tokens
    <3>. QED  BY <2>2, <3>1, <3>2, <3>3, <3>4, RiskyBefore
  <2>3. t \in Duplicates' \/ (t \in Messages \X Phones \X {1} /\ Risky(t[1], t[2])')
    BY DEF Tokens
  <2>. QED  BY <2>1, <2>2, <2>3
<1>2. Accepted /\ n > 0 => <<m, k, 1>> \in Tokens
  <2>. SUFFICES ASSUME Accepted, n > 0  PROVE <<m, k, 1>> \in Tokens
    OBVIOUS
  <2>1. m \in Messages /\ k \in Phones /\ pc = "send"
    BY AcceptedFacts
  <2>2. Risky(m, k)
    BY <2>1 DEF Risky, Held, Waiting, InPass
  <2>. QED  BY <2>1, <2>2 DEF Tokens
<1>3. CASE Accepted /\ n > 0
  <2>1. Tokens' \in SUBSET ((Tokens \ {<<m, k, 1>>}) \cup {<<m, k, n + 1>>})
    BY <1>1, <1>3
  <2>2. IsFiniteSet(Tokens') /\ Cardinality(Tokens') <= Cardinality(Tokens)
    BY <1>0, <1>2, <1>3, <2>1, OneReplaced
  <2>3. Cardinality(Tokens') \in Nat
    BY <2>2, FS_CardinalityType
  <2>. QED  BY <1>0, <2>2, <2>3 DEF FaultInv
<1>4. CASE faults' = faults + 1
  <2>1. CASE Accepted
    <3>1. UNCHANGED faults
      BY <2>1 DEF Accepted, SendConfirmed, SendUnconfirmed
    <3>. QED  BY <1>0, <1>4, <3>1
  <2>2. CASE ~Accepted
    <3>1. Tokens' \in SUBSET (Tokens \cup {<<m, k, 1>>})
      BY <1>1, <2>2
    <3>2. IsFiniteSet(Tokens') /\ Cardinality(Tokens') <= Cardinality(Tokens) + 1
      BY <1>0, <3>1, OneAdded
    <3>3. Cardinality(Tokens') \in Nat
      BY <3>2, FS_CardinalityType
    <3>. QED  BY <1>0, <1>4, <3>2, <3>3 DEF FaultInv
  <2>. QED  BY <2>1, <2>2
<1>5. CASE faults' = faults /\ ~(Accepted /\ n > 0)
  <2>1. Tokens' \in SUBSET Tokens
    BY <1>0, <1>1, <1>5
  <2>2. IsFiniteSet(Tokens') /\ Cardinality(Tokens') <= Cardinality(Tokens)
    BY <1>0, <2>1, NoneAdded
  <2>3. Cardinality(Tokens') \in Nat
    BY <2>2, FS_CardinalityType
  <2>. QED  BY <1>0, <1>5, <2>2, <2>3 DEF FaultInv
<1>. QED  BY <1>0, <1>3, <1>4, <1>5

-----------------------------------------------------------------------------
(* References.  While they do not wrap, a reference belongs to one         *)
(* recipient, wherever it is kept.                                         *)

Submitted == {d \in Messages \X Phones \X (1..(MaxFaults + 2)) : d[3] <= submits[d[1]][d[2]]}

Marked(m, k, r) ==
  \/ refId[m][k] = r
  \/ pc = "accepted" /\ Held(m, k) /\ hand.ref = r
  \/ \E x \in air : x.msg = m /\ x.phone = k /\ x.ref = r

RefInv ==
  /\ IsFiniteSet(Submitted)
  /\ pc = "accepted" => hand.ref \in Refs
  /\ Submissions < RefCount => nextRef = Submissions
  /\ NoWrap =>
       \A r \in Refs, m \in Messages, k \in Phones : Marked(m, k, r) =>
         /\ r < Submissions
         /\ \A n \in Messages, j \in Phones : Marked(n, j, r) => n = m /\ j = k

\* Too many things to name them all differently.
LEMMA NamedTwice ==
  ASSUME NEW N \in Nat, NEW S, IsFiniteSet(S), Cardinality(S) < N, NEW f \in [1..N -> S]
  PROVE  \E x, y \in 1..N : x # y /\ f[x] = f[y]
<1>1. IsFiniteSet(1..N) /\ Cardinality(1..N) = N
  BY FS_Interval
<1>. QED  BY <1>1, FS_PigeonHole

\* The faults so far bound how often the recipient in hand was submitted.
LEMMA SubmitBound ==
  ASSUME TypeOK, FaultInv, Accepted
  PROVE  submits[cur][hand.phone] <= MaxFaults
<1>. DEFINE m == cur
            k == hand.phone
            N == MaxFaults + 1
            f == [j \in 1..N |-> <<m, k, j>>]
<1>. SUFFICES ASSUME ~(submits[m][k] <= MaxFaults)  PROVE FALSE
  OBVIOUS
<1>1. m \in Messages /\ k \in Phones /\ pc = "send" /\ submits[m][k] \in Nat
  BY AcceptedFacts DEF TypeOK
<1>2. submits[m][k] >= N /\ N \in Nat
  BY <1>1
<1>3. <<m, k, 1>> \in Tokens
  <2>1. Risky(m, k)
    BY <1>1, <1>2 DEF Risky, Held, Waiting, InPass
  <2>. QED  BY <1>1, <2>1 DEF Tokens
<1>4. \A j \in 2..N : <<m, k, j>> \in Tokens
  BY <1>1, <1>2 DEF Tokens, Duplicates
<1>5. \A j \in 1..N : <<m, k, j>> \in Tokens
  BY <1>2, <1>3, <1>4
<1>6. [j \in 1..N |-> <<m, k, j>>] \in [1..N -> Tokens]
  BY <1>5
<1>7. IsFiniteSet(Tokens) /\ Cardinality(Tokens) < N
  BY <1>2, FS_CardinalityType DEF FaultInv, TypeOK
<1>8. \E x, y \in 1..N : x # y /\ f[x] = f[y]
  BY <1>2, <1>6, <1>7, NamedTwice
<1>. QED  BY <1>8

\* An accepted SMS is one more submission, and nothing else is.
LEMMA SubmissionsStep ==
  ASSUME TypeOK, FaultInv, IsFiniteSet(Submitted), [Next]_vars
  PROVE  /\ IsFiniteSet(Submitted') /\ Submissions \in Nat
         /\ Submissions' = IF Accepted THEN Submissions + 1 ELSE Submissions
<1>0. Submissions = Cardinality(Submitted) /\ Submissions' = Cardinality(Submitted')
  BY DEF Submissions, Submitted
<1>1. CASE ~Accepted
  <2>1. Submitted' = Submitted
    BY <1>1, Writers DEF Submitted
  <2>. QED  BY <1>0, <1>1, <2>1, FS_CardinalityType
<1>2. CASE Accepted
  <2>. DEFINE new == <<cur, hand.phone, submits[cur][hand.phone] + 1>>
  <2>1. /\ submits[cur][hand.phone] \in Nat /\ submits[cur][hand.phone] <= MaxFaults
        /\ cur \in Messages /\ hand.phone \in Phones
    BY <1>2, SubmitBound, AcceptedFacts DEF TypeOK
  <2>2. new \in Submitted' /\ new \notin Submitted
    BY <1>2, <2>1, AcceptedFacts DEF Submitted
  <2>3. Submitted \subseteq Submitted'
    <3>. SUFFICES ASSUME NEW d \in Submitted  PROVE d \in Submitted'
      OBVIOUS
    <3>1. /\ d[1] \in Messages /\ d[2] \in Phones /\ d[3] \in Nat
          /\ d[3] <= submits[d[1]][d[2]] /\ submits[d[1]][d[2]] \in Nat
      BY DEF Submitted, TypeOK
    <3>2. d[3] <= submits'[d[1]][d[2]]
      BY <1>2, <2>1, <3>1, AcceptedFacts
    <3>. QED  BY <3>2 DEF Submitted
  <2>4. Submitted' \subseteq Submitted \cup {new}
    <3>. SUFFICES ASSUME NEW d \in Submitted'  PROVE d \in Submitted \/ d = new
      OBVIOUS
    <3>1. /\ d \in Messages \X Phones \X (1..(MaxFaults + 2))
          /\ d = <<d[1], d[2], d[3]>> /\ d[1] \in Messages /\ d[2] \in Phones
          /\ d[3] \in Nat /\ d[3] <= submits'[d[1]][d[2]]
      BY DEF Submitted
    <3>2. CASE d[1] = cur /\ d[2] = hand.phone
      <4>1. d[3] <= submits[cur][hand.phone] + 1
        BY <1>2, <3>1, <3>2, AcceptedFacts
      <4>2. CASE d[3] <= submits[cur][hand.phone]
        BY <3>1, <3>2, <4>2 DEF Submitted
      <4>. QED  BY <2>1, <3>1, <3>2, <4>1, <4>2
    <3>3. CASE ~(d[1] = cur /\ d[2] = hand.phone)
      BY <1>2, <3>1, <3>3, AcceptedFacts DEF Submitted
    <3>. QED  BY <3>2, <3>3
  <2>5. Submitted' = Submitted \cup {new}
    BY <2>2, <2>3, <2>4
  <2>. QED  BY <1>0, <1>2, <2>2, <2>5, FS_AddElement, FS_CardinalityType
<1>. QED  BY <1>1, <1>2

LEMMA NoWrapBefore ==
  ASSUME TypeOK, FaultInv, IsFiniteSet(Submitted), [Next]_vars, NoWrap'
  PROVE  NoWrap /\ (Accepted => Submissions < RefCount)
BY SubmissionsStep DEF NoWrap

LEMMA MarkedBefore ==
  ASSUME TypeOK, RefInv, [Next]_vars, NEW m \in Messages, NEW k \in Phones, NEW r \in Refs,
         Marked(m, k, r)'
  PROVE  Marked(m, k, r) \/ (Accepted /\ m = cur /\ k = hand.phone /\ r = nextRef)
<1>1. CASE refId'[m][k] = r
  <2>1. RecordSent => /\ refId' = refId \/ refId' = [refId EXCEPT ![cur][hand.phone] = hand.ref]
                      /\ pc = "accepted"
    BY DEF RecordSent
  <2>2. refId'[m][k] = refId[m][k] \/ (pc = "accepted" /\ Held(m, k) /\ hand.ref = r)
    <3>1. refId \in [Messages -> [Phones -> Refs \cup {NoRef}]]
      BY DEF TypeOK
    <3>2. CASE refId' = refId
      BY <3>2
    <3>3. CASE /\ refId' = [refId EXCEPT ![cur][hand.phone] = hand.ref]
               /\ pc = "accepted"
      BY <1>1, <3>1, <3>3 DEF Held
    <3>. QED  BY <2>1, <3>2, <3>3, Writers
  <2>. QED  BY <1>1, <2>2 DEF Marked
<1>2. CASE pc' = "accepted" /\ Held(m, k)' /\ hand'.ref = r
  <2>1. ~Dequeue /\ ~Load /\ ~BeginRecipient /\ ~SendUnconfirmed /\ ~SendRefused /\ ~RecordSent
        /\ ~RecordFailed /\ ~EmitOutcome /\ ~Settle /\ ~ReloadReported /\ ~ResolveReported
        /\ ~WorkerTo("idle")
    BY <1>2 DEF Dequeue, Load, BeginRecipient, SendUnconfirmed, SendRefused, RecordSent,
                RecordFailed, EmitOutcome, Settle, ReloadReported, ResolveReported, WorkerTo
  <2>2. ~Reporting
    BY <1>2 DEF Reporting, TakeReport, SetRecipientByRef
  <2>3. CASE SendConfirmed
    <3>1. hand' = [hand EXCEPT !.ref = nextRef] /\ cur' = cur
      BY <2>3 DEF SendConfirmed
    <3>2. hand'.ref = nextRef /\ hand'.phone = hand.phone
      BY <3>1 DEF TypeOK
    <3>. QED  BY <1>2, <2>3, <3>1, <3>2 DEF Accepted, Held
  <2>4. CASE UNCHANGED <<pc, cur, todo, seen, hand>>
    BY <1>2, <2>4 DEF Held, Marked
  <2>. QED  BY <2>1, <2>2, <2>3, <2>4, WorkerSteps DEF Pass, Send, Report, Reporting
<1>3. CASE \E x \in air' : x.msg = m /\ x.phone = k /\ x.ref = r
  <2>1. PICK x \in air' : x.msg = m /\ x.phone = k /\ x.ref = r
    BY <1>3
  <2>2. CASE x \in air
    BY <2>1, <2>2 DEF Marked
  <2>3. CASE Accepted /\ x \notin air
    <3>1. x = [msg |-> cur, phone |-> hand.phone, ref |-> nextRef, fate |-> "Open"]
      BY <2>3 DEF Accepted, SendConfirmed, SendUnconfirmed, Accept
    <3>. QED  BY <2>1, <2>3, <3>1
  <2>4. CASE Reporting /\ x \notin air
    <3>1. PICK y \in air : \E fate \in Fates : x = [y EXCEPT !.fate = fate]
      BY <2>4 DEF Reporting, TakeReport, Reported
    <3>2. y \in [msg: Created, phone: Phones, ref: Refs, fate: FinalFates \cup {"Open"}]
      BY DEF TypeOK
    <3>3. x.msg = y.msg /\ x.phone = y.phone /\ x.ref = y.ref
      BY <3>1, <3>2
    <3>. QED  BY <2>1, <3>3 DEF Marked
  <2>. QED  BY <2>2, <2>3, <2>4, Writers
<1>. QED  BY <1>1, <1>2, <1>3 DEF Marked

LEMMA RefInit == Init => RefInv
<1>. SUFFICES ASSUME Init  PROVE RefInv
  OBVIOUS
<1>1. Submitted = {}
  BY DEF Init, Submitted
<1>2. Submissions = 0 /\ IsFiniteSet(Submitted)
  BY <1>1, FS_EmptySet DEF Submissions, Submitted
<1>3. \A r \in Refs, m \in Messages, k \in Phones : ~Marked(m, k, r)
  BY DEF Init, Marked, Refs, NoRef
<1>. QED  BY <1>2, <1>3 DEF Init, RefInv

LEMMA RefStep == TypeOK /\ FaultInv /\ RefInv /\ [Next]_vars => RefInv'
<1>. SUFFICES ASSUME TypeOK, FaultInv, RefInv, [Next]_vars  PROVE RefInv'
  OBVIOUS
<1>1. /\ IsFiniteSet(Submitted') /\ Submissions \in Nat
      /\ Submissions' = IF Accepted THEN Submissions + 1 ELSE Submissions
      /\ NoWrap' => NoWrap /\ (Accepted => Submissions < RefCount)
  BY SubmissionsStep, NoWrapBefore DEF RefInv
<1>2. pc' = "accepted" => hand'.ref \in Refs
  <2>. SUFFICES ASSUME pc' = "accepted"  PROVE hand'.ref \in Refs
    OBVIOUS
  <2>1. ~Dequeue /\ ~Load /\ ~BeginRecipient /\ ~SendUnconfirmed /\ ~SendRefused /\ ~RecordSent
        /\ ~RecordFailed /\ ~EmitOutcome /\ ~Settle /\ ~ReloadReported /\ ~ResolveReported
        /\ ~WorkerTo("idle") /\ ~Reporting
    BY DEF Dequeue, Load, BeginRecipient, SendUnconfirmed, SendRefused, RecordSent,
           RecordFailed, EmitOutcome, Settle, ReloadReported, ResolveReported, WorkerTo,
           Reporting, TakeReport, SetRecipientByRef
  <2>2. SendConfirmed => hand'.ref = nextRef
    BY DEF SendConfirmed, TypeOK
  <2>. QED
    BY <2>1, <2>2, WorkerSteps DEF Pass, Send, Report, Reporting, RefInv, TypeOK
<1>3. Submissions' < RefCount => nextRef' = Submissions'
  <2>1. CASE Accepted
    <3>1. Submissions' < RefCount => Submissions + 1 < RefCount /\ nextRef = Submissions
      BY <1>1, <2>1 DEF RefInv
    <3>. QED  BY <1>1, <2>1, <3>1, AcceptedFacts
  <2>2. CASE ~Accepted
    BY <1>1, <2>2, Writers DEF RefInv
  <2>. QED  BY <2>1, <2>2
<1>4. ASSUME NoWrap', NEW r \in Refs, NEW m \in Messages, NEW k \in Phones, Marked(m, k, r)'
      PROVE  /\ r < Submissions'
             /\ \A n \in Messages, j \in Phones : Marked(n, j, r)' => n = m /\ j = k
  <2>1. \A n \in Messages, j \in Phones : Marked(n, j, r)' =>
          Marked(n, j, r) \/ (Accepted /\ n = cur /\ j = hand.phone /\ r = nextRef)
    BY MarkedBefore
  <2>2. \A n \in Messages, j \in Phones : Marked(n, j, r) =>
          /\ r < Submissions
          /\ \A i \in Messages, l \in Phones : Marked(i, l, r) => i = n /\ l = j
    BY <1>1, <1>4 DEF RefInv
  <2>3. Accepted => nextRef = Submissions
    BY <1>1, <1>4 DEF RefInv
  <2>4. r \in Nat
    BY DEF Refs
  <2>. QED  BY <1>1, <1>4, <2>1, <2>2, <2>3, <2>4
<1>. QED  BY <1>1, <1>2, <1>3, <1>4 DEF RefInv

-----------------------------------------------------------------------------
(* How a step changes what the worker knows, the messages and the history. *)

\* A report of a final fate marks a Sent recipient it can mean, if any.
LEMMA ReportFacts ==
  ASSUME TypeOK, NEW x \in air, NEW fate \in Fates, NEW again, NEW phone,
         TakeReport(x, fate, phone, again)
  PROVE  \/ /\ UNCHANGED <<rstate, pc, cur, hand>>
            /\ fate \in FinalFates => ReportCandidates(x.ref, phone) = {}
         \/ /\ fate \in FinalFates /\ pc' = "reload"
            /\ hand'.ref = x.ref /\ hand'.to = fate
            /\ \E row \in ReportCandidates(x.ref, phone) :
                 /\ row[1] \in Created /\ row[1] \in Messages /\ row[2] \in Phones
                 /\ row[2] \in recipients[row[1]] /\ rstate[row[1]][row[2]] = "Sent"
                 /\ refId[row[1]][row[2]] = x.ref /\ options[row[1]].wantsReport
                 /\ cur' = row[1]
                 /\ rstate'[row[1]][row[2]] = fate /\ RowChange(row[1], row[2])
<1>0. Created \subseteq Messages /\ rstate \in [Messages -> [Phones -> States \cup {Absent}]]
  BY Basics DEF TypeOK
<1>1. PICK status \in StatusesOf[fate] :
        IF DeliveryReportState(status) = "Ignored" THEN UNCHANGED <<rstate, pc, cur, hand>>
        ELSE SetRecipientByRef(x.ref, phone, DeliveryReportState(status))
  BY DEF TakeReport
<1>2. DeliveryReportState(status) = IF fate \in FinalFates THEN fate ELSE "Ignored"
  BY StatusesAssumption DEF Fates, FinalFates, DeliveryReportState
<1>3. CASE fate \notin FinalFates
  BY <1>1, <1>2, <1>3
<1>4. CASE fate \in FinalFates
  <2>1. SetRecipientByRef(x.ref, phone, fate)
    BY <1>1, <1>2, <1>4 DEF FinalFates
  <2>2. ASSUME NEW row \in ReportCandidates(x.ref, phone),
               SetRecipient(row[1], row[2], fate), pc' = "reload", cur' = row[1],
               hand' = [NothingInHand EXCEPT !.ref = x.ref, !.to = fate]
        PROVE  /\ row[1] \in Created /\ row[1] \in Messages /\ row[2] \in Phones
               /\ row[2] \in recipients[row[1]] /\ rstate[row[1]][row[2]] = "Sent"
               /\ refId[row[1]][row[2]] = x.ref /\ options[row[1]].wantsReport
               /\ rstate'[row[1]][row[2]] = fate /\ RowChange(row[1], row[2])
               /\ hand'.ref = x.ref /\ hand'.to = fate
    <3>1. /\ row[1] \in Created /\ row[1] \in Messages /\ row[2] \in Phones
          /\ row[2] \in recipients[row[1]] /\ rstate[row[1]][row[2]] = "Sent"
          /\ refId[row[1]][row[2]] = x.ref /\ options[row[1]].wantsReport
      BY <1>0 DEF ReportCandidates
    <3>2. hand'.ref = x.ref /\ hand'.to = fate
      BY <2>2 DEF NothingInHand
    <3>. QED  BY <1>0, <2>2, <3>1, <3>2, RowFacts
  <2>3. CASE ReportCandidates(x.ref, phone) = {}
    BY <1>4, <2>1, <2>3 DEF SetRecipientByRef, OldestRow
  <2>4. CASE ReportCandidates(x.ref, phone) # {}
    <3>1. PICK row \in ReportCandidates(x.ref, phone) :
            /\ SetRecipient(row[1], row[2], fate) /\ pc' = "reload" /\ cur' = row[1]
            /\ hand' = [NothingInHand EXCEPT !.ref = x.ref, !.to = fate]
      BY <2>1, <2>4 DEF SetRecipientByRef, OldestRow
    <3>. QED  BY <1>4, <2>2, <3>1
  <2>. QED  BY <2>3, <2>4
<1>. QED  BY <1>3, <1>4

LEMMA HistoryGrows ==
  ASSUME [Next]_vars
  PROVE  verdicts \subseteq verdicts' /\ events \subseteq events'
<1>1. Reporting => verdicts \subseteq verdicts'
  BY DEF Reporting, TakeReport
<1>2. events \subseteq events'
  BY DEF Next, Api, Pass, Send, Report, Time, Enqueue, CancelCommit, CancelAnnounce, Dequeue,
         Load, BeginRecipient, SendConfirmed, SendUnconfirmed, SendRefused, RecordSent,
         RecordFailed, EmitOutcome, Settle, TakeReport, ReloadReported, ResolveReported,
         ScheduleReached, ValidityLapses, WorkerFault, Crash, vars, history
<1>. QED  BY <1>1, <1>2, Writers

\* What the worker knows of a recipient it loaded, or made so itself.
SeenStep(k) ==
  /\ cur' = cur /\ cur \in Created /\ cur \in Messages
  /\ \/ seen'[k] = seen[k] /\ pc \in InPass \cup {"resolve"}
     \/ seen'[k] = rstate[cur][k] /\ UNCHANGED rstate /\ pc \in {"load", "reload"}
     \/ /\ Held(cur, k) /\ pc' = "emit"
        /\ seen'[k] = IF pc = "accepted" THEN "Sent" ELSE "Failed"

LEMMA SeenSteps ==
  ASSUME TypeOK, [Next]_vars, pc' \in InPass \cup {"resolve"}, NEW k \in Phones
  PROVE  SeenStep(k)
<1>0. pc \notin {"idle", "drain"} => cur \in Created /\ cur \in Messages
  BY Basics
<1>1. CASE UNCHANGED <<pc, cur, todo, seen, hand>>
  BY <1>0, <1>1 DEF SeenStep, InPass
<1>2. CASE Load \/ ReloadReported
  BY <1>0, <1>2 DEF Load, ReloadReported, SeenStep, db
<1>3. CASE BeginRecipient \/ Send \/ EmitOutcome
  BY <1>0, <1>3 DEF BeginRecipient, Send, SendConfirmed, SendUnconfirmed, SendRefused,
                    EmitOutcome, SeenStep, InPass
<1>4. CASE RecordSent \/ RecordFailed
  <2>1. /\ pc \in {"accepted", "refused"} /\ pc' = "emit" /\ cur' = cur
        /\ seen' = [seen EXCEPT ![hand.phone] = IF pc = "accepted" THEN "Sent" ELSE "Failed"]
    BY <1>4 DEF RecordSent, RecordFailed
  <2>. QED  BY <1>0, <2>1 DEF SeenStep, Held, InPass, TypeOK
<1>5. Dequeue \/ Settle \/ ResolveReported \/ WorkerTo("idle") => pc' \notin InPass \cup {"resolve"}
  BY DEF Dequeue, Settle, ResolveReported, WorkerTo, InPass
<1>6. Reporting => pc' \notin InPass \cup {"resolve"}
  BY DEF Reporting, TakeReport, SetRecipientByRef, InPass
<1>. QED
  BY <1>1, <1>2, <1>3, <1>4, <1>5, <1>6, WorkerSteps DEF Pass, Report, Reporting

\* What may happen to the row of message m in one step.
StateStep(m) ==
  \/ state'[m] = state[m]
  \/ m = last + 1 /\ last' = last + 1 /\ state'[m] = "Pending"
  \/ CancelCommit(m) /\ state'[m] = "Cancelled"
  \/ Dequeue /\ state[m] \in Claimable /\ m \in Expiring /\ state'[m] = "Failed"
  \/ Dequeue /\ state[m] \in Claimable /\ m \notin Expiring /\ state'[m] = "Processed"
  \/ /\ cur = m /\ state'[m] = ResolveFinalState({seen[k] : k \in recipients[m]})
     /\ \/ pc = "next" /\ todo = {} /\ pc' = "drain"
        \/ pc = "resolve" /\ pc' = "idle"

LEMMA StateSteps ==
  ASSUME TypeOK, [Next]_vars, NEW m \in Messages
  PROVE  StateStep(m)
<1>0. /\ Created \subseteq Messages
      /\ pc \notin {"idle", "drain"} => cur \in Created /\ cur \in Messages
      /\ state \in [Messages -> States \cup {Absent}]
  BY Basics DEF TypeOK
<1>1. CASE Enqueued
  BY <1>0, <1>1 DEF Enqueued, Enqueue, StateStep
<1>2. CASE \E n \in Messages : CancelCommit(n)
  BY <1>0, <1>2 DEF CancelCommit, StateStep
<1>3. CASE Dequeue
  BY <1>0, <1>3 DEF Dequeue, First, Due, Expiring, StateStep
<1>4. CASE Settle \/ ResolveReported
  BY <1>0, <1>4 DEF Settle, ResolveReported, SetState, WorkerTo, StateStep
<1>5. Reporting => UNCHANGED state
  BY DEF Reporting, TakeReport
<1>6. (\/ Load \/ BeginRecipient \/ Send \/ RecordSent \/ RecordFailed \/ EmitOutcome
       \/ ReloadReported \/ Time \/ WorkerFault \/ Crash
       \/ (\E n \in Messages : CancelAnnounce(n)) \/ UNCHANGED vars) => UNCHANGED state
  BY DEF Load, BeginRecipient, Send, SendConfirmed, SendUnconfirmed, SendRefused, RecordSent,
         RecordFailed, EmitOutcome, ReloadReported, Time, ScheduleReached, ValidityLapses,
         WorkerFault, Crash, CancelAnnounce, vars, db
<1>. QED
  BY <1>1, <1>2, <1>3, <1>4, <1>5, <1>6 DEF Next, Api, Pass, Report, Reporting, Enqueued, StateStep

LEMMA NewRow ==
  ASSUME TypeOK, [Next]_vars, NEW m \in Created' \ Created
  PROVE  m \in Messages /\ state'[m] = "Pending" /\ \A k \in recipients'[m] : rstate'[m][k] = "Pending"
<1>1. Enqueued
  BY Writers DEF Created
<1>2. PICK o \in Options, ps \in SUBSET Phones : Enqueue(o, ps)
  BY <1>1 DEF Enqueued
<1>3. m = last + 1 /\ m \in Messages
  BY <1>2 DEF Enqueue, TypeOK, Created, Messages
<1>. QED  BY <1>2, <1>3 DEF Enqueue, TypeOK

-----------------------------------------------------------------------------
(* Delivered is the SC's word.                                             *)

TruthInv ==
  /\ \A m \in Messages, k \in Phones : rstate[m][k] = "Delivered" =>
       options[m].wantsReport /\ (NoWrap => <<"Delivered", m, k>> \in verdicts)
  /\ NoWrap /\ pc \in InPass \cup {"resolve"} =>
       \A k \in recipients[cur] : seen[k] = "Delivered" => <<"Delivered", cur, k>> \in verdicts
  /\ NoWrap =>
       \A m \in Created : state[m] = "Delivered" =>
         \A k \in recipients[m] : <<"Delivered", m, k>> \in verdicts

LEMMA TruthInit == Init => TruthInv
BY DEF Init, TruthInv, AllAbsent, Absent, InPass, Created

\* While references do not wrap, a report finds the recipient it is about.
LEMMA ReportFindsItsOwn ==
  ASSUME TypeOK, RefInv, NoWrap, NEW x \in air, NEW m \in Messages, NEW k \in Phones,
         refId[m][k] = x.ref
  PROVE  m = x.msg /\ k = x.phone
<1>1. x.msg \in Messages /\ x.phone \in Phones /\ x.ref \in Refs
  BY Basics DEF TypeOK
<1>2. Marked(m, k, x.ref) /\ Marked(x.msg, x.phone, x.ref)
  BY DEF Marked
<1>. QED  BY <1>1, <1>2 DEF RefInv

LEMMA TruthStep ==
  TypeOK /\ FreshInv /\ FaultInv /\ RefInv /\ TruthInv /\ [Next]_vars => TruthInv'
<1>. SUFFICES ASSUME TypeOK, FreshInv, FaultInv, RefInv, TruthInv, [Next]_vars
              PROVE  TruthInv'
  OBVIOUS
<1>0. /\ NoWrap' => NoWrap
      /\ verdicts \subseteq verdicts'
      /\ \A m \in Created : m \in Created' /\ recipients'[m] = recipients[m] /\ options'[m] = options[m]
  BY NoWrapBefore, HistoryGrows, RecipientsKept DEF RefInv
<1>1. ASSUME NEW m \in Messages, NEW k \in Phones, rstate'[m][k] = "Delivered"
      PROVE  options'[m].wantsReport /\ (NoWrap' => <<"Delivered", m, k>> \in verdicts')
  <2>1. CASE rstate[m][k] = "Delivered"
    <3>1. m \in Created
      BY <2>1 DEF FreshInv, Absent
    <3>. QED  BY <1>0, <2>1, <3>1 DEF TruthInv
  <2>2. CASE rstate[m][k] # "Delivered"
    <3>1. pc = "idle" /\ pc' = "reload" /\ m \in Created
      BY <1>1, <2>2, RowSteps DEF RowStep, Absent
    <3>2. Reporting
      BY <3>1, WorkerSteps
      DEF Dequeue, Pass, Report, Reporting, Load, BeginRecipient, Send, SendConfirmed,
          SendUnconfirmed, SendRefused, RecordSent, RecordFailed, EmitOutcome, Settle,
          ReloadReported, ResolveReported, WorkerTo
    <3>3. PICK x \in air, fate \in Fates, again \in BOOLEAN : \E phone \in {NoPhone, x.phone} :
            TakeReport(x, fate, phone, again)
      BY <3>2 DEF Reporting
    <3>4. PICK phone \in {NoPhone, x.phone} : TakeReport(x, fate, phone, again)
      BY <3>3
    <3>5. /\ fate \in FinalFates
          /\ \E row \in ReportCandidates(x.ref, phone) :
               /\ row[1] \in Messages /\ row[2] \in Phones
               /\ refId[row[1]][row[2]] = x.ref /\ options[row[1]].wantsReport
               /\ rstate'[row[1]][row[2]] = fate /\ RowChange(row[1], row[2])
      BY <1>1, <2>2, <3>4, ReportFacts
    <3>6. fate = "Delivered" /\ refId[m][k] = x.ref /\ options[m].wantsReport
      BY <1>1, <2>2, <3>5 DEF RowChange
    <3>7. <<fate, x.msg, x.phone>> \in verdicts'
      BY <3>4, <3>5 DEF TakeReport
    <3>. QED  BY <1>0, <3>1, <3>6, <3>7, ReportFindsItsOwn
  <2>. QED  BY <2>1, <2>2
<1>2. ASSUME NoWrap', pc' \in InPass \cup {"resolve"},
             NEW k \in recipients'[cur'], seen'[k] = "Delivered"
      PROVE  <<"Delivered", cur', k>> \in verdicts'
  <2>1. cur' = cur /\ cur \in Created /\ cur \in Messages
    <3>1. cur' \in Messages /\ recipients' \in [Messages -> SUBSET Phones]
      <4>1. TypeOK'
        BY TypeStep
      <4>2. pc' \notin {"idle", "drain"}
        BY <1>2 DEF InPass
      <4>. QED  BY <4>1, <4>2 DEF TypeOK, Created, Messages
    <3>. QED  BY <1>2, <3>1, SeenSteps DEF SeenStep
  <2>2. k \in recipients[cur] /\ k \in Phones
    BY <1>0, <2>1, Basics
  <2>. QED  BY <1>0, <1>2, <2>1, <2>2, SeenSteps DEF SeenStep, TruthInv
<1>3. ASSUME NoWrap', NEW m \in Created', state'[m] = "Delivered", NEW k \in recipients'[m]
      PROVE  <<"Delivered", m, k>> \in verdicts'
  <2>1. m \in Created /\ m \in Messages /\ k \in recipients[m]
    BY <1>0, <1>3, NewRow, Basics
  <2>2. state[m] = "Delivered" \/ (cur = m /\ pc \in {"next", "resolve"} /\ seen[k] = "Delivered")
    <3>1. m # last + 1
      BY <2>1 DEF Created, TypeOK
    <3>2. ResolveFinalState({seen[j] : j \in recipients[m]}) = "Delivered" => seen[k] = "Delivered"
      BY <2>1 DEF ResolveFinalState
    <3>. QED  BY <1>3, <2>1, <3>1, <3>2, StateSteps DEF StateStep
  <2>. QED  BY <1>0, <1>3, <2>1, <2>2 DEF TruthInv, InPass
<1>. QED  BY <1>1, <1>2, <1>3 DEF TruthInv

-----------------------------------------------------------------------------
(* The pass, and what must have been submitted.                            *)

LEMMA Recorded ==
  ASSUME TypeOK, RecordSent \/ RecordFailed
  PROVE  /\ Held(cur, hand.phone) /\ pc' = "emit" /\ UNCHANGED <<cur, todo, hand, air, history, faults>>
         /\ hand.phone \in Phones /\ cur \in Messages /\ cur \in Created
         /\ rstate'[cur][hand.phone] = IF pc = "accepted" THEN "Sent" ELSE "Failed"
         /\ seen'[hand.phone] = rstate'[cur][hand.phone]
         /\ \A j \in Phones \ {hand.phone} : seen'[j] = seen[j]
         /\ RowChange(cur, hand.phone)
<1>1. /\ pc \in {"accepted", "refused"} /\ pc' = "emit"
      /\ UNCHANGED <<cur, todo, hand, air, history, faults>>
  BY DEF RecordSent, RecordFailed, network
<1>2. hand.phone \in Phones /\ cur \in Messages /\ cur \in Created
  BY <1>1, Basics
<1>3. /\ rstate \in [Messages -> [Phones -> States \cup {Absent}]]
      /\ seen \in [Phones -> States \cup {Absent}]
  BY DEF TypeOK
<1>4. /\ rstate'[cur][hand.phone] = IF pc = "accepted" THEN "Sent" ELSE "Failed"
      /\ UNCHANGED rstate \/ RowChange(cur, hand.phone)
      /\ seen' = [seen EXCEPT ![hand.phone] = IF pc = "accepted" THEN "Sent" ELSE "Failed"]
  BY <1>2, <1>3, RowFacts DEF RecordSent, RecordFailed
<1>. QED  BY <1>1, <1>2, <1>3, <1>4 DEF Held, RowChange

\* BeginRecipient takes one recipient of the pass into the hand.
LEMMA Begun ==
  ASSUME TypeOK, BeginRecipient
  PROVE  /\ pc = "next" /\ pc' = "send" /\ UNCHANGED <<cur, seen>>
         /\ hand'.phone \in todo /\ todo' = todo \ {hand'.phone}
<1>1. PICK k \in todo : /\ pc = "next" /\ pc' = "send" /\ todo' = todo \ {k}
                        /\ hand' = [NothingInHand EXCEPT !.phone = k] /\ UNCHANGED <<cur, seen>>
  BY DEF BeginRecipient, First
<1>2. hand'.phone = k
  BY <1>1 DEF NothingInHand
<1>. QED  BY <1>1, <1>2

InFlight(k) == pc \in {"send", "accepted", "refused"} /\ hand.phone = k

\* Recipients the pass has handled are settled, in its eyes and in the table.
PassInv ==
  pc \in InPass =>
    \A k \in recipients[cur] \ todo :
      InFlight(k) \/ (seen[k] \notin Claimable /\ rstate[cur][k] \notin Claimable)

\* How the worker gets from one point of a pass to the next.
LEMMA PassSteps ==
  ASSUME [Next]_vars, pc' \in InPass
  PROVE  UNCHANGED <<pc, cur, todo, seen, hand>> \/ Load \/ BeginRecipient \/ Send
         \/ RecordSent \/ RecordFailed \/ EmitOutcome
<1>1. Dequeue \/ Settle \/ ReloadReported \/ ResolveReported \/ WorkerTo("idle") => pc' \notin InPass
  BY DEF Dequeue, Settle, ReloadReported, ResolveReported, WorkerTo, InPass
<1>2. Reporting =>
        UNCHANGED <<pc, cur, todo, seen, hand>> \/ pc' \notin InPass
  BY DEF Reporting, TakeReport, SetRecipientByRef, InPass
<1>. QED  BY <1>1, <1>2, WorkerSteps DEF Pass, Report, Reporting

LEMMA Sending ==
  ASSUME TypeOK, Send
  PROVE  /\ pc = "send" /\ pc' \in {"accepted", "refused"} /\ UNCHANGED <<cur, todo, seen>>
         /\ hand'.phone = hand.phone /\ hand.phone \in Phones /\ cur \in Messages /\ cur \in Created
         /\ UNCHANGED <<db, events, verdicts, faults>>
BY Basics DEF Send, SendConfirmed, SendUnconfirmed, SendRefused, TypeOK, history

LEMMA PassInit == Init => PassInv
BY DEF Init, PassInv, InPass

LEMMA PassStep == TypeOK /\ TodoInv /\ PassInv /\ [Next]_vars => PassInv'
<1>. SUFFICES ASSUME TypeOK, TodoInv, PassInv, [Next]_vars, pc' \in InPass,
                     NEW k \in recipients'[cur'] \ todo', ~InFlight(k)'
              PROVE  seen'[k] \notin Claimable /\ rstate'[cur'][k] \notin Claimable
  BY DEF PassInv
<1>0. TypeOK' /\ cur' = cur /\ cur \in Created /\ cur \in Messages
  <2>1. TypeOK'
    BY TypeStep
  <2>2. k \in Phones
    <3>1. pc' \notin {"idle", "drain"}
      BY DEF InPass
    <3>. QED  BY <2>1, <3>1 DEF TypeOK, Created, Messages
  <2>. QED  BY <2>1, <2>2, SeenSteps DEF SeenStep
<1>1. k \in recipients[cur] /\ k \in Phones
  BY <1>0, RecipientsKept, Basics
<1>2. rstate'[cur][k] \in Claimable => rstate[cur][k] \in Claimable
  BY <1>0, <1>1, ProcessableBefore DEF Processable
<1>3. CASE UNCHANGED <<pc, cur, todo, seen, hand>>
  BY <1>0, <1>1, <1>2, <1>3 DEF PassInv, InFlight
<1>4. CASE Load
  BY <1>0, <1>1, <1>2, <1>4 DEF Load, Processable
<1>5. CASE BeginRecipient
  <2>1. k # hand'.phone /\ k \notin todo /\ ~InFlight(k)
    BY <1>5, Begun DEF InFlight
  <2>. QED  BY <1>0, <1>1, <1>2, <1>5, <2>1, Begun DEF PassInv, InPass
<1>6. CASE Send
  BY <1>0, <1>1, <1>2, <1>6, Sending DEF PassInv, InPass, InFlight
<1>7. CASE RecordSent \/ RecordFailed
  <2>1. CASE k = hand.phone
    BY <1>0, <1>7, <2>1, Recorded DEF Claimable
  <2>2. CASE k # hand.phone
    <3>1. ~InFlight(k) /\ k \notin todo /\ pc \in InPass
      BY <1>7, <2>2, Recorded DEF InFlight, Held, InPass
    <3>. QED  BY <1>0, <1>1, <1>2, <1>7, <2>2, <3>1, Recorded DEF PassInv
  <2>. QED  BY <2>1, <2>2
<1>8. CASE EmitOutcome
  BY <1>0, <1>1, <1>2, <1>8 DEF EmitOutcome, PassInv, InPass, InFlight
<1>. QED  BY <1>3, <1>4, <1>5, <1>6, <1>7, <1>8, PassSteps

\* The rows of the recipients the pass has not handled yet: Cancel alone may
\* have changed them.
ReadyInv ==
  /\ pc \in InPass => \A k \in todo : rstate[cur][k] \in Claimable \cup {"Cancelled"}
  /\ pc \in {"send", "accepted", "refused"} =>
       rstate[cur][hand.phone] \in {"Processed", "Cancelled"}

LEMMA ReadyInit == Init => ReadyInv
BY DEF Init, ReadyInv, InPass

LEMMA ReadyStep == TypeOK /\ TodoInv /\ ReadyInv /\ [Next]_vars => ReadyInv'
<1>. SUFFICES ASSUME TypeOK, TodoInv, ReadyInv, [Next]_vars  PROVE ReadyInv'
  OBVIOUS
<1>0. /\ Created \subseteq Messages /\ todo \subseteq Phones
      /\ pc \notin {"idle", "drain"} => cur \in Created /\ cur \in Messages /\ cur # last + 1
      /\ pc \in {"send", "accepted", "refused", "emit"} => hand.phone \in Phones
  BY Basics DEF Created, TypeOK
<1>1. ASSUME pc' \in InPass, NEW k \in todo'
      PROVE  rstate'[cur'][k] \in Claimable \cup {"Cancelled"}
  <2>1. CASE pc = "load" /\ Load
    BY <2>1 DEF Load, db, Processable
  <2>2. CASE pc \in InPass /\ cur' = cur /\ k \in todo
    <3>1. k \in Phones /\ cur \in Messages /\ ~Held(cur, k) /\ ~Dequeue /\ rstate[cur][k] # "Sent"
      BY <1>0, <2>2 DEF Held, TodoInv, InPass, Dequeue, ReadyInv, Claimable
    <3>. QED  BY <1>0, <2>2, <3>1, RowSteps DEF RowStep, ReadyInv, Claimable, InPass
  <2>. QED
    BY <1>1, <2>1, <2>2, PassSteps, Begun, Sending, Recorded DEF Load, EmitOutcome, Held, InPass
<1>2. ASSUME pc' \in {"send", "accepted", "refused"}
      PROVE  rstate'[cur'][hand'.phone] \in {"Processed", "Cancelled"}
  <2>1. CASE BeginRecipient
    <3>1. PICK k \in todo : /\ pc = "next" /\ cur' = cur
                            /\ hand' = [NothingInHand EXCEPT !.phone = k]
                            /\ IF rstate[cur][k] = "Pending" THEN SetRecipient(cur, k, "Processed")
                                                             ELSE UNCHANGED rstate
      BY <2>1 DEF BeginRecipient, First
    <3>2. hand'.phone = k /\ k \in Phones /\ cur \in Messages
      BY <1>0, <3>1 DEF NothingInHand
    <3>3. rstate[cur][k] \in Claimable \cup {"Cancelled"}
      BY <3>1 DEF ReadyInv, InPass
    <3>. QED  BY <3>1, <3>2, <3>3, RowFacts DEF TypeOK, Claimable
  <2>2. CASE pc \in {"send", "accepted", "refused"} /\ cur' = cur /\ hand'.phone = hand.phone
    <3>1. ~Dequeue /\ rstate[cur][hand.phone] # "Sent"
      BY <2>2 DEF Dequeue, ReadyInv
    <3>. QED  BY <1>0, <1>2, <2>2, <3>1, RowSteps DEF RowStep, ReadyInv
  <2>3. ~Load /\ ~RecordSent /\ ~RecordFailed /\ ~EmitOutcome
    BY <1>2 DEF Load, RecordSent, RecordFailed, EmitOutcome
  <2>. QED  BY <1>2, <2>1, <2>2, <2>3, PassSteps, Sending DEF InPass
<1>. QED  BY <1>1, <1>2 DEF ReadyInv

-----------------------------------------------------------------------------
(* What shows that the modem took an SMS.                                  *)

\* The events a step adds: those of a finished Cancel, the outcome in hand,
\* or the recipient a report marked.
LEMMA EventSteps ==
  ASSUME [Next]_vars, NEW s, NEW m, NEW k, <<s, m, k>> \in events' \ events
  PROVE  \/ s = "Cancelled" /\ UNCHANGED <<rstate, verdicts>>
         \/ EmitOutcome /\ cur = m /\ hand.phone = k /\ s = seen[k]
         \/ /\ ReloadReported /\ cur = m /\ s = hand.to
            /\ k \in recipients[m] /\ refId[m][k] = hand.ref /\ rstate[m][k] = s
<1>1. ASSUME NEW n \in Messages, CancelAnnounce(n)
      PROVE  s = "Cancelled" /\ UNCHANGED <<rstate, verdicts>>
  BY <1>1 DEF CancelAnnounce, db
<1>2. CASE EmitOutcome
  BY <1>2 DEF EmitOutcome
<1>3. CASE ReloadReported
  BY <1>3 DEF ReloadReported, First
<1>4. CASE UNCHANGED events
  BY <1>4
<1>5. \/ UNCHANGED events \/ EmitOutcome \/ ReloadReported
      \/ \E n \in Messages : CancelAnnounce(n)
  BY DEF Next, Api, Pass, Send, Report, Time, Enqueue, CancelCommit, Dequeue,
         Load, BeginRecipient, SendConfirmed, SendUnconfirmed, SendRefused, RecordSent,
         RecordFailed, Settle, TakeReport, ResolveReported,
         ScheduleReached, ValidityLapses, WorkerFault, Crash, vars, history
<1>. QED  BY <1>1, <1>2, <1>3, <1>4, <1>5

SubmittedInv ==
  /\ \A m \in Messages, k \in Phones :
       /\ submits[m][k] > 0 => m \in Created /\ k \in recipients[m]
       /\ rstate[m][k] \in {"Sent", "Delivered"} => submits[m][k] > 0
       /\ <<"Sent", m, k>> \in events => submits[m][k] > 0
       /\ \A f \in FinalFates : <<f, m, k>> \in verdicts => submits[m][k] > 0
  /\ pc = "accepted" => submits[cur][hand.phone] > 0
  /\ pc \in InPass \cup {"resolve"} =>
       \A k \in recipients[cur] : seen[k] \in {"Sent", "Delivered"} => submits[cur][k] > 0
  /\ \A x \in air : submits[x.msg][x.phone] > 0 /\ options[x.msg].wantsReport

LEMMA SubmitsGrow ==
  ASSUME TypeOK, [Next]_vars, NEW m \in Messages, NEW k \in Phones
  PROVE  /\ submits[m][k] > 0 => submits'[m][k] > 0
         /\ submits'[m][k] # submits[m][k] => Accepted /\ cur = m /\ hand.phone = k
<1>1. submits[m][k] \in Nat
  BY DEF TypeOK
<1>. QED  BY <1>1, AcceptedFacts, Writers

LEMMA SubmittedInit == Init => SubmittedInv
BY DEF Init, SubmittedInv, AllAbsent, Absent, InPass

LEMMA SubmittedStep ==
  TypeOK /\ FreshInv /\ TodoInv /\ SubmittedInv /\ [Next]_vars => SubmittedInv'
<1>. SUFFICES ASSUME TypeOK, FreshInv, TodoInv, SubmittedInv, [Next]_vars
              PROVE  SubmittedInv'
  OBVIOUS
<1>0. /\ TypeOK' /\ Created \subseteq Messages
      /\ \A m \in Created : m \in Created' /\ recipients'[m] = recipients[m] /\ options'[m] = options[m]
      /\ pc \in {"send", "accepted", "refused", "emit"} => hand.phone \in Phones
      /\ pc \notin {"idle", "drain"} => cur \in Created /\ cur \in Messages
      /\ \A m \in Messages : recipients[m] \subseteq Phones
  BY TypeStep, RecipientsKept, Basics
<1>1. ASSUME NEW m \in Messages, NEW k \in Phones
      PROVE  /\ submits'[m][k] > 0 => m \in Created' /\ k \in recipients'[m]
             /\ rstate'[m][k] \in {"Sent", "Delivered"} => submits'[m][k] > 0
             /\ <<"Sent", m, k>> \in events' => submits'[m][k] > 0
             /\ \A f \in FinalFates : <<f, m, k>> \in verdicts' => submits'[m][k] > 0
  <2>1. submits'[m][k] > 0 => m \in Created' /\ k \in recipients'[m]
    <3>1. CASE submits'[m][k] = submits[m][k]
      BY <1>0, <3>1 DEF SubmittedInv
    <3>2. CASE submits'[m][k] # submits[m][k]
      <4>1. Accepted /\ cur = m /\ hand.phone = k
        BY <3>2, SubmitsGrow
      <4>2. pc = "send" /\ m \in Created
        BY <4>1, AcceptedFacts
      <4>. QED  BY <1>0, <4>1, <4>2 DEF TodoInv, InPass
    <3>. QED  BY <3>1, <3>2
  <2>2. rstate'[m][k] \in {"Sent", "Delivered"} => submits'[m][k] > 0
    <3>. SUFFICES ASSUME rstate'[m][k] \in {"Sent", "Delivered"}  PROVE submits[m][k] > 0
      BY SubmitsGrow
    <3>1. rstate[m][k] \in {"Sent", "Delivered"} \/ (Held(m, k) /\ pc = "accepted")
      BY RowSteps DEF RowStep, Absent
    <3>. QED  BY <3>1 DEF SubmittedInv, Held
  <2>3. <<"Sent", m, k>> \in events' => submits'[m][k] > 0
    <3>1. CASE <<"Sent", m, k>> \in events
      BY <3>1, SubmitsGrow DEF SubmittedInv
    <3>2. CASE EmitOutcome /\ cur = m /\ hand.phone = k /\ "Sent" = seen[k]
      <4>1. pc = "emit" /\ k \in recipients[cur]
        BY <3>2 DEF EmitOutcome, TodoInv, InPass
      <4>2. submits[m][k] > 0
        BY <3>2, <4>1 DEF SubmittedInv, InPass
      <4>. QED  BY <4>2, SubmitsGrow
    <3>3. CASE rstate[m][k] = "Sent"
      BY <3>3, SubmitsGrow DEF SubmittedInv
    <3>. QED  BY <3>1, <3>2, <3>3, EventSteps
  <2>4. ASSUME NEW f \in FinalFates, <<f, m, k>> \in verdicts'
        PROVE  submits'[m][k] > 0
    <3>1. CASE <<f, m, k>> \in verdicts
      BY <3>1, SubmitsGrow DEF SubmittedInv
    <3>2. CASE \E x \in air : x.msg = m /\ x.phone = k
      BY <3>2, SubmitsGrow DEF SubmittedInv
    <3>3. Reporting => <<f, m, k>> \in verdicts \/ \E x \in air : x.msg = m /\ x.phone = k
      BY <2>4 DEF Reporting, TakeReport
    <3>. QED  BY <2>4, <3>1, <3>2, <3>3, Writers
  <2>. QED  BY <2>1, <2>2, <2>3, <2>4
<1>2. ASSUME pc' = "accepted"
      PROVE  submits'[cur'][hand'.phone] > 0
  <2>1. CASE UNCHANGED <<pc, cur, todo, seen, hand>>
    BY <1>0, <1>2, <2>1, SubmitsGrow DEF SubmittedInv
  <2>2. CASE SendConfirmed
    <3>1. Accepted
      BY <2>2 DEF Accepted
    <3>2. /\ cur' = cur /\ hand'.phone = hand.phone /\ cur \in Messages /\ hand.phone \in Phones
          /\ submits'[cur][hand.phone] = submits[cur][hand.phone] + 1
      BY <3>1, AcceptedFacts
    <3>. QED  BY <3>2 DEF TypeOK
  <2>3. ~Load /\ ~BeginRecipient /\ ~SendUnconfirmed /\ ~SendRefused /\ ~RecordSent /\ ~RecordFailed
        /\ ~EmitOutcome
    BY <1>2 DEF Load, BeginRecipient, SendUnconfirmed, SendRefused, RecordSent, RecordFailed,
                EmitOutcome
  <2>. QED  BY <1>2, <2>1, <2>2, <2>3, PassSteps DEF Send, InPass
<1>3. ASSUME pc' \in InPass \cup {"resolve"}, NEW k \in recipients'[cur'],
             seen'[k] \in {"Sent", "Delivered"}
      PROVE  submits'[cur'][k] > 0
  <2>1. k \in Phones
    <3>1. pc' \notin {"idle", "drain"}
      BY <1>3 DEF InPass
    <3>. QED  BY <1>0, <3>1 DEF TypeOK, Created, Messages
  <2>2. SeenStep(k)
    BY <1>3, <2>1, SeenSteps
  <2>3. cur' = cur /\ cur \in Created /\ k \in recipients[cur]
    BY <1>0, <2>2 DEF SeenStep
  <2>4. submits[cur][k] > 0
    BY <1>0, <1>3, <2>1, <2>2, <2>3 DEF SeenStep, SubmittedInv, Held
  <2>. QED  BY <1>0, <2>1, <2>3, <2>4, SubmitsGrow
<1>4. ASSUME NEW x \in air'
      PROVE  submits'[x.msg][x.phone] > 0 /\ options'[x.msg].wantsReport
  <2>1. ASSUME NEW y \in air, x.msg = y.msg, x.phone = y.phone
        PROVE  submits'[x.msg][x.phone] > 0 /\ options'[x.msg].wantsReport
    <3>1. y.msg \in Created /\ y.msg \in Messages /\ y.phone \in Phones
      BY <1>0 DEF TypeOK
    <3>. QED  BY <1>0, <2>1, <3>1, SubmitsGrow DEF SubmittedInv
  <2>2. CASE Accepted /\ x \notin air
    <3>1. /\ x = [msg |-> cur, phone |-> hand.phone, ref |-> nextRef, fate |-> "Open"]
          /\ options[cur].wantsReport
      BY <2>2 DEF Accepted, SendConfirmed, SendUnconfirmed, Accept
    <3>2. x.msg = cur /\ x.phone = hand.phone
      BY <3>1
    <3>3. cur \in Messages /\ cur \in Created /\ hand.phone \in Phones
          /\ submits'[cur][hand.phone] = submits[cur][hand.phone] + 1
      BY <2>2, AcceptedFacts
    <3>. QED  BY <1>0, <3>1, <3>2, <3>3 DEF TypeOK
  <2>3. CASE Reporting /\ x \notin air
    <3>1. PICK y \in air : \E fate \in Fates : x = [y EXCEPT !.fate = fate]
      BY <2>3 DEF Reporting, TakeReport, Reported
    <3>2. y \in [msg: Created, phone: Phones, ref: Refs, fate: FinalFates \cup {"Open"}]
      BY DEF TypeOK
    <3>3. x.msg = y.msg /\ x.phone = y.phone
      BY <3>1, <3>2
    <3>. QED  BY <2>1, <3>3
  <2>. QED  BY <2>1, <2>2, <2>3, Writers
<1>. QED  BY <1>1, <1>2, <1>3, <1>4 DEF SubmittedInv

-----------------------------------------------------------------------------
(* What the worker is about to announce.                                   *)

EmitInv ==
  /\ pc = "emit" /\ seen[hand.phone] = "Sent" => rstate[cur][hand.phone] # "Failed"
  /\ pc = "reload" => hand.to \in FinalFates /\ hand.ref \in Refs

LEMMA EmitInit == Init => EmitInv
BY DEF Init, EmitInv

LEMMA EmitStep == TypeOK /\ EmitInv /\ [Next]_vars => EmitInv'
<1>. SUFFICES ASSUME TypeOK, EmitInv, [Next]_vars  PROVE EmitInv'
  OBVIOUS
<1>0. /\ pc \in {"send", "accepted", "refused", "emit"} => hand.phone \in Phones
      /\ pc \notin {"idle", "drain"} => cur \in Created /\ cur \in Messages
  BY Basics
<1>1. ASSUME pc' = "emit", seen'[hand'.phone] = "Sent"
      PROVE  rstate'[cur'][hand'.phone] # "Failed"
  <2>1. CASE UNCHANGED <<pc, cur, todo, seen, hand>>
    <3>1. cur # last + 1 /\ ~Dequeue /\ ~Held(cur, hand.phone)
      BY <1>0, <1>1, <2>1 DEF Created, TypeOK, Dequeue, Held
    <3>. QED  BY <1>0, <1>1, <2>1, <3>1, RowSteps DEF RowStep, EmitInv
  <2>2. CASE RecordSent \/ RecordFailed
    BY <1>1, <2>2, Recorded
  <2>3. ~Load /\ ~BeginRecipient /\ ~Send /\ ~EmitOutcome
    BY <1>1 DEF Load, BeginRecipient, Send, SendConfirmed, SendUnconfirmed, SendRefused, EmitOutcome
  <2>. QED  BY <1>1, <2>1, <2>2, <2>3, PassSteps DEF InPass
<1>2. ASSUME pc' = "reload"
      PROVE  hand'.to \in FinalFates /\ hand'.ref \in Refs
  <2>1. CASE UNCHANGED <<pc, cur, todo, seen, hand>>
    BY <1>2, <2>1 DEF EmitInv
  <2>2. CASE Reporting /\ pc # "reload"
    <3>1. PICK x \in air, fate \in Fates, again \in BOOLEAN : \E phone \in {NoPhone, x.phone} :
            TakeReport(x, fate, phone, again)
      BY <2>2 DEF Reporting
    <3>2. x.ref \in Refs
      BY DEF TypeOK
    <3>. QED  BY <1>2, <2>2, <3>1, <3>2, ReportFacts
  <2>3. pc # "reload" \/ ~Reporting
    BY DEF Reporting, TakeReport
  <2>4. ~Dequeue /\ ~Pass /\ ~ReloadReported /\ ~ResolveReported /\ ~WorkerTo("idle")
    BY <1>2 DEF Dequeue, Pass, Load, BeginRecipient, Send, SendConfirmed, SendUnconfirmed,
                SendRefused, RecordSent, RecordFailed, EmitOutcome, Settle, ReloadReported,
                ResolveReported, WorkerTo
  <2>. QED  BY <2>1, <2>2, <2>3, <2>4, WorkerSteps DEF Report, Reporting
<1>. QED  BY <1>1, <1>2 DEF EmitInv

-----------------------------------------------------------------------------
(* Without faults a message is handed over once and for all.               *)

Passing(m)   == cur = m /\ pc \in InPass
HandedOver(m) == \E k \in Phones : submits[m][k] > 0

OnceInv ==
  faults = 0 =>
    /\ \A m \in Created : HandedOver(m) /\ ~Passing(m) =>
         state[m] \notin Claimable /\ \A k \in recipients[m] : rstate[m][k] \notin Claimable
    /\ pc \in {"reload", "resolve"} => HandedOver(cur)
    /\ pc = "resolve" => \A k \in recipients[cur] : seen[k] \notin Claimable
    /\ \A m \in Messages, k \in Phones : Held(m, k) =>
         /\ <<"Sent", m, k>> \notin events
         /\ \A f \in FinalFates : <<f, m, k>> \notin verdicts

LEMMA OnceInit == Init => OnceInv
BY DEF Init, OnceInv, Created, Held

\* Nothing is submitted twice.
LEMMA SubmittedFirst ==
  ASSUME TypeOK, FaultInv, faults = 0, Send
  PROVE  submits[cur][hand.phone] = 0
<1>1. Tokens = {}
  <2>1. IsFiniteSet(Tokens) /\ Cardinality(Tokens) \in Nat /\ Cardinality(Tokens) = 0
    BY FS_CardinalityType DEF FaultInv
  <2>. QED  BY <2>1, FS_EmptySet
<1>2. pc = "send" /\ hand.phone \in Phones /\ cur \in Messages
  BY Sending
<1>3. submits[cur][hand.phone] > 0 => <<cur, hand.phone, 1>> \in Tokens
  <2>1. submits[cur][hand.phone] > 0 => Risky(cur, hand.phone)
    BY <1>2 DEF Risky, Held, Waiting, InPass
  <2>. QED  BY <1>2, <2>1 DEF Tokens
<1>. QED  BY <1>1, <1>2, <1>3 DEF TypeOK

LEMMA FaultsBefore ==
  ASSUME TypeOK, [Next]_vars, faults' = 0
  PROVE  faults = 0 /\ ~WorkerFault /\ ~Crash
BY Writers DEF TypeOK, WorkerFault, Crash

LEMMA OnceStep ==
  TypeOK /\ FreshInv /\ FaultInv /\ TodoInv /\ PassInv /\ SubmittedInv /\ OnceInv /\ [Next]_vars
    => OnceInv'
<1>. SUFFICES ASSUME TypeOK, FreshInv, FaultInv, TodoInv, PassInv, SubmittedInv, OnceInv,
                     [Next]_vars, faults' = 0
              PROVE  /\ \A m \in Created' : HandedOver(m)' /\ ~Passing(m)' =>
                          /\ state'[m] \notin Claimable
                          /\ \A k \in recipients'[m] : rstate'[m][k] \notin Claimable
                     /\ pc' \in {"reload", "resolve"} => HandedOver(cur)'
                     /\ pc' = "resolve" => \A k \in recipients'[cur'] : seen'[k] \notin Claimable
                     /\ \A m \in Messages, k \in Phones : Held(m, k)' =>
                          /\ <<"Sent", m, k>> \notin events'
                          /\ \A f \in FinalFates : <<f, m, k>> \notin verdicts'
  BY DEF OnceInv
<1>0. /\ faults = 0 /\ ~WorkerFault /\ ~Crash
      /\ TypeOK' /\ Created \subseteq Messages
      /\ \A m \in Created : m \in Created' /\ recipients'[m] = recipients[m]
      /\ pc \in {"send", "accepted", "refused", "emit"} => hand.phone \in Phones
      /\ pc \notin {"idle", "drain"} => cur \in Created /\ cur \in Messages
      /\ \A m \in Messages : recipients[m] \subseteq Phones
  BY TypeStep, RecipientsKept, Basics, FaultsBefore
<1>1. ASSUME NEW m \in Created', HandedOver(m)', ~Passing(m)'
      PROVE  /\ state'[m] \notin Claimable
             /\ \A k \in recipients'[m] : rstate'[m][k] \notin Claimable
  <2>1. m \in Messages /\ HandedOver(m)
    <3>1. m \in Messages
      BY <1>0 DEF TypeOK, Created, Messages
    <3>2. PICK k \in Phones : submits'[m][k] > 0
      BY <1>1 DEF HandedOver
    <3>3. submits'[m][k] = submits[m][k]
      <4>. SUFFICES ASSUME submits'[m][k] # submits[m][k]  PROVE FALSE
        OBVIOUS
      <4>1. Accepted /\ cur = m
        BY <3>1, SubmitsGrow
      <4>2. Send
        BY <4>1 DEF Accepted, Send
      <4>. QED  BY <1>1, <4>1, <4>2, Sending DEF Passing, InPass
    <3>. QED  BY <3>1, <3>2, <3>3 DEF HandedOver
  <2>2. m \in Created
    BY <2>1 DEF FreshInv, HandedOver
  <2>3. /\ m # last + 1
        /\ \A k \in recipients[m] : rstate'[m][k] \in Claimable => rstate[m][k] \in Claimable
    BY <1>0, <2>2, ProcessableBefore DEF Processable, Created, TypeOK
  <2>4. CASE Passing(m)
    <3>1. pc = "next" /\ todo = {} /\ Settle
      <4>1. pc # pc' \/ cur # cur'
        BY <1>1, <2>4 DEF Passing
      <4>2. ~Dequeue /\ ~Load /\ ~Report
        BY <2>4 DEF Passing, InPass, Dequeue, Load, Report, TakeReport, ReloadReported, ResolveReported
      <4>3. ~BeginRecipient /\ ~Send /\ ~RecordSent /\ ~RecordFailed /\ ~EmitOutcome
        BY <1>1, <2>4, Begun, Sending, Recorded DEF Passing, InPass, EmitOutcome
      <4>. QED  BY <1>0, <4>1, <4>2, <4>3, WorkerSteps DEF Pass, Settle
    <3>2. \A k \in recipients[m] : seen[k] \notin Claimable /\ rstate[m][k] \notin Claimable
      BY <2>4, <3>1 DEF Passing, PassInv, InFlight, InPass
    <3>3. ResolveFinalState({seen[k] : k \in recipients[m]}) \notin Claimable
      BY <3>2 DEF ResolveFinalState, Claimable
    <3>4. state'[m] = ResolveFinalState({seen[k] : k \in recipients[m]})
      BY <2>1, <2>4, <3>1 DEF Settle, SetState, Passing, TypeOK
    <3>. QED  BY <1>0, <2>2, <2>3, <3>2, <3>3, <3>4
  <2>5. CASE ~Passing(m)
    <3>1. state[m] \notin Claimable /\ \A k \in recipients[m] : rstate[m][k] \notin Claimable
      BY <1>0, <2>1, <2>2, <2>5 DEF OnceInv
    <3>2. pc = "resolve" /\ cur = m => ResolveFinalState({seen[k] : k \in recipients[m]}) \notin Claimable
      BY <1>0 DEF OnceInv, ResolveFinalState, Claimable
    <3>3. state'[m] \notin Claimable
      BY <2>1, <2>3, <2>5, <3>1, <3>2, StateSteps DEF StateStep, Claimable, Passing, InPass
    <3>. QED  BY <1>0, <2>2, <2>3, <3>1, <3>3
  <2>. QED  BY <2>4, <2>5
<1>2. ASSUME pc' \in {"reload", "resolve"}
      PROVE  HandedOver(cur)'
  <2>1. CASE pc \in {"reload", "resolve"} /\ cur' = cur
    BY <1>0, <2>1, SubmitsGrow DEF OnceInv, HandedOver
  <2>2. CASE Reporting /\ pc' = "reload"
    <3>1. PICK x \in air, fate \in Fates, again \in BOOLEAN : \E phone \in {NoPhone, x.phone} :
            TakeReport(x, fate, phone, again)
      BY <2>2 DEF Reporting
    <3>2. pc = "idle"
      BY <3>1 DEF TakeReport
    <3>3. \E m \in Messages, k \in Phones : cur' = m /\ rstate[m][k] = "Sent"
      BY <2>2, <3>1, <3>2, ReportFacts
    <3>. QED  BY <3>3, SubmitsGrow DEF SubmittedInv, HandedOver
  <2>3. ~Dequeue /\ ~Pass /\ ~ResolveReported
    BY <1>2 DEF Dequeue, Pass, Load, BeginRecipient, Send, SendConfirmed, SendUnconfirmed,
                SendRefused, RecordSent, RecordFailed, EmitOutcome, Settle,
                ResolveReported, WorkerTo
  <2>4. ReloadReported => pc = "reload" /\ cur' = cur
    BY DEF ReloadReported
  <2>5. Reporting => pc = "idle" /\ pc' \in {"idle", "reload"}
    BY DEF Reporting, TakeReport, SetRecipientByRef
  <2>. QED  BY <1>0, <1>2, <2>1, <2>2, <2>3, <2>4, <2>5, WorkerSteps DEF Report, Reporting
<1>3. ASSUME pc' = "resolve", NEW k \in recipients'[cur']
      PROVE  seen'[k] \notin Claimable
  <2>1. k \in Phones
    <3>1. pc' \notin {"idle", "drain"}
      BY <1>3
    <3>. QED  BY <1>0, <3>1 DEF TypeOK, Created, Messages
  <2>2. cur' = cur /\ cur \in Created /\ k \in recipients[cur]
    BY <1>0, <1>3, <2>1, SeenSteps DEF SeenStep
  <2>3. CASE UNCHANGED <<pc, cur, todo, seen, hand>>
    BY <1>0, <1>3, <2>2, <2>3 DEF OnceInv
  <2>4. CASE ReloadReported
    <3>1. pc = "reload" /\ seen' = rstate[cur]
      BY <2>4 DEF ReloadReported
    <3>2. HandedOver(cur) /\ ~Passing(cur)
      BY <1>0, <3>1 DEF OnceInv, Passing, InPass
    <3>. QED  BY <1>0, <2>2, <3>1, <3>2 DEF OnceInv
  <2>5. ~Dequeue /\ ~Pass /\ ~ResolveReported
    BY <1>3 DEF Dequeue, Pass, Load, BeginRecipient, Send, SendConfirmed, SendUnconfirmed,
                SendRefused, RecordSent, RecordFailed, EmitOutcome, Settle,
                ResolveReported, WorkerTo
  <2>6. ~Reporting \/ UNCHANGED <<pc, cur, todo, seen, hand>>
    BY <1>3 DEF Reporting, TakeReport, SetRecipientByRef
  <2>. QED  BY <1>0, <2>3, <2>4, <2>5, <2>6, WorkerSteps DEF Report, Reporting
<1>4. ASSUME NEW m \in Messages, NEW k \in Phones, Held(m, k)'
      PROVE  /\ <<"Sent", m, k>> \notin events'
             /\ \A f \in FinalFates : <<f, m, k>> \notin verdicts'
  <2>1. pc' \in InPass /\ ~EmitOutcome /\ ~ReloadReported
    BY <1>4 DEF Held, EmitOutcome, ReloadReported, InPass
  <2>2. CASE Held(m, k)
    <3>1. ~Reporting
      BY <2>2 DEF Held, Reporting, TakeReport
    <3>2. UNCHANGED verdicts /\ (<<"Sent", m, k>> \in events' => <<"Sent", m, k>> \in events)
      BY <2>1, <3>1, Writers, EventSteps
    <3>. QED  BY <1>0, <2>2, <3>2 DEF OnceInv
  <2>3. CASE Send
    <3>1. submits[m][k] = 0
      BY <1>0, <1>4, <2>3, SubmittedFirst, Sending DEF Held
    <3>2. UNCHANGED <<events, verdicts>>
      BY <2>3, Sending
    <3>. QED  BY <3>1, <3>2 DEF SubmittedInv
  <2>4. ~Load /\ ~BeginRecipient /\ ~RecordSent /\ ~RecordFailed
    BY <1>4, Begun, Recorded DEF Held, Load
  <2>. QED  BY <1>4, <2>1, <2>2, <2>3, <2>4, PassSteps DEF Held
<1>. QED  BY <1>1, <1>2, <1>3, <1>4

-----------------------------------------------------------------------------
(* Without faults, what is still in the air finds its row.                 *)

Known(m, k, r) ==
  /\ Held(m, k) /\ pc = "accepted" => hand.ref = r
  /\ \/ Held(m, k)
     \/ rstate[m][k] = "Sent" /\ refId[m][k] = r
     \/ rstate[m][k] \in {"Delivered", "Cancelled", "Failed"}

AirInv ==
  faults = 0 /\ NoWrap =>
    \A x \in air :
      /\ Known(x.msg, x.phone, x.ref)
      /\ \A y \in air : y.msg = x.msg /\ y.phone = x.phone => y = x
      /\ \A f \in FinalFates : <<f, x.msg, x.phone>> \in verdicts => x.fate = f

LEMMA AirInit == Init => AirInv
BY DEF Init, AirInv

LEMMA KnownStep ==
  ASSUME TypeOK, ReadyInv, [Next]_vars, faults' = 0, ~Send,
         NEW m \in Created, NEW k \in Phones, NEW r, Known(m, k, r)
  PROVE  Known(m, k, r)'
<1>0. m \in Messages /\ m # last + 1 /\ faults = 0
  BY Basics, FaultsBefore DEF Created, TypeOK
<1>1. CASE Held(m, k)
  <2>1. CASE Held(m, k)' /\ UNCHANGED <<pc, cur, hand, todo>>
    BY <1>1, <2>1 DEF Known
  <2>2. CASE RecordSent
    <3>1. /\ pc = "accepted" /\ hand.ref = r /\ cur = m /\ hand.phone = k
          /\ rstate[m][k] # "Sent"
      BY <1>1, <2>2 DEF RecordSent, Held, Known, ReadyInv
    <3>2. refId' = [refId EXCEPT ![m][k] = r]
      BY <2>2, <3>1 DEF RecordSent
    <3>3. refId'[m][k] = r
      BY <1>0, <3>2 DEF TypeOK
    <3>4. rstate'[m][k] = "Sent" /\ pc' = "emit"
      BY <2>2, <3>1, Recorded
    <3>. QED  BY <3>3, <3>4 DEF Known, Held
  <2>3. CASE RecordFailed
    <3>1. pc = "refused" /\ cur = m /\ hand.phone = k
      BY <1>1, <2>3 DEF RecordFailed, Held
    <3>. QED  BY <2>3, <3>1, Recorded DEF Known, Held
  <2>. QED  BY <1>0, <1>1, <2>1, <2>2, <2>3, HeldAfter
<1>2. CASE ~Held(m, k)
  <2>1. ~Held(m, k)'
    <3>. SUFFICES ASSUME Held(m, k)'  PROVE FALSE
      OBVIOUS
    <3>1. pc' \in InPass /\ pc' \in {"accepted", "refused"}
      BY DEF Held, InPass
    <3>2. ~Load /\ ~BeginRecipient /\ ~RecordSent /\ ~RecordFailed /\ ~EmitOutcome
      BY <3>1, Begun, Recorded DEF Load, EmitOutcome
    <3>3. UNCHANGED <<pc, cur, todo, seen, hand>>
      BY <3>1, <3>2, PassSteps
    <3>. QED  BY <1>2, <3>3 DEF Held
  <2>2. refId'[m][k] = refId[m][k]
    <3>1. CASE RecordSent
      <4>1. Held(cur, hand.phone) /\ cur \in Messages /\ hand.phone \in Phones
        BY <3>1, Recorded
      <4>2. cur # m \/ hand.phone # k
        BY <1>2, <4>1
      <4>3. UNCHANGED refId \/ refId' = [refId EXCEPT ![cur][hand.phone] = hand.ref]
        BY <3>1 DEF RecordSent
      <4>. QED  BY <1>0, <4>1, <4>2, <4>3 DEF TypeOK
    <3>. QED  BY <3>1, Writers
  <2>3. RowStep(m, k)
    BY <1>0, RowSteps
  <2>. QED  BY <1>0, <1>2, <2>1, <2>2, <2>3 DEF RowStep, Known
<1>. QED  BY <1>1, <1>2

LEMMA AirStep ==
  /\ TypeOK /\ FaultInv /\ RefInv /\ ReadyInv /\ SubmittedInv /\ AirInv
  /\ [Next]_vars
  => AirInv'
<1>. SUFFICES ASSUME TypeOK, FaultInv, RefInv, ReadyInv, SubmittedInv, AirInv, [Next]_vars,
                     faults' = 0, NoWrap', NEW x \in air'
              PROVE  /\ Known(x.msg, x.phone, x.ref)'
                     /\ \A y \in air' : y.msg = x.msg /\ y.phone = x.phone => y = x
                     /\ \A f \in FinalFates : <<f, x.msg, x.phone>> \in verdicts' => x.fate = f
  BY DEF AirInv
<1>0. /\ faults = 0 /\ NoWrap /\ Created \subseteq Messages
      /\ \A y \in air : /\ y \in [msg: Created, phone: Phones, ref: Refs, fate: FinalFates \cup {"Open"}]
                        /\ Known(y.msg, y.phone, y.ref)
                        /\ \A z \in air : z.msg = y.msg /\ z.phone = y.phone => z = y
                        /\ \A f \in FinalFates : <<f, y.msg, y.phone>> \in verdicts => y.fate = f
  BY FaultsBefore, NoWrapBefore, Basics DEF RefInv, AirInv, TypeOK
<1>1. CASE Send
  <2>1. /\ pc = "send" /\ cur \in Messages /\ hand.phone \in Phones /\ UNCHANGED <<cur, verdicts, refId, rstate>>
        /\ hand'.phone = hand.phone /\ submits[cur][hand.phone] = 0
    BY <1>0, <1>1, Sending, SubmittedFirst DEF db
  <2>2. \A y \in air : ~(y.msg = cur /\ y.phone = hand.phone)
    BY <2>1 DEF SubmittedInv
  <2>3. ASSUME NEW f \in FinalFates  PROVE <<f, cur, hand.phone>> \notin verdicts
    <3>1. <<f, cur, hand.phone>> \in verdicts => submits[cur][hand.phone] > 0
      BY <2>1 DEF SubmittedInv
    <3>. QED  BY <2>1, <3>1
  <2>4. air' \subseteq air \cup {[msg |-> cur, phone |-> hand.phone, ref |-> nextRef, fate |-> "Open"]}
    BY <1>1 DEF Send, SendConfirmed, SendUnconfirmed, SendRefused, Accept, network
  <2>5. ASSUME NEW y \in air
        PROVE  Known(y.msg, y.phone, y.ref)'
    <3>1. ~Held(y.msg, y.phone) /\ ~Held(y.msg, y.phone)'
      BY <2>1, <2>2 DEF Held
    <3>. QED  BY <1>0, <2>1, <3>1 DEF Known
  <2>6. CASE x \in air
    <3>1. \A y \in air' \ air : y.msg = cur /\ y.phone = hand.phone
      BY <2>4
    <3>. QED  BY <1>0, <2>1, <2>2, <2>5, <2>6, <3>1
  <2>7. CASE x \notin air
    <3>1. x = [msg |-> cur, phone |-> hand.phone, ref |-> nextRef, fate |-> "Open"]
      BY <2>4, <2>7
    <3>2. x.msg = cur /\ x.phone = hand.phone /\ x.ref = nextRef
      BY <3>1
    <3>3. pc' = "accepted" => hand'.ref = nextRef
      BY <1>1 DEF Send, SendConfirmed, SendUnconfirmed, SendRefused, TypeOK
    <3>4. Held(cur, hand.phone)'
      BY <1>1, <2>1, Sending DEF Held
    <3>5. Known(x.msg, x.phone, x.ref)'
      BY <2>1, <3>2, <3>3, <3>4 DEF Known, Held
    <3>. QED  BY <2>1, <2>2, <2>3, <2>4, <3>1, <3>2, <3>5
  <2>. QED  BY <2>6, <2>7
<1>2. CASE ~Send /\ Reporting
  <2>1. PICK z \in air, fate \in Fates, again \in BOOLEAN : \E phone \in {NoPhone, z.phone} :
          TakeReport(z, fate, phone, again)
    BY <1>2 DEF Reporting
  <2>2. /\ z.fate \in {"Open", fate}
        /\ air' = (air \ {z}) \cup Reported(z, fate, again)
        /\ verdicts' = IF fate \in FinalFates THEN verdicts \cup {<<fate, z.msg, z.phone>>}
                                             ELSE verdicts
    BY <2>1 DEF TakeReport
  <2>3. ASSUME NEW y \in Reported(z, fate, again)
        PROVE  /\ y.msg = z.msg /\ y.phone = z.phone /\ y.ref = z.ref
               /\ fate \in FinalFates => y.fate = fate
               /\ fate \notin FinalFates => y = z
    <3>1. z \in [msg: Created, phone: Phones, ref: Refs, fate: FinalFates \cup {"Open"}]
      BY <1>0
    <3>2. y = IF fate \in FinalFates THEN [z EXCEPT !.fate = fate] ELSE z
      BY DEF Reported
    <3>. QED  BY <3>1, <3>2
  <2>4. \A y \in Reported(z, fate, again), w \in Reported(z, fate, again) : y = w
    BY DEF Reported
  <2>5. PICK y \in air : /\ x.msg = y.msg /\ x.phone = y.phone /\ x.ref = y.ref
                         /\ x \in air \ {z} => y = x
                         /\ x \notin air \ {z} => y = z
    BY <2>2, <2>3
  <2>6. Known(x.msg, x.phone, x.ref)'
    BY <1>0, <1>2, <2>5, KnownStep
  <2>7. ASSUME NEW w \in air', w.msg = x.msg, w.phone = x.phone
        PROVE  w = x
    <3>1. x \in air \ {z} /\ w \in air \ {z} => w = x
      BY <1>0, <2>7
    <3>2. x \in air \ {z} => ~(x.msg = z.msg /\ x.phone = z.phone)
      BY <1>0
    <3>3. w \in air \ {z} => ~(w.msg = z.msg /\ w.phone = z.phone)
      BY <1>0
    <3>. QED  BY <2>2, <2>3, <2>4, <2>7, <3>1, <3>2, <3>3
  <2>8. ASSUME NEW f \in FinalFates, <<f, x.msg, x.phone>> \in verdicts'
        PROVE  x.fate = f
    <3>1. CASE x \in air \ {z}
      <4>1. ~(x.msg = z.msg /\ x.phone = z.phone)
        BY <1>0, <3>1
      <4>2. <<f, x.msg, x.phone>> \in verdicts
        BY <2>2, <2>8, <4>1
      <4>. QED  BY <1>0, <3>1, <4>2
    <3>2. CASE x \notin air \ {z}
      <4>1. x \in Reported(z, fate, again) /\ x.msg = z.msg /\ x.phone = z.phone
        BY <2>2, <2>3, <3>2
      <4>2. <<f, z.msg, z.phone>> \in verdicts => z.fate = f
        BY <1>0
      <4>3. "Open" \notin FinalFates
        BY DEF FinalFates
      <4>. QED  BY <2>2, <2>3, <2>8, <4>1, <4>2, <4>3
    <3>. QED  BY <3>1, <3>2
  <2>. QED  BY <2>6, <2>7, <2>8
<1>3. CASE ~Send /\ ~Reporting
  <2>1. UNCHANGED <<air, verdicts>>
    BY <1>3, Writers DEF Accepted, Send
  <2>. QED  BY <1>0, <1>3, <2>1, KnownStep
<1>. QED  BY <1>1, <1>2, <1>3

-----------------------------------------------------------------------------
(* Without faults, the SC's word decides.                                  *)

WordInv ==
  faults = 0 /\ NoWrap =>
    \A m \in Messages, k \in Phones :
      /\ rstate[m][k] = "Failed" /\ <<"Sent", m, k>> \in events =>
           <<"Failed", m, k>> \in verdicts
      /\ <<"Delivered", m, k>> \in verdicts =>
           \/ rstate[m][k] \in {"Delivered", "Cancelled"}
           \/ <<"Sent", m, k>> \notin events /\ rstate[m][k] = "Failed"

LEMMA WordInit == Init => WordInv
BY DEF Init, WordInv, AllAbsent, Absent

\* A row the worker announced as Sent is not Failed yet.
LEMMA SentAnnounced ==
  ASSUME TypeOK, EmitInv, [Next]_vars, NEW m \in Messages, NEW k \in Phones,
         <<"Sent", m, k>> \in events' \ events
  PROVE  rstate[m][k] # "Failed" /\ UNCHANGED <<rstate, verdicts>>
<1>1. EmitOutcome => pc = "emit" /\ UNCHANGED <<rstate, verdicts>>
  BY DEF EmitOutcome, db
<1>. QED  BY <1>1, EventSteps DEF EmitInv, ReloadReported, FinalFates

\* An SMS handed over does not expire.
LEMMA NoExpiry ==
  ASSUME TypeOK, SubmittedInv, OnceInv, faults = 0, Dequeue,
         NEW m \in Messages, NEW k \in Phones, submits[m][k] > 0
  PROVE  m \notin Expiring
<1>1. m \in Created /\ HandedOver(m) /\ ~Passing(m)
  BY DEF SubmittedInv, HandedOver, Passing, Dequeue, InPass
<1>. QED  BY <1>1 DEF OnceInv, Expiring

LEMMA WordStep ==
  /\ TypeOK /\ FreshInv /\ FaultInv /\ RefInv /\ SubmittedInv /\ EmitInv /\ OnceInv /\ AirInv /\ WordInv
  /\ [Next]_vars
  => WordInv'
<1>. SUFFICES ASSUME TypeOK, FreshInv, FaultInv, RefInv, SubmittedInv, EmitInv, OnceInv, AirInv,
                     WordInv, [Next]_vars, faults' = 0, NoWrap',
                     NEW m \in Messages, NEW k \in Phones
              PROVE  /\ rstate'[m][k] = "Failed" /\ <<"Sent", m, k>> \in events' =>
                          <<"Failed", m, k>> \in verdicts'
                     /\ <<"Delivered", m, k>> \in verdicts' =>
                          \/ rstate'[m][k] \in {"Delivered", "Cancelled"}
                          \/ <<"Sent", m, k>> \notin events' /\ rstate'[m][k] = "Failed"
  BY DEF WordInv
<1>0. faults = 0 /\ NoWrap /\ Created \subseteq Messages /\ verdicts \subseteq verdicts'
  BY FaultsBefore, NoWrapBefore, Basics, HistoryGrows DEF RefInv
<1>a. /\ rstate[m][k] = "Failed" /\ <<"Sent", m, k>> \in events => <<"Failed", m, k>> \in verdicts
      /\ <<"Delivered", m, k>> \in verdicts =>
           \/ rstate[m][k] \in {"Delivered", "Cancelled"}
           \/ <<"Sent", m, k>> \notin events /\ rstate[m][k] = "Failed"
      /\ Held(m, k) => <<"Sent", m, k>> \notin events /\ <<"Delivered", m, k>> \notin verdicts
  BY <1>0 DEF WordInv, OnceInv, FinalFates
<1>b. RowStep(m, k)
  BY RowSteps
\* Steps that take no report.
<1>1. CASE ~Reporting
  <2>1. UNCHANGED verdicts
    BY <1>1, Writers
  <2>2. CASE <<"Sent", m, k>> \in events' \ events
    BY <1>a, <2>1, <2>2, SentAnnounced
  <2>3. CASE ~(<<"Sent", m, k>> \in events' \ events)
    <3>1. <<"Sent", m, k>> \in events' => <<"Sent", m, k>> \in events /\ submits[m][k] > 0
      BY <2>3 DEF SubmittedInv
    <3>2. <<"Delivered", m, k>> \in verdicts => submits[m][k] > 0 /\ m \in Created
      BY DEF SubmittedInv, FinalFates
    <3>3. submits[m][k] > 0 => ~(Dequeue /\ m \in Expiring) /\ m # last + 1
      <4>1. submits[m][k] > 0 => m \in Created
        BY DEF SubmittedInv
      <4>2. m \in Created => m # last + 1
        BY DEF Created, TypeOK
      <4>. QED  BY <1>0, <4>1, <4>2, NoExpiry
    <3>4. ~(pc = "idle" /\ pc' = "reload")
      <4>. SUFFICES ASSUME pc = "idle", pc' = "reload"  PROVE FALSE
        OBVIOUS
      <4>. QED  BY <1>1, WorkerSteps
        DEF Dequeue, Pass, Report, Reporting, Load, BeginRecipient, Send, SendConfirmed,
            SendUnconfirmed, SendRefused, RecordSent, RecordFailed, EmitOutcome, Settle,
            ReloadReported, ResolveReported, WorkerTo
    <3>5. submits[m][k] > 0 /\ rstate'[m][k] # rstate[m][k] =>
            \/ /\ rstate'[m][k] \in {"Cancelled", "Processed"}
               /\ rstate[m][k] # "Failed"
               /\ rstate'[m][k] = "Processed" => rstate[m][k] = "Pending"
            \/ Held(m, k)
      BY <1>b, <3>3, <3>4 DEF RowStep
    <3>. QED  BY <1>a, <2>1, <3>1, <3>2, <3>5
  <2>. QED  BY <2>2, <2>3
\* Steps that do: the report is about this recipient, or leaves it alone.
<1>2. CASE Reporting
  <2>1. PICK x \in air, fate \in Fates, again \in BOOLEAN : \E phone \in {NoPhone, x.phone} :
          TakeReport(x, fate, phone, again)
    BY <1>2 DEF Reporting
  <2>2. PICK phone \in {NoPhone, x.phone} : TakeReport(x, fate, phone, again)
    BY <2>1
  <2>3. /\ pc = "idle" /\ UNCHANGED events /\ x.fate \in {"Open", fate}
        /\ verdicts' = IF fate \in FinalFates THEN verdicts \cup {<<fate, x.msg, x.phone>>}
                                             ELSE verdicts
    BY <2>2 DEF TakeReport
  <2>4. /\ x \in [msg: Created, phone: Phones, ref: Refs, fate: FinalFates \cup {"Open"}]
        /\ x.msg \in Created /\ x.msg \in Messages /\ x.phone \in Phones /\ x.ref \in Refs
        /\ Known(x.msg, x.phone, x.ref) /\ ~Held(x.msg, x.phone)
        /\ \A f \in FinalFates : <<f, x.msg, x.phone>> \in verdicts => x.fate = f
        /\ submits[x.msg][x.phone] > 0 /\ options[x.msg].wantsReport
        /\ x.phone \in recipients[x.msg]
    BY <1>0, <2>3 DEF AirInv, TypeOK, Held, SubmittedInv
  <2>5. rstate'[m][k] = rstate[m][k]
        \/ (m = x.msg /\ k = x.phone /\ fate \in FinalFates /\ rstate'[m][k] = fate
            /\ rstate[m][k] = "Sent")
    <3>1. CASE UNCHANGED rstate
      BY <3>1
    <3>2. CASE \E row \in ReportCandidates(x.ref, phone) :
                 /\ row[1] \in Messages /\ row[2] \in Phones /\ fate \in FinalFates
                 /\ rstate[row[1]][row[2]] = "Sent" /\ refId[row[1]][row[2]] = x.ref
                 /\ rstate'[row[1]][row[2]] = fate /\ RowChange(row[1], row[2])
      <4>1. PICK row \in ReportCandidates(x.ref, phone) :
                 /\ row[1] \in Messages /\ row[2] \in Phones /\ fate \in FinalFates
                 /\ rstate[row[1]][row[2]] = "Sent" /\ refId[row[1]][row[2]] = x.ref
                 /\ rstate'[row[1]][row[2]] = fate /\ RowChange(row[1], row[2])
        BY <3>2
      <4>2. row[1] = x.msg /\ row[2] = x.phone
        BY <1>0, <4>1, ReportFindsItsOwn
      <4>. QED  BY <4>1, <4>2 DEF RowChange
    <3>. QED  BY <2>2, <3>1, <3>2, ReportFacts
  <2>6. ASSUME rstate'[m][k] = "Failed", <<"Sent", m, k>> \in events'
        PROVE  <<"Failed", m, k>> \in verdicts'
    BY <1>0, <1>a, <2>3, <2>5, <2>6
  <2>7. ASSUME <<"Delivered", m, k>> \in verdicts'
        PROVE  \/ rstate'[m][k] \in {"Delivered", "Cancelled"}
               \/ <<"Sent", m, k>> \notin events' /\ rstate'[m][k] = "Failed"
    <3>1. CASE <<"Delivered", m, k>> \in verdicts
      BY <1>a, <2>3, <2>5, <3>1
    <3>2. CASE <<"Delivered", m, k>> \notin verdicts
      <4>1. fate = "Delivered" /\ m = x.msg /\ k = x.phone
        BY <2>3, <2>7, <3>2
      <4>2. CASE rstate[m][k] = "Failed"
        <5>1. x.fate # "Failed" /\ <<"Failed", m, k>> \notin verdicts
          BY <2>3, <2>4, <4>1 DEF FinalFates
        <5>. QED  BY <1>a, <2>3, <2>5, <4>2, <5>1
      <4>3. CASE rstate[m][k] \in {"Delivered", "Cancelled"}
        BY <2>5, <4>3
      <4>4. CASE rstate[m][k] = "Sent" /\ refId[m][k] = x.ref
        <5>1. <<m, k>> \in ReportCandidates(x.ref, phone)
          BY <2>4, <4>1, <4>4 DEF ReportCandidates
        <5>2. fate \in FinalFates
          BY <4>1 DEF FinalFates
        <5>3. PICK row \in ReportCandidates(x.ref, phone) :
                 /\ row[1] \in Messages /\ row[2] \in Phones
                 /\ refId[row[1]][row[2]] = x.ref
                 /\ rstate'[row[1]][row[2]] = fate
          BY <2>2, <5>1, <5>2, ReportFacts
        <5>. QED  BY <1>0, <4>1, <5>3, ReportFindsItsOwn
      <4>. QED  BY <2>4, <4>1, <4>2, <4>3, <4>4 DEF Known
    <3>. QED  BY <3>1, <3>2
  <2>. QED  BY <2>6, <2>7
<1>. QED  BY <1>1, <1>2

-----------------------------------------------------------------------------
(* Without faults, every outcome is announced, or about to be.             *)

Announced(m, k) ==
  \/ rstate[m][k] \in Claimable
  \/ <<rstate[m][k], m, k>> \in events
  \/ rstate[m][k] = "Failed" /\ m \in lapsed
  \/ rstate[m][k] = "Cancelled" /\ m \in cancelling

AboutToAnnounce(m, k) ==
  \/ pc = "emit" /\ cur = m /\ hand.phone = k /\ seen[k] = rstate[m][k]
  \/ pc = "reload" /\ cur = m /\ refId[m][k] = hand.ref /\ rstate[m][k] = hand.to

AnnounceInv ==
  faults = 0 /\ NoWrap =>
    \A m \in Created : \A k \in recipients[m] : Announced(m, k) \/ AboutToAnnounce(m, k)

LEMMA AnnounceInit == Init => AnnounceInv
BY DEF Init, AnnounceInv, Created

\* A cancellation is pending until its Cancel announces it.
LEMMA CancellingSteps ==
  ASSUME [Next]_vars, ~Crash, NEW m \in cancelling
  PROVE  m \in cancelling' \/ CancelAnnounce(m)
<1>1. ASSUME NEW n \in Messages, CancelAnnounce(n)
      PROVE  m \in cancelling' \/ CancelAnnounce(m)
  BY <1>1 DEF CancelAnnounce
<1>2. (\E n \in Messages : CancelAnnounce(n)) \/ cancelling \subseteq cancelling'
  BY DEF Next, Api, Pass, Send, Report, Time, Enqueue, CancelCommit, Dequeue,
         Load, BeginRecipient, SendConfirmed, SendUnconfirmed, SendRefused, RecordSent,
         RecordFailed, EmitOutcome, Settle, TakeReport, ReloadReported, ResolveReported,
         ScheduleReached, ValidityLapses, WorkerFault, vars
<1>. QED  BY <1>1, <1>2

LEMMA LapsedSteps ==
  ASSUME [Next]_vars
  PROVE  lapsed \subseteq lapsed'
BY DEF Next, Api, Pass, Send, Report, Time, Enqueue, CancelCommit, CancelAnnounce, Dequeue,
       Load, BeginRecipient, SendConfirmed, SendUnconfirmed, SendRefused, RecordSent,
       RecordFailed, EmitOutcome, Settle, TakeReport, ReloadReported, ResolveReported,
       ScheduleReached, ValidityLapses, WorkerFault, Crash, vars, clock

\* An announcement that is due stays due until it is made.
LEMMA AboutSteps ==
  ASSUME TypeOK, RefInv, EmitInv, NoWrap, [Next]_vars, faults' = 0,
         NEW m \in Created, NEW k \in recipients[m],
         AboutToAnnounce(m, k), rstate'[m][k] = rstate[m][k]
  PROVE  Announced(m, k)' \/ AboutToAnnounce(m, k)'
<1>0. /\ m \in Messages /\ k \in Phones /\ k \in Nat
      /\ ~WorkerFault /\ ~Crash
  BY Basics, FaultsBefore
<1>1. CASE pc = "emit" /\ cur = m /\ hand.phone = k /\ seen[k] = rstate[m][k]
  <2>1. CASE EmitOutcome
    <3>1. <<rstate[m][k], m, k>> \in events'
      BY <1>1, <2>1 DEF EmitOutcome
    <3>. QED  BY <3>1 DEF Announced
  <2>2. CASE UNCHANGED <<pc, cur, todo, seen, hand>>
    BY <1>1, <2>2 DEF AboutToAnnounce
  <2>3. ~Dequeue /\ ~Load /\ ~BeginRecipient /\ ~Send /\ ~RecordSent /\ ~RecordFailed
        /\ ~Settle /\ ~Report
    BY <1>1 DEF Dequeue, Load, BeginRecipient, Send, SendConfirmed, SendUnconfirmed, SendRefused,
                RecordSent, RecordFailed, Settle, Report, TakeReport, ReloadReported, ResolveReported
  <2>. QED  BY <1>0, <2>1, <2>2, <2>3, WorkerSteps DEF Pass
<1>2. CASE pc = "reload" /\ cur = m /\ refId[m][k] = hand.ref /\ rstate[m][k] = hand.to
  <2>1. CASE ReloadReported
    <3>. DEFINE hits == {j \in recipients[m] : refId[m][j] = hand.ref /\ rstate[m][j] = hand.to}
    <3>1. \A j \in hits : j = k
      <4>. SUFFICES ASSUME NEW j \in hits  PROVE j = k
        OBVIOUS
      <4>1. j \in Phones /\ hand.ref \in Refs /\ refId[m][j] = hand.ref
        BY <1>0, <1>2, Basics DEF EmitInv
      <4>2. Marked(m, k, hand.ref) /\ Marked(m, j, hand.ref)
        BY <1>2, <4>1 DEF Marked
      <4>. QED  BY <1>0, <4>1, <4>2 DEF RefInv
    <3>2. k \in First(hits)
      BY <1>0, <1>2, <3>1 DEF First
    <3>3. events' = events \cup {<<hand.to, m, j>> : j \in First(hits)}
      BY <1>2, <2>1 DEF ReloadReported
    <3>4. <<rstate[m][k], m, k>> \in events'
      BY <1>2, <3>2, <3>3
    <3>. QED  BY <3>4 DEF Announced
  <2>2. CASE UNCHANGED <<pc, cur, todo, seen, hand>>
    <3>1. UNCHANGED refId
      BY <1>2, Writers DEF RecordSent
    <3>. QED  BY <1>2, <2>2, <3>1 DEF AboutToAnnounce
  <2>3. ~Dequeue /\ ~Pass /\ ~Reporting /\ ~ResolveReported
    BY <1>2 DEF Dequeue, Pass, Load, BeginRecipient, Send, SendConfirmed, SendUnconfirmed,
                SendRefused, RecordSent, RecordFailed, EmitOutcome, Settle, Reporting, TakeReport,
                ResolveReported
  <2>. QED  BY <1>0, <2>1, <2>2, <2>3, WorkerSteps DEF Report, Reporting
<1>. QED  BY <1>1, <1>2 DEF AboutToAnnounce

LEMMA AnnounceStep ==
  TypeOK /\ FaultInv /\ RefInv /\ EmitInv /\ AnnounceInv /\ [Next]_vars => AnnounceInv'
<1>. SUFFICES ASSUME TypeOK, FaultInv, RefInv, EmitInv, AnnounceInv, [Next]_vars,
                     faults' = 0, NoWrap', NEW m \in Created', NEW k \in recipients'[m]
              PROVE  Announced(m, k)' \/ AboutToAnnounce(m, k)'
  BY DEF AnnounceInv
<1>0. /\ faults = 0 /\ NoWrap /\ ~Crash /\ ~WorkerFault
      /\ events \subseteq events' /\ lapsed \subseteq lapsed'
  BY FaultsBefore, NoWrapBefore, HistoryGrows, LapsedSteps DEF RefInv
<1>1. CASE m \notin Created
  BY <1>1, NewRow DEF Announced, Claimable
<1>2. CASE m \in Created
  <2>1. /\ m \in Messages /\ k \in recipients[m] /\ k \in Phones
        /\ m # last + 1 /\ (Announced(m, k) \/ AboutToAnnounce(m, k))
    <3>1. m \in Messages /\ k \in recipients[m] /\ m # last + 1
      BY <1>2, RecipientsKept, Basics DEF Created, TypeOK
    <3>. QED  BY <1>0, <1>2, <3>1, Basics DEF AnnounceInv
  <2>2. CASE rstate'[m][k] = rstate[m][k]
    <3>1. CASE rstate[m][k] = "Cancelled" /\ m \in cancelling
      <4>1. CASE CancelAnnounce(m)
        <5>1. <<"Cancelled", m, k>> \in events'
          BY <2>1, <3>1, <4>1 DEF CancelAnnounce
        <5>. QED  BY <2>2, <3>1, <5>1 DEF Announced
      <4>. QED  BY <1>0, <2>2, <3>1, <4>1, CancellingSteps DEF Announced
    <3>2. CASE \/ rstate[m][k] \in Claimable \/ <<rstate[m][k], m, k>> \in events
               \/ rstate[m][k] = "Failed" /\ m \in lapsed
      BY <1>0, <2>2, <3>2 DEF Announced
    <3>3. CASE AboutToAnnounce(m, k)
      BY <1>0, <1>2, <2>1, <2>2, <3>3, AboutSteps
    <3>. QED  BY <2>1, <3>1, <3>2, <3>3 DEF Announced
  <2>3. CASE rstate'[m][k] # rstate[m][k]
    <3>1. CASE CancelCommit(m) /\ rstate'[m][k] = "Cancelled"
      BY <3>1 DEF CancelCommit, Announced
    <3>2. CASE Dequeue /\ m \in Expiring /\ rstate'[m][k] = "Failed"
      BY <1>0, <3>2 DEF Expiring, Announced
    <3>3. CASE rstate'[m][k] = "Processed"
      BY <3>3 DEF Announced, Claimable
    <3>4. CASE Held(m, k) /\ pc' = "emit"
      <4>1. RecordSent \/ RecordFailed
        BY <1>0, <3>4, HeldAfter DEF Held
      <4>. QED  BY <3>4, <4>1, Recorded DEF Held, AboutToAnnounce
    <3>5. CASE pc = "idle" /\ pc' = "reload"
      <4>1. Reporting
        BY <3>5, WorkerSteps
        DEF Dequeue, Pass, Report, Reporting, Load, BeginRecipient, Send, SendConfirmed,
            SendUnconfirmed, SendRefused, RecordSent, RecordFailed, EmitOutcome, Settle,
            ReloadReported, ResolveReported, WorkerTo
      <4>2. PICK x \in air, fate \in Fates, again \in BOOLEAN : \E phone \in {NoPhone, x.phone} :
              TakeReport(x, fate, phone, again)
        BY <4>1 DEF Reporting
      <4>3. PICK phone \in {NoPhone, x.phone} : TakeReport(x, fate, phone, again)
        BY <4>2
      <4>4. UNCHANGED refId /\ hand'.ref = x.ref /\ hand'.to = fate
        BY <3>5, <4>3, ReportFacts DEF TakeReport
      <4>5. PICK row \in ReportCandidates(x.ref, phone) :
              /\ row[1] \in Messages /\ row[2] \in Phones /\ refId[row[1]][row[2]] = x.ref
              /\ cur' = row[1] /\ rstate'[row[1]][row[2]] = fate /\ RowChange(row[1], row[2])
        BY <3>5, <4>3, ReportFacts
      <4>6. m = row[1] /\ k = row[2]
        BY <2>1, <2>3, <4>5 DEF RowChange
      <4>. QED  BY <3>5, <4>4, <4>5, <4>6 DEF AboutToAnnounce
    <3>. QED  BY <2>1, <2>3, <3>1, <3>2, <3>3, <3>4, <3>5, RowSteps DEF RowStep
  <2>. QED  BY <2>2, <2>3
<1>. QED  BY <1>1, <1>2

-----------------------------------------------------------------------------
(* The whole invariant, and what follows from it.                          *)

FullInv ==
  /\ Inv /\ FreshInv /\ TodoInv /\ FaultInv /\ RefInv
  /\ TruthInv /\ PassInv /\ ReadyInv /\ SubmittedInv /\ EmitInv /\ OnceInv
  /\ AirInv /\ WordInv /\ AnnounceInv

\* The invariant that the theorems below rest on holds in every
\* reachable state.
THEOREM FullInvCorrect == Spec => []FullInv
<1>1. Init => FullInv
  BY InvInit, FreshInit, TodoInit, FaultInit, RefInit, TruthInit, PassInit, ReadyInit,
     SubmittedInit, EmitInit, OnceInit, AirInit, WordInit, AnnounceInit DEF FullInv
<1>2. FullInv /\ [Next]_vars => FullInv'
  BY InvStep, FreshStep, TodoStep, FaultStep, RefStep, TruthStep, PassStep, ReadyStep,
     SubmittedStep, EmitStep, OnceStep, AirStep, WordStep, AnnounceStep DEF FullInv, Inv
<1>. QED  BY <1>1, <1>2, PTL DEF Spec

\* However crashes and failed database calls cut passes short, over all the
\* recipients together they cost at most one duplicate SMS each, and without
\* them no recipient is submitted twice.
THEOREM DuplicatesNeedFaultsCorrect == Spec => []DuplicatesNeedFaults
<1>1. FullInv => DuplicatesNeedFaults
  <2>. SUFFICES ASSUME FullInv  PROVE DuplicatesNeedFaults
    OBVIOUS
  <2>1. IsFiniteSet(Tokens) /\ Cardinality(Tokens) <= faults /\ faults \in Nat
    BY DEF FullInv, FaultInv, Inv, TypeOK
  <2>2. Duplicates \in SUBSET Tokens
    BY DEF Tokens
  <2>3. IsFiniteSet(Duplicates) /\ Cardinality(Duplicates) <= Cardinality(Tokens)
    BY <2>1, <2>2, NoneAdded
  <2>4. Cardinality(Duplicates) \in Nat /\ Cardinality(Tokens) \in Nat
    BY <2>1, <2>3, FS_CardinalityType
  <2>. QED  BY <2>1, <2>3, <2>4 DEF DuplicatesNeedFaults, Duplicates
<1>. QED  BY <1>1, FullInvCorrect, PTL

\* While references do not wrap, Delivered is only ever the SC's word, about
\* that very recipient, and a message's Delivered is its word about each; with
\* wrapping references, only clients who asked for reports can be misled.
THEOREM DeliveredIsTrueCorrect == Spec => []DeliveredIsTrue
<1>1. FullInv => DeliveredIsTrue
  <2>. SUFFICES ASSUME FullInv, NEW m \in Created
                PROVE  /\ NoWrap \/ ~options[m].wantsReport =>
                            \A k \in recipients[m] :
                              rstate[m][k] = "Delivered" => <<"Delivered", m, k>> \in verdicts
                       /\ NoWrap /\ state[m] = "Delivered" =>
                            \A k \in recipients[m] : <<"Delivered", m, k>> \in verdicts
    BY DEF DeliveredIsTrue
  <2>1. m \in Messages /\ recipients[m] \subseteq Phones
    BY Basics DEF FullInv, Inv
  <2>. QED  BY <2>1 DEF FullInv, TruthInv
<1>. QED  BY <1>1, FullInvCorrect, PTL

\* Without faults and while references do not wrap, no delivery report comes
\* too early for its row, and expiry marks no SMS Failed that the modem took.
THEOREM ReportsDecideCorrect == Spec => []ReportsDecide
<1>1. FullInv => ReportsDecide
  <2>. SUFFICES ASSUME FullInv  PROVE ReportNeverMissed /\ FailedIsTrue
    BY DEF ReportsDecide
  <2>1. Created \subseteq Messages /\ \A m \in Messages : recipients[m] \subseteq Phones
    BY Basics DEF FullInv, Inv
  <2>. QED  BY <2>1 DEF FullInv, WordInv, ReportNeverMissed, FailedIsTrue
<1>. QED  BY <1>1, FullInvCorrect, PTL

\* Without faults and while references do not wrap, an idle worker owes no
\* webhook event: each outcome has its event, except that of an expired
\* message and that of a Cancel still running.
THEOREM OutcomesAnnouncedCorrect == Spec => []OutcomesAnnounced
<1>1. FullInv => OutcomesAnnounced
  BY DEF FullInv, AnnounceInv, Announced, AboutToAnnounce, OutcomesAnnounced
<1>. QED  BY <1>1, FullInvCorrect, PTL

\* A cancellation is overwritten by expiry, or by the pass that held that
\* recipient when the Cancel came, and by nothing else.
THEOREM CancelledOverwrittenOnlyInHandCorrect == Spec => CancelledOverwrittenOnlyInHand
<1>1. FullInv /\ [Next]_vars => [CancelledKept]_vars
  BY CancelledKeptStep DEF FullInv, Inv
<1>. QED
  BY <1>1, FullInvCorrect, PTL DEF Spec, CancelledOverwrittenOnlyInHand, CancelledKept

=============================================================================
