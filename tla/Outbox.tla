------------------------------- MODULE Outbox -------------------------------
(***************************************************************************)
(* The outbox of the gateway (internal/messages): the message and          *)
(* recipient rows in SQLite, the API calls that enqueue and cancel, the    *)
(* single worker goroutine that claims, submits and settles messages and   *)
(* applies delivery reports, the modem and the service centre (SC) behind  *)
(* it, and crashes.                                                        *)
(*                                                                         *)
(* One action per database statement or transaction of the code, since the *)
(* API goroutines interleave with the worker exactly there (the database   *)
(* has one connection, so each statement or transaction is atomic).        *)
(*                                                                         *)
(* Abstractions.  Row ids are the autoincrement values: message m is the   *)
(* m-th row, recipient <<m, k>> the row of its k-th phone, and phones are  *)
(* named so that a message lists them in increasing order.  Time is two    *)
(* sets: messages whose schedule_at is still ahead (early) and messages    *)
(* whose valid_until has passed (lapsed).  The state histories are left    *)
(* out: every statement appends to them what it stores.                    *)
(***************************************************************************)
EXTENDS Naturals, FiniteSets

CONSTANTS
  MaxMessages,    \* rows the API may create (bounds the model)
  MaxRecipients,  \* phones a message may address
  RefCount,       \* message references of the modem before they wrap (256)
  MaxFaults,      \* crashes and failed database calls (bounds the model)
  Options,        \* option sets a client may enqueue a message with
  StatusesOf      \* TP-ST octets the SC reports for each fate of an SMS

Messages == 1..MaxMessages
Phones   == 1..MaxRecipients
Refs     == 0..(RefCount - 1)

ASSUME BoundsAssumption ==
  /\ MaxMessages \in Nat /\ MaxRecipients \in Nat /\ MaxFaults \in Nat
  /\ RefCount \in Nat \ {0}

\* wantsReport: with_delivery_report is absent or true.  sendable: the
\* content is a text within the segment cap.  expires, scheduled: valid_until
\* and schedule_at are set (and ahead, or the two say nothing).
ASSUME OptionsAssumption ==
  Options \subseteq [wantsReport: BOOLEAN, sendable: BOOLEAN,
                     expires: BOOLEAN, scheduled: BOOLEAN]

\* What the SC can report of an SMS: two final fates and a temporary error.
FinalFates == {"Delivered", "Failed"}
Fates      == FinalFates \cup {"Retrying"}

\* The SC keeps to the classes of 3GPP TS 23.040 9.2.3.15.
ASSUME StatusesAssumption ==
  /\ StatusesOf \in [Fates -> SUBSET (0..255)]
  /\ StatusesOf["Delivered"] \subseteq 0..31
  /\ StatusesOf["Retrying"] \subseteq 32..63
  /\ StatusesOf["Failed"] \subseteq 64..255

-----------------------------------------------------------------------------
(* States of messages and of recipients, smsgateway.ProcessingState.       *)

States    == {"Pending", "Processed", "Sent", "Delivered", "Failed", "Cancelled"}
Absent    == "Absent"                   \* the row does not exist
Claimable == {"Pending", "Processed"}   \* the worker still has work with it

NoPhone   == 0    \* a report that carries no usable address
NoMessage == 0
NoRef     == RefCount

VARIABLES
  (* the messages and message_recipients tables *)
  last,        \* id of the newest message
  options,     \* options of each message
  recipients,  \* phones of each message
  state,       \* messages.state
  rstate,      \* last entry of each recipient's states
  refId,       \* message_recipients.ref_id
  (* the clock *)
  early,       \* messages whose schedule_at is in the future
  lapsed,      \* messages whose valid_until has passed
  (* the worker goroutine *)
  pc,          \* the statement it is about to run
  cur,         \* the message in its hands
  todo,        \* recipients of the pass not handled yet
  seen,        \* states loaded by GetByID, then the outcomes of the pass
  hand,        \* locals: the recipient in hand, a reference, a report's state
  (* API goroutines *)
  cancelling,  \* messages whose Cancel is committed and not yet announced
  (* the modem and the SC *)
  nextRef,     \* the modem's next message reference
  air,         \* accepted SMS the SC was asked to report on
  (* history, for the properties *)
  submits,     \* how often the modem accepted an SMS for a recipient
  verdicts,    \* final fates the SC has reported: <<fate, m, k>>
  events,      \* webhook events emitted: <<state, m, k>>
  faults       \* crashes and database failures so far

db      == <<last, options, recipients, state, rstate, refId>>
clock   == <<early, lapsed>>
worker  == <<pc, cur, todo, seen, hand>>
network == <<nextRef, air>>
history == <<submits, verdicts, events>>
vars    == <<db, clock, worker, cancelling, network, history, faults>>

Created      == 1..last
AllAbsent    == [k \in Phones |-> Absent]
NothingInHand == [phone |-> NoPhone, ref |-> NoRef, to |-> Absent, was |-> Absent]

\* The least element of a nonempty set of row ids, as a set.
First(S) == {x \in S : \A y \in S : x <= y}

-----------------------------------------------------------------------------
(* Pure decisions of the code.                                             *)

\* (A definition whose name ends in _Bug is a fault the properties must
\* notice; no action uses it.)

\* Recipient.processable.
Processable_Bug(s) == s \in Claimable \cup {"Sent"}
Processable(s) == s \in Claimable

\* resolveFinalState: the message state its recipients' states add up to.
ResolveAnyFailed_Bug(ss) ==
  IF ss \cap {"Pending", "Processed", "Cancelled"} = {} /\ "Failed" \in ss
  THEN "Failed" ELSE "Sent"

ResolveFinalState(ss) ==
  IF    "Pending"   \in ss THEN "Pending"
  ELSE IF "Cancelled" \in ss THEN "Cancelled"
  ELSE IF "Processed" \in ss THEN "Processed"
  ELSE IF ss \subseteq {"Failed"}    THEN "Failed"
  ELSE IF ss \subseteq {"Delivered"} THEN "Delivered"
  ELSE "Sent"

\* deliveryReportState: the recipient state a TP-ST octet asks for; the
\* temporary errors in between are ignored.
ReportStateTemporary_Bug(status) == IF status < 32 THEN "Delivered" ELSE "Failed"

DeliveryReportState(status) ==
  IF    status < 32 THEN "Delivered"
  ELSE IF status < 64 THEN "Ignored"
  ELSE "Failed"

\* The Sent recipients a status report can mean: the reference matches, the
\* message asked for reports, and the phone matches when the report has one.
CandidatesAnyState_Bug(ref, phone) ==
  {x \in Created \X Phones :
     x[2] \in recipients[x[1]] /\ refId[x[1]][x[2]] = ref /\ phone \in {NoPhone, x[2]}}

CandidatesOptedOut_Bug(ref, phone) ==
  {x \in Created \X Phones :
     /\ x[2] \in recipients[x[1]] /\ refId[x[1]][x[2]] = ref
     /\ rstate[x[1]][x[2]] = "Sent" /\ phone \in {NoPhone, x[2]}}

ReportCandidates(ref, phone) ==
  {x \in Created \X Phones :
     /\ x[2] \in recipients[x[1]]
     /\ refId[x[1]][x[2]] = ref
     /\ rstate[x[1]][x[2]] = "Sent"
     /\ options[x[1]].wantsReport
     /\ phone \in {NoPhone, x[2]}}

\* ORDER BY mr.id: recipient rows are numbered in order of creation.
OldestRow(rows) ==
  {x \in rows : \A y \in rows : x[1] < y[1] \/ (x[1] = y[1] /\ x[2] <= y[2])}

\* Cancel's guards: which messages it takes, which of their recipients.
Cancellable_Bug(s) == s # "Cancelled"

Cancellable(s) == s \notin {"Failed", "Cancelled"}

\* SetState: a statement that touches the row unless it already has the state.
SetState(m, s) == state' = [state EXCEPT ![m] = s]

SetRecipient(m, k, s) == rstate' = [rstate EXCEPT ![m][k] = s]

\* The worker drops its locals and goes to p.
WorkerTo(p) ==
  /\ pc' = p /\ cur' = NoMessage /\ todo' = {} /\ seen' = AllAbsent
  /\ hand' = NothingInHand

-----------------------------------------------------------------------------
(* The API: Enqueue and Cancel.                                            *)

\* Service.Enqueue past its validation; Repository.Create is one transaction.
Enqueue(o, ps) ==
  LET m == last + 1 IN
  /\ last < MaxMessages
  /\ last' = m
  /\ options'    = [options EXCEPT ![m] = o]
  /\ recipients' = [recipients EXCEPT ![m] = ps]
  /\ state'      = [state EXCEPT ![m] = "Pending"]
  /\ rstate'     = [rstate EXCEPT ![m] = [k \in Phones |->
                      IF k \in ps THEN "Pending" ELSE Absent]]
  /\ early'      = IF o.scheduled THEN early \cup {m} ELSE early
  /\ UNCHANGED <<refId, lapsed, worker, cancelling, network, history, faults>>

\* Repository.Cancel, its transaction: the message and every recipient that
\* is neither Failed nor Cancelled, or nothing at all (ErrNotPending).
CancelCommit(m) ==
  /\ m \in Created
  /\ Cancellable(state[m])
  /\ state'  = [state EXCEPT ![m] = "Cancelled"]
  /\ rstate' = [rstate EXCEPT ![m] = [k \in Phones |->
                  IF k \in recipients[m] /\ Cancellable(@[k])
                  THEN "Cancelled" ELSE @[k]]]
  /\ cancelling' = cancelling \cup {m}
  /\ UNCHANGED <<last, options, recipients, refId, clock, worker, network,
                 history, faults>>

\* The rest of Service.Cancel: reload the message and announce each recipient
\* that is Cancelled by now.
CancelAnnounce(m) ==
  /\ m \in cancelling
  /\ cancelling' = cancelling \ {m}
  /\ events' = events \cup
       {<<"Cancelled", m, k>> : k \in {j \in recipients[m] : rstate[m][j] = "Cancelled"}}
  /\ UNCHANGED <<db, clock, worker, network, submits, verdicts, faults>>

-----------------------------------------------------------------------------
(* The worker: processPending.                                             *)

\* Messages the transaction of DequeueNextPending expires, and may claim.
Expiring == {m \in Created : state[m] \in Claimable /\ m \in lapsed}

Due_Bug == {m \in Created : state[m] = "Pending" /\ m \notin early}

Due == {m \in Created : state[m] \in Claimable /\ m \notin early}

\* DequeueNextPending's transaction: expire what lapsed, recipients with
\* their message, then claim the oldest due message, if there is one.
\* Nothing due ends the drain.
Dequeue ==
  LET due == Due \ Expiring IN
  /\ pc \in {"idle", "drain"}
  /\ rstate' = [m \in Messages |-> [k \in Phones |->
                  IF m \in Expiring /\ k \in recipients[m] THEN "Failed"
                  ELSE rstate[m][k]]]
  /\ state'  = [m \in Messages |->
                  IF m \in Expiring THEN "Failed"
                  ELSE IF m \in First(due) THEN "Processed"
                  ELSE state[m]]
  /\ \/ due = {} /\ pc' = "idle" /\ cur' = NoMessage
     \/ pc' = "load" /\ cur' \in First(due)
  /\ UNCHANGED <<last, options, recipients, refId, clock, todo, seen, hand,
                 cancelling, network, history, faults>>

\* The GetByID that ends DequeueNextPending: the snapshot the pass works on.
\* The recipients that are not processable keep the state it shows.
Load ==
  /\ pc = "load"
  /\ pc' = "next"
  /\ seen' = rstate[cur]
  /\ todo' = {k \in recipients[cur] : Processable(rstate[cur][k])}
  /\ UNCHANGED <<db, clock, cur, hand, cancelling, network, history, faults>>

\* processRecipient starts with the next recipient: SetRecipientProcessed
\* touches only a Pending row, and the code ignores whether it did.
BeginRecipient_Bug ==
 \E k \in First(todo) :
  /\ pc = "next" /\ pc' = "send"
  /\ todo' = todo \ {k}
  /\ hand' = [NothingInHand EXCEPT !.phone = k]
  /\ SetRecipient(cur, k, "Processed")
  /\ UNCHANGED <<last, options, recipients, state, refId, clock, cur, seen,
                 cancelling, network, history, faults>>

BeginRecipient ==
 \E k \in First(todo) :
  /\ pc = "next"
  /\ pc' = "send"
  /\ todo' = todo \ {k}
  /\ hand' = [NothingInHand EXCEPT !.phone = k]
  /\ IF rstate[cur][k] = "Pending" THEN SetRecipient(cur, k, "Processed")
                                   ELSE UNCHANGED rstate
  /\ UNCHANGED <<last, options, recipients, state, refId, clock, cur, seen,
                 cancelling, network, history, faults>>

\* The modem takes the SMS of the recipient in hand.
Accept ==
  LET k == hand.phone IN
  /\ options[cur].sendable
  /\ nextRef' = (nextRef + 1) % RefCount
  /\ submits' = [submits EXCEPT ![cur][k] = @ + 1]
  /\ air' = IF options[cur].wantsReport
            THEN air \cup {[msg |-> cur, phone |-> k, ref |-> nextRef, fate |-> "Open"]}
            ELSE air

\* SendSMS returns the reference of the accepted (last) part.
SendConfirmed ==
  /\ pc = "send"
  /\ Accept
  /\ pc' = "accepted"
  /\ hand' = [hand EXCEPT !.ref = nextRef]
  /\ UNCHANGED <<db, clock, cur, todo, seen, cancelling, verdicts, events, faults>>

\* SendSMS returns an error although the SMS is on its way: the final
\* response was lost or late.
SendUnconfirmed ==
  /\ pc = "send"
  /\ Accept
  /\ pc' = "refused"
  /\ UNCHANGED <<db, clock, cur, todo, seen, hand, cancelling, verdicts, events, faults>>

\* The content is no text or too long, or the modem refuses: nothing is sent.
SendRefused ==
  /\ pc = "send"
  /\ pc' = "refused"
  /\ UNCHANGED <<db, clock, cur, todo, seen, hand, cancelling, network, history, faults>>

\* SetRecipientSent: whatever the row says by now, unless it is Sent.
RecordSent ==
  LET k == hand.phone IN
  /\ pc = "accepted"
  /\ pc' = "emit"
  /\ seen' = [seen EXCEPT ![k] = "Sent"]
  /\ IF rstate[cur][k] # "Sent"
     THEN SetRecipient(cur, k, "Sent") /\ refId' = [refId EXCEPT ![cur][k] = hand.ref]
     ELSE UNCHANGED <<rstate, refId>>
  /\ UNCHANGED <<last, options, recipients, state, clock, cur, todo, hand,
                 cancelling, network, history, faults>>

\* failRecipient's SetRecipientFailed: whatever the row says by now.
RecordFailed_Bug ==
  /\ pc = "refused" /\ pc' = "next"
  /\ seen' = [seen EXCEPT ![hand.phone] = "Failed"]
  /\ hand' = NothingInHand
  /\ SetRecipient(cur, hand.phone, "Failed")
  /\ UNCHANGED <<last, options, recipients, state, refId, clock, cur, todo,
                 cancelling, network, history, faults>>

RecordFailed ==
  LET k == hand.phone IN
  /\ pc = "refused"
  /\ pc' = "emit"
  /\ seen' = [seen EXCEPT ![k] = "Failed"]
  /\ SetRecipient(cur, k, "Failed")
  /\ UNCHANGED <<last, options, recipients, state, refId, clock, cur, todo, hand,
                 cancelling, network, history, faults>>

\* EmitSmsSent or EmitSmsFailed for the recipient in hand.
EmitOutcome ==
  /\ pc = "emit"
  /\ pc' = "next"
  /\ events' = events \cup {<<seen[hand.phone], cur, hand.phone>>}
  /\ hand' = NothingInHand
  /\ UNCHANGED <<db, clock, cur, todo, seen, cancelling, network, submits,
                 verdicts, faults>>

\* All recipients handled: SetState with what the outcomes add up to, then
\* the drain goes on.
Settle ==
  /\ pc = "next" /\ todo = {}
  /\ SetState(cur, ResolveFinalState({seen[k] : k \in recipients[cur]}))
  /\ WorkerTo("drain")
  /\ UNCHANGED <<last, options, recipients, rstate, refId, clock, cancelling,
                 network, history, faults>>

-----------------------------------------------------------------------------
(* The worker: handleDeliveryReport.                                       *)

\* SetRecipientDeliveredByRef and SetRecipientFailedByRef: the oldest row the
\* report can mean, if any, takes the state `to', and the handling goes on.
SetRecipientByRef(ref, phone, to) ==
  LET rows == ReportCandidates(ref, phone) IN
  \/ /\ rows = {}
     /\ UNCHANGED <<rstate, pc, cur, hand>>
  \/ \E row \in OldestRow(rows) :
       /\ SetRecipient(row[1], row[2], to)
       /\ pc' = "reload"
       /\ cur' = row[1]
       /\ hand' = [NothingInHand EXCEPT !.ref = ref, !.to = to]

\* What the SC keeps of the SMS x once it reported the fate: nothing, or the
\* chance to report again, the same fate if that was final.
Reported(x, fate, again) ==
  IF again THEN {IF fate \in FinalFates THEN [x EXCEPT !.fate = fate] ELSE x} ELSE {}

\* A report about the SMS x arrives, its address kept or lost.  One that never
\* comes is one never taken: the SC or the full channel dropped it.
TakeReport(x, fate, phone, again) ==
  /\ pc = "idle"
  /\ x.fate \in {"Open", fate}
  /\ air' = (air \ {x}) \cup Reported(x, fate, again)
  /\ verdicts' = IF fate \in FinalFates THEN verdicts \cup {<<fate, x.msg, x.phone>>}
                                       ELSE verdicts
  /\ \E status \in StatusesOf[fate] :
       LET to == DeliveryReportState(status) IN
       IF to = "Ignored" THEN UNCHANGED <<rstate, pc, cur, hand>>
                         ELSE SetRecipientByRef(x.ref, phone, to)
  /\ UNCHANGED <<last, options, recipients, state, refId, clock, todo, seen,
                 cancelling, nextRef, submits, events, faults>>

\* GetByID, then one event for the first recipient that shows the report's
\* reference and state.
ReloadReported ==
  LET hits == {k \in recipients[cur] :
                 refId[cur][k] = hand.ref /\ rstate[cur][k] = hand.to}
  IN
  /\ pc = "reload"
  /\ pc' = "resolve"
  /\ seen' = rstate[cur]
  /\ hand' = [hand EXCEPT !.was = state[cur]]
  /\ events' = events \cup {<<hand.to, cur, k>> : k \in First(hits)}
  /\ UNCHANGED <<db, clock, cur, todo, cancelling, network, submits, verdicts, faults>>

\* SetState, when the recipients add up to another state than was loaded.
ResolveReported ==
  LET s == ResolveFinalState({seen[k] : k \in recipients[cur]}) IN
  /\ pc = "resolve"
  /\ IF s # hand.was THEN SetState(cur, s) ELSE UNCHANGED state
  /\ WorkerTo("idle")
  /\ UNCHANGED <<last, options, recipients, rstate, refId, clock, cancelling,
                 network, history, faults>>

-----------------------------------------------------------------------------
(* Time and failures.                                                      *)

ScheduleReached(m) ==
  /\ m \in early
  /\ early' = early \ {m}
  /\ UNCHANGED <<db, lapsed, worker, cancelling, network, history, faults>>

ValidityLapses(m) ==
  /\ m \in Created \ lapsed
  /\ options[m].expires
  /\ lapsed' = lapsed \cup {m}
  /\ UNCHANGED <<db, early, worker, cancelling, network, history, faults>>

\* A database call of the worker fails: the pass or the report handling is
\* abandoned where it is.
WorkerFault ==
  /\ pc \notin {"idle", "drain"}
  /\ faults < MaxFaults
  /\ faults' = faults + 1
  /\ WorkerTo("idle")
  /\ UNCHANGED <<db, clock, cancelling, network, history>>

\* The process dies and starts again: the worker's locals and the running
\* API calls are gone.
Crash ==
  /\ faults < MaxFaults
  /\ faults' = faults + 1
  /\ WorkerTo("idle")
  /\ cancelling' = {}
  /\ UNCHANGED <<db, clock, network, history>>

-----------------------------------------------------------------------------
Init ==
  /\ last = 0
  /\ options    = [m \in Messages |-> [wantsReport |-> FALSE, sendable |-> FALSE,
                                       expires |-> FALSE, scheduled |-> FALSE]]
  /\ recipients = [m \in Messages |-> {}]
  /\ state      = [m \in Messages |-> Absent]
  /\ rstate     = [m \in Messages |-> AllAbsent]
  /\ refId      = [m \in Messages |-> [k \in Phones |-> NoRef]]
  /\ early = {} /\ lapsed = {}
  /\ pc = "idle" /\ cur = NoMessage /\ todo = {} /\ seen = AllAbsent
  /\ hand = NothingInHand
  /\ cancelling = {}
  /\ nextRef = 0 /\ air = {}
  /\ submits = [m \in Messages |-> [k \in Phones |-> 0]]
  /\ verdicts = {} /\ events = {} /\ faults = 0

Api ==
  \/ \E o \in Options, ps \in SUBSET Phones \ {{}} : Enqueue(o, ps)
  \/ \E m \in Messages : CancelCommit(m) \/ CancelAnnounce(m)

Send == SendConfirmed \/ SendUnconfirmed \/ SendRefused

Pass ==
  \/ Load \/ BeginRecipient \/ Send
  \/ RecordSent \/ RecordFailed \/ EmitOutcome \/ Settle

Report ==
  \/ \E x \in air, fate \in Fates, again \in BOOLEAN :
       \E phone \in {NoPhone, x.phone} : TakeReport(x, fate, phone, again)
  \/ ReloadReported \/ ResolveReported

Time == \E m \in Messages : ScheduleReached(m) \/ ValidityLapses(m)

Next == Api \/ Dequeue \/ Pass \/ Report \/ Time \/ WorkerFault \/ Crash

Spec == Init /\ [][Next]_vars

\* The worker goroutine runs: a statement it has begun ends (each has a
\* timeout or is local), and the poll ticker, one of the ready cases of a Go
\* select, is not passed over forever in favour of delivery reports.
Fairness ==
  /\ WF_vars(Pass) /\ WF_vars(ReloadReported \/ ResolveReported)
  /\ SF_vars(Dequeue)

FairSpec == Spec /\ Fairness

-----------------------------------------------------------------------------
(* Properties.                                                             *)

Pcs == {"idle", "drain", "load", "next", "send", "accepted", "refused", "emit",
        "reload", "resolve"}

TypeOK ==
  /\ last \in 0..MaxMessages
  /\ options \in [Messages -> [wantsReport: BOOLEAN, sendable: BOOLEAN,
                              expires: BOOLEAN, scheduled: BOOLEAN]]
  /\ recipients \in [Messages -> SUBSET Phones]
  /\ state  \in [Messages -> States \cup {Absent}]
  /\ rstate \in [Messages -> [Phones -> States \cup {Absent}]]
  /\ refId  \in [Messages -> [Phones -> Refs \cup {NoRef}]]
  /\ early \subseteq Created /\ lapsed \subseteq Created /\ cancelling \subseteq Created
  /\ pc \in Pcs
  /\ cur \in Created \cup {NoMessage}
  /\ pc \in {"idle", "drain"} <=> cur = NoMessage
  /\ todo \subseteq Phones
  /\ pc \in {"send", "accepted", "refused", "emit"} => hand.phone \in Phones
  /\ seen \in [Phones -> States \cup {Absent}]
  /\ hand \in [phone: Phones \cup {NoPhone}, ref: Refs \cup {NoRef},
               to: States \cup {Absent}, was: States \cup {Absent}]
  /\ nextRef \in Refs
  /\ air \subseteq [msg: Created, phone: Phones, ref: Refs, fate: FinalFates \cup {"Open"}]
  /\ submits \in [Messages -> [Phones -> Nat]]
  /\ verdicts \subseteq FinalFates \X Messages \X Phones
  /\ events \subseteq (States \cup {Absent}) \X Messages \X Phones
  /\ faults \in 0..MaxFaults

\* A message marked Failed has no recipient in any other state: the worker
\* never gives up on a message one of whose SMS is out or may still go out,
\* whatever Cancel did to its rows during the pass.
FailedMessageAllFailed ==
  \A m \in Created : state[m] = "Failed" =>
    \A k \in recipients[m] : rstate[m][k] = "Failed"

\* Failed is final, for messages and for recipients, although no statement
\* that stores another state (SetState, SetRecipientSent) excludes it.
FailedIsFinal ==
  [][\A m \in Created :
       /\ state[m] = "Failed" => state'[m] = "Failed"
       /\ \A k \in recipients[m] : rstate[m][k] = "Failed" => rstate'[m][k] = "Failed"]_vars

\* A cancelled message has nothing left that a later pass could submit.
CancelledNothingToSend ==
  \A m \in Created : state[m] = "Cancelled" =>
    \A k \in recipients[m] : ~Processable(rstate[m][k])

\* A cancelled recipient is overwritten only by the pass that already had it
\* in hand, or by the expiry of its message, which fails both.
CancelledOverwrittenOnlyInHand ==
  [][\A m \in Messages, k \in Phones :
       rstate[m][k] = "Cancelled" /\ rstate'[m][k] # "Cancelled" =>
         \/ cur = m /\ hand.phone = k
         \/ m \in Expiring /\ state'[m] = "Failed" /\ rstate'[m][k] = "Failed"]_vars

\* An SMS is submitted again only after a crash or a failed database call,
\* and each of those costs at most one duplicate over all recipients.
DuplicatesNeedFaults ==
  Cardinality({d \in Messages \X Phones \X (2..(MaxFaults + 2)) :
                 d[3] <= submits[d[1]][d[2]]}) <= faults

\* Each needs a reference of its own for as long as its report may come.
Submissions ==
  Cardinality({d \in Messages \X Phones \X (1..(MaxFaults + 2)) :
                 d[3] <= submits[d[1]][d[2]]})

NoWrap == Submissions <= RefCount

\* While references do not wrap, a recipient is Delivered only on the SC's
\* report for that very recipient, and a message only when every recipient's
\* SMS was delivered.  When they wrap, a late report may find the wrong
\* recipient, but never one of a client that opted out of reports.
DeliveredIsTrue ==
  \A m \in Created :
    /\ NoWrap \/ ~options[m].wantsReport =>
         \A k \in recipients[m] :
           rstate[m][k] = "Delivered" => <<"Delivered", m, k>> \in verdicts
    /\ NoWrap /\ state[m] = "Delivered" =>
         \A k \in recipients[m] : <<"Delivered", m, k>> \in verdicts

\* Without faults and while references do not wrap, a report is never too
\* early for the reference it quotes: what the SC delivered is Delivered,
\* unless cancelled, or lost to SendSMS's error.
ReportNeverMissed ==
  faults = 0 /\ NoWrap =>
    \A m \in Created, k \in Phones :
      <<"Delivered", m, k>> \in verdicts =>
        \/ rstate[m][k] \in {"Delivered", "Cancelled"}
        \/ <<"Sent", m, k>> \notin events /\ rstate[m][k] = "Failed"

\* Without faults and while references do not wrap, an SMS the modem confirmed
\* is marked Failed only when the SC said so: expiry never reaches a message
\* the worker has handed over.
FailedIsTrue ==
  faults = 0 /\ NoWrap =>
    \A m \in Created : \A k \in recipients[m] :
      rstate[m][k] = "Failed" /\ <<"Sent", m, k>> \in events => <<"Failed", m, k>> \in verdicts

\* Without faults and while references do not wrap the network's word decides,
\* in both directions.
ReportsDecide == ReportNeverMissed /\ FailedIsTrue

\* Without faults and while references do not wrap, whenever the worker is
\* idle every recipient's outcome has been announced, the expired ones and
\* the Cancels still running aside.
OutcomesAnnounced ==
  faults = 0 /\ NoWrap /\ pc = "idle" =>
    \A m \in Created : \A k \in recipients[m] :
      \/ rstate[m][k] \in Claimable
      \/ <<rstate[m][k], m, k>> \in events
      \/ rstate[m][k] = "Failed" /\ m \in lapsed
      \/ rstate[m][k] = "Cancelled" /\ m \in cancelling

\* Once crashes and database failures stop, the outbox drains for good: every
\* message that is due leaves Pending and Processed, whatever the clients
\* cancel and whatever reports arrive, and none comes back.
OutboxDrains ==
  <>[](\A m \in Created \ early : state[m] \notin Claimable)

=============================================================================
