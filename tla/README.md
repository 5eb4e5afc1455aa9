# A formal model of at-gateway

at-gateway turns a GSM modem on a serial port into an SMS gateway: an HTTP API
enqueues outgoing messages, a worker sends them through AT commands, the modem's
unsolicited result codes bring delivery reports and incoming SMS, and everything
that happens is announced to webhooks through a persistent queue.  State lives in
one SQLite database (one connection, so every statement or transaction is atomic),
in the SIM's and the modem's SMS memories, in two small in-memory tables and in a
JSON key-value file.

This directory holds TLA+ modules translated from the Go code, TLC configurations
that check them on small instances, and TLAPS proofs for instances of any size.
`PROJECT.json` lists the runs, the source lines every definition stands for, the
hazards and the theorems.

## 1. Inventory

| Component (source) | State | Operations | Talks to |
|---|---|---|---|
| Outbox (`internal/messages`) | `messages`, `message_recipients` rows; the worker's locals | Enqueue, Cancel, claim/expire, send, settle, delivery report | API (calls), modem (SendSMS, channel of reports), webhooks (emit) |
| Inbound store pipeline (`internal/modem/service.go`, `store.go`, `inbound.go`) | SMS memories ME and SM, selected store, inbound channel (64), channel-full budget | +CMTI handlers (at most 4), store sweep on reconnect, hand-off, delete | the modem, inbox (channel) |
| AT command layer (`internal/modem/sms.go`) | command mutex, "drain" mark after a lost answer, selected store | Init, SendSMS (multi-part), queries, drain | the AT library |
| Modem lifecycle (`Run`, `connect`, `disconnect`) | connection state, SIM and signal caches, app-started mark | connect, reconnect with back-off, disconnect | everything that needs the modem |
| Inbox (`internal/inbox/service.go`, `types.go`) | reassembly groups, `inbox` rows | part arrives, group completes, persist, emit, sweep, evict, Refresh, retention | webhooks (tracked emission), modem (ListStored) |
| Emission marks (`inbox/dedupe.go`) | bounded map message id -> webhooks served | served, mark, sweep, evict | inbox |
| Webhook registry and queue (`internal/webhooks`) | `webhooks`, `webhook_queue` rows; worker's batch | Replace, Delete, emit, claim, deliver, retry, recover, clean up | receivers (HTTP), every emitter |
| Key-value storage (`internal/storage`), device id (`internal/devices`) | JSON file and its map; device id | Set, Get, SetMulti, Get-or-create | device id, signing key |
| Ping (`internal/ping`) | none | periodic system:ping | webhooks |
| Auth (`internal/auth`) | the API password, in the key-value storage | generate at start or on the first request, compare | storage, the log |
| Configuration, HTTP API, CLI, wiring | configuration | start-up, mapping of requests | the services above |

What is hard in it, and therefore what the properties are about:

* The worker acts on what it loaded while API calls change the same rows between
  its statements (Cancel against a running pass, expiry, delivery reports).
* The modem's answer and the database row are two different facts: an SMS can be on
  the air although SendSMS returned an error, or although the process died before
  the row said so.
* References are 8 bits and wrap; a report names a recipient only through them.
* Incoming SMS exist in the modem's memory, in a channel, in a reassembly group and
  in the inbox, and are deleted from the memory on the way: each crash point either
  duplicates or loses one.
* Handlers for the same stored entry can run twice at once (URC and sweep).
* The modem answers in order, but perhaps after the command that asked has given
  up: the next command, of another goroutine, may be given the answer.
* A message the modem announces again must reach exactly the webhooks that refused
  it, although the marks that tell are bounded and expire.
* The JSON file is truncated before it is written, start hooks race with requests,
  and the map and the file disagree after a failed save.
* Queue items survive crashes in the state `processing` and must be recovered
  without being lost, retried for ever or retried too early.
* Bounds (channel of 64, 64 budget keys, 1024 marks, 512 groups, retry counts,
  back-off shifts) are where rare paths start.

## 2. The modules

| Module | Models | Builds on | Proofs |
|---|---|---|---|
| `Outbox` | the outbox with the worker, the modem and the service centre around it | | `OutboxProofs` |
| `WebhookQueue` | the webhook registry and the queue | implements `Delivery` | `WebhookQueueProofs` |
| `InboundStore` | +CMTI handlers, store sweep, channel | | `InboundStoreProofs` |
| `EmissionMarks` | which webhook holds which message | | `InboxProofs` |
| `Inbox` | reassembly, storing, emission, listing, replay, retention | extends and implements `EmissionMarks` | `InboxProofs` |
| `InboundPath` | the way of an incoming SMS from the modem's slot to the inbox table | composes `InboundStore` and `Inbox` | `InboundPathProofs` |
| `InboundPart` | from the modem's answer to a decoded part (pure) | its results are the constants of `Inbox` in `MCInbox` | |
| `Commands` | the AT command layer under any callers | | `CommandsProofs` |
| `Modem` | the Run goroutine and SendSMS of the worker | extends and implements `Commands` | `ModemProofs` |
| `KeyValue` | storage, device identity, password, signing key | | `KeyValueProofs` |

The abstract specifications are `Delivery` (what the queue promises for one
delivery), `EmissionMarks` (what the inbox relies on) and `CommandsSpec` (callers
that ask anything in any order).  The refinements are checked or proved as
properties: `ImplementsDelivery`, `ImplementsMarks`, `UsesTheLayer`.  The composition
`InboundPath` is proved to implement both of its components, so that what is proved
of each holds when they run together.

Each component has a type invariant, and each is proved (`TypeCorrect` and its like);
the runs check what is deeper.

Every safety invariant and every action property of the passing runs is proved for
all values of the constants (sections 3 to 9 say from which invariants), and so are
the refinements.  What only TLC checks are the seven liveness properties
(`OutboxDrains`, `EveryDeliveryEnds`, `TrackedMessageLeaves`, `ExpiredGroupsLeave`,
`FiledIsReceived`, `SendsReturn`, `EndIsNoticed`), which need fairness and are out of TLAPS's reach,
and what `MCInbox` assumes of the decoder.

Two rules keep the proofs within reach of the provers.  What the code does in a loop
over a slice or a query is a recursive function or a rank (`Only`, `OldestFirst`,
`NewestFirst`), not an operator of the community modules with an operator for its
argument.  And an induction is over a set of numbers: `Smallest` in
`InboxProofs` takes from `WFMin` and `NatLessThanWellFounded` that such a set
has a least element, and `CountUp` counts up from zero; neither takes an operator.

## 3. The outbox (`Outbox`, `MCOutbox`, `OutboxProofs`)

One action per database statement or transaction of `internal/messages`, one per
call into the modem.  `pc` is the statement the worker runs next:

| actions | code |
|---|---|
| `Enqueue` | `Service.Enqueue` past validation, `Repository.Create` |
| `CancelCommit`, `CancelAnnounce` | the transaction of `Repository.Cancel`; the reload and the events of `Service.Cancel` |
| `Dequeue`, `Load` | `DequeueNextPending`: expiry and claim in one transaction, then `GetByID` |
| `BeginRecipient`, `SendConfirmed`/`SendUnconfirmed`/`SendRefused`, `RecordSent`/`RecordFailed`, `EmitOutcome` | `processRecipient` and `failRecipient` |
| `Settle` | `resolveFinalState` and `SetState` at the end of a pass |
| `TakeReport`, `ReloadReported`, `ResolveReported` | `handleDeliveryReport` |
| `ScheduleReached`, `ValidityLapses` | the clock, as seen by `schedule_at` and `valid_until` |
| `WorkerFault`, `Crash` | a failed database call ends the pass; the process restarts |

The service centre is external: for an accepted SMS that asked for reports it sends
temporary and final reports, at any time, several times, with or without an address.

Abstractions: row ids are creation order; phones are numbers ordered as the message
lists them; the state history is only its last entry; text, validation and
normalisation are the Boolean `sendable` (a message whose content is no text or
exceeds the segment cap).  A report that is never taken stands for one that never
came or that the full channel dropped.

| run | instance | shows |
|---|---|---|
| `outbox` | 1 message of any kind to 2 phones, or 2 plain ones to 1; 2 references, 1 fault, fairness | six invariants and two action properties on rows, events, reports and submissions; a report finds the right message while references do not wrap, never one that opted out; due messages leave the queue for good |

Bounds.  Two recipients are what sibling confusion and mixed outcomes need, two
messages what misattribution between messages needs; both at once add no new kind
of interleaving, since the worker handles one message at a time (`Enqueued` in
`MCOutbox` says so).  Two references suffice for two recipients that are sent to once
each, and wrap as soon as a send is repeated; `DeliveredIsTrue` promises the right
message only while they do not, and that a recipient who opted out of reports is never
marked delivered in any case.  One fault covers every crash point; the properties
that count faults compare with `faults`, not with 1.  A deadlocked state is one in
which nothing is left to do, so deadlock is not checked.

Fairness (`FairSpec`): the worker goroutine runs; each statement it has begun ends
(local database, AT commands with timeouts), and Go's `select` does not pass over
the ready poll ticker for ever in favour of reports (strong fairness of `Dequeue`).
Nothing is assumed of clients, of the service centre or of the clock.

### What is proved

`OutboxProofs` proves for every number of messages, recipients, references and
faults, from the assumptions on the constants alone:

* `TypeCorrect`: `TypeOK` is inductive as it stands.
* `InvCorrect`: `Inv`.  The safety invariants are not inductive, because the worker
  writes at the end of a pass what it read at its beginning.  `Inv` adds what
  remains true of that snapshot under every API call: a row the pass saw Failed is
  Failed (`FailedInv`), a row it is still to handle is not Failed (`HandInv`), and
  a message one of whose rows is, or was seen, Cancelled has no row left to submit
  (`CancelInv`).
* `FailedMessageCorrect`, `CancelledNothingToSendCorrect`: from `Inv`.
* `FailedIsFinalCorrect`: an action property, from `Inv` and one case per action.

* `CancelledOverwrittenOnlyInHandCorrect`: an action property, likewise; besides the
  recipient in hand only the expiry of the message may overwrite, and only with Failed.
* `FullInvCorrect`: the invariant of what is outside the two tables, from which the
  other four follow.

The four need more than the rows, because they relate submissions, references,
reports and events with them:

* `DuplicatesNeedFaultsCorrect`.  The number of duplicates is not inductive: the
  fault comes first, the second submission later.  `FaultInv` counts *tokens*, the
  duplicates made and the recipients that the modem took and that may still be
  submitted again, and says that there are no more of them than faults.  A
  submission turns a token of the second kind into one of the first; only a fault
  makes a new one.
* `DeliveredIsTrueCorrect`.  While fewer than `RefCount` submissions were made, a
  reference marks at most one recipient, be it in the row, in the worker's hand or in
  the air (`RefInv`; that `nextRef` never meets a reference again is a pigeonhole
  argument over the submissions).  So a report finds its own recipient
  (`ReportFindsItsOwn`), and `TruthInv` says of rows, snapshot and message that
  Delivered is the service centre's word.  That an opted-out recipient is never
  marked needs none of this, only that its row is no candidate.
* `ReportsDecideCorrect`.  Without faults what is in the air is either in the hand
  of the pass or in a row that is Sent with that reference or already decided
  (`AirInv`), so no report is too early; `WordInv` is the property with what its
  proof needs.  `ReadyInv`, `PassInv` and `SubmittedInv` say where the recipients
  of the running pass stand, `OnceInv` that nothing was submitted of a message that
  may still expire, and `StatusesAssumption` that the service centre keeps to the
  classes of 3GPP TS 23.040.
* `OutcomesAnnouncedCorrect`: a row that shows an outcome was announced or is about
  to be (`AnnounceInv`, `EmitInv`).

Only model-checked: `OutboxDrains` (liveness).

### What the code does not keep

The model has these behaviours, and the properties are stated so that they allow
for them; no run repeats them as a violation.

* A pass stores its outcome over a message cancelled meanwhile
  (`messages/service.go:326` calls `SetState` unconditionally; the comment at :244
  that it guards terminal states is not true of the statement).
  `CancelledOverwrittenOnlyInHand` says that nothing but the pass does so.
* A mixed outcome of reports resolves to Sent, not to Failed
  (`messages/service.go:242` against :466).
* Cancel succeeds on Processed, Sent and Delivered messages (the description at
  `server/api/messages/handler.go:184` against `messages/repository.go:362`).

## 4. The webhook queue (`WebhookQueue`, `MCWebhookQueue`, `Delivery`, `WebhookQueueProofs`)

One action per database statement, and one per request.  A row is named
`<<emission, webhook>>`; of `next_attempt` the distance to the clock is kept (`due`).
`pc`, `cur`, `batch` and `loaded` are the locals of `processQueuePass`:

| actions | code |
|---|---|
| `Replace`, `Delete` | the registry; rows already queued stay |
| `Emit`, `Store`, `StoreFails` | `emit`/`emitTracked`: the webhooks selected, then one `enqueue` each |
| `Poll`, `PollFails` | `RecoverStuck`, `DueItems`, and `Cleanup` when nothing is due |
| `MarkProcessing`, `MarkProcessingFails` | the claim of one row of the batch |
| `Post` | `deliver`; the receiver may get the payload although the request fails |
| `MarkCompleted`, `MarkFailed`, `MarkPermanentlyFailed`, `RecordFails` | the outcome, with `markDeliveryFailure` and `retryDelay` |
| `Tick`, `Crash` | the clock; the process restarts anywhere |

`RetryDelay` is the shift of a signed number of `DurationBits` bits, as Go computes
it; `ConfigAssumption` says what the configured values (base 10 s, 15 retries, 64
bits) satisfy: no back-off of the configured retries overflows.

`Delivery` is the promise: a delivery is owed until a request succeeded or all its
retries were made, then stays as it is, and each crash or database error excuses one
more request.  `ImplementsDelivery` maps the status of a row to its phase and the
requests made to the requests of the promise; a removed row keeps its last status,
so clean-up is a stutter.

| run | instance | shows |
|---|---|---|
| `webhook_queue` | 1 emission, 2 webhooks (one redirects), 2 retries, batches of 1, 1 fault, fairness | the bookkeeping properties, the refinement, and that every queued delivery ends, also one a crash left claimed |

Bounds.  Two rows are what claims, batches and recoveries of one row beside another
need; a batch of one makes the goroutine return to the queue between them.  Two
retries give a first, a middle and a last attempt; a time-out of one clock unit
lies between the back-offs (1 and 2).  One fault puts a crash or a failing
statement at each point.

Fairness: the delivery goroutine runs (`WF(Pass)`; requests have a time-out and the
database is local) and time passes.  Nothing is assumed of receivers or clients.

Proved for all constants that satisfy `ConfigAssumption`, from the inductive
invariant `Inv`: `TypeOK`, `LoadedIsCurrent`, what is in hand is in `rows`
(`StoreInv`), a row's requests exceed its retry count by no more than the faults
(`CountInv`), completed rows were received (`ReceivedInv`), and the row in hand was
due (`DueInv`).  It is needed because the goroutine decides about a retry on the
count the batch was loaded with: without `LoadedIsCurrent` a row could be given up
early.  The run checks `LoadedIsCurrent` and `BackoffHonoured` together, as
`DecisionIsCurrent`.  `ImplementsDeliveryCorrect` proves the refinement, one case per action
(`PromiseStep`).  Only model-checked: `EveryDeliveryEnds` (liveness).

`ConfigAssumption` excludes a configuration whose back-off overflows: with a base of
5 s that happens from about 31 retries on, the delay turns negative or zero and the
row comes up ahead of all others (`webhooks/service.go:357`).  The default is far
from it and nothing validates a configured value.

## 5. The inbound store (`InboundStore`, `MCInboundStore`, `InboundStoreProofs`)

The modem files an SMS in a slot and announces it; handler goroutines and the sweep
of `Run` each follow a *route* (read the slot, offer the part, delete the slot)
and may follow it for the same slot at once.  `route[r]` is where each stands:

| actions | code |
|---|---|
| `Arrive`, `ArriveUnheard` | the modem; the second when nobody reads the +CMTI |
| `HandleCMTI` | `handleCMTI` and `setStoreMemory`; dropped when all handlers are busy |
| `SweepStart`, `ListStored`, `ListFails`, `SweepEntry` | `sweepStore`, `ListStoredMessages` |
| `ReadStored`, `ReadFails` | `ReadStoredMessage` and the decoding in `processStoredEntry` |
| `HandOff`, `Refuse`, `GiveUp` | `handOffInboundPart`, `spendChannelFull` |
| `Delete`, `DeleteFails` | `deleteStoredMessage`, one attempt each |
| `Consume`, `SweepBudget`, `Crash` | the inbox takes a part; a budget's window passes; restart |

Every command first selects its memory unless `selectedStore` names it already
(`Actual`); when an answer is lost the modem may have obeyed or not, so the cache may
be wrong (`SelectFails`).  Which slot a message takes is the modem's choice; with
`Reuse` it may be one that was used before.  Decoding is the set `Undecodable`.

| run | instance | shows |
|---|---|---|
| `inbound_store` | 1 memory of 2 slots, no reuse, 2 handlers, 1 fault, 1 restart | nothing is lost, given up early or duplicated without cause |
| `inbound_reuse` | 2 memories of 1 slot, reuse, 1 undecodable message, 1 fault, 1 restart, fairness | what is lost is lost by a route that deletes what it has not read; messages of tracked memories leave them |
| `inbound_clobber`, `inbound_wrong_slot`, `inbound_budget` | minimal | three statements of comments that the code does not keep |

Bounds.  A channel of one is full as soon as one part waits; two retries separate
"refused" from "given up"; a budget table of one entry makes the second slot evict
the first; two attempts to delete separate a failed one from the last.  Two handlers
and the sweep are three routes, of which two are needed to collide and the third to
stay in between.  With two memories of one slot, slot numbers collide in the budget
table, as those of SM and ME do.  Symmetry of the handlers is used in the safety run
only.

Fairness: handlers, the sweep with its ticker, and the inbox run; commands end,
because they have deadlines.  The modem need not announce anything.

Proved for all constants that satisfy `ConfigAssumption`: `TypeOK` (with the bounds
of channel and budget table) and the action property `LossNeedsStaleRoute`, from the
inductive invariant `Inv`: what a slot holds was filed there, a route offers only
what it decoded, and a route that deletes has an answered message.  Under
`OneMemory` (one memory, slots not used again) also `NothingLost` and
`ExhaustedWasRefused`.  They are not inductive: `OneInv` adds that no two messages
share a slot, that a route stands on the slot of its message (`RightSlot`), and that
a slot's budget is at most the refusals of the message filed in it and zero where
nothing was filed (`BudgetInv`).

`DuplicatesNeedFaultsCorrect` (also under `OneMemory`) says how often a message is
handed off.  Its +CMTI and its slot are each good for one hand-off: `CopyInv` adds to
the hand-offs made those still to come (`ByHandler`, `BySweep`) and bounds the sum by
two and the faults and restarts, each of which may renew one.  `CmtiInv` is what makes
the first true: a slot is announced once, and one handler at most works on it.

Only model-checked: `TrackedMessageLeaves` (liveness).

### What the code does not keep

* A handler and the sweep can read one slot; if the modem fills it again after the
  first deletion, the second deletes a message nobody read (`inbound_clobber`), though
  "the delete runs AFTER an accepted hand-off" (`modem/service.go:634-635`).
* After a lost answer to AT+CPMS reads and deletions may go to the other memory
  (`inbound_wrong_slot`).
* SM and ME share the budgets of equal slot numbers (`inbound_budget`).

A restart forgets every memory but the configured one, and what is stored elsewhere
is not listed until something new arrives there; `TrackedMessageLeaves` says exactly
that.

## 6. The inbox (`Inbox`, `InboundPart`, `EmissionMarks`, `MCInbox`, `MCEmissionMarks`, `InboxProofs`)

One goroutine (`Service.Run`) takes decoded parts from the modem's channel, collects
them into whole messages, stores each and offers it to the webhooks.  `hand` is the
message between assembly and the end of `emitInbound`; `used` and `owed` are
observers (the parts that went into a message, the messages a webhook took and that
must stay stored).

| actions | code |
|---|---|
| `TakeSingle`, `TakeKnown`, `TakeNew` | `handleInboundPart`, `assembleInbound` with `newInboundGroup` and `evictOldestInboundGroup` |
| `Persist`, `PersistFails` | `persistInbound`, `Repository.Insert` |
| `Emit` | `served`, the tracked emission and the marks of its results |
| `Sweep`, `Cleanup` | the two tickers of `Run` |
| `Tick`, `Restart` | the clock; the process ends anywhere, or `abortInbound` |
| `Listing`, `Replay` (operators) | `Service.List`, `Service.Refresh` with their filters, order and pages |
| `Emission`, `MarkKnown`, `MarkNew`, `SweepMarks` in `EmissionMarks` | `served`, `mark`, `evictOldest`, `sweep` of `dedupe.go` |

`EmissionMarks` is at once the model of `dedupe.go` and what the inbox may rely on:
its `MarksNext` offers any message to exactly those of any registered webhooks that
are not passed over, and `ImplementsMarks` checks that `Inbox` uses the marks only so.
The observers `held`, `crowd` and `missed` are of this module: since when a webhook
holds a message, what came behind it in `order`, and who was passed over without
holding it.

`InboundPart` translates the decoding: `storedPDU` with the unsolicited heads the AT
library leaks into an answer, the stamp, the ports and the concatenation in either
width.  `MCInbox` builds answers of the modem for each part of its instance, clean
and with a head leaked at every position, in both layouts; TLC evaluates the
assumptions `LeaksDoNotShow` and `TablesAreDecoded`, by which the headers that
`Inbox` works with are what these answers decode to.  One of the headers announces no
parts: the code takes it for that of a group (`part.Concat` is not nil), which its
first part completes at once, as a message without text.

| run | instance | shows |
|---|---|---|
| `inbox` | 5 messages, 7 parts in two lots of 5, 2 groups, window 2, retention 1, one webhook, one mark, clock to 2, fairness | only whole messages leave the groups and no whole one waits, parts and rows go only for a reason, what was announced is stored, each message is offered to exactly the webhooks registered that are not passed over, listing and replay agree |
| `inbox_marks` | 3 messages, 2 webhooks, 2 marks, time to live 2 | nobody is passed over who does not hold the message; who took it is passed over for the whole time to live, unless as many messages as there are marks came behind it |

Bounds.  The messages collide in every way the key of a group can: same reference
with another size, with another width, of another sender; one header announces no
parts and numbers one beyond.  A behaviour is of one lot of parts (`lot` in `MCInbox`):
either all but those of the header without parts, or those without the other width and
the data message.  Two groups overflow with the third key.  A window of two, a
retention of one and a clock to two put a part and a row before, at and after each
bound.  In `inbox` one mark makes the second message push out the first.  In
`inbox_marks` some webhooks take what others refuse, one may revive an entry that
expired with the other's mark in it, webhooks come and go, and of two marks the one
that is first in `order` need not have the older stamp.  The clock stands still
while a part is handled, because the code reads it once per part.  A restart leaves
the rows and is possible in every state, so deadlock is not an issue.

Fairness: `handleInboundPart` runs to its end (weak fairness of storing and
offering: both have time-outs), and Go's `select` takes the ready sweep ticker in
the end however many parts wait (strong fairness of `Sweep`).

Proved of the marks, for any messages, webhooks, capacity and TTL:

* `NobodyIsMissedCorrect` from `InvCorrect`: ages and marks have their types, and an
  entry still alive names only webhooks whose last answer was to take the message
  (`ServedHoldsItem`); that is what makes reusing an expired entry harmless.
* `OrderMatchesEntriesCorrect` from `OrderInv`, which is the property with the types.
  It rests on what a sweep and an eviction leave of a sequence without repetition
  (`OnlyListed`, `TailListed`), and those on `OnlyPicks`: `Only` keeps the elements
  of the set, each at its place, in their order.  An eviction takes exactly the first
  id, because every listed id has an entry (`OldestIsFirst`).
* `HeldIsRememberedCorrect` from `CrowdInv`: while a webhook took a message less than
  TTL ago, either its mark is there, no older than that, and everything behind the
  message in `order` is in its crowd, or the crowd has `Capacity` messages.  When the
  message is evicted it is the first of `Capacity`, all others are in the crowd, and
  the new one joins them.
* `MarksTypeCorrect`.

Proved of the inbox, for any parts, headers (those that announce no parts included),
window, retention and number of groups: `WholeBodiesCorrect`, `BufferedIsUnusedCorrect` and `PartsLeaveForReasonCorrect`, from
the invariant `IbInvCorrect`: a group holds parts of its own key and size, each at its
own number and none that is used (so what completes it is whole, and using it up
touches no other group), and there are at most `MaxGroups` (so when the swept groups
are still full, none had expired).  The last of the three also covers a one-part
message with a concatenation header that replaces a group at the limit, which the
instance of the run leaves out.  `IncompleteCorrect` says that no group waits with all
its parts, which the code finds out only when a part enters; it rests on where every
part is after each step (`Moves`): in a group, in hand, or gone for one of the
reasons.  The run checks it with `BufferedIsUnused`, as `GroupsAreOpen`
(`GroupsAreOpenCorrect`).  `ImplementsMarksCorrect` proves the refinement for every `Ids` that has an
identity for each whole message; `InboxMissesNobody` and `InboxRemembersDeliveries`
carry the properties of the marks over.

`AnnouncedIsStoredCorrect` is from `RowsInv`: rows are those of whole messages, one
for each identity; what is owed has a row, and what is about to be offered as stored
has one.  A clean-up takes no row that is still owed (`CleanupRows`).
`InboxTypeCorrect` adds that no group is of the future and every key is a message's.

`ListingsAgreeCorrect` is a consequence of `RowsInv` alone, and `EveryListingAgrees`
says more than the run can: for every filter that is not refused and every page size,
the pages hold every matching row once and in order, and a replay sends them backwards.
The proof is about finite strict orders: each place of one has exactly one element
(`RankOnto`, by counting), so there is only one walk through a set in a given order
(`WalkIsSorted`); the rows of a listing read backwards, and the text messages of a
listing of every type, are such walks.

Only model-checked: `ExpiredGroupsLeave` (liveness).

What the promise does not include: an expired mark that is used again keeps its
place in the eviction order, so a message just marked may be pushed out by the next
new one (`HeldIsRemembered` says so).  A group whose reference is used again with
the same size mixes the parts of two messages, which no receiver can tell.  A group
of its own key that is replaced at the limit evicts another one without need.

## 7. The way of an incoming SMS (`InboundPath`, `MCInboundPath`, `InboundPathProofs`)

The modem's side deletes a slot as soon as its part is in the channel; from there on
the only copy is in the process.  `InboundPath` puts `InboundStore` and `Inbox`
together: `Part` names the part each message decodes to, `Take` is the receive in
`Service.Run` with the whole of `assembleInbound` (the step `Consume` of one half and
a step `Take...` of the other), `Restart` ends both halves at once and leaves the
modem and the table.  All other steps are one half's.  Two observers keep the
accounts: `recorded` counts the inserts of a message, `dropped` has the messages of
which a copy left the gateway for good.

| run | instance | shows |
|---|---|---|
| `inbound_path` | the 2 parts of one SMS, 1 memory of 2 slots, a channel of one, 1 handler and the sweep, 1 group, failed inserts, 1 restart, clock to 1, fairness | an SMS that arrived is in its slot, on its way or in the table, or was given up or dropped; it is recorded at most as often as it was handed over; a copy is dropped only for a reason; what is filed is received, given up or dropped |

Bounds.  What is new here is the boundary, so each half is as small as its own runs
allow: a channel of one is full at once, one group is replaced at once, and the
window ends after one tick.  The copies come from the handler, the sweep and one
restart; failing AT commands are for `inbound_store`, with the same slots, and for the
theorems, which hold with any number of them.  No webhook is registered, since emission does not touch the
groups, the table or the channel.  The modem files two messages at most and the clock
is bounded, so the system stops and deadlock is not checked.

Fairness: that of `InboundStore` without its `Consume`; strong
fairness of `Take`, because Go's `select` does not pass over a ready channel for
ever; weak fairness of storing and offering, which have time-outs.

Proved for all constants: `PathImplementsStore` and `PathImplementsInbox`, the
refinements of both halves; `HandedOnceCorrect` and `DroppedForReasonCorrect`; with
one memory whose slots are not used again (`OneMemory`) also `NothingVanishesCorrect`
and `FewRecordedCorrect`.  The inductive invariant `PathInv` joins the invariants of
the halves (`Inv`, `IbInv`, `Incomplete`) with three facts about the boundary: what
the channel holds was decoded (without it a step of the inbox would not be one of
`Inbox`), the copies of a message in the table, in hand, in the groups and in the
channel are together at most its hand-offs (`HandedOnce`), and what was handed over is
accounted for (`Accounted`).  `HandedOnce` needs `Incomplete`: a part is in a group or
in hand, never in both.  `NothingVanishes` is then `NothingLost` of the modem's side
with `Accounted`, and `FewRecorded` is `HandedOnce` with the bound on the hand-offs
that `CopyInv` gives.  The reasons of `DroppedForReason` come from `Moves`.

Only model-checked: `FiledIsReceived` (liveness).

What the promise does not include: a part in the channel or in a group is lost when
the process ends, after its slot was deleted; and two hand-offs of a one-part message
are two inserts, of which the table keeps one row (`AnnouncedIsStored`).

## 8. The AT layer and the modem service (`Commands`, `Modem`, `MCModem`, `CommandsProofs`, `ModemProofs`)

`Commands` is the layer with any callers; the AT library and the modem behind it are
external: the modem answers in the order it was asked, the library gives the next
answer to whichever command waits and throws away what nobody waits for.  `Modem`
adds the two goroutines that call it.

| actions | code |
|---|---|
| `ExecWrites`, `ExecFails` | `execLocked`, `execSMS` up to the write, with the drain of `drainLocked` first if one is due |
| `DrainAnswered`, `CommandAnswered`, `Deadline`, `PortFails`, `Discard` | the end of a wait; `mapCommandError` and `mapSMSError` raise the barrier |
| `Unplug` | the port is lost (closed by `Disconnect` or by itself) |
| `Connect`, `OpenPort`, `OpenFails` | `connect` up to the open port |
| `InitRow`, `InitAnswered`, `InitExpires`, `InitDone` | `Commands.Init` under `InitTimeout` |
| `Query`, `QueryAnswered`, `QueriesEnd` | `GetModemInfo`, `GetSimInfo` |
| `Publish`, `BecomeReady`, `EmitAppStarted` | the end of `connect`, `emitAppStartedOnce` |
| `SignalQuery`, `SignalUpdate`, `LeaveLoop`, `Disconnect`, `InitFails` | `Run` |
| `Send`, `Gate`, `GateRefuses`, `SendPart`, `PartAnswered`, `SendStops`, `Record` | the worker: `Service.SendSMS`, `Commands.SendSMS`, `sendPDU` |
| `Cancel` | OnStop |

| run | instance | shows |
|---|---|---|
| `modem` | one message of at most 2 parts, 2 answers late, lost, malformed or errors, fairness | an answer reaches another command only after a drain was ended by a late answer; what is shown is the field that was asked for; callers know what went out; every send returns and the end of the port is noticed |

Bounds.  A late answer, and a second one that ends the drain, is the shortest way to a
wrong answer, hence two troubles; they may fall on a drain, on AT+CMGS (late,
malformed, error), on +CPIN (late, malformed) and on +CNUM, the first query of the card
(late, malformed): other commands differ from these
only in name, and a leaked head before an answer is left to the proofs.  Two parts
give a first and a last one and a message cut between them. The modem's verdict on a
part is fixed when it is written, and what it takes it takes, whether or not its
answer comes.  The service is connected once and may stop, so deadlock is not checked.

Not in this composition: +CMTI handlers and the store commands, which use the same
mutex (section 5 has them, each command by itself); further callers are covered by
`CommandsProofs`, which is about any number of them.

Fairness: the port delivers or a command's timer fires, and the Run goroutine goes
on (one weak fairness condition, for the modem and the code after it); who waits for
`sync.Mutex` is handed it in the end (strong fairness of `Asks` and `Sending`); the
select of `Run` does not prefer the signal ticker for ever (strong fairness of
`LeaveLoop`).

Proved: for any callers, answers and parts, `CommandsTypeCorrect` and
`MisreadNeedsSlipCorrect`, from an invariant that says that only the last command on
the wire is waited for, and that while the barrier is down and nothing slipped
nothing else is on it; then `UsesTheLayer`, the refinement (each step of `Modem` is
one of the layer or leaves it alone), by which the promise of the layer holds in the
service; `ModemTypeCorrect`, `ShownIsItsOwnCorrect`, `StateTellsHandleCorrect` and
`OneReportCorrect` (at most one part asks for a report, the last one).

`SendsAreAccountedForCorrect` is from `SendInv`: while no drain slipped, the call in
hand is for the part after the last reference, an answer other than ERROR is for a
part the modem took, and the modem took no other.  `BlankHasCauseCorrect` is from
`CardInv`, which counts: the fields of the card that were read and are not their own,
and the failed answer on its way if there is one, are as many as the troubles on the
wire at most.  A write pays for the answer that will fail (`FailsCosts`), and reading a
row turns that answer into one blank field (`FewBlanks`); the card is then shown and
announced as it was read.

Only model-checked: `SendsReturn` and `EndIsNoticed` (liveness).

What the code does not keep:

* The comment of `GetSimInfo` (`modem/sms.go:389-396`) says that the remaining
  commands are skipped when a drain runs into its deadline; the code goes on with
  the next one.
* `README.md:33` of the repository promises handling of reconnects; `connect` runs
  once and a lost port ends `Run` (`modem/service.go:463` says so).
* `app:started` may carry blank SIM fields, one for each answer that failed
  (`BlankHasCause`), all of them after a lost port or a stop, and nothing repeats the
  event; the comment at `modem/service.go:452-455` does not mention it.  A drain that
  slipped may blank more than its own field, and the property leaves that out.
* The identity check of `SignalUpdate` after its query can never fail: `Run` is its
  only caller and the only one to replace the handle.

## 9. The storage (`KeyValue`, `KeyValueProofs`)

A map and a JSON file, and the three users that get or create a value: the device
identity, the API password, the signing key.  A value is the number of its
generation.

| actions | code |
|---|---|
| `Boot`, `Open`, `Stop`, `Close` | the start and stop hooks, `Service.Open` and `Close` |
| `Set` and `Save` inside the actions below | `Set`, `SetMulti`, `saveLocked`: the map first, then the file, truncated before it is written |
| `DeviceGet`, `DeviceCreate` | `devices.Service.Get` |
| `SigningKey`, `Sign` | `webhooks.Service.Run`; requests to the receivers |
| `HookReads`, `HookSets`, `HookLogs` | the start hook of `auth` |
| `RequestReads`, `RequestSets` | `ensureCredentials` for a request |
| `Crash`, `CrashInSave` | the process is killed between saves, or in one |

| run | instance | shows |
|---|---|---|
| `storage` | 5 generated values, 2 failed or cut saves, 2 kills | saved values stay; the device has one identity and one signing key, and every password that is asked for was logged, but for one more for each save that failed and, of the passwords, each kill |

Bounds.  Three keys need three values, and two more are generated when a save fails
or a request races with the hook.  Two failed saves are one that leaves a torn file
and one before or after it; two kills give three lives.  A torn file ends every later
start, so the system may stop and deadlock is not checked.  There is no liveness to
ask for.

Proved for any numbers of values, faults and kills: `StorageTypeCorrect` and
`SavedStaysCorrect` from `InvCorrect`: a map that was opened and a whole file hold all
that was ever saved, each key with one value (`OneSaved`), and the map of a process
that is down is empty.  They are needed because the properties are about several lives
of the process and the map is only in one.  `OneIdentityCorrect` and
`DemandedWasShownCorrect` add `CostInv`, which counts what is still to come and not
only what was used: of a key no more values are in use or in the map unsaved than saves
failed (`Unsaved`), and of the passwords asked for, saved or in the map no more are
unseen, and not about to be shown, than saves failed and processes were killed
(`Unseen`).  Each action either takes nothing new into these sets (`Free`) or one
element, and is charged for it (`Charged`).  The values used are the unsaved ones and
the one that was saved, hence one more than the failed saves (`FewUsed`).

The order of the start hooks is fiberfx's (external): the HTTP server is a hook of
its own, so a request may come before `Open` or before the hook of `auth`
(`history.early`).

What the code does not keep: a failed `Set` puts back the value it just stored,
because the old one is looked up after the assignment; the new value stays in the map,
and `Close` writes it. A password that was generated in a start that failed can so
become the password without ever having been logged, against the comment at
`auth/service.go:94`.  `DemandedWasShown` counts
it: each failed save costs at most one such password, and a kill between the save and
the log line one too.  A request before the hooks are done may generate a password, and
save a map without the identity; nothing in the code prevents it, and the three
properties say nothing of a behaviour with such a request.

## 10. Not modelled

The components with status `not_modelled` in `PROJECT.json`, each with its reason.

* Pure data: event constructors of the webhooks, text validation (its encoding is
  the library's), the serial port's settings, the OpenAPI document (generated).
* No state whose interleavings matter: ping, configuration, HTTP handlers (they map
  requests to the operations above), command line, metrics, wiring.
* The database: SQLite with one connection; a statement or transaction is atomic and
  fails as a whole.

Out of TLAPS's reach, and so left to TLC: liveness under fairness.
