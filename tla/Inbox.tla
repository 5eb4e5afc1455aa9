------------------------------- MODULE Inbox -------------------------------
(***************************************************************************)
(* The inbox (internal/inbox): decoded parts are reassembled, a complete   *)
(* message is stored and then offered to the webhooks that do not hold it, *)
(* and stored messages are listed, replayed and expire.  One goroutine     *)
(* (Service.Run) does all of it but the listing and the replay, which the  *)
(* HTTP handlers do and which only read.                                   *)
(*                                                                         *)
(* A part is <<message, sequence number>>; what its header says is given   *)
(* by functions of the message.  The clock stands still while a part is    *)
(* handled (the code reads it once per part) and stops at MaxClock.        *)
(***************************************************************************)
EXTENDS EmissionMarks

CONSTANTS
  Parts,      \* <<message, sequence>> the modem may hand off, header unchecked
  Sender,     \* message -> originating address
  Width,      \* message -> width of its concatenation reference, 0 without one
  Ref,        \* message -> concatenation reference
  Segments,   \* message -> announced number of parts, perhaps 0
  Stamp,      \* message -> usable service centre stamp, or NoTime
  Port,       \* message -> destination port, NoPort for a text message
  Text,       \* part -> its content
  NoTime,     \* no stamp, no bound
  NoPort,
  Window,     \* Config.ReassemblyTimeout, in clock units
  Retention,  \* Config.Retention, in clock units
  MaxGroups,  \* inboundMaxGroups (512)
  MaxClock    \* bound of the model

Msgs == {p[1] : p \in Parts}

ASSUME InboxAssumption ==
  /\ Parts \subseteq Msgs \X Nat
  /\ Segments \in [Msgs -> Nat]
  /\ Stamp \in [Msgs -> Nat \cup {NoTime}]
  /\ Port \in [Msgs -> Nat \cup {NoPort}] /\ NoPort \notin Nat /\ NoTime \notin Nat
  /\ {Window, Retention, MaxGroups, MaxClock} \subseteq Nat
  /\ MaxGroups > 0

VARIABLES
  clock,
  groups,  \* inboundGroups: key -> [segments, firstAt, parts]
  hand,    \* the assembled message in emitInbound: [stage, body]
  rows,    \* the inbox table in rowid order
  used,    \* parts that went into a message and were not handed off since
  owed     \* ids a webhook took after their row was stored, and that stay stored

ibvars == <<clock, groups, hand, rows, used, owed>>
vars == <<clock, groups, hand, rows, used, owed, entries, order, held, crowd, missed>>

-----------------------------------------------------------------------------
(* Messages.                                                               *)

\* Mutant: references of either width share a group.
KeyOf_Bug(m) == <<Sender[m], Ref[m]>>

KeyOf(m) == <<Sender[m], Width[m], Ref[m]>>

Ported(m) == Port[m] # NoPort

\* The stamp a message's identity and row carry; the observation time only
\* stands in for it in the row.
ReceivedAt(m) == IF Stamp[m] = NoTime THEN clock ELSE Stamp[m]

\* part.Concat == nil.
Single(m) == Width[m] = 0

\* inboundMessageID: what is hashed.  Header fields are the first part's, and
\* a header that announces no parts leaves no text.
IdOf(body) ==
  LET m == body[1][1] IN
    [stamp  |-> Stamp[m], sender |-> Sender[m], port |-> Port[m],
     text   |-> IF Single(m) THEN <<Text[body[1]]>>
                ELSE [i \in 1..Segments[m] |-> Text[body[i]]],
     concat |-> IF Single(m) THEN <<>> ELSE <<Width[m], Ref[m]>>]

TypeOf(body) == IF Ported(body[1][1]) THEN "DATA_SMS" ELSE "SMS"

Ready == hand.stage = "idle"

Holding(body) == [stage |-> "store", body |-> body]

Resting == [stage |-> "idle", body |-> <<>>]

-----------------------------------------------------------------------------
(* assembleInbound and the groups.                                         *)

Expired(k) == clock - groups[k].firstAt >= Window

\* Mutant: a group is still alive at the end of its window.
Swept_Bug == [k \in {k \in DOMAIN groups : clock - groups[k].firstAt <= Window} |-> groups[k]]

\* Mutant: a group goes one unit before its window ends.
SweptEarly_Bug == [k \in {k \in DOMAIN groups : clock - groups[k].firstAt < Window - 1} |-> groups[k]]

\* sweepInbound, the groups' part.
Swept == [k \in {k \in DOMAIN groups : ~Expired(k)} |-> groups[k]]

FullOf(g) == Cardinality(DOMAIN g) >= MaxGroups

\* Mutant: any group may make room.
OldestIn_Bug(g) == DOMAIN g

\* evictOldestInboundGroup: the map's order decides among equals.
OldestIn(g) == {k \in DOMAIN g : \A j \in DOMAIN g : g[k].firstAt <= g[j].firstAt}

\* newInboundGroup: the groups that are left when a new one is made.
WithRoom ==
  IF ~FullOf(groups) THEN {groups}
  ELSE IF ~FullOf(Swept) THEN {Swept}
  ELSE {Without(Swept, k) : k \in OldestIn(Swept)}

Joins(m) == KeyOf(m) \in DOMAIN groups /\ groups[KeyOf(m)].segments = Segments[m]

\* The first part is looked up also when none is announced.
Needed(n) == IF n = 0 THEN 1 ELSE n

\* All sequence numbers are there; a header may announce others as well.
Whole(g) == \A i \in 1..Needed(g.segments) : i \in DOMAIN g.parts

BodyOf(g) == [i \in 1..Needed(g.segments) |-> IF i \in DOMAIN g.parts THEN g.parts[i] ELSE <<>>]

\* Mutant: the group of a complete message stays.
Completed_Bug(g, k, new) == With(g, k, new)

Completed(g, k, new) == Without(g, k)

\* The part enters the group that is at key k of g, or a new one.
Enter(p, g, group) ==
  LET k   == KeyOf(p[1])
      new == [group EXCEPT !.parts = With(group.parts, p[2], p)]
  IN IF Whole(new)
     THEN /\ groups' = Completed(g, k, new)
          /\ hand' = Holding(BodyOf(new))
          /\ used' = used \cup {new.parts[i] : i \in DOMAIN new.parts}
     ELSE /\ groups' = With(g, k, new)
          /\ used' = used \ {p}
          /\ UNCHANGED hand

NewGroup(m) == [segments |-> Segments[m], firstAt |-> clock, parts |-> [i \in {} |-> <<>>]]

TakeSingle(p) ==
  /\ Ready /\ Single(p[1])
  /\ hand' = Holding(<<p>>)
  /\ UNCHANGED <<clock, groups, rows, used, owed, marks>>

TakeKnown(p) ==
  /\ Ready /\ ~Single(p[1]) /\ Joins(p[1])
  /\ Enter(p, groups, groups[KeyOf(p[1])])
  /\ UNCHANGED <<clock, rows, owed, marks>>

\* A new group, also in the place of one of another size; when the groups are
\* full the marks are swept with them.
TakeNew(p) ==
  /\ Ready /\ ~Single(p[1]) /\ ~Joins(p[1])
  /\ \E g \in WithRoom : Enter(p, g, NewGroup(p[1]))
  /\ IF FullOf(groups) THEN SweepMarks ELSE UNCHANGED marks
  /\ UNCHANGED <<clock, rows, owed>>

-----------------------------------------------------------------------------
(* emitInbound.                                                            *)

RowSet == {rows[i] : i \in DOMAIN rows}

RowIds == {rows[i].id : i \in DOMAIN rows}

Row(body) == [id |-> IdOf(body), at |-> ReceivedAt(body[1][1]), type |-> TypeOf(body)]

\* ON CONFLICT DO NOTHING: the first row of a message stays.
Insert(row) == rows' = IF row.id \in RowIds THEN rows ELSE Append(rows, row)

Persist ==
  /\ hand.stage = "store"
  /\ Insert(Row(hand.body))
  /\ hand' = [hand EXCEPT !.stage = "offer"]
  /\ UNCHANGED <<clock, groups, used, owed, marks>>

\* A failed or timed out insert does not stop the emission.
PersistFails ==
  /\ hand.stage = "store"
  /\ hand' = [hand EXCEPT !.stage = "offer unstored"]
  /\ UNCHANGED <<clock, groups, rows, used, owed, marks>>

MayOffer == hand.stage \in {"offer", "offer unstored"}

\* Mutant: the test on the marks is the wrong way round.
Offered_Bug(id, registered) == registered \cap Served(id)

Offered(id, registered) == registered \ Served(id)

\* Some of the webhooks registered now take the message, and are marked.  That
\* their selection fails is the case of none.
Emit ==
  /\ MayOffer
  /\ \E registered \in SUBSET Webhooks :
       LET id == IdOf(hand.body) tried == Offered(id, registered) IN
         \E ok \in SUBSET tried :
           /\ Emission(id, registered, tried, ok)
           /\ owed' = IF ok = {} \/ hand.stage = "offer unstored" THEN owed
                      ELSE owed \cup {id}
  /\ hand' = Resting
  /\ UNCHANGED <<clock, groups, rows, used>>

-----------------------------------------------------------------------------
(* The tickers of Run, time and restarts.                                  *)

\* sweepInbound.
Sweep ==
  /\ Ready
  /\ groups' = Swept
  /\ SweepMarks
  /\ UNCHANGED <<clock, hand, rows, used, owed>>

\* Mutant: a row is dropped at the cutoff.
Kept_Bug(row) == row.at > clock - Retention

Kept(row) == row.at >= clock - Retention

\* The rows that stay.
Fresh == {row \in RowSet : Kept(row)}

\* Retention as it is promised: nothing younger may go.
TooOld == {i \in DOMAIN rows : clock > rows[i].at + Retention}

\* cleanupInbox, when the delete succeeds.
Cleanup ==
  /\ Ready
  /\ rows' = Only(rows, Fresh)
  /\ owed' = owed \ {rows[i].id : i \in TooOld}
  /\ UNCHANGED <<clock, groups, hand, used, marks>>

Tick ==
  /\ Ready /\ clock < MaxClock
  /\ clock' = clock + 1
  /\ AgeMarks
  /\ UNCHANGED <<groups, hand, rows, used, owed>>

\* The process ends anywhere, or Run stops and abortInbound drops the groups;
\* the rows stay.
Restart ==
  /\ groups' = [k \in {} |-> 0]
  /\ hand' = Resting
  /\ ForgetMarks
  /\ used' = {}
  /\ UNCHANGED <<clock, rows, owed>>

Init ==
  /\ clock = 0
  /\ groups = [k \in {} |-> 0]
  /\ hand = Resting
  /\ rows = <<>>
  /\ used = {}
  /\ owed = {}
  /\ NoMarks

Next ==
  \/ \E p \in Parts : TakeSingle(p) \/ TakeKnown(p) \/ TakeNew(p)
  \/ Persist \/ PersistFails \/ Emit
  \/ Sweep \/ Cleanup \/ Tick \/ Restart

Spec == Init /\ [][Next]_vars

\* handleInboundPart runs to its end once begun; select picks a ready ticker
\* again and again, however many parts wait.
Fairness ==
  /\ WF_vars(Persist \/ PersistFails) /\ WF_vars(Emit)
  /\ SF_vars(Sweep)

FairSpec == Spec /\ Fairness

-----------------------------------------------------------------------------
(* List and Refresh, asked at any time: they read rows and change nothing  *)
(* here.  A replayed row is queued for every webhook whatever the marks    *)
(* say, and is not marked.                                                 *)

\* A filter names types, a half-open range of time and perhaps a device.
Invalid(f) ==
  \/ f.device \notin {"", "local"}
  \/ f.from # NoTime /\ f.to # NoTime /\ f.from > f.to

\* Mutant: the upper bound is inclusive.
Matches_Bug(row, f) ==
  /\ f.types = {} \/ row.type \in f.types
  /\ f.from = NoTime \/ row.at >= f.from
  /\ f.to = NoTime \/ row.at <= f.to

\* ListFilter.apply: no types, every type.
Matches(row, f) ==
  /\ f.types = {} \/ row.type \in f.types
  /\ f.from = NoTime \/ row.at >= f.from
  /\ f.to = NoTime \/ row.at < f.to

Matching(f) == {i \in DOMAIN rows : Matches(rows[i], f)}

\* The rowid breaks ties.
Earlier(i, j) == rows[i].at < rows[j].at \/ (rows[i].at = rows[j].at /\ i < j)

RowsAt(indices) == [i \in DOMAIN indices |-> rows[indices[i]]]

\* The nth has n - 1 before it.
OldestFirst(S) ==
  [n \in 1..Cardinality(S) |->
     CHOOSE i \in S : Cardinality({j \in S : Earlier(j, i)}) = n - 1]

NewestFirst(S) ==
  [n \in 1..Cardinality(S) |->
     CHOOSE i \in S : Cardinality({j \in S : Earlier(i, j)}) = n - 1]

Ascending(f) == RowsAt(OldestFirst(Matching(f)))

Descending(f) == RowsAt(NewestFirst(Matching(f)))

\* The handlers always give a limit.
Page(s, limit, offset) ==
  SubSeq(s, offset + 1, IF offset + limit < Len(s) THEN offset + limit ELSE Len(s))

\* Service.List, newest first; an invalid filter is refused.
Listing(f, limit, offset) ==
  IF Invalid(f) THEN [rows |-> <<>>, total |-> 0]
  ELSE [rows |-> Page(Descending(f), limit, offset), total |-> Len(Descending(f))]

\* Service.Refresh: the rows replayed as events, in order.
Replay(f, delivery) ==
  IF Invalid(f) \/ delivery # "Individual" THEN <<>>
  ELSE Ascending([f EXCEPT !.types = IF @ = {} THEN {"SMS"} ELSE @])

-----------------------------------------------------------------------------
(* Properties.                                                             *)

Keys == {KeyOf(m) : m \in Msgs}

InboxType ==
  /\ clock \in 0..MaxClock
  /\ DOMAIN groups \subseteq Keys /\ Cardinality(DOMAIN groups) <= MaxGroups
  /\ \A k \in DOMAIN groups :
       /\ groups[k].firstAt \in 0..clock
       /\ \A i \in DOMAIN groups[k].parts : groups[k].parts[i] \in Parts
  /\ hand.stage \in {"idle", "store", "offer", "offer unstored"}
  /\ used \subseteq Parts
  /\ MarksType

\* service.go:337-352, types.go:42-49: an emitted message is never partial,
\* and all its parts announce the same sender, reference, width and size.
\* (They may still be of two messages: the reference is the sender's choice.
\* A header that announces no parts makes its first part a message.)
IsWhole(b) ==
  /\ \A i \in DOMAIN b : b[i] \in Parts
  /\ \A i, j \in DOMAIN b :
       LET m == b[i][1] n == b[j][1] IN
         <<Sender[m], Width[m], Ref[m], Segments[m]>> =
           <<Sender[n], Width[n], Ref[n], Segments[n]>>
  /\ b # <<>> =>
       IF Single(b[1][1]) THEN Len(b) = 1
       ELSE Len(b) = Needed(Segments[b[1][1]]) /\ \A i \in DOMAIN b : b[i][2] = i

WholeBodies == IsWhole(hand.body)

\* service.go:330-352: what is buffered was handed off after it last went into
\* a message, so one hand-off never serves two messages.
BufferedIsUnused ==
  \A k \in DOMAIN groups : {groups[k].parts[i] : i \in DOMAIN groups[k].parts} \cap used = {}

\* service.go:330-352: a group whose parts are all there does not wait, though
\* parts come in any order, with numbers beyond its size and more than once.
Incomplete == \A k \in DOMAIN groups : ~Whole(groups[k])

\* service.go:330-352: a group holds hand-offs that are still to be used, and
\* never all of them.
GroupsAreOpen == BufferedIsUnused /\ Incomplete

\* service.go:315-327, 352, 365-398: until the process ends, a buffered part
\* stays where it is, perhaps overwritten by a repetition of its number,
\* unless its message is completed, its window is over, its reference is used
\* again with another size, or MaxGroups younger-or-equal groups are alive and
\* no other one goes for them.
Stays(k, i) ==
  /\ k \in DOMAIN groups' /\ i \in DOMAIN groups'[k].parts
  /\ groups'[k].firstAt = groups[k].firstAt

Completes(k) == hand'.body # <<>> /\ hand'.body # hand.body /\ KeyOf(hand'.body[1][1]) = k

Resized(k) == k \in DOMAIN groups' /\ groups'[k].segments # groups[k].segments

Crowded(k) ==
  /\ FullOf(groups)
  /\ \A j \in DOMAIN groups : ~Expired(j) /\ groups[k].firstAt <= groups[j].firstAt
  /\ \A j \in DOMAIN groups \ DOMAIN groups' : j = k \/ Completes(j)

PartsLeaveForReason ==
  [][\/ Restart
     \/ \A k \in DOMAIN groups : \A i \in DOMAIN groups[k].parts :
          Stays(k, i) \/ Completes(k) \/ Expired(k) \/ Resized(k) \/ Crowded(k)]_vars

\* service.go:400-412: groups whose window is over do not stay, however many
\* parts keep coming.
ExpiredGroupsLeave ==
  (\E k \in DOMAIN groups : Expired(k)) ~> (\A k \in DOMAIN groups : ~Expired(k))

\* service.go:458-460, repository.go:35-40 and :96-111: a message a webhook took
\* is stored, in one row however often it is received, until it is older than
\* Retention, unless its insert failed.
AnnouncedIsStored ==
  \A id \in owed : Cardinality({i \in DOMAIN rows : rows[i].id = id}) = 1

\* Filters of the two properties below.  They are evaluated between messages:
\* every table met while one is in hand is also met when it is done.
Filters(types) ==
  [device : {""}, types : types, from : {NoTime, 1}, to : {NoTime, 1}]

InRange(row, f) ==
  (f.from = NoTime \/ f.from <= row.at) /\ (f.to = NoTime \/ ~(f.to <= row.at))

\* domain.go:61-116, repository.go:68-87: the pages of a listing hold every
\* matching row once, newest first, and each page tells how many there are.
Paged(f, limit) ==
  LET total == Listing(f, limit, 0).total
      walk  == [i \in 1..total |->
                  Listing(f, limit, limit * ((i - 1) \div limit)).rows[((i - 1) % limit) + 1]]
  IN /\ {walk[i] : i \in 1..total} =
          {r \in RowSet :
             (f.types = {} \/ r.type \in f.types) /\ InRange(r, f)}
     /\ \A i, j \in 1..total : i < j => walk[i] # walk[j] /\ walk[i].at >= walk[j].at
     /\ Listing(f, limit, total).rows = <<>>

PagesCoverListing ==
  Ready => \A f \in Filters({{}, {"SMS"}}) : Paged(f, 1)

\* service.go:172-196: a replay sends the rows of its window in the opposite
\* order of the listing, and data messages only when they are asked for.
Mirrored(f) ==
  LET sent == Replay(f, "Individual")
      all  == Listing(f, Len(rows) + 1, 0).rows
      seen == IF f.types = {} THEN Only(all, {r \in RowSet : r.type = "SMS"}) ELSE all
  IN sent = [i \in 1..Len(seen) |-> seen[Len(seen) + 1 - i]]

RefreshMirrorsListing ==
  Ready => \A f \in Filters({{}, {"SMS"}, {"SMS", "DATA_SMS"}}) : Mirrored(f)

\* service.go:146-273: listing and replay read one table alike.
ListingsAgree == PagesCoverListing /\ RefreshMirrorsListing

\* service.go:453-529: the marks are used as EmissionMarks says.  Of the webhooks
\* registered at an emission those that hold the message are passed over and
\* all others are offered it, and only those that take it are marked, whatever
\* restarts, failed inserts and repetitions come between.
ImplementsMarks == MarksSpec
=============================================================================
