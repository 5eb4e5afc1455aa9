--------------------------- MODULE EmissionMarks ---------------------------
(***************************************************************************)
(* The marks of the inbox (internal/inbox/dedupe.go): which webhooks hold  *)
(* a queue item for a received message, remembered for TTL and for at most *)
(* Capacity messages, so that a message the modem announces again is only  *)
(* queued for the webhooks that do not hold it.                            *)
(*                                                                         *)
(* Time stamps are ages, counted up to where the code no longer tells them *)
(* apart.  One emission marks all its webhooks with one reading of the     *)
(* clock, so its marks are one step.                                       *)
(***************************************************************************)
EXTENDS Integers, Sequences, FiniteSets

CONSTANTS
  Ids,       \* message identities
  Webhooks,  \* webhooks registered for inbound events
  Capacity,  \* inboundDedupeCapacity (1024)
  TTL        \* inboundDedupeTTL, in clock units

ASSUME MarksAssumption == Capacity \in Nat \ {0} /\ TTL \in Nat \ {0}

VARIABLES
  entries,  \* message id -> webhooks that hold an item, and time since seenAt
  order,    \* the ids in the order their entries were made
  held,     \* time since a webhook last took a message, Never after a refusal
  crowd,    \* the ids behind a message when a webhook took it, and those since
  missed    \* messages and webhooks passed over without holding the message

marks == <<entries, order, held, crowd, missed>>

Pairs == Ids \X Webhooks
Never == TTL + 1

Entry == [webhooks : SUBSET Webhooks, age : 0..TTL]

\* One more unit; beyond the limit no code tells ages apart.
Older(age, limit) == IF age < limit THEN age + 1 ELSE age

Without(f, k) == [x \in DOMAIN f \ {k} |-> f[x]]

With(f, k, v) == [x \in DOMAIN f \cup {k} |-> IF x = k THEN v ELSE f[x]]

\* The elements of s that are in S, in their order.
Only(s, S) ==
  LET F[i \in 0..Len(s)] == IF i = 0 THEN <<>>
                            ELSE IF s[i] \in S THEN Append(F[i - 1], s[i]) ELSE F[i - 1]
  IN  F[Len(s)]

-----------------------------------------------------------------------------
(* served, mark, evictOldest, sweep.                                       *)

\* An expired entry serves nothing.
Served(id) ==
  IF id \in DOMAIN entries /\ entries[id].age < TTL THEN entries[id].webhooks ELSE {}

\* Mutant: mark keeps the webhooks of an expired entry.
MarkedBefore_Bug(id) == IF id \in DOMAIN entries THEN entries[id].webhooks ELSE {}

\* The entry mark starts from: an expired one loses its webhooks.
MarkedBefore(id) ==
  IF id \in DOMAIN entries /\ entries[id].age < TTL THEN entries[id].webhooks ELSE {}

\* Mutant: the youngest goes.
Oldest_Bug == Len(order)

\* evictOldest: the first id of order that still has an entry, and all before.
Oldest == CHOOSE i \in DOMAIN order :
            /\ order[i] \in DOMAIN entries
            /\ \A j \in 1..(i - 1) : order[j] \notin DOMAIN entries

Full == Cardinality(DOMAIN entries) >= Capacity

\* The ids whose entries were made after that of id, and still are there.
Behind(id) == {order[j] : j \in {j \in DOMAIN order : \E i \in 1..(j - 1) : order[i] = id}}

\* mark of the webhooks in ok: a known id keeps its place in order, a new one
\* may push the oldest out.
MarkKnown(id, ok) ==
  /\ id \in DOMAIN entries
  /\ entries' = With(entries, id, [webhooks |-> MarkedBefore(id) \cup ok, age |-> 0])
  /\ crowd' = [p \in Pairs |-> IF p \in {id} \X ok THEN Behind(id) ELSE crowd[p]]
  /\ UNCHANGED order

MarkNew(id, ok) ==
  /\ id \notin DOMAIN entries
  /\ entries' = With(IF Full THEN Without(entries, order[Oldest]) ELSE entries,
                     id, [webhooks |-> ok, age |-> 0])
  /\ order' = Append(IF Full THEN SubSeq(order, Oldest + 1, Len(order)) ELSE order, id)
  /\ crowd' = [p \in Pairs |-> IF p \in {id} \X ok THEN {} ELSE crowd[p] \cup ({id} \ {p[1]})]

\* emitTracked and the marks of its results: of the registered webhooks those
\* in tried are offered the message; ok take it, the rest of them refuse it.
Emission(id, registered, tried, ok) ==
  /\ missed' = missed \cup {p \in {id} \X (registered \ tried) : held[p] = Never}
  /\ held' = [p \in Pairs |-> IF p \in {id} \X ok THEN 0
                              ELSE IF p \in {id} \X tried THEN Never ELSE held[p]]
  /\ IF ok = {} THEN UNCHANGED <<entries, order, crowd>>
     ELSE MarkKnown(id, ok) \/ MarkNew(id, ok)

\* sweep forgets the expired entries.
Unexpired == {id \in DOMAIN entries : entries[id].age < TTL}

SweepMarks ==
  /\ entries' = [id \in Unexpired |-> entries[id]]
  /\ order' = Only(order, Unexpired)
  /\ UNCHANGED <<held, crowd, missed>>

AgeMarks ==
  /\ entries' = [id \in DOMAIN entries |->
                   [entries[id] EXCEPT !.age = Older(entries[id].age, TTL)]]
  /\ held' = [p \in Pairs |-> IF held[p] = Never THEN Never ELSE Older(held[p], TTL)]
  /\ UNCHANGED <<order, crowd, missed>>

\* newInboundDeduper: the marks live in the process.
NoMarks ==
  /\ entries = [id \in {} |-> 0]
  /\ order = <<>>
  /\ held = [p \in Pairs |-> Never]
  /\ crowd = [p \in Pairs |-> {}]
  /\ missed = {}

ForgetMarks ==
  /\ entries' = [id \in {} |-> 0]
  /\ order' = <<>>
  /\ held' = [p \in Pairs |-> Never]
  /\ crowd' = [p \in Pairs |-> {}]
  /\ UNCHANGED missed

\* A message is offered to the webhooks registered now that do not hold it.
MarksNext ==
  \/ \E id \in Ids : \E registered \in SUBSET Webhooks :
       LET tried == registered \ Served(id) IN
         \E ok \in SUBSET tried : Emission(id, registered, tried, ok)
  \/ SweepMarks
  \/ AgeMarks
  \/ ForgetMarks

MarksSpec == NoMarks /\ [][MarksNext]_marks

-----------------------------------------------------------------------------
(* Properties.                                                             *)

MarksType ==
  /\ DOMAIN entries \subseteq Ids
  /\ entries \in [DOMAIN entries -> Entry]
  /\ order \in Seq(Ids)
  /\ held \in [Pairs -> 0..Never]
  /\ crowd \in [Pairs -> SUBSET Ids]
  /\ missed \subseteq Pairs

\* dedupe.go:57-59 and :64-67: a webhook is marked only when it took the
\* message the last time it was offered; a refusal is not hidden by marks of an
\* earlier period, though another webhook's mark makes the entry young again.
ServedHoldsItem ==
  \A id \in Ids : \A w \in Served(id) : held[<<id, w>>] # Never

\* service.go:453-456 and :462-463: no registered webhook was ever passed over
\* while it did not hold the message: neither one that refused it, whatever
\* others took it and however often entries expired, were revived or evicted,
\* nor one registered since.
NobodyIsMissed == missed = {}

\* dedupe.go:62-69 and :103-112: a webhook that took a message is passed over
\* for TTL, unless Capacity messages came behind it.  They are counted from
\* the message's place in order, which an expired entry used again keeps: such
\* a message may be pushed out by the very next one.
HeldIsRemembered ==
  \A id \in Ids, w \in Webhooks :
    held[<<id, w>>] < TTL => w \in Served(id) \/ Cardinality(crowd[<<id, w>>]) >= Capacity

\* order lists exactly the ids with an entry, each once; there are never more
\* than Capacity.
OrderMatchesEntries ==
  /\ {order[i] : i \in DOMAIN order} = DOMAIN entries
  /\ \A i, j \in DOMAIN order : order[i] = order[j] => i = j
  /\ Cardinality(DOMAIN entries) <= Capacity

=============================================================================
