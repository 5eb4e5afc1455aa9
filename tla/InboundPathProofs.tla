------------------------- MODULE InboundPathProofs --------------------------
(***************************************************************************)
(* Theorems about the whole way of an incoming SMS, for all constants of   *)
(* its two halves.  What is proved of each half carries over: a step of    *)
(* the whole is a step of either or leaves it alone.                       *)
(***************************************************************************)
EXTENDS InboundPath, InboundStoreProofs

In == INSTANCE InboxProofs

-----------------------------------------------------------------------------
(* Ib and In are the same instance of Inbox.                               *)

LEMMA InboxAssumed == In!MarksAssumption /\ In!InboxAssumption
BY PathAssumption
DEF In!MarksAssumption, In!InboxAssumption, Ib!MarksAssumption, Ib!InboxAssumption,
    In!Msgs, Ib!Msgs

LEMMA SameCardinality == \A S : Ib!Cardinality(S) = In!Cardinality(S)
BY DEF Ib!Cardinality, In!Cardinality

LEMMA SameGroups ==
  /\ \A m : Ib!KeyOf(m) = In!KeyOf(m)
  /\ \A m : Ib!Joins(m) <=> In!Joins(m)
  /\ \A k : /\ Ib!Expired(k) <=> In!Expired(k)
            /\ Ib!Crowded(k) <=> In!Crowded(k)
            /\ Ib!Completes(k) <=> In!Completes(k)
            /\ Ib!Resized(k) <=> In!Resized(k)
<1>1. /\ \A m : Ib!KeyOf(m) = In!KeyOf(m)
      /\ \A m : Ib!Joins(m) <=> In!Joins(m)
  BY DEF Ib!KeyOf, In!KeyOf, Ib!Joins, In!Joins
<1>2. \A k : /\ Ib!Expired(k) <=> In!Expired(k)
             /\ Ib!Completes(k) <=> In!Completes(k)
             /\ Ib!Resized(k) <=> In!Resized(k)
  BY DEF Ib!Expired, In!Expired, Ib!Completes, In!Completes, Ib!KeyOf, In!KeyOf,
         Ib!Resized, In!Resized
<1>3. \A k : Ib!Crowded(k) <=> In!Crowded(k)
  BY SameCardinality
  DEF Ib!Crowded, In!Crowded, Ib!FullOf, In!FullOf, Ib!Expired, In!Expired,
      Ib!Completes, In!Completes, Ib!KeyOf, In!KeyOf
<1>. QED  BY <1>1, <1>2, <1>3

LEMMA SameTakes ==
  ASSUME NEW p
  PROVE  /\ Ib!TakeSingle(p) <=> In!TakeSingle(p)
         /\ Ib!TakeKnown(p) <=> In!TakeKnown(p)
         /\ Ib!TakeNew(p) <=> In!TakeNew(p)
<1>1. Ib!TakeSingle(p) <=> In!TakeSingle(p)
  BY DEF Ib!TakeSingle, In!TakeSingle, Ib!Ready, In!Ready, Ib!Single, In!Single, Ib!Holding, In!Holding,
         Ib!marks, In!marks
<1>2. Ib!TakeKnown(p) <=> In!TakeKnown(p)
  BY DEF Ib!TakeKnown, In!TakeKnown, Ib!Single, In!Single, Ib!Ready, In!Ready, Ib!Joins, In!Joins, Ib!KeyOf, In!KeyOf,
         Ib!Enter, In!Enter, Ib!With, In!With, Ib!Without, In!Without, Ib!Whole, In!Whole, Ib!Needed, In!Needed,
         Ib!Completed, In!Completed, Ib!Holding, In!Holding, Ib!BodyOf, In!BodyOf, Ib!marks, In!marks
<1>3. Ib!TakeNew(p) <=> In!TakeNew(p)
  BY SameCardinality
  DEF Ib!TakeNew, In!TakeNew, Ib!Single, In!Single, Ib!Ready, In!Ready, Ib!Joins, In!Joins, Ib!KeyOf, In!KeyOf,
      Ib!WithRoom, In!WithRoom, Ib!FullOf, In!FullOf, Ib!Swept, In!Swept, Ib!Expired, In!Expired,
      Ib!OldestIn, In!OldestIn, Ib!Without, In!Without, Ib!NewGroup, In!NewGroup,
      Ib!Enter, In!Enter, Ib!With, In!With, Ib!Whole, In!Whole, Ib!Needed, In!Needed,
      Ib!Completed, In!Completed, Ib!Holding, In!Holding, Ib!BodyOf, In!BodyOf, Ib!marks, In!marks,
      Ib!SweepMarks, In!SweepMarks, Ib!Only, In!Only, Ib!Unexpired, In!Unexpired
<1>. QED  BY <1>1, <1>2, <1>3

LEMMA SameEmit == Ib!Emit <=> In!Emit
<1>1. \A id : Ib!Served(id) = In!Served(id) /\ Ib!MarkedBefore(id) = In!MarkedBefore(id)
  BY DEF Ib!Served, In!Served, Ib!MarkedBefore, In!MarkedBefore
<1>2. \A id, tried : Ib!Offered(id, tried) = In!Offered(id, tried)
  BY DEF Ib!Offered, In!Offered, Ib!Served, In!Served
<1>3. Ib!Oldest = In!Oldest /\ Ib!Pairs = In!Pairs /\ Ib!Never = In!Never
  BY DEF Ib!Oldest, In!Oldest, Ib!Pairs, In!Pairs, Ib!Never, In!Never
<1>4. Ib!Full <=> In!Full
  BY SameCardinality DEF Ib!Full, In!Full
<1>5. \A id, ok : Ib!MarkKnown(id, ok) <=> In!MarkKnown(id, ok)
  BY DEF Ib!MarkKnown, In!MarkKnown, Ib!With, In!With, Ib!MarkedBefore, In!MarkedBefore,
         Ib!Behind, In!Behind, Ib!Pairs, In!Pairs
<1>6. \A id, ok : Ib!MarkNew(id, ok) <=> In!MarkNew(id, ok)
  <2>1. /\ \A g, k : Ib!Without(g, k) = In!Without(g, k)
        /\ \A g, k, v : Ib!With(g, k, v) = In!With(g, k, v)
    BY DEF Ib!With, In!With, Ib!Without, In!Without
  <2>2. /\ (IF Ib!Full THEN Ib!Without(entries, order[Ib!Oldest]) ELSE entries)
             = (IF In!Full THEN In!Without(entries, order[In!Oldest]) ELSE entries)
        /\ (IF Ib!Full THEN SubSeq(order, Ib!Oldest + 1, Len(order)) ELSE order)
             = (IF In!Full THEN SubSeq(order, In!Oldest + 1, Len(order)) ELSE order)
    BY ONLY <1>3, <1>4, <2>1
  <2>3. ASSUME NEW id, NEW ok  PROVE Ib!MarkNew(id, ok) <=> In!MarkNew(id, ok)
    BY ONLY <1>3, <2>1, <2>2 DEF Ib!MarkNew, In!MarkNew
  <2>. QED  BY <2>3
<1>7. \A id, registered, tried, ok :
        Ib!Emission(id, registered, tried, ok) <=> In!Emission(id, registered, tried, ok)
  BY <1>5, <1>6 DEF Ib!Emission, In!Emission, Ib!Pairs, In!Pairs, Ib!Never, In!Never
<1>8. \A b : Ib!IdOf(b) = In!IdOf(b)
  BY DEF Ib!IdOf, In!IdOf, Ib!Single, In!Single
<1>. QED
  BY <1>2, <1>7, <1>8 DEF Ib!Emit, In!Emit, Ib!MayOffer, In!MayOffer, Ib!Resting, In!Resting

LEMMA SameRest ==
  /\ Ib!Init <=> In!Init
  /\ Ib!Persist <=> In!Persist
  /\ Ib!PersistFails <=> In!PersistFails
  /\ Ib!Sweep <=> In!Sweep
  /\ Ib!Cleanup <=> In!Cleanup
  /\ Ib!Tick <=> In!Tick
  /\ Ib!Restart <=> In!Restart
<1>1. Ib!Init <=> In!Init
  BY DEF Ib!Init, In!Init, Ib!Resting, In!Resting, Ib!NoMarks, In!NoMarks, Ib!Pairs, In!Pairs,
         Ib!Never, In!Never
<1>2. Ib!Persist <=> In!Persist
  BY DEF Ib!Persist, In!Persist, Ib!Insert, In!Insert, Ib!Row, In!Row, Ib!RowIds, In!RowIds,
         Ib!IdOf, In!IdOf, Ib!Single, In!Single, Ib!ReceivedAt, In!ReceivedAt, Ib!TypeOf, In!TypeOf, Ib!Ported, In!Ported,
         Ib!marks, In!marks
<1>3. Ib!PersistFails <=> In!PersistFails
  BY DEF Ib!PersistFails, In!PersistFails, Ib!marks, In!marks
<1>4. Ib!Sweep <=> In!Sweep
  BY DEF Ib!Sweep, In!Sweep, Ib!Ready, In!Ready, Ib!Swept, In!Swept, Ib!Expired, In!Expired,
         Ib!SweepMarks, In!SweepMarks, Ib!Only, In!Only, Ib!Unexpired, In!Unexpired
<1>5. Ib!Cleanup <=> In!Cleanup
  BY DEF Ib!Cleanup, In!Cleanup, Ib!Ready, In!Ready, Ib!Only, In!Only, Ib!Fresh, In!Fresh,
         Ib!Kept, In!Kept, Ib!RowSet, In!RowSet, Ib!TooOld, In!TooOld, Ib!marks, In!marks
<1>6. Ib!Tick <=> In!Tick
  BY DEF Ib!Tick, In!Tick, Ib!Ready, In!Ready, Ib!AgeMarks, In!AgeMarks, Ib!Older, In!Older,
         Ib!Pairs, In!Pairs, Ib!Never, In!Never
<1>7. Ib!Restart <=> In!Restart
  BY DEF Ib!Restart, In!Restart, Ib!Resting, In!Resting, Ib!ForgetMarks, In!ForgetMarks,
         Ib!Pairs, In!Pairs, Ib!Never, In!Never
<1>. QED  BY <1>1, <1>2, <1>3, <1>4, <1>5, <1>6, <1>7

-----------------------------------------------------------------------------
(* Copies in the channel.                                                  *)

Places(s, m) == {i \in DOMAIN s : s[i] = m}

LEMMA PlacesFinite ==
  ASSUME NEW s \in Seq(Messages), NEW m
  PROVE  IsFiniteSet(Places(s, m)) /\ Cardinality(Places(s, m)) \in Nat
<1>1. Places(s, m) \in SUBSET (1..Len(s)) /\ Len(s) \in Nat
  BY DEF Places
<1>2. IsFiniteSet(1..Len(s))
  BY <1>1, FS_Interval
<1>3. IsFiniteSet(Places(s, m))
  BY <1>1, <1>2, FS_Subset
<1>. QED  BY <1>3, FS_CardinalityType

LEMMA PlacesAppend ==
  ASSUME NEW s \in Seq(Messages), NEW n \in Messages, NEW m
  PROVE  Cardinality(Places(Append(s, n), m)) =
           IF m = n THEN Cardinality(Places(s, m)) + 1 ELSE Cardinality(Places(s, m))
<1>1. /\ Len(s) \in Nat /\ DOMAIN s = 1..Len(s) /\ DOMAIN Append(s, n) = 1..Len(s) + 1
      /\ \A i \in 1..Len(s) : Append(s, n)[i] = s[i]
      /\ Append(s, n)[Len(s) + 1] = n
  OBVIOUS
<1>2. CASE m = n
  <2>1. Places(Append(s, n), m) = Places(s, m) \cup {Len(s) + 1}
    BY <1>1, <1>2 DEF Places
  <2>2. Len(s) + 1 \notin Places(s, m)
    BY <1>1 DEF Places
  <2>3. IsFiniteSet(Places(s, m))
    BY PlacesFinite
  <2>. HIDE DEF Places
  <2>4. Cardinality(Places(s, m) \cup {Len(s) + 1}) = Cardinality(Places(s, m)) + 1
    BY <2>2, <2>3, FS_AddElement
  <2>. QED  BY <1>2, <2>1, <2>4
<1>3. CASE m # n
  <2>1. Places(Append(s, n), m) = Places(s, m)
    BY <1>1, <1>3 DEF Places
  <2>. QED  BY <1>3, <2>1
<1>. QED  BY <1>2, <1>3

LEMMA PlacesTail ==
  ASSUME NEW s \in Seq(Messages), s # <<>>, NEW m
  PROVE  Cardinality(Places(Tail(s), m)) <=
           IF m = Head(s) THEN Cardinality(Places(s, m)) - 1 ELSE Cardinality(Places(s, m))
<1>. DEFINE S == Places(s, m) \ {1}
            T == Places(Tail(s), m)
            f == [i \in T |-> i + 1]
<1>1. /\ Len(s) \in Nat \ {0} /\ DOMAIN s = 1..Len(s) /\ DOMAIN Tail(s) = 1..Len(s) - 1
      /\ \A i \in 1..Len(s) - 1 : Tail(s)[i] = s[i + 1]
      /\ Head(s) = s[1]
  OBVIOUS
<1>2. IsFiniteSet(Places(s, m)) /\ Cardinality(Places(s, m)) \in Nat
  BY PlacesFinite
<1>3. /\ IsFiniteSet(S)
      /\ Cardinality(S) = IF 1 \in Places(s, m) THEN Cardinality(Places(s, m)) - 1
                          ELSE Cardinality(Places(s, m))
  BY <1>2, FS_RemoveElement
<1>4. 1 \in Places(s, m) <=> m = Head(s)
  BY <1>1 DEF Places
<1>5. f \in [T -> S] /\ \A i, j \in T : f[i] = f[j] => i = j
  <2>1. \A i \in T : i \in 1..Len(s) - 1 /\ i + 1 \in S
    BY <1>1 DEF Places
  <2>. QED  BY ONLY <1>1, <2>1
<1>6. f \in Injection(T, S)
  BY <1>5 DEF Injection, IsInjective
<1>7. Cardinality(T) <= Cardinality(S)
  BY <1>3, <1>6, FS_Injection
<1>. QED  BY <1>3, <1>4, <1>7

-----------------------------------------------------------------------------
(* What the steps do to a message on its way.                              *)

DecodableInv == \A i \in DOMAIN channel : channel[i] \in Decodable

LEMMA PartOf == \A m \in Decodable : m \in Messages /\ Part[m] \in Parts
BY PathAssumption DEF Decodable

\* The inbox's view of a message is its view of the part.
LEMMA Views ==
  /\ \A m : Buffered(m) <=> In!IsBuffered(Part[m])
  /\ \A m : InHand(m) <=> In!IsInHand(Part[m])
  /\ \A m : Buffered(m)' <=> In!IsBuffered(Part[m])'
  /\ \A m : InHand(m)' <=> In!IsInHand(Part[m])'
BY DEF Buffered, InHand, In!IsBuffered, In!IsInHand

\* The steps of InboundStore other than Consume and Crash.
StoreMoves ==
  \/ Modem \/ HandleCMTI \/ SweepStep
  \/ \E r \in Routes : Process(r)
  \/ \E ref \in Refs : SweepBudget(ref)

\* Only a hand-off changes the channel, and what was handed over with it.
LEMMA StoreEffect ==
  ASSUME Inv, StoreMoves
  PROVE  /\ UNCHANGED crashes
         /\ \/ UNCHANGED <<channel, handed>>
            \/ \E m \in Decodable : /\ channel' = Append(channel, m)
                                    /\ handed' = [handed EXCEPT ![m] = @ + 1]
<1>1. CASE Modem
  BY <1>1 DEF Modem, Arrive, ArriveUnheard, File, history
<1>2. CASE HandleCMTI
  BY <1>2 DEF HandleCMTI, history
<1>3. CASE SweepStep
  BY <1>3 DEF SweepStep, SweepStart, ListStored, ListFails, Listing, SweepEntry, history
<1>4. CASE \E ref \in Refs : SweepBudget(ref)
  BY <1>4 DEF SweepBudget, history
<1>5. ASSUME NEW r \in Routes, Process(r)
      PROVE  /\ UNCHANGED crashes
             /\ \/ UNCHANGED <<channel, handed>>
                \/ \E m \in Decodable : /\ channel' = Append(channel, m)
                                        /\ handed' = [handed EXCEPT ![m] = @ + 1]
  <2>1. CASE ReadStored(r) \/ ReadFails(r)
    BY <2>1 DEF ReadStored, ReadFails, Reading, history
  <2>2. CASE HandOff(r)
    <3>. DEFINE m == route[r].msg
    <3>1. /\ channel' = Append(channel, m) /\ handed' = [handed EXCEPT ![m] = @ + 1]
          /\ route[r].pc = "handoff" /\ UNCHANGED crashes
      BY <2>2 DEF HandOff, Offering
    <3>2. m \in Messages \cup {0} /\ m # 0 /\ m \notin Undecodable
      BY <3>1 DEF Inv, RouteOK, RouteInv, RouteRec
    <3>. QED  BY <3>1, <3>2 DEF Decodable
  <2>3. CASE Refuse(r) \/ GiveUp(r)
    BY <2>3 DEF Refuse, GiveUp, Offering
  <2>4. CASE Delete(r) \/ DeleteFails(r)
    BY <2>4 DEF Delete, DeleteFails, Deleting, history
  <2>. QED  BY <1>5, <2>1, <2>2, <2>3, <2>4 DEF Process
<1>. QED  BY <1>1, <1>2, <1>3, <1>4, <1>5 DEF StoreMoves

InboxInv == In!IbInv /\ In!Incomplete

\* The inbox takes the first message of the channel.
LEMMA TakeEffect ==
  ASSUME Inv, DecodableInv, InboxInv, Take
  PROVE  /\ InboxInv'
         /\ UNCHANGED <<handed, crashes>>
         /\ \E h \in Decodable :
              /\ channel # <<>> /\ h = Head(channel) /\ channel' = Tail(channel)
              /\ Buffered(h)' \/ InHand(h)'
              /\ \A m \in Decodable :
                   /\ ~InHand(m)
                   /\ Buffered(m)' \/ InHand(m)' => Buffered(m) \/ m = h
                   /\ ~(Buffered(m)' /\ InHand(m)')
              /\ \A m \in Decodable, k \in DOMAIN groups : \A i \in DOMAIN groups[k].parts :
                   groups[k].parts[i] = Part[m] =>
                     Buffered(m)' \/ InHand(m)' \/ In!GoesFor(Part[h], k, i)
<1>1. /\ channel # <<>> /\ channel' = Tail(channel) /\ UNCHANGED <<handed, crashes>>
      /\ Ib!TakeSingle(Taken) \/ Ib!TakeKnown(Taken) \/ Ib!TakeNew(Taken)
  BY DEF Take, Consume, history
<1>2. channel \in Seq(Messages)
  BY DEF Inv, RestOK
<1>3. 1 \in DOMAIN channel /\ Head(channel) = channel[1]
  BY <1>1, <1>2
<1>4. PICK h \in Decodable : h = Head(channel)
  BY <1>3 DEF DecodableInv
<1>5. PICK p \in Parts : p = Part[h]
  BY PartOf
<1>6. In!TakeSingle(p) \/ In!TakeKnown(p) \/ In!TakeNew(p)
  BY <1>1, <1>4, <1>5, SameTakes DEF Taken
<1>7. In!IbInv' /\ In!Incomplete' /\ In!Moves(p)
  <2>1. CASE In!TakeSingle(p)
    BY <2>1, In!TakeSingleKeeps, In!SingleMoves, InboxAssumed DEF InboxInv
  <2>2. CASE In!TakeKnown(p)
    BY <2>2, In!TakeKnownKeeps, In!KnownMoves, InboxAssumed DEF InboxInv
  <2>3. CASE In!TakeNew(p)
    BY <2>3, In!TakeNewKeeps, In!NewMoves, InboxAssumed DEF InboxInv
  <2>. QED  BY <1>6, <2>1, <2>2, <2>3
<1>8. Buffered(h)' \/ InHand(h)'
  BY <1>5, <1>7, Views DEF In!Moves
<1>9. ASSUME NEW m \in Decodable
      PROVE  /\ ~InHand(m)
             /\ Buffered(m)' \/ InHand(m)' => Buffered(m) \/ m = h
             /\ ~(Buffered(m)' /\ InHand(m)')
  <2>1. PICK q \in Parts : q = Part[m]
    BY PartOf
  <2>2. /\ ~In!IsInHand(q)
        /\ In!IsBuffered(q)' \/ In!IsInHand(q)' => In!IsBuffered(q) \/ q = p
        /\ ~(In!IsBuffered(q)' /\ In!IsInHand(q)')
    BY <1>7 DEF In!Moves
  <2>3. q = p => m = h
    BY <1>5, <2>1, PathAssumption
  <2>. QED  BY <2>1, <2>2, <2>3, Views
<1>10. ASSUME NEW m \in Decodable, NEW k \in DOMAIN groups, NEW i \in DOMAIN groups[k].parts,
              groups[k].parts[i] = Part[m]
       PROVE  Buffered(m)' \/ InHand(m)' \/ In!GoesFor(Part[h], k, i)
  <2>1. PICK q \in Parts : q = Part[m]
    BY PartOf
  <2>2. In!IsBuffered(q)' \/ In!IsInHand(q)' \/ In!GoesFor(p, k, i)
    BY <1>7, <1>10, <2>1 DEF In!Moves
  <2>. QED  BY <1>5, <2>1, <2>2, Views
<1>. QED  BY <1>1, <1>4, <1>7, <1>8, <1>9, <1>10 DEF InboxInv

LEMMA InboxEffect ==
  ASSUME InboxInv, In!Alone
  PROVE  /\ InboxInv'
         /\ \A m : (Buffered(m)' => Buffered(m)) /\ (InHand(m)' => InHand(m))
         /\ \A m : \A k \in DOMAIN groups : \A i \in DOMAIN groups[k].parts :
              groups[k].parts[i] = Part[m] => Buffered(m)' \/ In!Expired(k)
         /\ \A m : InHand(m) =>
              \/ InHand(m)' /\ hand'.stage = "store"
              \/ hand'.stage \in {"offer", "offer unstored"}
<1>0. In!IbInv /\ In!Incomplete
  BY DEF InboxInv
<1>1. [In!Next]_(In!vars)
  BY DEF In!Alone, In!Next
<1>2. In!IbInv'
  BY <1>0, <1>1, In!StepIb, InboxAssumed
<1>3. In!Incomplete'
  BY <1>0, In!OthersMove, InboxAssumed
<1>4. \A q : (In!IsBuffered(q)' => In!IsBuffered(q)) /\ (In!IsInHand(q)' => In!IsInHand(q))
  BY <1>0, In!OthersMove, InboxAssumed
<1>5. \A q : \A k \in DOMAIN groups : \A i \in DOMAIN groups[k].parts :
        groups[k].parts[i] = q => In!IsBuffered(q)' \/ In!Expired(k)
  BY <1>0, In!OthersMove, InboxAssumed
<1>6. \A q : In!IsInHand(q) =>
        \/ In!IsInHand(q)' /\ hand'.stage = "store"
        \/ hand'.stage \in {"offer", "offer unstored"}
  BY <1>0, In!OthersMove, InboxAssumed
<1>7. ASSUME NEW m
      PROVE  /\ (Buffered(m)' => Buffered(m)) /\ (InHand(m)' => InHand(m))
             /\ \A k \in DOMAIN groups : \A i \in DOMAIN groups[k].parts :
                  groups[k].parts[i] = Part[m] => Buffered(m)' \/ In!Expired(k)
             /\ InHand(m) => \/ InHand(m)' /\ hand'.stage = "store"
                             \/ hand'.stage \in {"offer", "offer unstored"}
  <2>1. PICK q : q = Part[m]
    OBVIOUS
  <2>2. /\ Buffered(m) <=> In!IsBuffered(q)
        /\ InHand(m) <=> In!IsInHand(q)
        /\ Buffered(m)' <=> In!IsBuffered(q)'
        /\ InHand(m)' <=> In!IsInHand(q)'
    BY <2>1, Views
  <2>3. ~In!IsBuffered(q)' \/ In!IsBuffered(q)
    BY ONLY <1>4
  <2>6. ~In!IsInHand(q)' \/ In!IsInHand(q)
    BY ONLY <1>4
  <2>4. \/ ~In!IsInHand(q)
        \/ In!IsInHand(q)' /\ hand'.stage = "store"
        \/ hand'.stage \in {"offer", "offer unstored"}
    BY ONLY <1>6
  <2>5. ASSUME NEW k \in DOMAIN groups, NEW i \in DOMAIN groups[k].parts,
               groups[k].parts[i] = Part[m]
        PROVE  Buffered(m)' \/ In!Expired(k)
    BY ONLY <1>5, <2>1, <2>2, <2>5
  <2>. QED  BY ONLY <2>2, <2>3, <2>6, <2>4, <2>5
<1>. QED  BY <1>2, <1>3, <1>7 DEF InboxInv

LEMMA RestartEffect ==
  ASSUME Inv, InboxInv, Restart
  PROVE  /\ InboxInv' /\ channel' = <<>> /\ crashes' # crashes /\ UNCHANGED handed
         /\ \A m : ~Buffered(m)' /\ ~InHand(m)'
<1>1. In!Restart /\ Crash
  BY SameRest DEF Restart
<1>2. In!IbInv'
  BY <1>1, In!RestartKeeps, InboxAssumed DEF InboxInv
<1>3. In!Incomplete' /\ \A q : ~In!IsBuffered(q)' /\ ~In!IsInHand(q)'
  BY <1>1, In!RestartMoves, InboxAssumed
<1>4. ASSUME NEW m  PROVE ~Buffered(m)' /\ ~InHand(m)'
  <2>1. PICK q : q = Part[m]
    OBVIOUS
  <2>. QED  BY <1>3, <2>1, Views
<1>. QED  BY <1>1, <1>2, <1>3, <1>4 DEF InboxInv, Crash, history, Inv, RestOK

-----------------------------------------------------------------------------
(* Every step is one of either component, of both, or of none.             *)

StepKinds ==
  \/ StoreMoves /\ UNCHANGED inbox /\ Observe
  \/ Take
  \/ In!Alone /\ UNCHANGED vars /\ Observe
  \/ Restart
  \/ UNCHANGED pathvars

LEMMA PathStepKinds == [PathNext]_pathvars => StepKinds
<1>. SUFFICES ASSUME [PathNext]_pathvars  PROVE StepKinds
  OBVIOUS
<1>1. CASE \/ StoreStep(Modem) \/ StoreStep(HandleCMTI) \/ StoreStep(SweepStep)
           \/ \E r \in Routes : StoreStep(Process(r))
           \/ \E ref \in Refs : StoreStep(SweepBudget(ref))
  BY <1>1 DEF StepKinds, StoreMoves, StoreStep
<1>2. CASE \/ InboxStep(Ib!Persist) \/ InboxStep(Ib!PersistFails) \/ InboxStep(Ib!Emit)
           \/ InboxStep(Ib!Sweep) \/ InboxStep(Ib!Cleanup) \/ InboxStep(Ib!Tick)
  BY <1>2, SameEmit, SameRest DEF StepKinds, In!Alone, InboxStep
<1>3. CASE Take \/ Restart \/ UNCHANGED pathvars
  BY <1>3 DEF StepKinds
<1>. QED  BY <1>1, <1>2, <1>3 DEF PathNext

LEMMA SameVars ==
  /\ UNCHANGED inbox <=> UNCHANGED In!vars
  /\ UNCHANGED inbox <=> UNCHANGED Ib!vars
BY DEF inbox, In!vars, In!marks, Ib!vars, Ib!marks

LEMMA PathStepIsStore == [PathNext]_pathvars => [Next]_vars
<1>1. StepKinds => [Next]_vars
  BY DEF StepKinds, StoreMoves, Take, Restart, Next, pathvars
<1>. QED  BY <1>1, PathStepKinds

\* What happens to the SMS on the modem's side is what InboundStore says, also
\* with the inbox behind the channel: what is proved there holds here.
THEOREM PathImplementsStore == PathSpec => Spec
<1>1. PathInit => Init
  BY DEF PathInit
<1>. QED  BY <1>1, PathStepIsStore, PTL DEF PathSpec, Spec

-----------------------------------------------------------------------------
(* The accounts of the copies.                                             *)

\* A copy that was handed over is on its way, in the table, or dropped.
Accounted ==
  \A m \in Decodable : handed[m] > 0 => InGateway(m) \/ recorded[m] > 0 \/ m \in dropped

ObservedOK == recorded \in [Messages -> Nat] /\ dropped \subseteq Decodable

PathInv == Inv /\ DecodableInv /\ InboxInv /\ ObservedOK /\ HandedOnce /\ Accounted

LEMMA ObserveEffect ==
  ASSUME ObservedOK, Observe
  PROVE  /\ ObservedOK'
         /\ \A m \in Decodable :
              /\ recorded[m] \in Nat
              /\ recorded'[m] = recorded[m] + Count(Recorded(m))
              /\ InGateway(m) => InGateway(m)' \/ recorded'[m] > 0 \/ m \in dropped'
              /\ recorded[m] > 0 => recorded'[m] > 0
              /\ m \in dropped => m \in dropped'
<1>1. Decodable \subseteq Messages
  BY DEF Decodable
<1>2. /\ recorded' \in [Messages -> Nat]
      /\ \A m \in Decodable : /\ recorded[m] \in Nat
                              /\ recorded'[m] = recorded[m] + Count(Recorded(m))
  BY <1>1 DEF Observe, ObservedOK, Count
<1>3. dropped' \subseteq Decodable /\ dropped \subseteq dropped'
  BY DEF Observe, ObservedOK
<1>4. ASSUME NEW m \in Decodable, InGateway(m), ~InGateway(m)', ~(recorded'[m] > 0)
      PROVE  m \in dropped'
  <2>1. ~Recorded(m)
    BY <1>2, <1>4 DEF Count
  <2>. QED  BY <1>4, <2>1 DEF Observe
<1>5. \A m \in Decodable : Count(Recorded(m)) \in {0, 1}
  BY DEF Count
<1>6. \A m \in Decodable : recorded[m] > 0 => recorded'[m] > 0
  BY <1>2, <1>5
<1>. QED  BY <1>2, <1>3, <1>4, <1>6 DEF ObservedOK

LEMMA AccountedStep ==
  ASSUME ObservedOK, Observe, Accounted,
         \A m \in Decodable : handed'[m] > 0 => handed[m] > 0 \/ InGateway(m)'
  PROVE  Accounted'
<1>. SUFFICES ASSUME NEW m \in Decodable, handed'[m] > 0
              PROVE  InGateway(m)' \/ recorded'[m] > 0 \/ m \in dropped'
  BY DEF Accounted, Decodable, Messages
<1>1. CASE InGateway(m)'
  BY <1>1
<1>2. CASE handed[m] > 0
  BY <1>2, ObserveEffect DEF Accounted
<1>. QED  BY <1>1, <1>2

LEMMA CopiesType ==
  ASSUME Inv, NEW m
  PROVE  Copies(m) = Cardinality(Places(channel, m)) /\ Copies(m) \in Nat
<1>1. channel \in Seq(Messages)
  BY DEF Inv, RestOK
<1>. QED  BY <1>1, PlacesFinite DEF Copies, Places

LEMMA Counts == \A B : Count(B) \in {0, 1} /\ (Count(B) = 0 <=> ~B)
BY DEF Count

LEMMA StoreStepPath ==
  ASSUME PathInv, Inv', StoreMoves, UNCHANGED inbox, Observe
  PROVE  PathInv'
<1>0. InboxInv /\ In!Alone
  BY SameVars DEF PathInv, In!Alone
<1>1. InboxInv'
  BY <1>0, InboxEffect
<1>2. /\ \A m : Buffered(m)' <=> Buffered(m)
      /\ \A m : InHand(m)' <=> InHand(m)
      /\ \A m : ~Recorded(m)
  BY DEF inbox, Buffered, InHand, Recorded
<1>3. \/ UNCHANGED <<channel, handed>>
      \/ \E n \in Decodable : /\ channel' = Append(channel, n)
                              /\ handed' = [handed EXCEPT ![n] = @ + 1]
  BY StoreEffect DEF PathInv
<1>4. channel \in Seq(Messages) /\ handed \in [Messages -> Nat] /\ Decodable \subseteq Messages
  BY DEF PathInv, Inv, RestOK, Decodable
<1>5. ObservedOK' /\ \A m \in Decodable : recorded'[m] = recorded[m] /\ recorded[m] \in Nat
  BY <1>2, ObserveEffect DEF PathInv, Count
<1>6. CASE UNCHANGED <<channel, handed>>
  <2>1. DecodableInv'
    BY <1>6 DEF PathInv, DecodableInv
  <2>2. HandedOnce'
    <3>. SUFFICES ASSUME NEW m \in Decodable
                  PROVE  recorded'[m] + Count(InHand(m)') + Count(Buffered(m)') + Copies(m)' <= handed'[m]
      BY DEF HandedOnce, Decodable, Messages, Count
    <3>1. recorded[m] + Count(InHand(m)) + Count(Buffered(m)) + Copies(m) <= handed[m]
      BY DEF PathInv, HandedOnce
    <3>2. Copies(m)' = Copies(m)
      BY <1>6 DEF Copies
    <3>3. Count(InHand(m)') = Count(InHand(m)) /\ Count(Buffered(m)') = Count(Buffered(m))
      BY <1>2 DEF Count
    <3>. QED  BY <1>5, <1>6, <3>1, <3>2, <3>3
  <2>3. Accounted'
    BY <1>6, AccountedStep DEF PathInv
  <2>. QED  BY <1>1, <1>5, <2>1, <2>2, <2>3 DEF PathInv
<1>7. ASSUME NEW n \in Decodable, channel' = Append(channel, n),
             handed' = [handed EXCEPT ![n] = @ + 1]
      PROVE  PathInv'
  <2>0. /\ DOMAIN channel = 1..Len(channel) /\ DOMAIN channel' = 1..Len(channel) + 1
        /\ Len(channel) \in Nat /\ channel'[Len(channel) + 1] = n
        /\ \A i \in 1..Len(channel) : channel'[i] = channel[i]
    BY <1>4, <1>7
  <2>1. DecodableInv'
    BY <1>7, <2>0 DEF PathInv, DecodableInv
  <2>2. HandedOnce'
    <3>. SUFFICES ASSUME NEW m \in Decodable
                  PROVE  recorded'[m] + Count(InHand(m)') + Count(Buffered(m)') + Copies(m)' <= handed'[m]
      BY DEF HandedOnce, Decodable, Messages, Count
    <3>1. recorded[m] + Count(InHand(m)) + Count(Buffered(m)) + Copies(m) <= handed[m]
      BY DEF PathInv, HandedOnce
    <3>2. Copies(m) \in Nat /\ Copies(m)' = IF m = n THEN Copies(m) + 1 ELSE Copies(m)
      <4>1. Copies(m)' = Cardinality(Places(channel', m))
        BY DEF Copies, Places
      <4>2. Copies(m) \in Nat /\ Copies(m) = Cardinality(Places(channel, m))
        BY CopiesType DEF PathInv
      <4>. QED  BY <1>4, <1>7, <4>1, <4>2, PlacesAppend
    <3>3. /\ Count(InHand(m)') = Count(InHand(m)) /\ Count(InHand(m)) \in {0, 1}
          /\ Count(Buffered(m)') = Count(Buffered(m)) /\ Count(Buffered(m)) \in {0, 1}
      BY <1>2 DEF Count
    <3>4. handed[m] \in Nat /\ handed'[m] = IF m = n THEN handed[m] + 1 ELSE handed[m]
      BY <1>4, <1>7
    <3>. QED  BY ONLY <1>5, <3>1, <3>2, <3>3, <3>4
  <2>3. \A m \in Decodable : handed'[m] > 0 => handed[m] > 0 \/ InGateway(m)'
    <3>. SUFFICES ASSUME NEW m \in Decodable, handed'[m] > 0
                  PROVE  handed[m] > 0 \/ InGateway(m)'
      OBVIOUS
    <3>1. CASE m = n
      <4>1. Waiting(m)'
        BY <2>0, <3>1 DEF Waiting
      <4>. QED  BY <4>1 DEF InGateway
    <3>2. CASE m # n
      BY <1>4, <1>7, <3>2
    <3>. QED  BY <3>1, <3>2
  <2>4. Accounted'
    BY <2>3, AccountedStep DEF PathInv
  <2>. QED  BY <1>1, <1>5, <2>1, <2>2, <2>4 DEF PathInv
<1>. QED  BY <1>3, <1>6, <1>7

LEMMA TakeStepPath ==
  ASSUME PathInv, Inv', Take
  PROVE  PathInv'
<1>0. Observe
  BY DEF Take
<1>1. InboxInv' /\ UNCHANGED handed
  BY TakeEffect DEF PathInv
<1>2. PICK h \in Decodable :
        /\ channel # <<>> /\ h = Head(channel) /\ channel' = Tail(channel)
        /\ Buffered(h)' \/ InHand(h)'
        /\ \A m \in Decodable :
             /\ ~InHand(m)
             /\ Buffered(m)' \/ InHand(m)' => Buffered(m) \/ m = h
             /\ ~(Buffered(m)' /\ InHand(m)')
  BY TakeEffect DEF PathInv
<1>3. channel \in Seq(Messages) /\ handed \in [Messages -> Nat] /\ Decodable \subseteq Messages
  BY DEF PathInv, Inv, RestOK, Decodable
<1>4. /\ ObservedOK'
      /\ \A m \in Decodable : recorded'[m] = recorded[m] /\ recorded[m] \in Nat
  BY <1>0, <1>2, ObserveEffect DEF PathInv, Count, Recorded
<1>5. DecodableInv'
  <2>1. DOMAIN channel = 1..Len(channel) /\ DOMAIN channel' = 1..Len(channel) - 1
        /\ Len(channel) \in Nat /\ \A i \in 1..Len(channel) - 1 : channel'[i] = channel[i + 1]
    BY <1>2, <1>3
  <2>. QED  BY <2>1 DEF PathInv, DecodableInv
<1>6. HandedOnce'
  <2>. SUFFICES ASSUME NEW m \in Decodable
                PROVE  recorded'[m] + Count(InHand(m)') + Count(Buffered(m)') + Copies(m)' <= handed'[m]
    BY DEF HandedOnce, Decodable, Messages, Count
  <2>1. recorded[m] + Count(InHand(m)) + Count(Buffered(m)) + Copies(m) <= handed[m]
    BY DEF PathInv, HandedOnce
  <2>2. /\ Copies(m) \in Nat /\ Copies(m)' \in Nat
        /\ Copies(m)' <= IF m = h THEN Copies(m) - 1 ELSE Copies(m)
    <3>1. Copies(m)' = Cardinality(Places(channel', m)) /\ channel' \in Seq(Messages)
      BY <1>2, <1>3 DEF Copies, Places
    <3>2. Copies(m)' \in Nat
      BY <3>1, PlacesFinite
    <3>. QED  BY <1>2, <1>3, <3>1, <3>2, PlacesTail, CopiesType DEF PathInv
  <2>3. Count(InHand(m)) = 0 /\ Count(Buffered(m)) \in {0, 1}
    BY <1>2 DEF Count
  <2>4. Count(InHand(m)') + Count(Buffered(m)') <= IF m = h THEN 1 ELSE Count(Buffered(m))
    <3>1. ~(Buffered(m)' /\ InHand(m)') /\ (Buffered(m)' \/ InHand(m)' => Buffered(m) \/ m = h)
      BY <1>2
    <3>. QED  BY <3>1 DEF Count
  <2>5. Count(InHand(m)') \in {0, 1} /\ Count(Buffered(m)') \in {0, 1}
    BY DEF Count
  <2>6. handed[m] \in Nat /\ handed'[m] = handed[m] /\ recorded'[m] = recorded[m] /\ recorded[m] \in Nat
    BY <1>1, <1>3, <1>4
  <2>. QED  BY ONLY <2>1, <2>2, <2>3, <2>4, <2>5, <2>6
<1>7. Accounted'
  BY <1>0, <1>1, AccountedStep DEF PathInv
<1>. QED  BY <1>1, <1>4, <1>5, <1>6, <1>7 DEF PathInv

LEMMA InboxStepPath ==
  ASSUME PathInv, Inv', In!Alone, UNCHANGED vars, Observe
  PROVE  PathInv'
<1>1. InboxInv' /\ UNCHANGED <<channel, handed>>
  BY InboxEffect DEF PathInv, vars, history
<1>2. \A m : /\ Buffered(m)' => Buffered(m)
             /\ InHand(m)' => InHand(m)
             /\ Recorded(m) => InHand(m) /\ ~InHand(m)'
  BY InboxEffect DEF PathInv, Recorded, InHand
<1>3. DecodableInv'
  BY <1>1 DEF PathInv, DecodableInv
<1>4. /\ ObservedOK'
      /\ \A m \in Decodable : recorded'[m] = recorded[m] + Count(Recorded(m)) /\ recorded[m] \in Nat
  BY ObserveEffect DEF PathInv
<1>5. HandedOnce'
  <2>. SUFFICES ASSUME NEW m \in Decodable
                PROVE  recorded'[m] + Count(InHand(m)') + Count(Buffered(m)') + Copies(m)' <= handed'[m]
    BY DEF HandedOnce, Decodable, Messages, Count
  <2>1. recorded[m] + Count(InHand(m)) + Count(Buffered(m)) + Copies(m) <= handed[m]
    BY DEF PathInv, HandedOnce
  <2>2. /\ Copies(m)' = Copies(m) /\ Copies(m) \in Nat
        /\ handed'[m] = handed[m] /\ handed[m] \in Nat
    <3>1. handed[m] \in Nat
      BY DEF PathInv, Inv, RestOK, Decodable
    <3>. QED  BY <1>1, <3>1, CopiesType DEF PathInv, Copies
  <2>3. /\ Count(Recorded(m)) + Count(InHand(m)') <= Count(InHand(m))
        /\ Count(Buffered(m)') <= Count(Buffered(m))
    BY <1>2 DEF Count
  <2>4. /\ Count(Recorded(m)) \in {0, 1} /\ Count(InHand(m)') \in {0, 1}
        /\ Count(InHand(m)) \in {0, 1}
        /\ Count(Buffered(m)') \in {0, 1} /\ Count(Buffered(m)) \in {0, 1}
    BY DEF Count
  <2>5. recorded'[m] = recorded[m] + Count(Recorded(m)) /\ recorded[m] \in Nat
    BY <1>4
  <2>. QED  BY ONLY <2>1, <2>2, <2>3, <2>4, <2>5
<1>6. Accounted'
  BY <1>1, AccountedStep DEF PathInv
<1>. QED  BY <1>1, <1>3, <1>4, <1>5, <1>6 DEF PathInv

LEMMA RestartStepPath ==
  ASSUME PathInv, Inv', Restart
  PROVE  PathInv'
<1>0. Observe
  BY DEF Restart
<1>1. /\ InboxInv' /\ channel' = <<>> /\ UNCHANGED handed
      /\ \A m : ~Buffered(m)' /\ ~InHand(m)'
  BY RestartEffect DEF PathInv
<1>2. \A m : ~Recorded(m)
  BY SameRest DEF Restart, Recorded, In!Restart, In!Resting
<1>3. ObservedOK' /\ \A m \in Decodable : recorded'[m] = recorded[m] /\ recorded[m] \in Nat
  BY <1>0, <1>2, ObserveEffect DEF PathInv, Count
<1>4. DecodableInv'
  BY <1>1 DEF DecodableInv
<1>5. HandedOnce'
  <2>. SUFFICES ASSUME NEW m \in Decodable
                PROVE  recorded'[m] + Count(InHand(m)') + Count(Buffered(m)') + Copies(m)' <= handed'[m]
    BY DEF HandedOnce, Decodable, Messages, Count
  <2>1. recorded[m] + Count(InHand(m)) + Count(Buffered(m)) + Copies(m) <= handed[m]
    BY DEF PathInv, HandedOnce
  <2>2. Copies(m) \in Nat /\ handed'[m] = handed[m] /\ handed[m] \in Nat
    <3>1. handed[m] \in Nat
      BY DEF PathInv, Inv, RestOK, Decodable
    <3>. QED  BY <1>1, <3>1, CopiesType DEF PathInv
  <2>3. Copies(m)' = 0
    <3>1. {i \in DOMAIN channel' : channel'[i] = m} = {}
      BY <1>1
    <3>. QED  BY <3>1, FS_EmptySet DEF Copies
  <2>4. /\ Count(InHand(m)') = 0 /\ Count(Buffered(m)') = 0
        /\ Count(InHand(m)) \in {0, 1} /\ Count(Buffered(m)) \in {0, 1}
    BY <1>1 DEF Count
  <2>5. recorded'[m] = recorded[m] /\ recorded[m] \in Nat
    BY <1>3
  <2>. QED  BY ONLY <2>1, <2>2, <2>3, <2>4, <2>5
<1>6. Accounted'
  BY <1>0, <1>1, AccountedStep DEF PathInv
<1>. QED  BY <1>1, <1>3, <1>4, <1>5, <1>6 DEF PathInv

LEMMA IdlePath == PathInv /\ UNCHANGED pathvars => PathInv'
<1>. SUFFICES ASSUME PathInv, UNCHANGED pathvars  PROVE PathInv'
  OBVIOUS
<1>1. UNCHANGED vars /\ UNCHANGED inbox /\ UNCHANGED <<channel, handed, recorded, dropped>>
  BY DEF pathvars, vars, history, observed
<1>2. Inv'
  BY <1>1, InvStep DEF PathInv
<1>3. InboxInv'
  <2>1. InboxInv /\ In!Alone
    BY <1>1, SameVars DEF PathInv, In!Alone
  <2>. QED  BY <2>1, InboxEffect
<1>4. \A m : /\ Buffered(m)' <=> Buffered(m)
             /\ InHand(m)' <=> InHand(m)
             /\ InGateway(m)' <=> InGateway(m)
             /\ Copies(m)' = Copies(m)
  BY <1>1 DEF inbox, Buffered, InHand, InGateway, Waiting, Copies
<1>5. HandedOnce'
  BY <1>1, <1>4 DEF PathInv, HandedOnce, Decodable, Messages, Count
<1>6. DecodableInv' /\ ObservedOK' /\ Accounted'
  BY <1>1, <1>4 DEF PathInv, DecodableInv, ObservedOK, Accounted, Decodable, Messages
<1>. QED  BY <1>2, <1>3, <1>5, <1>6 DEF PathInv

LEMMA PathInvInit == PathInit => PathInv
<1>. SUFFICES ASSUME PathInit  PROVE PathInv
  OBVIOUS
<1>1. Inv /\ channel = <<>> /\ handed = [m \in Messages |-> 0]
  BY InvInit DEF PathInit, Init
<1>2. InboxInv /\ \A q : ~In!IsBuffered(q) /\ ~In!IsInHand(q)
  BY SameRest, InboxAssumed, In!InitIb, In!InitPlaces DEF PathInit, InboxInv
<1>3. \A m : ~Buffered(m) /\ ~InHand(m)
  BY <1>2, Views
<1>4. \A m : Copies(m) = 0
  <2>1. \A m : {i \in DOMAIN channel : channel[i] = m} = {}
    BY <1>1
  <2>. QED  BY <2>1, FS_EmptySet DEF Copies
<1>5. recorded = [m \in Messages |-> 0] /\ dropped = {} /\ Decodable \subseteq Messages
  BY DEF PathInit, Decodable
<1>6. HandedOnce
  BY <1>1, <1>3, <1>4, <1>5 DEF HandedOnce, Count
<1>. QED  BY <1>1, <1>2, <1>5, <1>6 DEF PathInv, DecodableInv, ObservedOK, Accounted

LEMMA PathInvStep == PathInv /\ [PathNext]_pathvars => PathInv'
<1>. SUFFICES ASSUME PathInv, [PathNext]_pathvars  PROVE PathInv'
  OBVIOUS
<1>1. Inv'
  BY PathStepIsStore, InvStep DEF PathInv
<1>. QED
  BY <1>1, PathStepKinds, StoreStepPath, TakeStepPath, InboxStepPath, RestartStepPath, IdlePath
  DEF StepKinds

\* The two components agree on every copy: what the channel holds is decodable,
\* what is in the inbox came from it, and what was handed over is on its way,
\* in the table, or dropped.
THEOREM PathInvCorrect == PathSpec => []PathInv
BY PathInvInit, PathInvStep, PTL DEF PathSpec

\* The inbox behind the modem does only what Inbox says: what is proved there
\* of parts that come in any order, any number of times, holds here.
THEOREM PathImplementsInbox == PathSpec => Ib!Spec
<1>1. PathInit => Ib!Init
  BY DEF PathInit
<1>2. ASSUME PathInv, [PathNext]_pathvars
      PROVE  [Ib!Next]_(Ib!vars)
  <2>1. CASE Take
    <3>1. channel # <<>> /\ (Ib!TakeSingle(Taken) \/ Ib!TakeKnown(Taken) \/ Ib!TakeNew(Taken))
      BY <2>1 DEF Take, Consume
    <3>2. Head(channel) \in Decodable
      BY <1>2, <3>1 DEF PathInv, Inv, RestOK, DecodableInv
    <3>3. Taken \in Parts
      BY <3>2, PartOf DEF Taken
    <3>. QED  BY <3>1, <3>3 DEF Ib!Next
  <2>2. CASE \/ InboxStep(Ib!Persist) \/ InboxStep(Ib!PersistFails) \/ InboxStep(Ib!Emit)
             \/ InboxStep(Ib!Sweep) \/ InboxStep(Ib!Cleanup) \/ InboxStep(Ib!Tick)
    BY <2>2 DEF InboxStep, Ib!Next
  <2>3. CASE Restart
    BY <2>3 DEF Restart, Ib!Next
  <2>4. CASE UNCHANGED inbox
    BY <2>4, SameVars
  <2>. QED  BY <1>2, <2>1, <2>2, <2>3, <2>4 DEF PathNext, StoreStep, pathvars
<1>. QED  BY <1>1, <1>2, PathInvCorrect, PTL DEF PathSpec, Ib!Spec

\* One hand-off puts a part into one message: whatever is superseded, evicted,
\* repeated or restarted, a message is recorded at most once for each time the
\* modem's side handed it over (inbox/service.go:330-352).
THEOREM HandedOnceCorrect == PathSpec => []HandedOnce
<1>1. PathInv => HandedOnce
  BY DEF PathInv
<1>. QED  BY <1>1, PathInvCorrect, PTL

\* An SMS that arrived is in its slot, on its way, in the table, given up or
\* dropped, with one memory whose slots are not used again
\* (modem/service.go:870-877, inbox/service.go:286-352).
THEOREM NothingVanishesCorrect ==
  ASSUME OneMemory
  PROVE  PathSpec => []NothingVanishes
<1>1. PathInv /\ NothingLost => NothingVanishes
  BY DEF PathInv, Accounted, NothingLost, Answered, NothingVanishes, Decodable
<1>. QED  BY <1>1, PathInvCorrect, PathImplementsStore, NothingLostCorrect, PTL

\* A part goes into the table once for its +CMTI and once for a sweep; a third
\* time needs a failed command or a restart (modem/service.go:739-757).
THEOREM FewRecordedCorrect ==
  ASSUME OneMemory
  PROVE  PathSpec => []FewRecorded
<1>1. PathInv /\ CopyInv => FewRecorded
  <2>. SUFFICES ASSUME PathInv, CopyInv, NEW m \in Decodable
                PROVE  recorded[m] <= 2 + faults + crashes
    BY DEF FewRecorded
  <2>1. recorded[m] + Count(InHand(m)) + Count(Buffered(m)) + Copies(m) <= handed[m]
    BY DEF PathInv, HandedOnce
  <2>2. Count(InHand(m)) \in {0, 1} /\ Count(Buffered(m)) \in {0, 1} /\ Copies(m) \in Nat
    BY CopiesType DEF PathInv, Count
  <2>3. recorded[m] \in Nat /\ handed[m] \in Nat /\ m \in Messages
    BY DEF PathInv, ObservedOK, Inv, RestOK, Decodable
  <2>4. handed[m] <= 2 + faults + crashes
    BY <2>3, FewCopies DEF PathInv
  <2>5. faults \in Nat /\ crashes \in Nat
    <3>1. faults \in 0..MaxFaults /\ crashes \in 0..MaxCrashes
      BY DEF PathInv, Inv, RestOK
    <3>. QED  BY <3>1
  <2>. QED  BY ONLY <2>1, <2>2, <2>3, <2>4, <2>5
<1>. QED  BY <1>1, PathInvCorrect, PathImplementsStore, CopyInvCorrect, PTL

-----------------------------------------------------------------------------
(* Copies that get lost.                                                   *)

\* Why a copy of m may go in this step.
Reason(m) ==
  \/ crashes' # crashes
  \/ InHand(m) /\ hand'.stage = "offer unstored"
  \/ \E k \in DOMAIN groups : \E i \in DOMAIN groups[k].parts :
       /\ groups[k].parts[i] = Part[m]
       /\ \/ Ib!Expired(k) \/ GivesWay(k) \/ Superseded(k)
          \/ Repeats(k, i) \/ Surplus(k, i)

LEMMA TakeDrops ==
  ASSUME PathInv, Take, NEW m \in Decodable, InGateway(m), ~InGateway(m)'
  PROVE  Reason(m)
<1>1. PICK h \in Decodable :
        /\ channel # <<>> /\ h = Head(channel) /\ channel' = Tail(channel)
        /\ Buffered(h)' \/ InHand(h)'
        /\ ~InHand(m)
        /\ \A k \in DOMAIN groups : \A i \in DOMAIN groups[k].parts :
             groups[k].parts[i] = Part[m] =>
               Buffered(m)' \/ InHand(m)' \/ In!GoesFor(Part[h], k, i)
  BY TakeEffect DEF PathInv
<1>2. ~Buffered(m)' /\ ~InHand(m)' /\ ~Waiting(m)'
  BY DEF InGateway
<1>3. m # h
  BY <1>1, <1>2
<1>4. ~Waiting(m)
  <2>1. channel \in Seq(Messages)
    BY DEF PathInv, Inv, RestOK
  <2>2. /\ DOMAIN channel = 1..Len(channel) /\ DOMAIN channel' = 1..Len(channel) - 1
        /\ Len(channel) \in Nat /\ channel[1] = h
        /\ \A i \in 1..Len(channel) - 1 : channel'[i] = channel[i + 1]
    BY <1>1, <2>1
  <2>3. ASSUME NEW i \in DOMAIN channel, channel[i] = m  PROVE FALSE
    <3>1. i # 1
      BY <1>3, <2>2, <2>3
    <3>2. i - 1 \in DOMAIN channel' /\ channel'[i - 1] = m
      BY <2>2, <2>3, <3>1
    <3>. QED  BY <1>2, <3>2 DEF Waiting
  <2>. QED  BY <2>3 DEF Waiting
<1>5. PICK k \in DOMAIN groups : \E i \in DOMAIN groups[k].parts : groups[k].parts[i] = Part[m]
  BY <1>1, <1>4 DEF InGateway, Buffered
<1>6. PICK i \in DOMAIN groups[k].parts : groups[k].parts[i] = Part[m]
  BY <1>5
<1>7. PICK p : p = Part[h]
  OBVIOUS
<1>8. In!GoesFor(p, k, i)
  BY <1>1, <1>2, <1>6, <1>7
<1>9. Takes /\ Taken = p
  BY <1>1, <1>7 DEF Takes, Taken
<1>10. \/ Ib!Expired(k)
       \/ ~Ib!Joins(p[1]) /\ Ib!Crowded(k)
       \/ Superseded(k)
       \/ Ib!KeyOf(p[1]) = k /\ p[2] = i
       \/ Surplus(k, i)
  BY <1>8, SameGroups DEF In!GoesFor, Superseded, Surplus, Ib!Needed, In!Needed
<1>11. Ib!Expired(k) \/ GivesWay(k) \/ Superseded(k) \/ Repeats(k, i) \/ Surplus(k, i)
  BY <1>9, <1>10 DEF GivesWay, Repeats
<1>12. \E j \in DOMAIN groups[k].parts :
         /\ groups[k].parts[j] = Part[m]
         /\ \/ Ib!Expired(k) \/ GivesWay(k) \/ Superseded(k)
            \/ Repeats(k, j) \/ Surplus(k, j)
  BY ONLY <1>6, <1>11
<1>13. \E l \in DOMAIN groups : \E j \in DOMAIN groups[l].parts :
         /\ groups[l].parts[j] = Part[m]
         /\ \/ Ib!Expired(l) \/ GivesWay(l) \/ Superseded(l)
            \/ Repeats(l, j) \/ Surplus(l, j)
  BY ONLY <1>12
<1>. QED  BY <1>13 DEF Reason

LEMMA InboxDrops ==
  ASSUME PathInv, In!Alone, UNCHANGED vars,
         NEW m \in Decodable, InGateway(m), ~InGateway(m)', ~Recorded(m)
  PROVE  Reason(m)
<1>0. InboxInv /\ channel' = channel
  BY DEF PathInv, vars
<1>1. (Waiting(m)' <=> Waiting(m)) /\ ~Buffered(m)' /\ ~InHand(m)'
  BY <1>0 DEF Waiting, InGateway
<1>2. CASE InHand(m)
  <2>1. hand'.stage \in {"offer", "offer unstored"}
    BY <1>0, <1>1, <1>2, InboxEffect
  <2>2. hand'.stage = "offer unstored"
    BY <1>2, <2>1 DEF Recorded
  <2>. QED  BY <1>2, <2>2 DEF Reason
<1>3. CASE ~InHand(m)
  <2>1. PICK k \in DOMAIN groups : \E i \in DOMAIN groups[k].parts : groups[k].parts[i] = Part[m]
    BY <1>1, <1>3 DEF InGateway, Buffered
  <2>2. PICK i \in DOMAIN groups[k].parts : groups[k].parts[i] = Part[m]
    BY <2>1
  <2>3. In!Expired(k)
    BY <1>0, <1>1, <2>2, InboxEffect
  <2>4. Ib!Expired(k)
    BY <2>3, SameGroups
  <2>. QED  BY <2>2, <2>4 DEF Reason
<1>. QED  BY <1>2, <1>3

\* A copy of a message that has left the modem gets lost only when the process
\* ends, when its insert fails, or in its group: after the window, for another
\* size under its reference, for younger groups, under a repetition of its
\* number, or with a number beyond its message (inbox/service.go:299-398).
THEOREM DroppedForReasonCorrect == PathSpec => DroppedForReason
<1>1. PathInv /\ [PathNext]_pathvars => [\A m \in dropped' \ dropped : Reason(m)]_pathvars
  <2>. SUFFICES ASSUME PathInv, PathNext, NEW m \in dropped' \ dropped
                PROVE  Reason(m)
    OBVIOUS
  <2>1. Observe
    BY DEF PathNext, StoreStep, InboxStep, Take, Restart
  <2>2. m \in Decodable /\ InGateway(m) /\ ~InGateway(m)' /\ ~Recorded(m)
    BY <2>1 DEF Observe
  <2>3. CASE StoreMoves /\ UNCHANGED inbox
    <3>1. (Buffered(m)' <=> Buffered(m)) /\ (InHand(m)' <=> InHand(m))
      BY <2>3 DEF inbox, Buffered, InHand
    <3>2. Waiting(m) => Waiting(m)'
      <4>1. channel \in Seq(Messages)
        BY DEF PathInv, Inv, RestOK
      <4>2. channel' = channel \/ \E n \in Messages : channel' = Append(channel, n)
        BY <2>3, StoreEffect DEF PathInv, Decodable
      <4>3. \A i \in DOMAIN channel : i \in DOMAIN channel' /\ channel'[i] = channel[i]
        BY <4>1, <4>2
      <4>. QED  BY <4>3 DEF Waiting
    <3>. QED  BY <2>2, <3>1, <3>2 DEF InGateway
  <2>4. CASE Take
    BY <2>2, <2>4, TakeDrops
  <2>5. CASE In!Alone /\ UNCHANGED vars
    BY <2>2, <2>5, InboxDrops
  <2>6. CASE Restart
    BY <2>6, RestartEffect DEF PathInv, Reason
  <2>7. CASE UNCHANGED pathvars
    BY <2>7 DEF pathvars, observed
  <2>. QED  BY <2>3, <2>4, <2>5, <2>6, <2>7, PathStepKinds DEF StepKinds
<1>2. DroppedForReason <=> [][\A m \in dropped' \ dropped : Reason(m)]_pathvars
  BY DEF DroppedForReason, Reason
<1>. QED  BY <1>1, <1>2, PathInvCorrect, PTL DEF PathSpec

=============================================================================
