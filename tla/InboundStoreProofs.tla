------------------------- MODULE InboundStoreProofs -------------------------
(***************************************************************************)
(* Theorems about the inbound store pipeline, for all memories, slots,     *)
(* handlers, messages, bounds, faults and restarts.                        *)
(***************************************************************************)
EXTENDS InboundStore, FiniteSetTheorems, TLAPS

RouteRec == [pc : {"idle", "read", "handoff", "delete"},
             entry : Entries \cup {NoEntry},
             msg : Messages \cup {0},
             tries : 0..(Attempts - 1)]

RouteOK ==
  /\ route \in [Routes -> RouteRec]
  /\ \A r \in Routes : route[r].pc = "idle" <=> route[r].entry = NoEntry
  /\ \A r \in Routes : route[r].pc \in {"handoff", "delete"} <=> route[r].msg # 0

RestOK ==
  /\ store \in [Entries -> Messages \cup {0}]
  /\ filed \in Seq(Entries) /\ Len(filed) <= MaxMessages
  /\ preferred \in Memories
  /\ urcs \in Seq(Entries)
  /\ selected \in Memories \cup {NoMemory}
  /\ tracked \subseteq Memories
  /\ sweepMems \subseteq Memories /\ sweepTodo \subseteq Entries
  /\ channel \in Seq(Messages) /\ Len(channel) <= ChannelSize
  /\ budget \in [Refs -> 0..(Retries - 1)]
  /\ Cardinality(Live) <= BudgetRefs
  /\ handed \in [Messages -> Nat] /\ refused \in [Messages -> 0..Retries]
  /\ exhausted \subseteq Messages \ Undecodable
  /\ faults \in 0..MaxFaults /\ crashes \in 0..MaxCrashes

\* What a slot holds was filed there.
FiledInv ==
  \A e \in Entries : store[e] # 0 => store[e] \in 1..Len(filed) /\ filed[store[e]] = e

\* A route works on a message that arrived; it offers only what it could decode
\* and deletes only what is answered.
RouteInv ==
  \A r \in Routes :
    /\ route[r].msg # 0 => route[r].msg \in 1..Len(filed)
    /\ route[r].pc = "handoff" => route[r].msg \notin Undecodable
    /\ route[r].pc = "delete" => Answered(route[r].msg)

Inv == RouteOK /\ RestOK /\ FiledInv /\ RouteInv

-----------------------------------------------------------------------------
(* Lemmas about the operators.                                             *)

LEMMA EntriesApart ==
  /\ NoEntry \notin Entries
  /\ NoMemory \notin Memories
  /\ Sweep \in Routes /\ Handlers \subseteq Routes
  /\ \A e \in Entries : e = <<e[1], e[2]>> /\ e[1] \in Memories /\ e[2] \in Slots
  /\ \A e \in Entries : StoredRef(e) \in Refs
BY ConfigAssumption DEF NoEntry, Entries, NoMemory, Routes, Refs

LEMMA RefsFinite == IsFiniteSet(Refs)
<1>0. IsFiniteSet(Slots)
  BY ConfigAssumption
<1>1. IsFiniteSet({0, 1})
  <2>1. IsFiniteSet({0})
    BY FS_Singleton
  <2>2. {0, 1} = {0} \cup {1}
    OBVIOUS
  <2>. QED  BY <2>1, <2>2, FS_AddElement
<1>2. IsFiniteSet({0, 1} \X Slots)
  BY <1>0, <1>1, FS_Product
<1>3. Refs \subseteq {0, 1} \X Slots
  BY EntriesApart DEF Refs, StoredRef, MemoryID
<1>. QED  BY <1>2, <1>3, FS_Subset

LEMMA LiveFinite ==
  /\ IsFiniteSet(Live)
  /\ Cardinality(Live) \in Nat
<1>1. Live \in SUBSET Refs
  BY DEF Live
<1>. QED  BY <1>1, RefsFinite, FS_Subset, FS_CardinalityType

\* A route that ends, and one that goes on with a message.
LEMMA EndShape ==
  ASSUME RouteOK, NEW r \in Routes, End(r)
  PROVE  /\ RouteOK'
         /\ route'[r] = Idle
         /\ \A q \in Routes : q # r => route'[q] = route[q]
BY EntriesApart, ConfigAssumption DEF RouteOK, RouteRec, End, Idle

LEMMA GotoShape ==
  ASSUME RouteOK, NEW r \in Routes, NEW pc \in {"handoff", "delete"},
         NEW m \in Messages, route[r].pc # "idle", Goto(r, pc, m)
  PROVE  /\ RouteOK'
         /\ route'[r].pc = pc /\ route'[r].msg = m /\ route'[r].entry = route[r].entry
         /\ \A q \in Routes : q # r => route'[q] = route[q]
<1>1. route'[r] = [route[r] EXCEPT !.pc = pc, !.msg = m]
  BY DEF RouteOK, Goto
<1>2. \A q \in Routes : q # r => route'[q] = route[q]
  BY DEF RouteOK, Goto
<1>3. route[r] \in RouteRec
  BY DEF RouteOK
<1>4. route'[r] \in RouteRec
  BY <1>1, <1>3 DEF RouteRec
<1>5. route' \in [Routes -> RouteRec]
  BY <1>2, <1>4 DEF RouteOK, Goto
<1>6. route'[r].pc = pc /\ route'[r].msg = m /\ route'[r].entry = route[r].entry
  BY <1>1, <1>3 DEF RouteRec
<1>7. m # 0
  BY ConfigAssumption DEF Messages
<1>. QED
  BY <1>2, <1>5, <1>6, <1>7 DEF RouteOK

LEMMA StartShape ==
  ASSUME RouteOK, NEW r \in Routes, NEW e \in Entries, route[r].pc = "idle", Start(r, e)
  PROVE  /\ RouteOK'
         /\ route'[r].pc = "read" /\ route'[r].msg = 0 /\ route'[r].entry = e
         /\ \A q \in Routes : q # r => route'[q] = route[q]
<1>1. route'[r] = [route[r] EXCEPT !.pc = "read", !.entry = e]
  BY DEF RouteOK, Start
<1>2. \A q \in Routes : q # r => route'[q] = route[q]
  BY DEF RouteOK, Start
<1>3. route[r] \in RouteRec /\ route[r].msg = 0
  <2>1. route[r].pc \notin {"handoff", "delete"}
    OBVIOUS
  <2>. QED  BY <2>1 DEF RouteOK
<1>4. route'[r] \in RouteRec
  BY <1>1, <1>3 DEF RouteRec
<1>5. route' \in [Routes -> RouteRec]
  BY <1>2, <1>4 DEF RouteOK, Start
<1>6. route'[r].pc = "read" /\ route'[r].msg = 0 /\ route'[r].entry = e
  BY <1>1, <1>3 DEF RouteRec
<1>7. e # NoEntry
  BY EntriesApart
<1>. QED
  BY <1>2, <1>5, <1>6, <1>7 DEF RouteOK

LEMMA RetryShape ==
  ASSUME RouteOK, NEW r \in Routes, route[r].tries + 1 < Attempts,
         route' = [route EXCEPT ![r].tries = @ + 1]
  PROVE  /\ RouteOK'
         /\ route'[r].pc = route[r].pc /\ route'[r].msg = route[r].msg
         /\ route'[r].entry = route[r].entry
         /\ \A q \in Routes : q # r => route'[q] = route[q]
<1>1. route'[r] = [route[r] EXCEPT !.tries = @ + 1]
  BY DEF RouteOK
<1>2. \A q \in Routes : q # r => route'[q] = route[q]
  BY DEF RouteOK
<1>3. route[r] \in RouteRec
  BY DEF RouteOK
<1>4. route'[r] \in RouteRec
  BY <1>1, <1>3, ConfigAssumption DEF RouteRec
<1>5. route' \in [Routes -> RouteRec]
  BY <1>2, <1>4 DEF RouteOK
<1>6. route'[r].pc = route[r].pc /\ route'[r].msg = route[r].msg
        /\ route'[r].entry = route[r].entry
  BY <1>1, <1>3 DEF RouteRec
<1>. QED
  BY <1>2, <1>5, <1>6 DEF RouteOK

\* Commands keep the memories' names and work on slots.
LEMMA CommandShape ==
  ASSUME preferred \in Memories, selected \in Memories \cup {NoMemory}, NEW mem \in Memories
  PROVE  /\ Actual(mem) \in Memories
         /\ Command(mem) => preferred' \in Memories /\ selected' \in Memories
         /\ SelectFails(mem) => preferred' \in Memories /\ selected' = selected
         /\ \A e \in Entries : e[1] = mem => Slot(e) \in Entries
BY EntriesApart DEF Actual, Command, SelectFails, Slot, Entries

\* Booking a refusal keeps within the bounds of the budget table.
LEMMA BookedShape ==
  ASSUME budget \in [Refs -> 0..(Retries - 1)], Cardinality(Live) <= BudgetRefs,
         NEW ref \in Refs, NEW b \in Booked(ref)
  PROVE  /\ b \in [Refs -> 0..Retries]
         /\ b[ref] = budget[ref] + 1
         /\ \A q \in Refs : q # ref => b[q] \in {0, budget[q]}
         /\ IsFiniteSet({q \in Refs : b[q] > 0})
         /\ Cardinality({q \in Refs : b[q] > 0}) <= BudgetRefs
<1>. DEFINE After == {q \in Refs : b[q] > 0}
<1>0. Retries \in Nat \ {0} /\ BudgetRefs \in Nat \ {0}
  BY ConfigAssumption
<1>1. CASE budget[ref] > 0
  <2>1. b = [budget EXCEPT ![ref] = @ + 1]
    BY <1>1 DEF Booked
  <2>2. After = Live
    BY <1>0, <1>1, <2>1 DEF Live
  <2>. QED  BY <1>0, <2>1, <2>2, LiveFinite
<1>2. CASE budget[ref] = 0 /\ Cardinality(Live) < BudgetRefs
  <2>1. b = [budget EXCEPT ![ref] = @ + 1]
    BY <1>2 DEF Booked
  <2>2. After = Live \cup {ref}
    BY <1>0, <1>2, <2>1 DEF Live
  <2>3. ref \notin Live
    BY <1>2 DEF Live
  <2>4. IsFiniteSet(After) /\ Cardinality(After) = Cardinality(Live) + 1
    BY <2>2, <2>3, LiveFinite, FS_AddElement
  <2>. QED  BY <1>0, <1>2, <2>1, <2>4, LiveFinite
<1>3. CASE budget[ref] = 0 /\ ~(Cardinality(Live) < BudgetRefs)
  <2>1. PICK old \in Live : b = [budget EXCEPT ![ref] = 1, ![old] = 0]
    BY <1>3 DEF Booked
  <2>2. old \in Refs /\ old # ref
    BY <1>3 DEF Live
  <2>3. After = (Live \ {old}) \cup {ref}
    <3>1. b[ref] = 1 /\ b[old] = 0
      BY <2>1, <2>2
    <3>2. \A q \in Refs : q # ref /\ q # old => b[q] = budget[q]
      BY <2>1
    <3>. QED  BY <2>2, <3>1, <3>2 DEF Live
  <2>4. IsFiniteSet(Live \ {old}) /\ Cardinality(Live \ {old}) = Cardinality(Live) - 1
    BY LiveFinite, FS_RemoveElement
  <2>5. ref \notin Live \ {old}
    BY <1>3 DEF Live
  <2>6. IsFiniteSet(After) /\ Cardinality(After) = Cardinality(Live \ {old}) + 1
    <3>. HIDE DEF After
    <3>. QED  BY <2>3, <2>4, <2>5, FS_AddElement, Zenon
  <2>7. b \in [Refs -> 0..Retries] /\ b[ref] = budget[ref] + 1
          /\ \A q \in Refs : q # ref => b[q] \in {0, budget[q]}
    <3>1. b[ref] = 1 /\ b[old] = 0
      BY <2>1, <2>2
    <3>2. \A q \in Refs : q # ref /\ q # old => b[q] = budget[q]
      BY <2>1
    <3>3. \A q \in Refs : b[q] \in 0..Retries
      BY <1>0, <3>1, <3>2
    <3>4. b = [q \in Refs |-> b[q]]
      BY <2>1
    <3>. QED  BY <1>3, <3>1, <3>2, <3>3, <3>4
  <2>. QED  BY <1>0, <2>4, <2>6, <2>7, LiveFinite
<1>4. budget[ref] > 0 \/ budget[ref] = 0
  BY <1>0
<1>. QED  BY <1>1, <1>2, <1>3, <1>4

-----------------------------------------------------------------------------
(* The inductive invariant.                                                *)

LEMMA InvInit == Init => Inv
<1>. SUFFICES ASSUME Init
              PROVE  Inv
  OBVIOUS
<1>. USE ConfigAssumption DEF Init
<1>1. Live = {}
  BY DEF Live
<1>2. Cardinality(Live) <= BudgetRefs
  BY <1>1, FS_EmptySet
<1>3. Idle \in RouteRec
  BY DEF Idle, RouteRec
<1>4. RouteOK
  BY <1>3, EntriesApart DEF RouteOK, Idle
<1>5. RestOK
  BY <1>2 DEF RestOK
<1>6. FiledInv /\ RouteInv
  BY DEF FiledInv, RouteInv, Idle
<1>. QED  BY <1>4, <1>5, <1>6 DEF Inv

\* A message is filed.
LEMMA FileStep ==
  ASSUME Inv, NEW e \in Entries, Arrive(e) \/ ArriveUnheard(e)
  PROVE  Inv'
<1>. USE DEF Inv
<1>0. MaxMessages \in Nat /\ MaxFaults \in Nat
  BY ConfigAssumption
<1>1. File(e) /\ store[e] = 0 /\ Len(filed) < MaxMessages
        /\ filed' = Append(filed, e) /\ store' = [store EXCEPT ![e] = Len(filed) + 1]
  BY DEF Arrive, ArriveUnheard, File, Free
<1>2. filed \in Seq(Entries) /\ Len(filed) \in Nat
  BY DEF RestOK
<1>3. filed' \in Seq(Entries) /\ Len(filed') = Len(filed) + 1 /\ filed'[Len(filed) + 1] = e
        /\ \A m \in 1..Len(filed) : filed'[m] = filed[m]
  BY <1>1, <1>2
<1>4. Len(filed) + 1 \in Messages
  BY <1>0, <1>1, <1>2 DEF Messages
<1>5. UNCHANGED <<route, preferred, selected, tracked, sweep, channel, budget, history, crashes>>
  BY <1>1 DEF File
<1>6. RouteOK'
  BY <1>5 DEF RouteOK
<1>7. Live' = Live
  BY <1>5 DEF Live
<1>8. urcs' \in Seq(Entries) /\ faults' \in 0..MaxFaults
  <2>1. urcs \in Seq(Entries) /\ faults \in 0..MaxFaults
    BY DEF RestOK
  <2>2. CASE Arrive(e)
    BY <2>1, <2>2 DEF Arrive
  <2>3. CASE ArriveUnheard(e)
    BY <1>0, <2>1, <2>3 DEF ArriveUnheard, Fault
  <2>. QED  BY <2>2, <2>3
<1>9. store' \in [Entries -> Messages \cup {0}]
  BY <1>1, <1>4 DEF RestOK
<1>10. filed' \in Seq(Entries) /\ Len(filed') <= MaxMessages
  BY <1>0, <1>1, <1>3, <1>2
<1>11. RestOK'
  BY <1>5, <1>7, <1>8, <1>9, <1>10 DEF RestOK, sweep, history
<1>12. FiledInv'
  BY <1>1, <1>2, <1>3 DEF FiledInv, RestOK
<1>13. RouteInv'
  BY <1>2, <1>3, <1>5 DEF RouteInv, Answered, history
<1>. QED  BY <1>6, <1>11, <1>12, <1>13

\* An indication is taken from the line.
LEMMA HandleStep ==
  ASSUME Inv, HandleCMTI
  PROVE  Inv'
<1>. USE DEF Inv
<1>1. urcs \in Seq(Entries) /\ urcs # <<>> /\ urcs' = Tail(urcs)
        /\ tracked' = tracked \cup {Head(urcs)[1]}
        /\ UNCHANGED <<store, filed, preferred, selected, sweep, channel, budget, history, faults, crashes>>
  BY DEF RestOK, HandleCMTI, Track
<1>2. Head(urcs) \in Entries /\ urcs' \in Seq(Entries)
  BY <1>1
<1>3. Head(urcs)[1] \in Memories
  BY <1>2, EntriesApart
<1>4. Live' = Live
  BY <1>1 DEF Live
<1>5. RestOK'
  BY <1>1, <1>2, <1>3, <1>4 DEF RestOK, sweep, history
<1>6. FiledInv'
  BY <1>1 DEF FiledInv
<1>7. CASE UNCHANGED route
  BY <1>1, <1>5, <1>6, <1>7 DEF RouteOK, RouteInv, Answered, history
<1>8. CASE \E h \in Handlers : route[h].pc = "idle" /\ Start(h, Head(urcs))
  <2>1. PICK h \in Handlers : route[h].pc = "idle" /\ Start(h, Head(urcs))
    BY <1>8
  <2>2. h \in Routes
    BY EntriesApart
  <2>3. RouteOK' /\ route'[h].pc = "read" /\ route'[h].msg = 0
          /\ \A q \in Routes : q # h => route'[q] = route[q]
    BY <1>2, <2>1, <2>2, StartShape
  <2>4. RouteInv'
    BY <1>1, <2>3 DEF RouteInv, Answered, history
  <2>. QED  BY <1>5, <1>6, <2>3, <2>4
<1>. QED  BY <1>7, <1>8 DEF HandleCMTI

\* The sweep goes on.
LEMMA SweepStepInv ==
  ASSUME Inv, SweepStep
  PROVE  Inv'
<1>. USE DEF Inv
<1>1. CASE SweepStart
  <2>1. Live' = Live
    BY <1>1 DEF SweepStart, Live
  <2>. QED
    BY <1>1, <2>1 DEF SweepStart, RestOK, RouteOK, FiledInv, RouteInv, Answered, modem, history
<1>2. ASSUME NEW mem \in Memories, ListStored(mem) \/ ListFails(mem)
      PROVE  Inv'
  <2>1. preferred' \in Memories /\ selected' \in Memories \cup {NoMemory}
    BY <1>2, CommandShape DEF ListStored, ListFails, RestOK
  <2>2. Listing(mem) /\ sweepTodo' \subseteq Entries /\ faults' \in 0..MaxFaults
    BY <1>2, ConfigAssumption DEF ListStored, ListFails, RestOK, Fault
  <2>3. Live' = Live
    BY <2>2 DEF Listing, Live
  <2>. QED
    BY <2>1, <2>2, <2>3 DEF Listing, RestOK, RouteOK, FiledInv, RouteInv, Answered, history
<1>3. ASSUME NEW e \in Entries, SweepEntry(e)
      PROVE  Inv'
  <2>1. RouteOK' /\ route'[Sweep].pc = "read" /\ route'[Sweep].msg = 0
          /\ \A q \in Routes : q # Sweep => route'[q] = route[q]
    BY <1>3, StartShape, EntriesApart DEF SweepEntry
  <2>2. Live' = Live
    BY <1>3 DEF SweepEntry, Live
  <2>3. RestOK' /\ FiledInv'
    BY <1>3, <2>2 DEF SweepEntry, RestOK, FiledInv, modem, history
  <2>4. RouteInv'
    BY <1>3, <2>1 DEF SweepEntry, RouteInv, Answered, modem, history
  <2>. QED  BY <2>1, <2>3, <2>4
<1>. QED  BY <1>1, <1>2, <1>3 DEF SweepStep

\* What the commands of a route leave alone, and what they keep.
LEMMA CommandFrame ==
  ASSUME RestOK, UNCHANGED <<filed, urcs, tracked, sweep, channel, budget, history, crashes>>,
         store' \in [Entries -> Messages \cup {0}],
         preferred' \in Memories, selected' \in Memories \cup {NoMemory},
         faults' \in 0..MaxFaults
  PROVE  RestOK'
<1>1. Live' = Live
  BY DEF Live
<1>. QED  BY <1>1 DEF RestOK, sweep, history

\* Other routes go on as they were while nothing is taken from the record.
LEMMA RouteFrame ==
  ASSUME RouteInv, NEW r \in Routes,
         \A q \in Routes : q # r => route'[q] = route[q],
         filed' = filed, handed \in [Messages -> Nat],
         \A m \in 1..Len(filed) : Answered(m) => Answered(m)',
         \A q \in Routes : route[q].pc = "delete" => route[q].msg # 0,
         /\ route'[r].msg # 0 => route'[r].msg \in 1..Len(filed)
         /\ route'[r].pc = "handoff" => route'[r].msg \notin Undecodable
         /\ route'[r].pc = "delete" => Answered(route[r].msg)'
  PROVE  RouteInv'
<1>. SUFFICES ASSUME NEW q \in Routes
              PROVE  /\ route'[q].msg # 0 => route'[q].msg \in 1..Len(filed')
                     /\ route'[q].pc = "handoff" => route'[q].msg \notin Undecodable
                     /\ route'[q].pc = "delete" => Answered(route[q].msg)'
  BY DEF RouteInv
<1>1. CASE q = r
  BY <1>1
<1>2. CASE q # r
  <2>1. route'[q] = route[q] /\ (route[q].pc = "delete" => route[q].msg \in 1..Len(filed))
    BY <1>2 DEF RouteInv
  <2>. QED  BY <2>1 DEF RouteInv
<1>. QED  BY <1>1, <1>2

\* An erased slot.
LEMMA EraseShape ==
  ASSUME RestOK, FiledInv, filed' = filed, NEW r \in Routes, Erase(r) \/ UNCHANGED store
  PROVE  store' \in [Entries -> Messages \cup {0}] /\ FiledInv'
BY DEF RestOK, FiledInv, Erase

\* A route has an entry, which is a slot of a memory.
LEMMA BusyRoute ==
  ASSUME RouteOK, NEW r \in Routes, route[r].pc # "idle"
  PROVE  route[r].entry \in Entries /\ route[r].entry[1] \in Memories
           /\ StoredRef(route[r].entry) \in Refs
BY EntriesApart DEF RouteOK, RouteRec

\* A stored message is read, or cannot be.
LEMMA ReadStep ==
  ASSUME Inv, NEW r \in Routes, ReadStored(r) \/ ReadFails(r)
  PROVE  Inv'
<1>. USE DEF Inv
<1>1. Reading(r) /\ route[r].pc = "read"
        /\ UNCHANGED <<store, filed, urcs, tracked, sweep, channel, budget, history, crashes>>
  BY DEF ReadStored, ReadFails, Reading
<1>2. route[r].entry \in Entries /\ route[r].entry[1] \in Memories
  BY <1>1, BusyRoute
<1>3. preferred' \in Memories /\ selected' \in Memories \cup {NoMemory}
  BY <1>2, CommandShape DEF ReadStored, ReadFails, RestOK
<1>4. faults' \in 0..MaxFaults
  BY ConfigAssumption DEF ReadStored, ReadFails, RestOK, Fault
<1>5. RestOK'
  BY <1>1, <1>3, <1>4, CommandFrame DEF RestOK
<1>6. FiledInv'
  BY <1>1 DEF FiledInv
<1>7. \A m \in 1..Len(filed) : Answered(m) => Answered(m)'
  BY <1>1 DEF Answered, history
<1>8. \A q \in Routes : route[q].pc = "delete" => route[q].msg # 0
  BY DEF RouteOK
<1>9. handed \in [Messages -> Nat] /\ filed' = filed
  BY <1>1 DEF RestOK
<1>10. CASE End(r)
  <2>1. RouteOK' /\ route'[r] = Idle /\ \A q \in Routes : q # r => route'[q] = route[q]
    BY <1>10, EndShape
  <2>2. RouteInv'
    BY <1>7, <1>8, <1>9, <2>1, RouteFrame DEF Idle
  <2>. QED  BY <1>5, <1>6, <2>1, <2>2
<1>11. ASSUME NEW m \in Messages, NEW pc \in {"handoff", "delete"},
              m = store[Slot(route[r].entry)], Goto(r, pc, m),
              pc = "handoff" <=> m \notin Undecodable
       PROVE  Inv'
  <2>1. RouteOK' /\ route'[r].pc = pc /\ route'[r].msg = m
          /\ \A q \in Routes : q # r => route'[q] = route[q]
    BY <1>1, <1>11, GotoShape
  <2>2. m \in 1..Len(filed)
    <3>1. Slot(route[r].entry) \in Entries
      BY <1>2, CommandShape DEF RestOK
    <3>2. m # 0
      BY ConfigAssumption DEF Messages
    <3>. QED  BY <1>11, <3>1, <3>2 DEF FiledInv
  <2>3. RouteInv'
    <3>1. pc = "delete" => Answered(m)'
      BY <1>11 DEF Answered
    <3>. QED  BY <1>7, <1>8, <1>9, <1>11, <2>1, <2>2, <3>1, RouteFrame
  <2>. QED  BY <1>5, <1>6, <2>1, <2>3
<1>12. CASE ReadFails(r)
  BY <1>10, <1>12 DEF ReadFails
<1>13. CASE ReadStored(r)
  <2>1. \/ End(r)
        \/ store[Slot(route[r].entry)] \in Undecodable
             /\ Goto(r, "delete", store[Slot(route[r].entry)])
        \/ store[Slot(route[r].entry)] \in Messages \ Undecodable
             /\ Goto(r, "handoff", store[Slot(route[r].entry)])
    BY <1>13 DEF ReadStored
  <2>2. Undecodable \subseteq Messages
    BY ConfigAssumption
  <2>. QED  BY <1>10, <1>11, <2>1, <2>2
<1>. QED  BY <1>12, <1>13

\* The slot is erased, or an attempt fails.
LEMMA DeleteStep ==
  ASSUME Inv, NEW r \in Routes, Delete(r) \/ DeleteFails(r)
  PROVE  Inv'
<1>. USE DEF Inv
<1>1. route[r].pc = "delete"
        /\ UNCHANGED <<filed, urcs, tracked, sweep, channel, budget, history, crashes>>
  BY DEF Delete, DeleteFails, Deleting
<1>2. route[r].entry[1] \in Memories
  BY <1>1, BusyRoute
<1>3. preferred' \in Memories /\ selected' \in Memories \cup {NoMemory}
  BY <1>2, CommandShape DEF Delete, DeleteFails, RestOK
<1>4. faults' \in 0..MaxFaults
  BY ConfigAssumption DEF Delete, DeleteFails, RestOK, Fault
<1>5. store' \in [Entries -> Messages \cup {0}] /\ FiledInv'
  BY <1>1, EraseShape DEF Delete, DeleteFails
<1>6. RestOK'
  BY <1>1, <1>3, <1>4, <1>5, CommandFrame
<1>7. \A m \in 1..Len(filed) : Answered(m) => Answered(m)'
  BY <1>1 DEF Answered, history
<1>8. \A q \in Routes : route[q].pc = "delete" => route[q].msg # 0
  BY DEF RouteOK
<1>9. handed \in [Messages -> Nat] /\ filed' = filed
  BY <1>1 DEF RestOK
<1>10. CASE End(r)
  <2>1. RouteOK' /\ route'[r] = Idle /\ \A q \in Routes : q # r => route'[q] = route[q]
    BY <1>10, EndShape
  <2>2. RouteInv'
    BY <1>7, <1>8, <1>9, <2>1, RouteFrame DEF Idle
  <2>. QED  BY <1>5, <1>6, <2>1, <2>2
<1>11. CASE route[r].tries + 1 < Attempts /\ route' = [route EXCEPT ![r].tries = @ + 1]
  <2>1. RouteOK' /\ route'[r].pc = route[r].pc /\ route'[r].msg = route[r].msg
          /\ \A q \in Routes : q # r => route'[q] = route[q]
    BY <1>11, RetryShape
  <2>2. route[r].msg \in 1..Len(filed) /\ Answered(route[r].msg)
    BY <1>1, <1>8 DEF RouteInv
  <2>3. RouteInv'
    BY <1>1, <1>7, <1>8, <1>9, <2>1, <2>2, RouteFrame
  <2>. QED  BY <1>5, <1>6, <2>1, <2>3
<1>. QED  BY <1>10, <1>11 DEF Delete, DeleteFails

\* What an offer changes besides the routes: the channel, the budgets and the
\* record of answers.
LEMMA OfferFrame ==
  ASSUME RestOK, FiledInv,
         UNCHANGED <<modem, selected, tracked, sweep, faults, crashes>>,
         channel' \in Seq(Messages), Len(channel') <= ChannelSize,
         budget' \in [Refs -> 0..(Retries - 1)],
         Cardinality({q \in Refs : budget'[q] > 0}) <= BudgetRefs,
         handed' \in [Messages -> Nat], refused' \in [Messages -> 0..Retries],
         exhausted' \subseteq Messages \ Undecodable
  PROVE  RestOK' /\ FiledInv'
<1>1. Live' = {q \in Refs : budget'[q] > 0}
  BY DEF Live
<1>2. RestOK'
  BY <1>1 DEF RestOK, modem, sweep
<1>3. FiledInv'
  BY DEF FiledInv, modem
<1>. QED  BY <1>2, <1>3

\* The counter of refusals stays within the retries.
LEMMA CountShape ==
  ASSUME refused \in [Messages -> 0..Retries], NEW m \in Messages, CountRefusal(m)
  PROVE  refused' \in [Messages -> 0..Retries]
BY ConfigAssumption DEF CountRefusal

\* A part enters the channel.
LEMMA HandOffStep ==
  ASSUME Inv, NEW r \in Routes, HandOff(r)
  PROVE  Inv'
<1>. USE DEF Inv
<1>. DEFINE m == route[r].msg
            ref == StoredRef(route[r].entry)
<1>0. Retries \in Nat \ {0} /\ ChannelSize \in Nat \ {0} /\ BudgetRefs \in Nat \ {0}
  BY ConfigAssumption
<1>1. /\ route[r].pc = "handoff" /\ Len(channel) < ChannelSize
      /\ UNCHANGED <<modem, selected, tracked, sweep, faults, crashes>>
      /\ channel' = Append(channel, m) /\ budget' = [budget EXCEPT ![ref] = 0]
      /\ handed' = [handed EXCEPT ![m] = @ + 1] /\ Goto(r, "delete", m)
      /\ UNCHANGED <<refused, exhausted>>
  BY DEF HandOff, Offering
<1>2. m \in Messages /\ m \in 1..Len(filed) /\ filed' = filed
  BY <1>1 DEF RouteOK, RouteRec, RouteInv, modem
<1>3. ref \in Refs
  BY <1>1, BusyRoute
<1>4. channel' \in Seq(Messages) /\ Len(channel') <= ChannelSize
  BY <1>0, <1>1, <1>2 DEF RestOK
<1>5. budget' \in [Refs -> 0..(Retries - 1)]
  BY <1>0, <1>1, <1>3 DEF RestOK
<1>6. Cardinality({q \in Refs : budget'[q] > 0}) <= BudgetRefs
  <2>1. {q \in Refs : budget'[q] > 0} = Live \ {ref}
    BY <1>1, <1>3 DEF RestOK, Live
  <2>2. IsFiniteSet(Live \ {ref}) /\ Cardinality(Live \ {ref}) <= Cardinality(Live)
    BY LiveFinite, FS_Subset, Live \ {ref} \in SUBSET Live
  <2>3. Cardinality(Live \ {ref}) \in Nat
    BY <2>2, FS_CardinalityType
  <2>4. Cardinality(Live) <= BudgetRefs
    BY DEF RestOK
  <2>5. Cardinality(Live \ {ref}) <= BudgetRefs
    BY <1>0, <2>2, <2>3, <2>4, LiveFinite
  <2>. QED  BY <2>1, <2>5
<1>7. handed' \in [Messages -> Nat] /\ handed'[m] > 0
        /\ \A k \in Messages : handed[k] > 0 => handed'[k] > 0
  <2>1. handed \in [Messages -> Nat]
    BY DEF RestOK
  <2>. QED  BY <1>1, <1>2, <2>1
<1>8. refused' \in [Messages -> 0..Retries] /\ exhausted' \subseteq Messages \ Undecodable
  BY <1>1 DEF RestOK
<1>9. RestOK' /\ FiledInv'
  BY <1>1, <1>4, <1>5, <1>6, <1>7, <1>8, OfferFrame
<1>10. RouteOK' /\ route'[r].pc = "delete" /\ route'[r].msg = m
         /\ \A q \in Routes : q # r => route'[q] = route[q]
  BY <1>1, <1>2, GotoShape
<1>11. RouteInv'
  <2>1. \A k \in 1..Len(filed) : Answered(k) => Answered(k)'
    <3>1. \A k \in 1..Len(filed) : k \in Messages
      BY ConfigAssumption DEF RestOK, Messages
    <3>. QED  BY <1>1, <1>7, <3>1 DEF Answered
  <2>2. \A q \in Routes : route[q].pc = "delete" => route[q].msg # 0
    BY DEF RouteOK
  <2>3. handed \in [Messages -> Nat]
    BY DEF RestOK
  <2>4. Answered(m)'
    BY <1>2, <1>7, <1>10 DEF Answered
  <2>. QED  BY <1>2, <1>10, <2>1, <2>2, <2>3, <2>4, RouteFrame
<1>. QED  BY <1>9, <1>10, <1>11

\* An offer is refused, and booked.
LEMMA RefuseStep ==
  ASSUME Inv, NEW r \in Routes, Refuse(r)
  PROVE  Inv'
<1>. USE DEF Inv
<1>. DEFINE m == route[r].msg
            ref == StoredRef(route[r].entry)
<1>0. Retries \in Nat \ {0}
  BY ConfigAssumption
<1>1. /\ route[r].pc = "handoff" /\ CountRefusal(m)
      /\ UNCHANGED <<modem, selected, tracked, sweep, faults, crashes>>
      /\ ~Spent(budget[ref] + 1) /\ budget' \in Booked(ref) /\ End(r)
      /\ UNCHANGED <<channel, handed, exhausted>>
  BY DEF Refuse, Offering, KeepStored
<1>2. m \in Messages /\ filed' = filed
  BY <1>1 DEF RouteOK, RouteRec, modem
<1>3. ref \in Refs
  BY <1>1, BusyRoute
<1>4. budget \in [Refs -> 0..(Retries - 1)] /\ Cardinality(Live) <= BudgetRefs
  BY DEF RestOK
<1>5. /\ budget' \in [Refs -> 0..Retries]
      /\ budget'[ref] = budget[ref] + 1
      /\ \A q \in Refs : q # ref => budget'[q] \in {0, budget[q]}
      /\ Cardinality({q \in Refs : budget'[q] > 0}) <= BudgetRefs
  BY <1>1, <1>3, <1>4, BookedShape
<1>6. budget' \in [Refs -> 0..(Retries - 1)]
  <2>1. budget'[ref] < Retries
    BY <1>0, <1>1, <1>3, <1>4, <1>5 DEF Spent
  <2>2. \A q \in Refs : budget'[q] \in 0..(Retries - 1)
    BY <1>0, <1>3, <1>4, <1>5, <2>1
  <2>. QED  BY <1>5, <2>2
<1>7. refused' \in [Messages -> 0..Retries]
  BY <1>1, <1>2, CountShape DEF RestOK
<1>8. RestOK' /\ FiledInv'
  BY <1>1, <1>5, <1>6, <1>7, OfferFrame DEF RestOK
<1>9. RouteOK' /\ route'[r] = Idle /\ \A q \in Routes : q # r => route'[q] = route[q]
  BY <1>1, EndShape
<1>10. RouteInv'
  BY <1>1, <1>2, <1>9 DEF RouteInv, Answered, Idle
<1>. QED  BY <1>8, <1>9, <1>10

\* The budget is spent.
LEMMA GiveUpStep ==
  ASSUME Inv, NEW r \in Routes, GiveUp(r)
  PROVE  Inv'
<1>. USE DEF Inv
<1>. DEFINE m == route[r].msg
            ref == StoredRef(route[r].entry)
<1>0. Retries \in Nat \ {0} /\ BudgetRefs \in Nat \ {0}
  BY ConfigAssumption
<1>1. /\ route[r].pc = "handoff" /\ CountRefusal(m)
      /\ UNCHANGED <<modem, selected, tracked, sweep, faults, crashes>>
      /\ budget' \in {[b EXCEPT ![ref] = 0] : b \in Booked(ref)}
      /\ exhausted' = exhausted \cup {m} /\ Goto(r, "delete", m)
      /\ UNCHANGED <<channel, handed>>
  BY DEF GiveUp, Offering
<1>2. m \in Messages /\ m \in 1..Len(filed) /\ m \notin Undecodable /\ filed' = filed
  BY <1>1 DEF RouteOK, RouteRec, RouteInv, modem
<1>3. ref \in Refs
  BY <1>1, BusyRoute
<1>4. budget \in [Refs -> 0..(Retries - 1)] /\ Cardinality(Live) <= BudgetRefs
  BY DEF RestOK
<1>5. PICK b \in Booked(ref) : budget' = [b EXCEPT ![ref] = 0]
  BY <1>1
<1>6. /\ b \in [Refs -> 0..Retries]
      /\ \A q \in Refs : q # ref => b[q] \in {0, budget[q]}
      /\ IsFiniteSet({q \in Refs : b[q] > 0})
      /\ Cardinality({q \in Refs : b[q] > 0}) <= BudgetRefs
  BY <1>3, <1>4, BookedShape
<1>7. budget' \in [Refs -> 0..(Retries - 1)]
  BY <1>0, <1>3, <1>4, <1>5, <1>6
<1>8. Cardinality({q \in Refs : budget'[q] > 0}) <= BudgetRefs
  <2>1. {q \in Refs : budget'[q] > 0} \in SUBSET {q \in Refs : b[q] > 0}
    BY <1>3, <1>5, <1>6
  <2>2. /\ Cardinality({q \in Refs : budget'[q] > 0}) <= Cardinality({q \in Refs : b[q] > 0})
        /\ Cardinality({q \in Refs : budget'[q] > 0}) \in Nat
        /\ Cardinality({q \in Refs : b[q] > 0}) \in Nat
    BY <1>6, <2>1, FS_Subset, FS_CardinalityType
  <2>. QED  BY <1>0, <1>6, <2>2
<1>9. refused' \in [Messages -> 0..Retries] /\ exhausted' \subseteq Messages \ Undecodable
  BY <1>1, <1>2, CountShape DEF RestOK
<1>10. RestOK' /\ FiledInv'
  BY <1>1, <1>7, <1>8, <1>9, OfferFrame DEF RestOK
<1>11. RouteOK' /\ route'[r].pc = "delete" /\ route'[r].msg = m
         /\ \A q \in Routes : q # r => route'[q] = route[q]
  BY <1>1, <1>2, GotoShape
<1>12. RouteInv'
  <2>1. \A k \in 1..Len(filed) : Answered(k) => Answered(k)'
    BY <1>1 DEF Answered
  <2>2. \A q \in Routes : route[q].pc = "delete" => route[q].msg # 0
    BY DEF RouteOK
  <2>3. handed \in [Messages -> Nat]
    BY DEF RestOK
  <2>4. Answered(m)'
    BY <1>1, <1>11 DEF Answered
  <2>. QED  BY <1>2, <1>11, <2>1, <2>2, <2>3, <2>4, RouteFrame
<1>. QED  BY <1>10, <1>11, <1>12

\* The inbox takes a part, a budget's window passes.
LEMMA QuietStep ==
  ASSUME Inv, Consume \/ \E ref \in Refs : SweepBudget(ref)
  PROVE  Inv'
<1>. USE DEF Inv
<1>1. CASE Consume
  <2>1. channel' \in Seq(Messages) /\ Len(channel') <= ChannelSize
    BY <1>1, ConfigAssumption DEF Consume, RestOK
  <2>2. Live' = Live
    BY <1>1 DEF Consume, Live
  <2>3. UNCHANGED <<modem, selected, tracked, route, sweep, budget, history, faults, crashes>>
    BY <1>1 DEF Consume
  <2>. QED
    BY <2>1, <2>2, <2>3
       DEF RestOK, RouteOK, FiledInv, RouteInv, Answered, modem, sweep, history
<1>2. ASSUME NEW ref \in Refs, SweepBudget(ref)
      PROVE  Inv'
  <2>0. Retries \in Nat \ {0} /\ BudgetRefs \in Nat \ {0}
    BY ConfigAssumption
  <2>1. /\ budget' = [budget EXCEPT ![ref] = 0]
        /\ UNCHANGED <<modem, selected, tracked, route, sweep, channel, history, faults, crashes>>
    BY <1>2 DEF SweepBudget
  <2>2. budget' \in [Refs -> 0..(Retries - 1)]
    BY <2>0, <2>1 DEF RestOK
  <2>3. Live' \in SUBSET Live
    BY <2>1 DEF RestOK, Live
  <2>4. Cardinality(Live') <= Cardinality(Live) /\ Cardinality(Live') \in Nat
    BY <2>3, LiveFinite, FS_Subset, FS_CardinalityType
  <2>5. Cardinality(Live') <= BudgetRefs
    BY <2>0, <2>4, LiveFinite DEF RestOK
  <2>6. RestOK'
    BY <2>1, <2>2, <2>5 DEF RestOK, modem, sweep, history
  <2>. QED
    BY <2>1, <2>6 DEF RouteOK, FiledInv, RouteInv, Answered, modem, history
<1>. QED  BY <1>1, <1>2

\* The process starts again.
LEMMA CrashStep ==
  ASSUME Inv, Crash
  PROVE  Inv'
<1>. USE DEF Inv
<1>0. /\ MaxCrashes \in Nat /\ Retries \in Nat \ {0} /\ BudgetRefs \in Nat \ {0}
      /\ ChannelSize \in Nat \ {0} /\ Attempts \in Nat \ {0} /\ Default \in Memories
  BY ConfigAssumption
<1>1. Live' = {}
  BY <1>0 DEF Crash, Live
<1>2. Cardinality(Live') <= BudgetRefs
  BY <1>0, <1>1, FS_EmptySet
<1>3. Idle \in RouteRec
  BY <1>0 DEF Idle, RouteRec
<1>4. RouteOK'
  BY <1>3, EntriesApart DEF Crash, RouteOK, Idle
<1>5. crashes' \in 0..MaxCrashes
  BY <1>0 DEF Crash, RestOK
<1>6. RestOK'
  BY <1>0, <1>2, <1>5 DEF Crash, RestOK, history
<1>7. FiledInv' /\ RouteInv'
  BY DEF Crash, FiledInv, RouteInv, Idle
<1>. QED  BY <1>4, <1>6, <1>7

LEMMA InvStep == Inv /\ [Next]_vars => Inv'
<1>. SUFFICES ASSUME Inv, [Next]_vars
              PROVE  Inv'
  OBVIOUS
<1>1. CASE Modem
  BY <1>1, FileStep DEF Modem
<1>2. CASE HandleCMTI
  BY <1>2, HandleStep
<1>3. CASE SweepStep
  BY <1>3, SweepStepInv
<1>4. ASSUME NEW r \in Routes, Process(r)
      PROVE  Inv'
  BY <1>4, ReadStep, HandOffStep, RefuseStep, GiveUpStep, DeleteStep DEF Process
<1>5. CASE Consume \/ \E ref \in Refs : SweepBudget(ref)
  BY <1>5, QuietStep
<1>6. CASE Crash
  BY <1>6, CrashStep
<1>7. CASE UNCHANGED vars
  <2>1. Live' = Live
    BY <1>7 DEF vars, Live
  <2>. QED
    BY <1>7, <2>1 DEF Inv, RouteOK, RestOK, FiledInv, RouteInv, Answered,
                      vars, modem, sweep, history
<1>. QED  BY <1>1, <1>2, <1>3, <1>4, <1>5, <1>6, <1>7 DEF Next

\* The inductive invariant: every variable keeps its type; what a slot holds
\* was filed there, and a route that is about to delete has read a message that
\* is answered (handed over, given up or not decodable).
THEOREM InvCorrect == Spec => []Inv
<1>1. Init => Inv
  BY InvInit
<1>2. Inv /\ [Next]_vars => Inv'
  BY InvStep
<1>. QED  BY <1>1, <1>2, PTL DEF Spec

\* Type correctness, with the bounds of the channel (inboundChannelSize), the
\* budget table (inboundChannelFullRefs) and its counts (inboundChannelFullRetries).
THEOREM TypeCorrect == Spec => []TypeOK
<1>1. Inv => TypeOK
  BY DEF Inv, RouteOK, RestOK, RouteRec, TypeOK
<1>. QED  BY <1>1, InvCorrect, PTL

-----------------------------------------------------------------------------
(* A message that leaves its slot unanswered.                              *)

\* Only a deletion takes a message from its slot.
LEMMA OnlyDeletesErase ==
  ASSUME Inv, Next, NEW m \in Messages, Stored(m), ~Stored(m)'
  PROVE  \E r \in Routes : (Delete(r) \/ DeleteFails(r)) /\ route[r].pc = "delete"
<1>1. store' # store
  BY DEF Stored
<1>2. ASSUME NEW e \in Entries, File(e)
      PROVE  FALSE
  <2>1. store[e] = 0 /\ store' = [store EXCEPT ![e] = Len(filed) + 1]
    BY <1>2 DEF File, Free
  <2>2. PICK f \in Entries : store[f] = m
    BY DEF Stored
  <2>3. f # e
    BY <2>1, <2>2, ConfigAssumption DEF Messages
  <2>4. store'[f] = m
    BY <2>1, <2>2, <2>3 DEF Inv, RestOK
  <2>. QED  BY <2>4 DEF Stored
<1>3. ~Modem
  BY <1>2 DEF Modem, Arrive, ArriveUnheard
<1>4. ~HandleCMTI /\ ~SweepStep /\ ~Consume /\ ~Crash /\ \A ref \in Refs : ~SweepBudget(ref)
  BY <1>1 DEF HandleCMTI, SweepStep, SweepStart, ListStored, ListFails, Listing, SweepEntry,
             Consume, Crash, SweepBudget, modem
<1>5. PICK r \in Routes : Process(r)
  BY <1>3, <1>4 DEF Next
<1>6. Delete(r) \/ DeleteFails(r)
  BY <1>1, <1>5 DEF Process, ReadStored, ReadFails, Reading, HandOff, Refuse, GiveUp, Offering, modem
<1>. QED  BY <1>6 DEF Delete, DeleteFails, Deleting

\* A message that leaves its slot unanswered is deleted by a route that has
\* read another message: whatever is deleted after it was read is answered, so
\* processStoredEntry loses a message only through a slot that was used again or
\* a selection of the wrong memory.
THEOREM LossNeedsStaleRouteCorrect == Spec => LossNeedsStaleRoute
<1>. DEFINE Loss(m) == Stored(m) /\ ~Stored(m)' /\ ~Answered(m)
            Stale(m) == \E r \in Routes : route[r].pc = "delete" /\ route[r].msg # m
<1>1. ASSUME Inv, [Next]_vars, NEW m \in Arrived, Loss(m)
      PROVE  Stale(m)
  <2>1. m \in Messages
    <3>1. filed \in Seq(Entries) /\ Len(filed) <= MaxMessages
      BY <1>1 DEF Inv, RestOK
    <3>2. m \in 1..Len(filed)
      BY <3>1 DEF Arrived
    <3>. QED  BY <3>1, <3>2, ConfigAssumption DEF Messages
  <2>2. CASE UNCHANGED vars
    BY <1>1, <2>2 DEF vars, modem, Stored
  <2>3. CASE Next
    <3>1. PICK r \in Routes : route[r].pc = "delete"
      BY <1>1, <2>1, <2>3, OnlyDeletesErase
    <3>2. Answered(route[r].msg)
      BY <1>1, <3>1 DEF Inv, RouteInv
    <3>3. route[r].msg # m
      BY <1>1, <3>2
    <3>. QED  BY <3>1, <3>3
  <2>. QED  BY <1>1, <2>2, <2>3
<1>2. Inv /\ [Next]_vars => [\A m \in Arrived : Loss(m) => Stale(m)]_vars
  BY <1>1
<1>. QED  BY <1>2, InvCorrect, PTL DEF Spec, LossNeedsStaleRoute

-----------------------------------------------------------------------------
(* One memory whose slots are not used again.                              *)

OneMemory == Memories = {Default} /\ Reuse = FALSE

\* No slot takes two messages.
ApartInv == \A m, n \in 1..Len(filed) : filed[m] = filed[n] => m = n

\* A slot's budget counts refusals of the message filed there.
BudgetInv ==
  /\ \A m \in 1..Len(filed) : budget[StoredRef(filed[m])] <= refused[m]
  /\ \A e \in Entries : budget[StoredRef(e)] > 0 => \E m \in 1..Len(filed) : filed[m] = e

OneInv == ApartInv /\ RightSlot /\ NothingLost /\ BudgetInv /\ ExhaustedWasRefused

\* With one memory a command works on the slot it names, and a budget belongs
\* to one slot.
LEMMA OneMemoryNames ==
  ASSUME OneMemory, preferred \in Memories, NEW e \in Entries, NEW f \in Entries
  PROVE  Slot(e) = e /\ (StoredRef(e) = StoredRef(f) => e = f)
<1>1. e = <<Default, e[2]>> /\ f = <<Default, f[2]>>
  BY EntriesApart DEF OneMemory
<1>2. Slot(e) = e
  BY <1>1 DEF OneMemory, Slot, Actual
<1>3. StoredRef(e) = StoredRef(f) => e = f
  BY <1>1 DEF StoredRef
<1>. QED  BY <1>2, <1>3

\* The types the steps below rest on.
LEMMA InvTypes ==
  ASSUME Inv
  PROVE  /\ DOMAIN filed = 1..Len(filed) /\ Len(filed) \in Nat
         /\ \A m \in 1..Len(filed) : m \in Messages /\ m # 0 /\ filed[m] \in Entries
         /\ \A q \in Refs : budget[q] \in 0..(Retries - 1)
         /\ \A e \in Entries : StoredRef(e) \in Refs
         /\ \A m \in Messages : refused[m] \in 0..Retries /\ handed[m] \in Nat
         /\ preferred \in Memories
         /\ Retries \in Nat \ {0}
<1>1. RestOK
  BY DEF Inv
<1>2. DOMAIN filed = 1..Len(filed) /\ Len(filed) \in Nat /\ Len(filed) <= MaxMessages
        /\ \A m \in 1..Len(filed) : filed[m] \in Entries
  BY <1>1 DEF RestOK
<1>3. \A m \in 1..Len(filed) : m \in Messages /\ m # 0
  BY <1>2, ConfigAssumption DEF Messages
<1>4. /\ \A q \in Refs : budget[q] \in 0..(Retries - 1)
      /\ \A m \in Messages : refused[m] \in 0..Retries /\ handed[m] \in Nat
      /\ preferred \in Memories
  BY <1>1 DEF RestOK
<1>. QED  BY <1>2, <1>3, <1>4, EntriesApart, ConfigAssumption

\* A step that leaves the memories and the record of answers alone.
LEMMA OneFrame ==
  ASSUME Inv, OneInv,
         UNCHANGED <<store, filed, history>>,
         \A q \in Refs : budget'[q] \in {0, budget[q]},
         \A r \in Routes : route'[r].msg # 0 =>
           route'[r].msg = route[r].msg /\ route'[r].entry = route[r].entry
  PROVE  OneInv'
<1>. USE InvTypes DEF OneInv
<1>1. ApartInv' /\ ExhaustedWasRefused'
  BY DEF ApartInv, ExhaustedWasRefused, history
<1>2. RightSlot'
  BY DEF RightSlot
<1>3. NothingLost'
  BY DEF NothingLost, Arrived, Stored, Answered, history
<1>4. BudgetInv'
  <2>1. refused' = refused /\ filed' = filed
    BY DEF history
  <2>2. ASSUME NEW m \in 1..Len(filed)
        PROVE  budget'[StoredRef(filed[m])] <= refused[m]
    <3>1. budget[StoredRef(filed[m])] <= refused[m] /\ refused[m] \in Nat
      BY DEF BudgetInv
    <3>2. budget'[StoredRef(filed[m])] \in {0, budget[StoredRef(filed[m])]}
      OBVIOUS
    <3>. QED  BY <3>1, <3>2
  <2>3. ASSUME NEW e \in Entries, budget'[StoredRef(e)] > 0
        PROVE  \E m \in 1..Len(filed) : filed[m] = e
    <3>1. budget'[StoredRef(e)] \in {0, budget[StoredRef(e)]}
      OBVIOUS
    <3>2. budget[StoredRef(e)] > 0
      BY <2>3, <3>1
    <3>. QED  BY <3>2 DEF BudgetInv
  <2>. QED  BY <2>1, <2>2, <2>3 DEF BudgetInv
<1>. QED  BY <1>1, <1>2, <1>3, <1>4

\* A message is filed in a slot never used before.
LEMMA OneFile ==
  ASSUME Inv, OneMemory, OneInv, NEW e \in Entries, File(e)
  PROVE  OneInv'
<1>. USE InvTypes DEF OneInv
<1>0. PICK n : n = Len(filed) + 1
  OBVIOUS
<1>1. /\ store[e] = 0 /\ \A m \in 1..Len(filed) : filed[m] # e
      /\ filed' = Append(filed, e) /\ store' = [store EXCEPT ![e] = n]
      /\ UNCHANGED <<route, budget, history>>
  BY <1>0 DEF File, Free, OneMemory
<1>2. filed \in Seq(Entries) /\ store \in [Entries -> Messages \cup {0}]
  BY DEF Inv, RestOK
<1>3. /\ 1..Len(filed') = 1..Len(filed) \cup {n} /\ filed'[n] = e
      /\ DOMAIN filed' = 1..Len(filed')
      /\ \A m \in 1..Len(filed) : filed'[m] = filed[m] /\ m # n
  BY <1>0, <1>1, <1>2
<1>4. ApartInv'
  BY <1>1, <1>3 DEF ApartInv
<1>5. RightSlot'
  <2>1. \A r \in Routes : route[r].msg # 0 => route[r].msg \in 1..Len(filed)
    BY DEF Inv, RouteInv
  <2>. QED  BY <1>1, <1>3, <2>1 DEF RightSlot
<1>6. NothingLost'
  <2>1. Stored(n)'
    BY <1>1, <1>2 DEF Stored
  <2>2. ASSUME NEW m \in 1..Len(filed), Stored(m)
        PROVE  Stored(m)'
    <3>1. PICK f \in Entries : store[f] = m
      BY <2>2 DEF Stored
    <3>2. f # e
      BY <1>1, <3>1
    <3>. QED  BY <1>1, <1>2, <3>1, <3>2 DEF Stored
  <2>3. \A m \in 1..Len(filed) : Answered(m) => Answered(m)'
    BY <1>1 DEF Answered, history
  <2>. QED  BY <1>3, <2>1, <2>2, <2>3 DEF NothingLost, Arrived
<1>7. BudgetInv'
  <2>1. budget[StoredRef(e)] = 0
    <3>1. budget[StoredRef(e)] \in 0..(Retries - 1) /\ ~(budget[StoredRef(e)] > 0)
      BY <1>1 DEF BudgetInv
    <3>. QED  BY <3>1
  <2>2. n \in Messages
    <3>1. Len(filed) \in Nat /\ Len(filed) < MaxMessages /\ MaxMessages \in Nat
      BY ConfigAssumption DEF File
    <3>. QED  BY <1>0, <3>1 DEF Messages
  <2>3. budget'[StoredRef(e)] <= refused'[n]
    <3>1. budget'[StoredRef(e)] = 0 /\ refused'[n] = refused[n] /\ refused[n] \in 0..Retries
      BY <1>1, <2>1, <2>2 DEF history
    <3>. QED  BY <3>1
  <2>4. \A m \in 1..Len(filed') : budget'[StoredRef(filed'[m])] <= refused'[m]
    <3>1. ASSUME NEW m \in 1..Len(filed)
          PROVE  budget'[StoredRef(filed'[m])] <= refused'[m]
      BY <1>1, <1>3 DEF BudgetInv, history
    <3>. QED  BY <1>3, <2>3, <3>1
  <2>5. \A f \in Entries : budget'[StoredRef(f)] > 0 => \E m \in 1..Len(filed') : filed'[m] = f
    BY <1>1, <1>3 DEF BudgetInv
  <2>. QED  BY <2>4, <2>5 DEF BudgetInv
<1>8. ExhaustedWasRefused'
  BY <1>1 DEF ExhaustedWasRefused, history
<1>. QED  BY <1>4, <1>5, <1>6, <1>7, <1>8

\* The right slot is read.
LEMMA OneRead ==
  ASSUME Inv, OneMemory, OneInv, NEW r \in Routes, ReadStored(r) \/ ReadFails(r)
  PROVE  OneInv'
<1>. USE InvTypes DEF OneInv
<1>1. route[r].pc = "read" /\ UNCHANGED <<store, filed, budget, history>>
  BY DEF ReadStored, ReadFails, Reading
<1>2. RouteOK
  BY DEF Inv
<1>3. CASE End(r)
  <2>1. route'[r].msg = 0 /\ \A q \in Routes : q # r => route'[q] = route[q]
    BY <1>2, <1>3, EndShape DEF Idle
  <2>. QED  BY <1>1, <2>1, OneFrame
<1>4. ASSUME NEW pc \in {"handoff", "delete"}, NEW m \in Messages,
             m = store[Slot(route[r].entry)], Goto(r, pc, m)
      PROVE  OneInv'
  <2>1. route'[r].msg = m /\ route'[r].entry = route[r].entry
          /\ \A q \in Routes : q # r => route'[q] = route[q]
    BY <1>1, <1>2, <1>4, GotoShape
  <2>2. route[r].entry \in Entries
    BY <1>1, <1>2, BusyRoute
  <2>3. m = store[route[r].entry] /\ m # 0
    BY <1>4, <2>2, OneMemoryNames, ConfigAssumption DEF Messages
  <2>4. filed[m] = route[r].entry
    BY <2>2, <2>3 DEF Inv, FiledInv
  <2>5. RightSlot'
    BY <1>1, <2>1, <2>4 DEF RightSlot
  <2>6. ApartInv' /\ ExhaustedWasRefused' /\ NothingLost' /\ BudgetInv'
    BY <1>1 DEF ApartInv, ExhaustedWasRefused, NothingLost, BudgetInv,
                Arrived, Stored, Answered, history
  <2>. QED  BY <2>5, <2>6
<1>5. CASE ReadFails(r)
  BY <1>3, <1>5 DEF ReadFails
<1>6. CASE ReadStored(r)
  <2>1. \/ End(r)
        \/ \E pc \in {"handoff", "delete"} :
             store[Slot(route[r].entry)] \in Messages
               /\ Goto(r, pc, store[Slot(route[r].entry)])
    BY <1>6, ConfigAssumption DEF ReadStored
  <2>. QED  BY <1>3, <1>4, <2>1
<1>. QED  BY <1>5, <1>6

\* The slot of the message read is deleted.
LEMMA OneDelete ==
  ASSUME Inv, OneMemory, OneInv, NEW r \in Routes, Delete(r) \/ DeleteFails(r)
  PROVE  OneInv'
<1>. USE InvTypes DEF OneInv
<1>1. /\ route[r].pc = "delete" /\ UNCHANGED <<filed, budget, history>>
      /\ Erase(r) \/ UNCHANGED store
      /\ \/ End(r)
         \/ route[r].tries + 1 < Attempts /\ route' = [route EXCEPT ![r].tries = @ + 1]
  BY DEF Delete, DeleteFails, Deleting
<1>2. RouteOK
  BY DEF Inv
<1>3. \A q \in Routes : route'[q].msg # 0 =>
        route'[q].msg = route[q].msg /\ route'[q].entry = route[q].entry
  <2>1. CASE End(r)
    BY <1>2, <2>1, EndShape DEF Idle
  <2>2. CASE route[r].tries + 1 < Attempts /\ route' = [route EXCEPT ![r].tries = @ + 1]
    BY <1>2, <2>2, RetryShape
  <2>. QED  BY <1>1, <2>1, <2>2
<1>4. CASE UNCHANGED store
  BY <1>1, <1>3, <1>4, OneFrame
<1>5. CASE Erase(r)
  <2>1. route[r].entry \in Entries /\ Slot(route[r].entry) = route[r].entry
    BY <1>1, <1>2, BusyRoute, OneMemoryNames
  <2>2. store' = [store EXCEPT ![route[r].entry] = 0]
    BY <1>5, <2>1 DEF Erase
  <2>3. route[r].msg \in 1..Len(filed) /\ Answered(route[r].msg)
          /\ filed[route[r].msg] = route[r].entry
    BY <1>1 DEF Inv, RouteOK, RouteInv, RightSlot
  <2>4. ASSUME NEW m \in 1..Len(filed), Stored(m)
        PROVE  Stored(m)' \/ Answered(m)
    <3>1. PICK f \in Entries : store[f] = m
      BY <2>4 DEF Stored
    <3>2. filed[m] = f
      BY <3>1 DEF Inv, FiledInv
    <3>3. CASE f = route[r].entry
      BY <2>3, <3>2, <3>3 DEF ApartInv
    <3>4. CASE f # route[r].entry
      BY <2>2, <3>1, <3>4 DEF Inv, RestOK, Stored
    <3>. QED  BY <3>3, <3>4
  <2>5. \A m \in 1..Len(filed) : Answered(m) => Answered(m)'
    BY <1>1 DEF Answered, history
  <2>6. NothingLost'
    BY <1>1, <2>4, <2>5 DEF NothingLost, Arrived
  <2>7. RightSlot'
    BY <1>1, <1>3 DEF RightSlot
  <2>8. ApartInv' /\ ExhaustedWasRefused' /\ BudgetInv'
    BY <1>1 DEF ApartInv, ExhaustedWasRefused, BudgetInv, history
  <2>. QED  BY <2>6, <2>7, <2>8
<1>. QED  BY <1>1, <1>4, <1>5

\* An offer is answered: taken, refused or given up.
LEMMA OneOffer ==
  ASSUME Inv, OneMemory, OneInv, NEW r \in Routes, HandOff(r) \/ Refuse(r) \/ GiveUp(r)
  PROVE  OneInv'
<1>. USE InvTypes DEF OneInv
<1>. DEFINE k == route[r].msg
            ref == StoredRef(route[r].entry)
<1>1. route[r].pc = "handoff" /\ UNCHANGED <<store, filed, preferred>>
  BY DEF HandOff, Refuse, GiveUp, Offering, modem
<1>2. RouteOK
  BY DEF Inv
<1>3. /\ k \in 1..Len(filed) /\ k \in Messages /\ filed[k] = route[r].entry
      /\ route[r].entry \in Entries /\ ref \in Refs
  BY <1>1, <1>2, BusyRoute DEF Inv, RouteOK, RouteInv, RightSlot
<1>4. \A q \in Routes : route'[q].msg # 0 =>
        route'[q].msg = route[q].msg /\ route'[q].entry = route[q].entry
  <2>1. CASE End(r)
    BY <1>2, <2>1, EndShape DEF Idle
  <2>2. CASE Goto(r, "delete", k)
    BY <1>1, <1>2, <1>3, <2>2, GotoShape
  <2>. QED  BY <2>1, <2>2 DEF HandOff, Refuse, GiveUp, KeepStored
<1>5. ApartInv' /\ RightSlot'
  BY <1>1, <1>4 DEF ApartInv, RightSlot
<1>6. ASSUME \A m \in Messages : handed[m] > 0 => handed'[m] > 0,
             exhausted \subseteq exhausted'
      PROVE  NothingLost'
  <2>1. \A m \in 1..Len(filed) : Answered(m) => Answered(m)'
    BY <1>6 DEF Answered
  <2>. QED  BY <1>1, <2>1 DEF NothingLost, Arrived, Stored
<1>7. CASE HandOff(r)
  <2>1. /\ budget' = [budget EXCEPT ![ref] = 0] /\ handed' = [handed EXCEPT ![k] = @ + 1]
        /\ UNCHANGED <<refused, exhausted>>
    BY <1>7 DEF HandOff
  <2>2. \A q \in Refs : budget'[q] \in {0, budget[q]}
    BY <1>3, <2>1 DEF Inv, RestOK
  <2>3. BudgetInv'
    BY <1>1, <2>1, <2>2 DEF BudgetInv
  <2>4. \A m \in Messages : handed[m] > 0 => handed'[m] > 0
    BY <1>3, <2>1 DEF Inv, RestOK
  <2>5. ExhaustedWasRefused'
    BY <2>1 DEF ExhaustedWasRefused
  <2>. QED  BY <1>5, <1>6, <2>1, <2>3, <2>4, <2>5
<1>8. ASSUME CountRefusal(k)
      PROVE  /\ \A m \in Messages : m # k => refused'[m] = refused[m]
             /\ refused'[k] \in 0..Retries /\ refused'[k] >= refused[k]
             /\ refused[k] < Retries => refused'[k] = refused[k] + 1
  <2>1. refused \in [Messages -> 0..Retries]
    BY DEF Inv, RestOK
  <2>2. refused' = [refused EXCEPT ![k] = IF @ < Retries THEN @ + 1 ELSE @]
    BY <1>8 DEF CountRefusal
  <2>. QED  BY <1>3, <2>1, <2>2
<1>9. ASSUME NEW b \in Booked(ref)
      PROVE  /\ b[ref] = budget[ref] + 1
             /\ \A q \in Refs : q # ref => b[q] \in {0, budget[q]}
  BY <1>3, <1>9, BookedShape DEF Inv, RestOK
<1>10. \A m \in 1..Len(filed) : m # k => StoredRef(filed[m]) # ref
  BY <1>3, OneMemoryNames DEF ApartInv
<1>11. budget[ref] <= refused[k]
  BY <1>3 DEF BudgetInv
<1>12. ASSUME CountRefusal(k),
              budget'[ref] <= refused'[k],
              \A q \in Refs : q # ref => budget'[q] \in {0, budget[q]}
       PROVE  BudgetInv'
  <2>1. \A m \in 1..Len(filed) : budget'[StoredRef(filed[m])] <= refused'[m]
    <3>1. ASSUME NEW m \in 1..Len(filed), m # k
          PROVE  budget'[StoredRef(filed[m])] <= refused'[m]
      BY <1>8, <1>10, <1>12, <3>1 DEF BudgetInv
    <3>. QED  BY <1>3, <1>12, <3>1
  <2>2. \A e \in Entries : budget'[StoredRef(e)] > 0 => \E m \in 1..Len(filed) : filed[m] = e
    <3>1. ASSUME NEW e \in Entries, budget'[StoredRef(e)] > 0
          PROVE  \E m \in 1..Len(filed) : filed[m] = e
      <4>1. CASE StoredRef(e) = ref
        BY <1>3, <4>1, OneMemoryNames
      <4>2. CASE StoredRef(e) # ref
        BY <1>12, <3>1, <4>2 DEF BudgetInv
      <4>. QED  BY <4>1, <4>2
    <3>. QED  BY <3>1
  <2>. QED  BY <1>1, <2>1, <2>2 DEF BudgetInv
<1>13. CASE Refuse(r)
  <2>1. /\ CountRefusal(k) /\ budget[ref] + 1 < Retries /\ budget' \in Booked(ref)
        /\ UNCHANGED <<handed, exhausted>>
    BY <1>3, <1>13 DEF Refuse, Spent
  <2>2. budget'[ref] <= refused'[k]
    <3>1. budget'[ref] = budget[ref] + 1
      BY <1>9, <2>1
    <3>2. PICK u \in Nat : /\ refused'[k] = u /\ u >= refused[k]
                           /\ refused[k] < Retries => u = refused[k] + 1
      BY <1>3, <1>8, <2>1
    <3>3. refused[k] \in 0..Retries /\ budget[ref] \in 0..(Retries - 1) /\ Retries \in Nat
      BY <1>3, InvTypes
    <3>4. PICK w \in Nat, v \in Nat : budget[ref] = w /\ refused[k] = v
      BY <3>3
    <3>5. w <= v /\ w + 1 < Retries /\ Retries \in Nat /\ v <= Retries
      BY <1>11, <2>1, <3>3, <3>4
    <3>6. u >= w + 1
      BY ONLY <3>2, <3>4, <3>5
    <3>. QED  BY ONLY <3>1, <3>2, <3>4, <3>6
  <2>3. BudgetInv'
    BY <1>9, <1>12, <2>1, <2>2
  <2>4. ExhaustedWasRefused'
    <3>1. ASSUME NEW m \in exhausted
          PROVE  m \in Messages /\ refused'[m] >= Retries
      <4>1. m \in Messages /\ refused[m] >= Retries
        BY DEF Inv, RestOK, ExhaustedWasRefused
      <4>. QED  BY <1>8, <2>1, <4>1
    <3>. QED  BY <2>1, <3>1 DEF ExhaustedWasRefused
  <2>. QED  BY <1>5, <1>6, <2>1, <2>3, <2>4
<1>14. CASE GiveUp(r)
  <2>1. /\ CountRefusal(k) /\ budget[ref] + 1 >= Retries
        /\ budget' \in {[b EXCEPT ![ref] = 0] : b \in Booked(ref)}
        /\ exhausted' = exhausted \cup {k} /\ UNCHANGED handed
    BY <1>14 DEF GiveUp, Spent
  <2>2. PICK b \in Booked(ref) : budget' = [b EXCEPT ![ref] = 0]
    BY <2>1
  <2>3. b \in [Refs -> 0..Retries] /\ \A q \in Refs : q # ref => b[q] \in {0, budget[q]}
    BY <1>3, <2>2, BookedShape DEF Inv, RestOK
  <2>4. budget'[ref] = 0 /\ \A q \in Refs : q # ref => budget'[q] \in {0, budget[q]}
    BY <1>3, <2>2, <2>3
  <2>5. BudgetInv'
    BY <1>3, <1>8, <1>12, <2>1, <2>4
  <2>6. refused'[k] >= Retries
    <3>1. refused[k] \in 0..Retries /\ budget[ref] \in 0..(Retries - 1) /\ Retries \in Nat
      BY <1>3, InvTypes
    <3>2. PICK w \in Nat, v \in Nat : budget[ref] = w /\ refused[k] = v
      BY <3>1
    <3>3. PICK u \in Nat : refused'[k] = u /\ u >= v /\ (v < Retries => u = v + 1)
      BY <1>3, <1>8, <2>1, <3>2
    <3>4. w <= v /\ w + 1 >= Retries
      BY <1>11, <2>1, <3>2
    <3>. QED  BY ONLY <3>1, <3>3, <3>4
  <2>7. ExhaustedWasRefused'
    <3>1. ASSUME NEW m \in exhausted
          PROVE  refused'[m] >= Retries
      <4>1. m \in Messages /\ refused[m] >= Retries
        BY DEF Inv, RestOK, ExhaustedWasRefused
      <4>. QED  BY <1>8, <2>1, <4>1
    <3>. QED  BY <2>1, <2>6, <3>1 DEF ExhaustedWasRefused
  <2>. QED  BY <1>5, <1>6, <2>1, <2>5, <2>7
<1>. QED  BY <1>7, <1>13, <1>14

\* The other steps leave the memories and the record of answers alone.
LEMMA OneQuiet ==
  ASSUME Inv, OneInv,
         \/ HandleCMTI \/ SweepStep \/ Consume \/ Crash
         \/ \E ref \in Refs : SweepBudget(ref)
         \/ UNCHANGED vars
  PROVE  OneInv'
<1>. USE InvTypes
<1>0. RouteOK
  BY DEF Inv
<1>1. UNCHANGED <<store, filed, history>>
  BY DEF HandleCMTI, SweepStep, SweepStart, ListStored, ListFails, Listing, SweepEntry,
         Consume, Crash, SweepBudget, vars, modem, history
<1>2. \A q \in Refs : budget'[q] \in {0, budget[q]}
  <2>1. budget \in [Refs -> 0..(Retries - 1)]
    BY DEF Inv, RestOK
  <2>. QED
    BY <2>1 DEF HandleCMTI, SweepStep, SweepStart, ListStored, ListFails, Listing, SweepEntry,
                Consume, Crash, SweepBudget, vars
<1>3. ASSUME NEW r \in Routes, NEW e \in Entries, route[r].pc = "idle", Start(r, e)
      PROVE  \A q \in Routes : route'[q].msg # 0 =>
               route'[q].msg = route[q].msg /\ route'[q].entry = route[q].entry
  BY <1>0, <1>3, StartShape
<1>4. CASE UNCHANGED route
  BY <1>1, <1>2, <1>4, OneFrame
<1>5. CASE HandleCMTI
  <2>1. Head(urcs) \in Entries
    BY <1>5 DEF HandleCMTI, Inv, RestOK
  <2>2. UNCHANGED route \/ \E h \in Routes : route[h].pc = "idle" /\ Start(h, Head(urcs))
    BY <1>5, EntriesApart DEF HandleCMTI
  <2>. QED  BY <1>1, <1>2, <1>3, <1>4, <2>1, <2>2, OneFrame
<1>6. CASE \E e \in Entries : SweepEntry(e)
  <2>1. PICK e \in Entries : SweepEntry(e)
    BY <1>6
  <2>2. route[Sweep].pc = "idle" /\ Start(Sweep, e) /\ Sweep \in Routes
    BY <2>1, EntriesApart DEF SweepEntry
  <2>. QED  BY <1>1, <1>2, <1>3, <2>2, OneFrame
<1>7. CASE Crash
  <2>1. \A q \in Routes : route'[q].msg = 0
    BY <1>7 DEF Crash, Idle
  <2>. QED  BY <1>1, <1>2, <2>1, OneFrame
<1>. QED
  BY <1>4, <1>5, <1>6, <1>7
     DEF SweepStep, SweepStart, ListStored, ListFails, Listing, Consume, SweepBudget, vars

LEMMA OneInit ==
  ASSUME Init
  PROVE  OneInv
<1>1. Len(filed) = 0 /\ DOMAIN filed = {}
  BY DEF Init
<1>2. \A e \in Entries : budget[StoredRef(e)] = 0
  BY EntriesApart DEF Init
<1>3. ApartInv /\ NothingLost /\ ExhaustedWasRefused
  BY <1>1 DEF Init, ApartInv, NothingLost, Arrived, ExhaustedWasRefused
<1>4. RightSlot
  BY DEF Init, RightSlot, Idle
<1>5. BudgetInv
  BY <1>1, <1>2 DEF BudgetInv
<1>. QED  BY <1>3, <1>4, <1>5 DEF OneInv

LEMMA OneStep ==
  ASSUME OneMemory, Inv, OneInv, [Next]_vars
  PROVE  OneInv'
<1>1. ASSUME NEW e \in Entries, Arrive(e) \/ ArriveUnheard(e)
      PROVE  OneInv'
  BY <1>1, OneFile DEF Arrive, ArriveUnheard
<1>2. ASSUME NEW r \in Routes, Process(r)
      PROVE  OneInv'
  BY <1>2, OneRead, OneOffer, OneDelete DEF Process
<1>. QED  BY <1>1, <1>2, OneQuiet DEF Next, Modem

\* With one memory whose slots are not used again, whatever fails or crashes:
\* every route works on the slot of the message it read, and no two messages
\* share a slot or a budget.
THEOREM OneMemoryInv ==
  ASSUME OneMemory
  PROVE  Spec => []OneInv
<1>1. Init => OneInv
  BY OneInit
<1>2. Inv /\ OneInv /\ [Next]_vars => OneInv'
  BY OneStep
<1>. QED  BY <1>1, <1>2, InvCorrect, PTL DEF Spec

\* With one memory whose slots are not used again no message disappears
\* unanswered between the read, the hand-off and the attempts to delete it.
THEOREM NothingLostCorrect ==
  ASSUME OneMemory
  PROVE  Spec => []NothingLost
<1>1. OneInv => NothingLost
  BY DEF OneInv
<1>. QED  BY <1>1, OneMemoryInv, PTL

\* With one memory whose slots are not used again a message is given up only
\* after all its retries were refused, although budgets are evicted, expire,
\* are cleared by a hand-off and are forgotten by a restart.
THEOREM ExhaustedWasRefusedCorrect ==
  ASSUME OneMemory
  PROVE  Spec => []ExhaustedWasRefused
<1>1. OneInv => ExhaustedWasRefused
  BY DEF OneInv
<1>. QED  BY <1>1, OneMemoryInv, PTL

-----------------------------------------------------------------------------
(* Copies of a message.  Its +CMTI and its slot are each good for one      *)
(* hand-off; a failed command or a restart may renew the slot's.           *)

\* Somebody is still to offer what a +CMTI announced, or may yet.
ToHandle(e) ==
  \/ \E i \in 1..Len(urcs) : urcs[i] = e
  \/ \E h \in Handlers : route[h].pc \in {"read", "handoff"} /\ route[h].entry = e

\* The sweep is still to offer what the slot holds, or may yet.
ToSweep(m) ==
  \/ Stored(m) /\ ~(route[Sweep].pc = "delete" /\ route[Sweep].msg = m)
  \/ route[Sweep].pc = "handoff" /\ route[Sweep].msg = m

\* The hand-offs each of them may still make of a message.
ByHandler(m) == IF ToHandle(filed[m]) THEN 1 ELSE 0
BySweep(m)   == IF ToSweep(m) THEN 1 ELSE 0

\* A slot is announced once, and one handler at most works on it.
CmtiInv ==
  /\ \A i \in 1..Len(urcs) :
       /\ \E m \in 1..Len(filed) : filed[m] = urcs[i]
       /\ \A j \in 1..Len(urcs) : urcs[j] = urcs[i] => j = i
       /\ \A h \in Handlers : route[h].entry # urcs[i]
  /\ \A h \in Handlers : route[h].pc # "idle" =>
       /\ \E m \in 1..Len(filed) : filed[m] = route[h].entry
       /\ \A g \in Handlers : route[g].entry = route[h].entry => g = h

CopyInv ==
  /\ \A m \in Messages \ Arrived : handed[m] = 0
  /\ \A m \in Arrived :
       handed[m] + ByHandler(m) + BySweep(m) <= 2 + faults + crashes

LEMMA CopyInit == ASSUME Init PROVE CmtiInv /\ CopyInv
<1>1. Len(filed) = 0 /\ DOMAIN filed = {} /\ Len(urcs) = 0
  BY DEF Init
<1>2. CmtiInv
  BY <1>1 DEF Init, CmtiInv, Idle, Routes
<1>. QED  BY <1>1, <1>2 DEF Init, CopyInv, Arrived

\* What processStoredEntry does to its route and to nothing else.
LEMMA ProcessShape ==
  ASSUME Inv, NEW r \in Routes, Process(r)
  PROVE  /\ UNCHANGED <<filed, urcs, crashes>>
         /\ route[r].pc # "idle"
         /\ \A q \in Routes : q # r => route'[q] = route[q]
         /\ route'[r] = Idle \/ (route'[r].entry = route[r].entry /\ route'[r].pc # "idle")
         /\ route'[r].pc # "read"
         /\ route'[r].pc = "handoff" => route[r].pc = "read" /\ ReadStored(r)
<1>0. RouteOK
  BY DEF Inv
<1>1. UNCHANGED <<filed, urcs, crashes>> /\ route[r].pc \in {"read", "handoff", "delete"}
  BY DEF Process, ReadStored, ReadFails, Reading, HandOff, Refuse, GiveUp, Offering, Delete,
         DeleteFails, Deleting, modem
<1>2. CASE End(r)
  BY <1>0, <1>1, <1>2, EndShape DEF Idle
<1>3. ASSUME NEW pc \in {"handoff", "delete"}, NEW m \in Messages, Goto(r, pc, m),
             pc = "handoff" => ReadStored(r)
      PROVE  /\ \A q \in Routes : q # r => route'[q] = route[q]
             /\ route'[r].entry = route[r].entry /\ route'[r].pc = pc
             /\ pc = "handoff" => route[r].pc = "read" /\ ReadStored(r)
  BY <1>0, <1>1, <1>3, GotoShape DEF ReadStored, Reading
<1>4. CASE ReadStored(r)
  BY <1>1, <1>2, <1>3, <1>4, ConfigAssumption DEF ReadStored
<1>5. CASE ReadFails(r) \/ Refuse(r) \/ Delete(r)
  BY <1>1, <1>2, <1>5 DEF ReadFails, Refuse, KeepStored, Delete
<1>6. CASE HandOff(r) \/ GiveUp(r)
  <2>1. route[r].pc = "handoff" /\ Goto(r, "delete", route[r].msg)
    BY <1>6 DEF HandOff, GiveUp, Offering
  <2>2. route[r].msg \in Messages
    BY <1>0, <2>1 DEF RouteOK, RouteRec
  <2>. QED  BY <1>1, <1>3, <2>1, <2>2
<1>7. CASE DeleteFails(r)
  <2>1. route[r].pc = "delete"
    BY <1>7 DEF DeleteFails, Deleting
  <2>2. CASE route[r].tries + 1 < Attempts /\ route' = [route EXCEPT ![r].tries = @ + 1]
    BY <1>0, <1>1, <2>1, <2>2, RetryShape
  <2>. QED  BY <1>1, <1>2, <1>7, <2>2 DEF DeleteFails
<1>. QED  BY <1>4, <1>5, <1>6, <1>7 DEF Process

LEMMA CmtiStep ==
  ASSUME Inv, OneMemory, CmtiInv, [Next]_vars
  PROVE  CmtiInv'
<1>0. /\ RouteOK /\ urcs \in Seq(Entries) /\ filed \in Seq(Entries)
      /\ Handlers \subseteq Routes /\ Sweep \in Routes \ Handlers /\ NoEntry \notin Entries
  BY EntriesApart, ConfigAssumption DEF Inv, RestOK, Routes
\* Steps that start no handler.
<1>1. ASSUME UNCHANGED <<filed, urcs>>,
             \A h \in Handlers :
               \/ route'[h] \in {Idle, route[h]}
               \/ route'[h].entry = route[h].entry /\ route[h].pc # "idle"
      PROVE  CmtiInv'
  <2>1. \A h \in Handlers : /\ route'[h].pc # "idle" => route[h].pc # "idle" /\ route'[h].entry = route[h].entry
                            /\ route'[h].entry \in {NoEntry, route[h].entry}
                            /\ route'[h].pc # "idle" => route[h].entry # NoEntry
    BY <1>0, <1>1 DEF Idle, RouteOK
  <2>2. \A i \in 1..Len(urcs) : urcs[i] \in Entries /\ urcs[i] # NoEntry
    BY <1>0
  <2>3. urcs' = urcs /\ filed' = filed
    BY <1>1
  <2>4. ASSUME NEW i \in 1..Len(urcs)
        PROVE  /\ \E m \in 1..Len(filed) : filed[m] = urcs[i]
               /\ \A j \in 1..Len(urcs) : urcs[j] = urcs[i] => j = i
               /\ \A h \in Handlers : route'[h].entry # urcs[i]
    BY <2>1, <2>2 DEF CmtiInv
  <2>5. ASSUME NEW h \in Handlers, route'[h].pc # "idle"
        PROVE  /\ \E m \in 1..Len(filed) : filed[m] = route'[h].entry
               /\ \A g \in Handlers : route'[g].entry = route'[h].entry => g = h
    BY <2>1, <2>5 DEF CmtiInv
  <2>. QED  BY <2>3, <2>4, <2>5 DEF CmtiInv
<1>2. ASSUME NEW e \in Entries, Arrive(e) \/ ArriveUnheard(e)
      PROVE  CmtiInv'
  <2>1. /\ UNCHANGED route /\ filed' = Append(filed, e)
        /\ urcs' = Append(urcs, e) \/ urcs' = urcs
        /\ \A m \in 1..Len(filed) : filed[m] # e
    BY <1>0, <1>2 DEF Arrive, ArriveUnheard, File, Free, OneMemory
  <2>2. /\ \A m \in 1..Len(filed) : m \in 1..Len(filed') /\ filed'[m] = filed[m]
        /\ Len(filed') \in 1..Len(filed') /\ filed'[Len(filed')] = e
        /\ Len(urcs) \in Nat
    BY <1>0, <2>1
  <2>3. /\ \A i \in 1..Len(urcs) : urcs[i] # e /\ urcs[i] \in Entries
        /\ \A h \in Handlers : route[h].entry # e
    <3>1. \A h \in Handlers : route[h].pc = "idle" => route[h].entry = NoEntry
      BY <1>0 DEF RouteOK
    <3>2. ASSUME NEW i \in 1..Len(urcs)
          PROVE  urcs[i] # e /\ urcs[i] \in Entries
      <4>1. \E m \in 1..Len(filed) : filed[m] = urcs[i]
        BY DEF CmtiInv
      <4>. QED  BY <1>0, <2>1, <4>1
    <3>3. ASSUME NEW h \in Handlers
          PROVE  route[h].entry # e
      <4>1. CASE route[h].pc = "idle"
        BY <1>0, <3>1, <4>1
      <4>2. CASE route[h].pc # "idle"
        BY <2>1, <4>2 DEF CmtiInv
      <4>. QED  BY <4>1, <4>2
    <3>. QED  BY <3>2, <3>3
  <2>4. \A h \in Handlers : route'[h].pc # "idle" =>
          /\ \E m \in 1..Len(filed') : filed'[m] = route'[h].entry
          /\ \A g \in Handlers : route'[g].entry = route'[h].entry => g = h
    BY <2>1, <2>2 DEF CmtiInv
  <2>5. CASE urcs' = urcs
    BY <2>1, <2>2, <2>4, <2>5 DEF CmtiInv
  <2>6. CASE urcs' = Append(urcs, e)
    <3>1. /\ Len(urcs') = Len(urcs) + 1 /\ urcs'[Len(urcs) + 1] = e
          /\ \A i \in 1..Len(urcs) : urcs'[i] = urcs[i]
      BY <1>0, <2>6
    <3>2. ASSUME NEW i \in 1..Len(urcs')
          PROVE  /\ \E m \in 1..Len(filed') : filed'[m] = urcs'[i]
                 /\ \A j \in 1..Len(urcs') : urcs'[j] = urcs'[i] => j = i
                 /\ \A h \in Handlers : route'[h].entry # urcs'[i]
      <4>1. \A j \in 1..Len(urcs') : j = Len(urcs) + 1 \/ j \in 1..Len(urcs)
        BY <2>2, <3>1
      <4>2. CASE i = Len(urcs) + 1
        <5>1. urcs'[i] = e
          BY <3>1, <4>2
        <5>2. \E m \in 1..Len(filed') : filed'[m] = e
          BY <2>2
        <5>3. ASSUME NEW j \in 1..Len(urcs'), urcs'[j] = e  PROVE j = i
          BY <2>3, <3>1, <4>1, <4>2, <5>3
        <5>4. \A h \in Handlers : route'[h].entry # e
          BY <2>1, <2>3
        <5>. QED  BY <5>1, <5>2, <5>3, <5>4
      <4>3. CASE i \in 1..Len(urcs)
        <5>1. urcs'[i] = urcs[i] /\ urcs[i] # e
          BY <2>3, <3>1, <4>3
        <5>2. \E m \in 1..Len(filed') : filed'[m] = urcs[i]
          <6>1. PICK m \in 1..Len(filed) : filed[m] = urcs[i]
            BY <4>3 DEF CmtiInv
          <6>. QED  BY <2>2, <6>1
        <5>3. ASSUME NEW j \in 1..Len(urcs'), urcs'[j] = urcs[i]  PROVE j = i
          <6>1. j # Len(urcs) + 1
            BY <3>1, <5>1, <5>3
          <6>2. j \in 1..Len(urcs) /\ urcs[j] = urcs[i]
            BY <3>1, <4>1, <5>3, <6>1
          <6>. QED  BY <4>3, <6>2 DEF CmtiInv
        <5>4. \A h \in Handlers : route'[h].entry # urcs[i]
          BY <2>1, <4>3 DEF CmtiInv
        <5>. QED  BY <5>1, <5>2, <5>3, <5>4
      <4>. QED  BY <4>1, <4>2, <4>3
    <3>. QED  BY <2>4, <3>2 DEF CmtiInv
  <2>. QED  BY <2>1, <2>5, <2>6
<1>3. CASE HandleCMTI
  <2>1. /\ urcs # <<>> /\ urcs' = Tail(urcs) /\ UNCHANGED filed
    BY <1>3 DEF HandleCMTI
  <2>2. /\ Len(urcs) \in Nat /\ Len(urcs) > 0 /\ Len(urcs') = Len(urcs) - 1
        /\ \A i \in 1..Len(urcs') : i + 1 \in 1..Len(urcs) /\ urcs'[i] = urcs[i + 1]
        /\ Head(urcs) = urcs[1] /\ 1 \in 1..Len(urcs)
    BY <1>0, <2>1
  <2>3. CASE UNCHANGED route
    <3>1. ASSUME NEW i \in 1..Len(urcs')
          PROVE  /\ \E m \in 1..Len(filed) : filed[m] = urcs'[i]
                 /\ \A j \in 1..Len(urcs') : urcs'[j] = urcs'[i] => j = i
                 /\ \A h \in Handlers : route[h].entry # urcs'[i]
      BY <2>2 DEF CmtiInv
    <3>. QED  BY <2>1, <2>3, <3>1 DEF CmtiInv
  <2>4. ASSUME NEW h \in Handlers, route[h].pc = "idle", Start(h, Head(urcs))
        PROVE  CmtiInv'
    <3>1. Head(urcs) \in Entries
      BY <1>0, <2>1
    <3>2. /\ route'[h].pc = "read" /\ route'[h].entry = urcs[1]
          /\ \A q \in Routes : q # h => route'[q] = route[q]
      BY <1>0, <2>2, <2>4, <3>1, StartShape
    <3>3. ASSUME NEW i \in 1..Len(urcs')
          PROVE  /\ \E m \in 1..Len(filed) : filed[m] = urcs'[i]
                 /\ \A j \in 1..Len(urcs') : urcs'[j] = urcs'[i] => j = i
                 /\ \A g \in Handlers : route'[g].entry # urcs'[i]
      <4>1. /\ i + 1 \in 1..Len(urcs) /\ urcs'[i] = urcs[i + 1] /\ i + 1 # 1
        BY <2>2
      <4>2. \E m \in 1..Len(filed) : filed[m] = urcs[i + 1]
        BY <4>1 DEF CmtiInv
      <4>3. urcs[i + 1] # urcs[1]
        BY <2>2, <4>1 DEF CmtiInv
      <4>4. ASSUME NEW j \in 1..Len(urcs'), urcs'[j] = urcs'[i]
            PROVE  j = i
        <5>1. j + 1 \in 1..Len(urcs) /\ urcs[j + 1] = urcs[i + 1]
          BY <2>2, <4>1, <4>4
        <5>2. j + 1 = i + 1
          BY <4>1, <5>1 DEF CmtiInv
        <5>. QED  BY <2>2, <5>2
      <4>5. ASSUME NEW g \in Handlers
            PROVE  route'[g].entry # urcs'[i]
        <5>1. CASE g = h
          BY <3>2, <4>1, <4>3, <5>1
        <5>2. CASE g # h
          <6>1. route[g].entry # urcs[i + 1]
            BY <4>1 DEF CmtiInv
          <6>2. g \in Routes
            BY DEF Routes
          <6>. QED  BY <3>2, <4>1, <5>2, <6>1, <6>2
        <5>. QED  BY <5>1, <5>2
      <4>. QED  BY <4>1, <4>2, <4>4, <4>5
    <3>4. ASSUME NEW g \in Handlers, route'[g].pc # "idle"
          PROVE  /\ \E m \in 1..Len(filed) : filed[m] = route'[g].entry
                 /\ \A f \in Handlers : route'[f].entry = route'[g].entry => f = g
      <4>1. \A f \in Handlers : f # h => route'[f] = route[f]
        BY <3>2 DEF Routes
      <4>2. \A f \in Handlers : route[f].entry # urcs[1]
        BY <2>2 DEF CmtiInv
      <4>3. CASE g = h
        <5>1. \E m \in 1..Len(filed) : filed[m] = urcs[1]
          BY <2>2 DEF CmtiInv
        <5>. QED  BY <3>2, <4>1, <4>2, <4>3, <5>1
      <4>4. CASE g # h
        <5>1. route'[g] = route[g] /\ route[g].entry # urcs[1]
          BY <4>1, <4>2, <4>4
        <5>2. /\ \E m \in 1..Len(filed) : filed[m] = route[g].entry
              /\ \A f \in Handlers : route[f].entry = route[g].entry => f = g
          BY <3>4, <5>1 DEF CmtiInv
        <5>. QED  BY <3>2, <4>1, <5>1, <5>2
      <4>. QED  BY <4>3, <4>4
    <3>. QED  BY <2>1, <3>3, <3>4 DEF CmtiInv
  <2>. QED  BY <1>3, <2>3, <2>4 DEF HandleCMTI
<1>4. CASE SweepStep
  <2>1. UNCHANGED <<filed, urcs>>
    BY <1>4 DEF SweepStep, SweepStart, ListStored, ListFails, Listing, SweepEntry, modem
  <2>2. \A h \in Handlers : route'[h] = route[h]
    BY <1>0, <1>4 DEF SweepStep, SweepStart, ListStored, ListFails, Listing, SweepEntry, Start, RouteOK
  <2>. QED  BY <1>1, <2>1, <2>2
<1>5. ASSUME NEW r \in Routes, Process(r)
      PROVE  CmtiInv'
  BY <1>0, <1>1, <1>5, ProcessShape
<1>6. CASE Crash
  <2>1. urcs' = <<>> /\ \A h \in Handlers : route'[h] = Idle
    BY <1>0, <1>6 DEF Crash
  <2>. QED  BY <2>1 DEF CmtiInv, Idle
<1>7. CASE Consume \/ (\E ref \in Refs : SweepBudget(ref)) \/ UNCHANGED vars
  <2>1. UNCHANGED <<filed, urcs, route>>
    BY <1>7 DEF Consume, SweepBudget, vars, modem
  <2>. QED  BY <2>1 DEF CmtiInv
<1>. QED  BY <1>2, <1>3, <1>4, <1>5, <1>6, <1>7 DEF Next, Modem

\* A step that costs no message a copy more than it pays for.
LEMMA CopyFrame ==
  ASSUME Inv, CopyInv, filed' = filed,
         faults' \in Nat, crashes' \in Nat, handed' \in [Messages -> Nat],
         \A m \in Messages \ (1..Len(filed)) : handed'[m] = handed[m],
         \A m \in 1..Len(filed) :
           handed'[m] + ByHandler(m)' + BySweep(m)' + faults + crashes
             <= handed[m] + ByHandler(m) + BySweep(m) + faults' + crashes'
  PROVE  CopyInv'
<1>. USE InvTypes
<1>1. faults \in Nat /\ crashes \in Nat
  BY DEF Inv, RestOK
<1>2. ASSUME NEW m \in 1..Len(filed)
      PROVE  handed'[m] + ByHandler(m)' + BySweep(m)' <= 2 + faults' + crashes'
  <2>0. /\ ByHandler(m) \in {0, 1} /\ BySweep(m) \in {0, 1}
        /\ ByHandler(m)' \in {0, 1} /\ BySweep(m)' \in {0, 1}
    BY DEF ByHandler, BySweep
  <2>1. handed[m] + ByHandler(m) + BySweep(m) <= 2 + faults + crashes
    BY DEF CopyInv, Arrived
  <2>2. handed[m] \in Nat /\ handed'[m] \in Nat
    OBVIOUS
  <2>3. handed'[m] + ByHandler(m)' + BySweep(m)' + faults + crashes
          <= handed[m] + ByHandler(m) + BySweep(m) + faults' + crashes'
    OBVIOUS
  <2>4. PICK f \in Nat, c \in Nat : faults' = f /\ crashes' = c
    OBVIOUS
  <2>5. PICK h \in Nat, k \in Nat : handed[m] = h /\ handed'[m] = k
    BY <2>2
  <2>6. PICK a \in Nat, b \in Nat : ByHandler(m) = a /\ BySweep(m) = b
    BY <2>0
  <2>7. PICK u \in Nat, v \in Nat : ByHandler(m)' = u /\ BySweep(m)' = v
    BY <2>0
  <2>8. h + a + b <= 2 + faults + crashes
    BY ONLY <1>1, <2>1, <2>5, <2>6
  <2>9. k + u + v + faults + crashes <= h + a + b + f + c
    BY ONLY <1>1, <2>3, <2>4, <2>5, <2>6, <2>7
  <2>10. k + u + v <= 2 + f + c
    BY ONLY <1>1, <2>8, <2>9
  <2>. QED  BY ONLY <2>4, <2>5, <2>7, <2>10
<1>3. \A m \in Messages \ Arrived' : handed'[m] = 0
  BY DEF CopyInv, Arrived
<1>. QED  BY <1>2, <1>3 DEF CopyInv, Arrived

\* A step that hands nothing over and renews no offer.
LEMMA CopyQuiet ==
  ASSUME Inv, CopyInv, UNCHANGED <<filed, handed>>,
         faults' \in Nat, crashes' \in Nat, faults' >= faults, crashes' >= crashes,
         \A e \in Entries : ToHandle(e)' => ToHandle(e),
         \A m \in 1..Len(filed) :
           ToSweep(m)' => ToSweep(m) \/ faults' + crashes' >= faults + crashes + 1
  PROVE  CopyInv'
<1>. USE InvTypes
<1>1. faults \in Nat /\ crashes \in Nat /\ handed \in [Messages -> Nat]
  BY DEF Inv, RestOK
<1>2. ASSUME NEW m \in 1..Len(filed)
      PROVE  handed'[m] + ByHandler(m)' + BySweep(m)' + faults + crashes
               <= handed[m] + ByHandler(m) + BySweep(m) + faults' + crashes'
  <2>0. /\ ByHandler(m) \in {0, 1} /\ BySweep(m) \in {0, 1}
        /\ ByHandler(m)' \in {0, 1} /\ BySweep(m)' \in {0, 1}
    BY DEF ByHandler, BySweep
  <2>1. PICK f \in Nat, c \in Nat : faults' = f /\ crashes' = c
    OBVIOUS
  <2>2. PICK h \in Nat : handed[m] = h /\ handed'[m] = h
    OBVIOUS
  <2>3. PICK a \in Nat, b \in Nat : ByHandler(m) = a /\ BySweep(m) = b
    BY <2>0
  <2>4. PICK u \in Nat, v \in Nat : ByHandler(m)' = u /\ BySweep(m)' = v
    BY <2>0
  <2>5. u <= a /\ v <= 1
    BY <2>0, <2>3, <2>4 DEF ByHandler
  <2>6. v <= b \/ f + c >= faults + crashes + 1
    BY <2>1, <2>3, <2>4 DEF BySweep
  <2>7. f >= faults /\ c >= crashes
    BY <2>1
  <2>8. h + u + v + faults + crashes <= h + a + b + f + c
    BY ONLY <1>1, <2>5, <2>6, <2>7
  <2>. QED  BY ONLY <2>1, <2>2, <2>3, <2>4, <2>8
<1>. QED  BY <1>1, <1>2, CopyFrame

\* A new message may be handed over by its handler and by the sweep.
LEMMA CopyFile ==
  ASSUME Inv, OneMemory, CopyInv, NEW e \in Entries, Arrive(e) \/ ArriveUnheard(e)
  PROVE  CopyInv'
<1>. USE InvTypes
<1>1. /\ filed' = Append(filed, e) /\ store' = [store EXCEPT ![e] = Len(filed) + 1]
      /\ urcs' = Append(urcs, e) \/ urcs' = urcs
      /\ UNCHANGED <<route, handed, crashes>> /\ faults' \in Nat /\ faults' >= faults
      /\ \A m \in 1..Len(filed) : filed[m] # e
  <2>1. File(e) /\ (urcs' = Append(urcs, e) \/ urcs' = urcs)
          /\ (faults' = faults \/ faults' = faults + 1)
    BY DEF Arrive, ArriveUnheard, Fault
  <2>2. faults \in Nat
    BY DEF Inv, RestOK
  <2>3. \A m \in 1..Len(filed) : filed[m] # e
    BY <2>1 DEF File, Free, OneMemory
  <2>. QED  BY <2>1, <2>2, <2>3 DEF File, history
<1>2. /\ faults \in Nat /\ crashes \in Nat /\ handed \in [Messages -> Nat]
      /\ filed \in Seq(Entries) /\ urcs \in Seq(Entries)
      /\ store \in [Entries -> Messages \cup {0}]
  BY DEF Inv, RestOK
<1>3. /\ Len(filed') = Len(filed) + 1 /\ DOMAIN filed' = 1..(Len(filed) + 1)
      /\ \A m \in 1..Len(filed) : filed'[m] = filed[m]
  BY <1>1, <1>2
<1>4. \A m \in Messages \ (1..Len(filed)) : handed[m] = 0
  BY DEF CopyInv, Arrived
<1>5. ASSUME NEW m \in 1..Len(filed)
      PROVE  handed'[m] + ByHandler(m)' + BySweep(m)' <= 2 + faults' + crashes'
  <2>1. ToHandle(filed[m])' => ToHandle(filed[m])
    <3>1. filed[m] # e /\ filed'[m] = filed[m]
      BY <1>1, <1>3
    <3>2. ASSUME NEW i \in 1..Len(urcs'), urcs'[i] = filed[m]
          PROVE  i \in 1..Len(urcs) /\ urcs[i] = filed[m]
      <4>1. CASE urcs' = urcs
        BY <3>2, <4>1
      <4>2. CASE urcs' = Append(urcs, e)
        <5>1. i \in 1..Len(urcs) \/ i = Len(urcs) + 1
          BY <1>2, <4>2
        <5>2. i # Len(urcs) + 1
          BY <1>2, <3>1, <3>2, <4>2
        <5>. QED  BY <1>2, <3>2, <4>2, <5>1, <5>2
      <4>. QED  BY <1>1, <4>1, <4>2
    <3>. QED  BY <1>1, <3>1, <3>2 DEF ToHandle
  <2>2. ToSweep(m)' => ToSweep(m)
    <3>1. Stored(m)' => Stored(m)
      BY <1>1, <1>2 DEF Stored
    <3>. QED  BY <1>1, <3>1 DEF ToSweep
  <2>3. handed[m] + ByHandler(m) + BySweep(m) <= 2 + faults + crashes
    BY DEF CopyInv, Arrived
  <2>4. ByHandler(m)' <= ByHandler(m) /\ BySweep(m)' <= BySweep(m)
    BY <2>1, <2>2 DEF ByHandler, BySweep
  <2>5. handed[m] \in Nat /\ handed'[m] = handed[m]
    BY <1>1
  <2>6. /\ ByHandler(m) \in {0, 1} /\ BySweep(m) \in {0, 1}
        /\ ByHandler(m)' \in {0, 1} /\ BySweep(m)' \in {0, 1}
    BY DEF ByHandler, BySweep
  <2>7. PICK f \in Nat : faults' = f /\ crashes' = crashes /\ faults <= f
    BY <1>1
  <2>8. PICK h \in Nat, c \in Nat, d \in Nat : handed[m] = h /\ crashes = c /\ faults = d
    BY <1>2, <2>5
  <2>9. PICK a \in Nat, b \in Nat : ByHandler(m) = a /\ BySweep(m) = b
    BY <2>6
  <2>10. PICK u \in Nat, v \in Nat : ByHandler(m)' = u /\ BySweep(m)' = v
    BY <2>6
  <2>11. u <= a /\ v <= b
    BY ONLY <2>4, <2>9, <2>10
  <2>12. h + a + b <= 2 + d + c
    BY ONLY <2>3, <2>8, <2>9
  <2>13. h + u + v <= 2 + f + c
    BY ONLY <2>7, <2>8, <2>11, <2>12
  <2>. QED  BY ONLY <2>5, <2>7, <2>8, <2>10, <2>13
<1>6. ASSUME NEW m \in DOMAIN filed', m = Len(filed) + 1
      PROVE  handed'[m] + ByHandler(m)' + BySweep(m)' <= 2 + faults' + crashes'
  <2>1. m \in Messages
    <3>1. Len(filed) < MaxMessages /\ MaxMessages \in Nat
      BY ConfigAssumption DEF Arrive, ArriveUnheard, File
    <3>. QED  BY <1>6, <3>1 DEF Messages
  <2>2. handed'[m] = 0
    BY <1>1, <1>4, <1>6, <2>1
  <2>3. ByHandler(m)' \in {0, 1} /\ BySweep(m)' \in {0, 1}
    BY DEF ByHandler, BySweep
  <2>. QED  BY <1>1, <1>2, <2>2, <2>3
<1>7. ASSUME NEW m \in DOMAIN filed'
      PROVE  handed'[m] + ByHandler(m)' + BySweep(m)' <= 2 + faults' + crashes'
  <2>1. m \in 1..Len(filed) \/ m = Len(filed) + 1
    BY <1>3
  <2>2. CASE m \in 1..Len(filed)
    BY <1>3, <1>5, <2>2
  <2>3. CASE m = Len(filed) + 1
    BY <1>6, <2>3
  <2>. QED  BY <2>1, <2>2, <2>3
<1>8. \A m \in Messages \ DOMAIN filed' : handed'[m] = 0
  BY <1>1, <1>3, <1>4
<1>. QED  BY <1>7, <1>8 DEF CopyInv, Arrived

\* Working on a slot takes no new +CMTI up.
LEMMA ProcessKeeps ==
  ASSUME Inv, NEW r \in Routes, Process(r), NEW e \in Entries, ToHandle(e)'
  PROVE  ToHandle(e)
<1>0. Handlers \subseteq Routes
  BY EntriesApart
<1>1. UNCHANGED urcs
  BY ProcessShape
<1>2. CASE \E i \in 1..Len(urcs) : urcs[i] = e
  BY <1>2 DEF ToHandle
<1>3. ASSUME NEW h \in Handlers, route'[h].pc \in {"read", "handoff"}, route'[h].entry = e
      PROVE  route[h].pc \in {"read", "handoff"} /\ route[h].entry = e
  <2>1. CASE h # r
    BY <1>0, <1>3, <2>1, ProcessShape
  <2>2. CASE h = r
    <3>1. route'[r].pc = "handoff"
      BY <1>3, <2>2, ProcessShape
    <3>2. route[r].pc = "read" /\ route'[r] # Idle
      BY <3>1, ProcessShape DEF Idle
    <3>. QED  BY <1>3, <2>2, <3>2, ProcessShape
  <2>. QED  BY <2>1, <2>2
<1>. QED  BY <1>1, <1>2, <1>3 DEF ToHandle

\* A message is handed over for its +CMTI or for its slot, and that is spent.
LEMMA CopyHandOff ==
  ASSUME Inv, OneMemory, OneInv, CmtiInv, CopyInv, NEW r \in Routes, HandOff(r)
  PROVE  CopyInv'
<1>0. /\ RouteOK /\ Handlers \subseteq Routes /\ Sweep \in Routes \ Handlers
      /\ handed \in [Messages -> Nat] /\ faults \in Nat /\ crashes \in Nat
      /\ \A m \in 1..Len(filed) : m \in Messages /\ m # 0 /\ filed[m] \in Entries
  <2>1. RouteOK /\ RestOK
    BY DEF Inv
  <2>2. faults \in Nat /\ crashes \in Nat /\ handed \in [Messages -> Nat]
    BY <2>1 DEF RestOK
  <2>. QED  BY <2>1, <2>2, InvTypes, EntriesApart, ConfigAssumption
<1>1. PICK k \in 1..Len(filed) :
        /\ route[r].msg = k /\ filed[k] = route[r].entry
        /\ route[r].pc = "handoff" /\ UNCHANGED <<store, filed, urcs, faults, crashes>>
        /\ handed' = [handed EXCEPT ![k] = @ + 1] /\ Goto(r, "delete", k)
  BY <1>0 DEF HandOff, Offering, modem, Inv, RouteOK, RouteInv, OneInv, RightSlot
<1>2. k \in Messages /\ filed[k] = route[r].entry
  BY <1>0, <1>1
<1>3. /\ route'[r].pc = "delete" /\ route'[r].msg = k /\ route'[r].entry = route[r].entry
      /\ \A q \in Routes : q # r => route'[q] = route[q]
  BY <1>0, <1>1, <1>2, GotoShape
<1>4. \A e \in Entries : ToHandle(e)' => ToHandle(e)
  BY ProcessKeeps DEF Process
<1>5. ASSUME NEW m \in 1..Len(filed)
      PROVE  ToSweep(m)' => ToSweep(m)
  <2>1. Stored(m)' <=> Stored(m)
    BY <1>1 DEF Stored
  <2>2. CASE r = Sweep
    BY <1>1, <1>3, <2>1, <2>2 DEF ToSweep
  <2>3. CASE r # Sweep
    BY <1>0, <1>3, <2>1, <2>3 DEF ToSweep
  <2>. QED  BY <2>2, <2>3
<1>6. \/ ToHandle(filed[k]) /\ ~ToHandle(filed[k])'
      \/ ToSweep(k) /\ ~ToSweep(k)'
  <2>1. CASE r = Sweep
    BY <1>1, <1>3, <2>1 DEF ToSweep
  <2>2. CASE r \in Handlers
    <3>1. ToHandle(filed[k])
      BY <1>1, <1>2, <2>2 DEF ToHandle
    <3>2. \A i \in 1..Len(urcs) : urcs[i] # filed[k]
      BY <1>2, <2>2 DEF CmtiInv
    <3>3. ASSUME NEW h \in Handlers, route'[h].pc \in {"read", "handoff"}
          PROVE  route'[h].entry # filed[k]
      <4>1. h # r
        BY <1>3, <3>3
      <4>2. route[h].entry # route[r].entry
        BY <1>1, <2>2, <4>1 DEF CmtiInv
      <4>. QED  BY <1>0, <1>2, <1>3, <4>1, <4>2
    <3>4. ~ToHandle(filed[k])'
      BY <1>1, <3>2, <3>3 DEF ToHandle
    <3>. QED  BY <3>1, <3>4
  <2>. QED  BY <2>1, <2>2 DEF Routes
<1>7. ASSUME NEW m \in 1..Len(filed)
      PROVE  handed'[m] + ByHandler(m)' + BySweep(m)' + faults + crashes
               <= handed[m] + ByHandler(m) + BySweep(m) + faults' + crashes'
  <2>0. /\ ByHandler(m) \in {0, 1} /\ BySweep(m) \in {0, 1}
        /\ ByHandler(m)' \in {0, 1} /\ BySweep(m)' \in {0, 1}
    BY DEF ByHandler, BySweep
  <2>1. PICK h \in Nat, g \in Nat : handed[m] = h /\ handed'[m] = g
    <3>1. m \in Messages /\ handed[m] \in Nat /\ handed'[m] \in Nat
      BY <1>0, <1>1, <1>2
    <3>. QED  BY <3>1
  <2>2. PICK a \in Nat, b \in Nat : ByHandler(m) = a /\ BySweep(m) = b
    BY <2>0
  <2>3. PICK u \in Nat, v \in Nat : ByHandler(m)' = u /\ BySweep(m)' = v
    BY <2>0
  <2>4. filed'[m] = filed[m] /\ filed[m] \in Entries
    BY <1>0, <1>1
  <2>5. u <= a
    BY <1>4, <2>0, <2>2, <2>3, <2>4 DEF ByHandler
  <2>6. v <= b
    BY <1>5, <2>0, <2>2, <2>3 DEF BySweep
  <2>7. CASE m # k
    <3>1. g = h
      BY <1>0, <1>1, <2>1, <2>7
    <3>2. g + u + v + faults + crashes <= h + a + b + faults + crashes
      BY ONLY <1>0, <2>5, <2>6, <3>1
    <3>. QED  BY <1>1, <2>1, <2>2, <2>3, <3>2
  <2>8. CASE m = k
    <3>1. g = h + 1
      BY <1>0, <1>1, <2>1, <2>8
    <3>2. CASE ToHandle(filed[k]) /\ ~ToHandle(filed[k])'
      <4>1. a = 1 /\ u = 0
        BY <2>2, <2>3, <2>4, <2>8, <3>2 DEF ByHandler
      <4>2. g + u + v + faults + crashes <= h + a + b + faults + crashes
        BY ONLY <1>0, <2>6, <3>1, <4>1
      <4>. QED  BY <1>1, <2>1, <2>2, <2>3, <4>2
    <3>3. CASE ToSweep(k) /\ ~ToSweep(k)'
      <4>1. b = 1 /\ v = 0
        BY <2>2, <2>3, <2>8, <3>3 DEF BySweep
      <4>2. g + u + v + faults + crashes <= h + a + b + faults + crashes
        BY ONLY <1>0, <2>5, <3>1, <4>1
      <4>. QED  BY <1>1, <2>1, <2>2, <2>3, <4>2
    <3>. QED  BY <1>6, <3>2, <3>3
  <2>. QED  BY <2>7, <2>8
<1>8. /\ handed' \in [Messages -> Nat]
      /\ \A m \in Messages \ (1..Len(filed)) : handed'[m] = handed[m]
      /\ faults' \in Nat /\ crashes' \in Nat
  BY <1>0, <1>1, <1>2
<1>. QED  BY <1>1, <1>7, <1>8, CopyFrame

\* Reading, refusing, giving up and deleting renew no offer; a deletion that
\* fails may leave the sweep a message it has handed over.
LEMMA CopyRest ==
  ASSUME Inv, OneMemory, OneInv, CopyInv, NEW r \in Routes,
         \/ ReadStored(r) \/ ReadFails(r) \/ Refuse(r) \/ GiveUp(r)
         \/ Delete(r) \/ DeleteFails(r)
  PROVE  CopyInv'
<1>0. /\ RouteOK /\ FiledInv /\ Sweep \in Routes /\ faults \in Nat /\ crashes \in Nat
      /\ \A m \in 1..Len(filed) : m \in Messages /\ m # 0 /\ filed[m] \in Entries
  <2>1. RouteOK /\ RestOK /\ FiledInv
    BY DEF Inv
  <2>2. faults \in Nat /\ crashes \in Nat
    BY <2>1 DEF RestOK
  <2>. QED  BY <2>1, <2>2, InvTypes, EntriesApart
<1>1. Process(r)
  BY DEF Process
<1>2. \A e \in Entries : ToHandle(e)' => ToHandle(e)
  BY <1>1, ProcessKeeps
<1>3. /\ UNCHANGED <<filed, handed, crashes>>
      /\ \/ faults' = faults
         \/ faults' = faults + 1 /\ (ReadFails(r) \/ DeleteFails(r))
  <2>1. UNCHANGED <<filed, handed, crashes>>
    BY DEF ReadStored, ReadFails, Reading, Refuse, GiveUp, Offering, modem, Delete, DeleteFails,
           Deleting, history
  <2>2. \/ faults' = faults
        \/ faults' = faults + 1 /\ (ReadFails(r) \/ DeleteFails(r))
    <3>1. CASE ReadFails(r) \/ DeleteFails(r)
      BY <3>1 DEF ReadFails, DeleteFails, Fault
    <3>2. CASE ReadStored(r) \/ Refuse(r) \/ GiveUp(r) \/ Delete(r)
      BY <3>2 DEF ReadStored, Refuse, GiveUp, Offering, Delete
    <3>. QED  BY <3>1, <3>2
  <2>. QED  BY <2>1, <2>2
<1>4. ASSUME NEW m \in 1..Len(filed)
      PROVE  Stored(m)' => Stored(m)
  <2>1. CASE UNCHANGED store
    BY <2>1 DEF Stored
  <2>2. CASE Erase(r)
    BY <1>0, <2>2 DEF Erase, Stored, Inv, RestOK
  <2>. QED
    BY <2>1, <2>2 DEF ReadStored, ReadFails, Reading, Refuse, GiveUp, Offering, modem,
                      Delete, DeleteFails
<1>5. ASSUME NEW m \in 1..Len(filed), ToSweep(m)'
      PROVE  ToSweep(m) \/ faults' + crashes' >= faults + crashes + 1
  <2>1. CASE r # Sweep
    <3>1. route'[Sweep] = route[Sweep]
      BY <1>0, <1>1, <2>1, ProcessShape
    <3>. QED  BY <1>4, <1>5, <3>1 DEF ToSweep
  <2>2. CASE r = Sweep /\ ReadStored(r)
    <3>1. route[r].pc = "read"
      BY <2>2 DEF ReadStored, Reading
    <3>2. CASE Stored(m)
      BY <2>2, <3>1, <3>2 DEF ToSweep
    <3>3. CASE ~Stored(m)
      <4>1. route'[r].pc = "handoff" /\ route'[r].msg = m
        BY <1>4, <1>5, <2>2, <3>3 DEF ToSweep
      <4>2. Goto(r, "handoff", store[Slot(route[r].entry)])
              /\ store[Slot(route[r].entry)] \in Messages
        <5>1. CASE End(r)
          BY <1>0, <4>1, <5>1, EndShape DEF Idle
        <5>2. ASSUME store[Slot(route[r].entry)] \in Undecodable,
                     Goto(r, "delete", store[Slot(route[r].entry)])
              PROVE  FALSE
          <6>1. store[Slot(route[r].entry)] \in Messages
            BY <5>2, ConfigAssumption
          <6>. QED  BY <1>0, <3>1, <4>1, <5>2, <6>1, GotoShape
        <5>. QED  BY <2>2, <5>1, <5>2 DEF ReadStored
      <4>3. store[Slot(route[r].entry)] = m
        BY <1>0, <3>1, <4>1, <4>2, GotoShape
      <4>4. route[r].entry \in Entries /\ Slot(route[r].entry) = route[r].entry
        BY <1>0, <3>1, BusyRoute, InvTypes, OneMemoryNames
      <4>. QED  BY <3>3, <4>3, <4>4 DEF Stored
    <3>. QED  BY <3>2, <3>3
  <2>3. CASE r = Sweep /\ (ReadFails(r) \/ Refuse(r) \/ GiveUp(r))
    <3>1. route[r].pc \in {"read", "handoff"}
      BY <2>3 DEF ReadFails, Reading, Refuse, GiveUp, Offering
    <3>2. CASE End(r)
      <4>1. Stored(m)
        BY <1>0, <1>4, <1>5, <2>3, <3>2, EndShape DEF ToSweep, Idle
      <4>. QED  BY <2>3, <3>1, <4>1 DEF ToSweep
    <3>3. CASE route[r].pc = "handoff" /\ Goto(r, "delete", route[r].msg)
      <4>1. route[r].msg \in Messages
        BY <1>0, <3>3 DEF RouteOK, RouteRec
      <4>2. route'[r].pc = "delete" /\ route'[r].msg = route[r].msg
        BY <1>0, <3>3, <4>1, GotoShape
      <4>. QED  BY <1>4, <1>5, <2>3, <3>3, <4>2 DEF ToSweep
    <3>. QED
      BY <2>3, <3>1, <3>2, <3>3 DEF ReadFails, Refuse, KeepStored, GiveUp, Offering
  <2>4. CASE r = Sweep /\ Delete(r)
    <3>1. route[r].pc = "delete" /\ Erase(r) /\ End(r)
      BY <2>4 DEF Delete, Deleting
    <3>2. Stored(m)' /\ Stored(m)
      BY <1>0, <1>4, <1>5, <2>4, <3>1, EndShape DEF ToSweep, Idle
    <3>3. CASE route[r].msg # m
      BY <2>4, <3>1, <3>2, <3>3 DEF ToSweep
    <3>4. CASE route[r].msg = m
      <4>1. filed[m] = route[r].entry
        BY <1>0, <3>4 DEF OneInv, RightSlot
      <4>2. Slot(filed[m]) = filed[m]
        BY <1>0, InvTypes, OneMemoryNames
      <4>3. store' = [store EXCEPT ![filed[m]] = 0]
        BY <3>1, <4>1, <4>2 DEF Erase
      <4>4. PICK e \in Entries : store'[e] = m
        BY <3>2 DEF Stored
      <4>5. store \in [Entries -> Messages \cup {0}]
        BY DEF Inv, RestOK
      <4>6. e # filed[m] /\ store[e] = m
        BY <1>0, <4>3, <4>4, <4>5
      <4>. QED  BY <1>0, <4>6 DEF FiledInv
    <3>. QED  BY <3>3, <3>4
  <2>5. CASE r = Sweep /\ DeleteFails(r)
    <3>1. faults' = faults + 1
      BY <2>5 DEF DeleteFails, Fault
    <3>. QED  BY <1>0, <1>3, <3>1
  <2>. QED  BY <2>1, <2>2, <2>3, <2>4, <2>5
<1>. QED  BY <1>0, <1>2, <1>3, <1>5, CopyQuiet

LEMMA CopyStep ==
  ASSUME Inv, OneMemory, OneInv, CmtiInv, CopyInv, [Next]_vars
  PROVE  CopyInv'
<1>0. /\ RouteOK /\ faults \in Nat /\ crashes \in Nat /\ urcs \in Seq(Entries)
      /\ Handlers \subseteq Routes /\ Sweep \in Routes \ Handlers
  <2>1. RouteOK /\ RestOK
    BY DEF Inv
  <2>2. faults \in Nat /\ crashes \in Nat /\ urcs \in Seq(Entries)
    BY <2>1 DEF RestOK
  <2>. QED  BY <2>1, <2>2, EntriesApart, ConfigAssumption
<1>1. ASSUME NEW e \in Entries, Arrive(e) \/ ArriveUnheard(e)
      PROVE  CopyInv'
  BY <1>1, CopyFile
<1>2. CASE HandleCMTI
  <2>1. /\ urcs # <<>> /\ urcs' = Tail(urcs)
        /\ UNCHANGED <<store, filed, handed, faults, crashes>>
        /\ UNCHANGED route \/ \E h \in Handlers : route[h].pc = "idle" /\ Start(h, Head(urcs))
    BY <1>2 DEF HandleCMTI, history
  <2>2. /\ \A i \in 1..Len(urcs') : i + 1 \in 1..Len(urcs) /\ urcs'[i] = urcs[i + 1]
        /\ Head(urcs) = urcs[1] /\ 1 \in 1..Len(urcs) /\ Head(urcs) \in Entries
    BY <1>0, <2>1
  <2>3. /\ route'[Sweep] = route[Sweep]
        /\ \A h \in Handlers : route'[h] = route[h] \/ route'[h].entry = urcs[1]
    BY <1>0, <2>1, <2>2, StartShape
  <2>4. ASSUME NEW e \in Entries, ToHandle(e)'
        PROVE  ToHandle(e)
    <3>1. CASE \E i \in 1..Len(urcs') : urcs'[i] = e
      BY <2>2, <3>1 DEF ToHandle
    <3>2. CASE \E h \in Handlers : route'[h].pc \in {"read", "handoff"} /\ route'[h].entry = e
      BY <2>2, <2>3, <3>2 DEF ToHandle
    <3>. QED  BY <2>4, <3>1, <3>2 DEF ToHandle
  <2>5. \A m \in 1..Len(filed) : ToSweep(m)' => ToSweep(m)
    BY <2>1, <2>3 DEF ToSweep, Stored
  <2>. QED  BY <1>0, <2>1, <2>4, <2>5, CopyQuiet
<1>3. CASE SweepStep
  <2>1. /\ UNCHANGED <<store, filed, urcs, handed, crashes>>
        /\ faults' = faults \/ faults' = faults + 1
    BY <1>3 DEF SweepStep, SweepStart, ListStored, ListFails, Listing, SweepEntry, Fault, modem, history
  <2>2. /\ \A h \in Handlers : route'[h] = route[h]
        /\ \/ route'[Sweep] = route[Sweep]
           \/ route[Sweep].pc = "idle" /\ route'[Sweep].pc = "read"
    <3>1. CASE UNCHANGED route
      BY <3>1
    <3>2. ASSUME NEW e \in Entries, SweepEntry(e)
          PROVE  /\ \A h \in Handlers : route'[h] = route[h]
                 /\ route[Sweep].pc = "idle" /\ route'[Sweep].pc = "read"
      BY <1>0, <3>2, StartShape DEF SweepEntry
    <3>. QED
      BY <1>3, <3>1, <3>2 DEF SweepStep, SweepStart, ListStored, ListFails, Listing
  <2>3. \A e \in Entries : ToHandle(e)' => ToHandle(e)
    BY <2>1, <2>2 DEF ToHandle
  <2>4. \A m \in 1..Len(filed) : ToSweep(m)' => ToSweep(m)
    BY <2>1, <2>2 DEF ToSweep, Stored
  <2>. QED  BY <1>0, <2>1, <2>3, <2>4, CopyQuiet
<1>4. ASSUME NEW r \in Routes, Process(r)
      PROVE  CopyInv'
  BY <1>4, CopyHandOff, CopyRest DEF Process
<1>5. CASE Crash
  <2>1. /\ UNCHANGED <<filed, handed, faults>> /\ crashes' = crashes + 1 /\ Len(urcs') = 0
        /\ \A h \in Handlers : route'[h].pc = "idle"
    BY <1>0, <1>5 DEF Crash, Idle, history
  <2>2. \A e \in Entries : ~ToHandle(e)'
    BY <2>1 DEF ToHandle
  <2>. QED  BY <1>0, <2>1, <2>2, CopyQuiet
<1>6. CASE Consume \/ (\E ref \in Refs : SweepBudget(ref)) \/ UNCHANGED vars
  <2>1. UNCHANGED <<store, filed, urcs, route, handed, faults, crashes>>
    BY <1>6 DEF Consume, SweepBudget, vars, modem, history
  <2>2. \A e \in Entries : ToHandle(e)' => ToHandle(e)
    BY <2>1 DEF ToHandle
  <2>3. \A m \in 1..Len(filed) : ToSweep(m)' => ToSweep(m)
    BY <2>1 DEF ToSweep, Stored
  <2>. QED  BY <1>0, <2>1, <2>2, <2>3, CopyQuiet
<1>. QED  BY <1>1, <1>2, <1>3, <1>4, <1>5, <1>6 DEF Next, Modem

\* What was handed over, and what the handlers and a sweep may still hand over.
LEMMA CopyInvCorrect ==
  ASSUME OneMemory
  PROVE  Spec => []CopyInv
<1>1. Init => CmtiInv /\ CopyInv
  BY CopyInit
<1>2. Inv /\ OneInv /\ CmtiInv /\ CopyInv /\ [Next]_vars => CmtiInv' /\ CopyInv'
  BY CmtiStep, CopyStep
<1>. QED  BY <1>1, <1>2, InvCorrect, OneMemoryInv, PTL DEF Spec

LEMMA FewCopies ==
  ASSUME Inv, CopyInv, NEW m \in Messages
  PROVE  handed[m] <= 2 + faults + crashes
<1>1. handed[m] \in Nat /\ faults \in Nat /\ crashes \in Nat
  <2>1. handed[m] \in Nat
    BY InvTypes
  <2>2. faults \in 0..MaxFaults /\ crashes \in 0..MaxCrashes
    BY DEF Inv, RestOK
  <2>. QED  BY <2>1, <2>2
<1>2. CASE m \in Arrived
  <2>1. handed[m] + ByHandler(m) + BySweep(m) <= 2 + faults + crashes
    BY <1>2 DEF CopyInv
  <2>2. ByHandler(m) \in {0, 1} /\ BySweep(m) \in {0, 1}
    BY DEF ByHandler, BySweep
  <2>. QED  BY ONLY <1>1, <2>1, <2>2
<1>3. CASE m \notin Arrived
  <2>1. handed[m] = 0
    BY <1>3 DEF CopyInv
  <2>. QED  BY ONLY <1>1, <2>1
<1>. QED  BY <1>2, <1>3

\* With one memory whose slots are not used again a message is handed over for
\* its +CMTI and for its slot, once each: a third copy needs a failed command
\* or a restart, whatever the handlers and the sweep do at the same time.
THEOREM DuplicatesNeedFaultsCorrect ==
  ASSUME OneMemory
  PROVE  Spec => []DuplicatesNeedFaults
<1>1. Inv => Arrived \subseteq Messages
  BY ConfigAssumption DEF Inv, RestOK, Arrived, Messages
<1>2. Inv /\ CopyInv => DuplicatesNeedFaults
  <2>. SUFFICES ASSUME Inv, CopyInv, NEW m \in Arrived
                PROVE  handed[m] <= 2 + faults + crashes
    BY DEF DuplicatesNeedFaults
  <2>1. m \in Messages
    BY <1>1
  <2>. QED  BY <2>1, FewCopies
<1>. QED  BY <1>2, InvCorrect, CopyInvCorrect, PTL

=============================================================================
