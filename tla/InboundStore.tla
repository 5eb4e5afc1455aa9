---------------------------- MODULE InboundStore ----------------------------
(***************************************************************************)
(* The way of an incoming SMS out of the modem's message memories          *)
(* (internal/modem: service.go, store.go).  The modem files an SMS in a    *)
(* slot and announces it (+CMTI); a handler goroutine, or the sweep that   *)
(* lists the memories from time to time, reads the slot, offers the part   *)
(* to the inbox over a bounded channel and deletes the slot.  A refused    *)
(* part stays stored until a budget of refusals, kept per slot, is spent.  *)
(*                                                                         *)
(* Abstractions.  A message is its number in the order of arrival.  Every  *)
(* budget may pass its window at any time, so which one eviction takes is  *)
(* left open.  The channel send and forgetChannelFull are one step.  The   *)
(* sweep visits the tracked memories and the listed slots in any order.    *)
(* A definition whose name ends in _Bug is a fault the properties must     *)
(* notice.                                                                 *)
(***************************************************************************)
EXTENDS Integers, FiniteSets, Sequences

CONSTANTS
  Memories,     \* message memories the modem files into
  Default,      \* Config.Store.Memory ("SM")
  Slots,        \* slot numbers of a memory
  MaxMessages,  \* messages that arrive (bounds the model)
  Undecodable,  \* those DecodeInboundSMS refuses
  Handlers,     \* concurrent +CMTI handlers (inboundHandlerLimit, 4)
  ChannelSize,  \* inboundChannelSize (64)
  Retries,      \* inboundChannelFullRetries (3)
  BudgetRefs,   \* inboundChannelFullRefs (64)
  Attempts,     \* Cmgd.RetryAttempts (3)
  Reuse,        \* whether the modem files into slots used before
  MaxFaults,    \* failed commands, indications nobody heard (bounds the model)
  MaxCrashes    \* restarts of the process (bounds the model)

Sweep    == "sweep"
Routes   == Handlers \cup {Sweep}
Messages == 1..MaxMessages
Entries  == Memories \X Slots

ASSUME ConfigAssumption ==
  /\ Memories \subseteq {"SM", "ME", "MT"} /\ Default \in Memories
  /\ Slots \subseteq Nat /\ IsFiniteSet(Slots)
  /\ Sweep \notin Handlers
  /\ MaxMessages \in Nat /\ Undecodable \subseteq Messages
  /\ ChannelSize \in Nat \ {0} /\ Retries \in Nat \ {0} /\ BudgetRefs \in Nat \ {0}
  /\ Attempts \in Nat \ {0} /\ Reuse \in BOOLEAN
  /\ MaxFaults \in Nat /\ MaxCrashes \in Nat

\* storedMemoryID: the number of a memory, and the key of a slot's budget.
MemoryID(mem) == IF mem = "MT" THEN 1 ELSE 0
StoredRef(e)  == <<MemoryID(e[1]), e[2]>>
Refs == {StoredRef(e) : e \in Entries}

-----------------------------------------------------------------------------
VARIABLES
  store,      \* message in a slot, 0 in an empty one
  filed,      \* where each message that arrived was filed
  preferred,  \* memory the modem's commands operate on
  urcs,       \* +CMTI lines the gateway has not read yet
  selected,   \* Commands.selectedStore
  tracked,    \* Service.storeMemories
  route,      \* what a handler or the sweep is doing
  sweepMems,  \* memories a sweep is still to list
  sweepTodo,  \* listed slots it is still to visit
  channel,    \* Service.inboundParts
  budget,     \* Service.channelFullDrops: refusals booked, 0 if untracked
  handed,     \* times a message was handed over
  refused,    \* times its hand-off was refused, counted up to Retries
  exhausted,  \* messages whose budget was spent
  faults, crashes

modem   == <<store, filed, preferred, urcs>>
sweep   == <<sweepMems, sweepTodo>>
history == <<handed, refused, exhausted>>
vars    == <<modem, selected, tracked, route, sweep, channel, budget, history, faults, crashes>>

NoEntry  == <<"none", 0>>
NoMemory == "none"
Idle     == [pc |-> "idle", entry |-> NoEntry, msg |-> 0, tries |-> 0]

Fault == faults < MaxFaults /\ faults' = faults + 1

Start(r, e)    == route' = [route EXCEPT ![r].pc = "read", ![r].entry = e]
Goto(r, pc, m) == route' = [route EXCEPT ![r].pc = pc, ![r].msg = m]
End(r)         == route' = [route EXCEPT ![r] = Idle]

-----------------------------------------------------------------------------
(* The modem.                                                              *)

Free(e) == store[e] = 0 /\ (Reuse \/ \A m \in DOMAIN filed : filed[m] # e)

File(e) ==
  /\ Len(filed) < MaxMessages /\ Free(e)
  /\ filed' = Append(filed, e)
  /\ store' = [store EXCEPT ![e] = Len(filed) + 1]
  /\ UNCHANGED <<preferred, selected, tracked, route, sweep, channel, budget, history, crashes>>

Arrive(e) ==
  /\ File(e)
  /\ urcs' = Append(urcs, e)
  /\ UNCHANGED faults

\* While the process is down, or on a garbled line, nobody hears the +CMTI.
ArriveUnheard(e) == File(e) /\ Fault /\ UNCHANGED urcs

(***************************************************************************)
(* A command on memory mem, after selectStoreLocked: the gateway selects   *)
(* only what it does not believe selected, so the memory the modem uses is *)
(* Actual(mem).  When an answer is lost, of the selection or of the        *)
(* command, the modem may have obeyed or not.                              *)
(***************************************************************************)
Actual(mem) == IF selected = mem THEN preferred ELSE mem

Command(mem) == selected' = mem /\ preferred' = Actual(mem)

SelectFails(mem) ==
  /\ selected # mem
  /\ preferred' \in {preferred, mem}
  /\ UNCHANGED selected

Slot(e) == <<Actual(e[1]), e[2]>>

-----------------------------------------------------------------------------
(* +CMTI handlers.                                                         *)

Track_Bug(mem) == {mem}

Track(mem) == tracked \cup {mem}

\* handleCMTI up to the read; with every handler busy the line is dropped.
HandleCMTI ==
  /\ urcs # <<>>
  /\ urcs' = Tail(urcs)
  /\ tracked' = Track(Head(urcs)[1])
  /\ \/ \E h \in Handlers :
          /\ route[h].pc = "idle"
          /\ Start(h, Head(urcs))
     \/ /\ \A h \in Handlers : route[h].pc # "idle"
        /\ UNCHANGED route
  /\ UNCHANGED <<store, filed, preferred, selected, sweep, channel, budget, history, faults, crashes>>

-----------------------------------------------------------------------------
(* The sweep of the Run goroutine.                                         *)

SweepStart ==
  /\ sweepMems = {} /\ sweepTodo = {} /\ route[Sweep].pc = "idle"
  /\ sweepMems' = tracked
  /\ UNCHANGED <<modem, selected, tracked, route, sweepTodo, channel, budget, history, faults, crashes>>

Listing(mem) ==
  /\ sweepTodo = {} /\ route[Sweep].pc = "idle" /\ mem \in sweepMems
  /\ sweepMems' = sweepMems \ {mem}
  /\ UNCHANGED <<store, filed, urcs, tracked, route, channel, budget, history, crashes>>

ListStored(mem) ==
  /\ Listing(mem)
  /\ Command(mem)
  /\ sweepTodo' = {e \in Entries : e[1] = mem /\ store[Slot(e)] # 0}
  /\ UNCHANGED faults

\* A memory that cannot be listed is skipped.
ListFails(mem) ==
  /\ Listing(mem)
  /\ Fault
  /\ SelectFails(mem) \/ Command(mem)
  /\ UNCHANGED sweepTodo

SweepEntry(e) ==
  /\ route[Sweep].pc = "idle" /\ e \in sweepTodo
  /\ sweepTodo' = sweepTodo \ {e}
  /\ Start(Sweep, e)
  /\ UNCHANGED <<modem, selected, tracked, sweepMems, channel, budget, history, faults, crashes>>

-----------------------------------------------------------------------------
(* processStoredEntry, for a handler or the sweep.                         *)

Reading(r) ==
  /\ route[r].pc = "read"
  /\ UNCHANGED <<store, filed, urcs, tracked, sweep, channel, budget, history, crashes>>

\* Only the sweep gets rid of a message that cannot be decoded.
DeletesUndecodable(r) == r = Sweep

ReadStored(r) ==
  LET m == store[Slot(route[r].entry)]
  IN  /\ Reading(r)
      /\ Command(route[r].entry[1])
      /\ \/ m = 0 /\ End(r)
         \/ m \in Undecodable /\ DeletesUndecodable(r) /\ Goto(r, "delete", m)
         \/ m \in Undecodable /\ ~DeletesUndecodable(r) /\ End(r)
         \/ m \in Messages \ Undecodable /\ Goto(r, "handoff", m)
      /\ UNCHANGED faults

ReadFails(r) ==
  /\ Reading(r)
  /\ Fault
  /\ SelectFails(route[r].entry[1]) \/ Command(route[r].entry[1])
  /\ End(r)

Offering(r) ==
  /\ route[r].pc = "handoff"
  /\ UNCHANGED <<modem, selected, tracked, sweep, faults, crashes>>

\* handOffInboundPart, the channel has room.
HandOff_Bug(r) ==
  /\ Offering(r)
  /\ Len(channel) < ChannelSize
  /\ Goto(r, "delete", route[r].msg)
  /\ UNCHANGED <<channel, budget, history>>

HandOff(r) ==
  LET m == route[r].msg
  IN  /\ Offering(r)
      /\ Len(channel) < ChannelSize
      /\ channel' = Append(channel, m)
      /\ budget' = [budget EXCEPT ![StoredRef(route[r].entry)] = 0]
      /\ handed' = [handed EXCEPT ![m] = @ + 1]
      /\ Goto(r, "delete", m)
      /\ UNCHANGED <<refused, exhausted>>

CountRefusal(m) ==
  refused' = [refused EXCEPT ![m] = IF @ < Retries THEN @ + 1 ELSE @]

Live == {ref \in Refs : budget[ref] > 0}

\* spendChannelFull: the budgets after one more refusal of ref, an older one
\* evicted when there is no room for a new one.
Booked(ref) ==
  IF budget[ref] > 0 \/ Cardinality(Live) < BudgetRefs
  THEN {[budget EXCEPT ![ref] = @ + 1]}
  ELSE {[budget EXCEPT ![ref] = 1, ![old] = 0] : old \in Live}

SpentEarly_Bug(attempts) == attempts >= Retries - 1

Spent(attempts) == attempts >= Retries

KeepStored_Bug(r) == Goto(r, "delete", route[r].msg)

\* inboundHandoffRetry: the route ends, the slot stays as it is.
KeepStored(r) == End(r)

\* The channel is full, the slot's budget is not spent: the message stays.
Refuse(r) ==
  LET ref == StoredRef(route[r].entry) IN
  /\ Offering(r)
  /\ Len(channel) = ChannelSize
  /\ CountRefusal(route[r].msg)
  /\ ~Spent(budget[ref] + 1)
  /\ budget' \in Booked(ref)
  /\ KeepStored(r)
  /\ UNCHANGED <<channel, handed, exhausted>>

\* The budget is spent: the message is given up.
GiveUp(r) ==
  LET ref == StoredRef(route[r].entry) IN
  /\ Offering(r)
  /\ Len(channel) = ChannelSize
  /\ CountRefusal(route[r].msg)
  /\ Spent(budget[ref] + 1)
  /\ budget' \in {[b EXCEPT ![ref] = 0] : b \in Booked(ref)}
  /\ exhausted' = exhausted \cup {route[r].msg}
  /\ Goto(r, "delete", route[r].msg)
  /\ UNCHANGED <<channel, handed>>

Deleting(r) ==
  /\ route[r].pc = "delete"
  /\ UNCHANGED <<filed, urcs, tracked, sweep, channel, budget, history, crashes>>

EraseOther_Bug(r) == UNCHANGED store

Erase(r) == store' = [store EXCEPT ![Slot(route[r].entry)] = 0]

Delete(r) ==
  /\ Deleting(r)
  /\ Command(route[r].entry[1])
  /\ Erase(r)
  /\ End(r)
  /\ UNCHANGED faults

\* One attempt of deleteStoredMessage fails; the last one ends the route.
DeleteFails(r) ==
  /\ Deleting(r)
  /\ Fault
  /\ \/ SelectFails(route[r].entry[1]) /\ UNCHANGED store
     \/ Command(route[r].entry[1]) /\ (Erase(r) \/ UNCHANGED store)
  /\ \/ /\ route[r].tries + 1 < Attempts
        /\ route' = [route EXCEPT ![r].tries = @ + 1]
     \/ route[r].tries + 1 = Attempts /\ End(r)

-----------------------------------------------------------------------------
(* The rest of the system.                                                 *)

\* The inbox takes a part.
Consume ==
  /\ channel # <<>>
  /\ channel' = Tail(channel)
  /\ UNCHANGED <<modem, selected, tracked, route, sweep, budget, history, faults, crashes>>

\* A budget whose window passed, removed by a refusal or by Run's ticker.
SweepBudget(ref) ==
  /\ ref \in Live
  /\ budget' = [budget EXCEPT ![ref] = 0]
  /\ UNCHANGED <<modem, selected, tracked, route, sweep, channel, history, faults, crashes>>

\* The process dies and starts again; the modem keeps what it holds.
Crash ==
  /\ crashes < MaxCrashes
  /\ crashes' = crashes + 1
  /\ urcs' = <<>>
  /\ selected' = NoMemory
  /\ tracked' = {Default}
  /\ route' = [r \in Routes |-> Idle]
  /\ sweepMems' = {} /\ sweepTodo' = {}
  /\ channel' = <<>>
  /\ budget' = [ref \in Refs |-> 0]
  /\ UNCHANGED <<store, filed, preferred, history, faults>>

-----------------------------------------------------------------------------
Init ==
  /\ store = [e \in Entries |-> 0]
  /\ filed = <<>>
  /\ preferred \in Memories
  /\ urcs = <<>>
  /\ selected = NoMemory
  /\ tracked = {Default}
  /\ route = [r \in Routes |-> Idle]
  /\ sweepMems = {} /\ sweepTodo = {}
  /\ channel = <<>>
  /\ budget = [ref \in Refs |-> 0]
  /\ handed = [m \in Messages |-> 0]
  /\ refused = [m \in Messages |-> 0]
  /\ exhausted = {}
  /\ faults = 0 /\ crashes = 0

Modem == \E e \in Entries : Arrive(e) \/ ArriveUnheard(e)

SweepStep ==
  \/ SweepStart
  \/ \E mem \in Memories : ListStored(mem) \/ ListFails(mem)
  \/ \E e \in Entries : SweepEntry(e)

Process(r) ==
  \/ ReadStored(r) \/ ReadFails(r)
  \/ HandOff(r) \/ Refuse(r) \/ GiveUp(r)
  \/ Delete(r) \/ DeleteFails(r)

Next ==
  \/ Modem \/ HandleCMTI \/ SweepStep
  \/ \E r \in Routes : Process(r)
  \/ Consume \/ Crash
  \/ \E ref \in Refs : SweepBudget(ref)

Spec == Init /\ [][Next]_vars

\* Handler goroutines, the Run loop with its sweep ticker and the inbox run.
Fairness ==
  /\ WF_vars(HandleCMTI) /\ WF_vars(SweepStep) /\ WF_vars(Consume)
  /\ \A r \in Routes : WF_vars(Process(r))

FairSpec == Spec /\ Fairness

-----------------------------------------------------------------------------
(* Properties.                                                             *)

Arrived   == DOMAIN filed
Stored(m) == \E e \in Entries : store[e] = m

\* Every variable keeps its type; no tracked budget is a spent one, and there
\* are never more of them than inboundChannelFullRefs.
TypeOK ==
  /\ store \in [Entries -> Messages \cup {0}]
  /\ filed \in Seq(Entries) /\ Len(filed) <= MaxMessages
  /\ preferred \in Memories
  /\ urcs \in Seq(Entries)
  /\ selected \in Memories \cup {NoMemory}
  /\ tracked \subseteq Memories
  /\ route \in [Routes -> [pc : {"idle", "read", "handoff", "delete"},
                           entry : Entries \cup {NoEntry},
                           msg : Messages \cup {0},
                           tries : 0..(Attempts - 1)]]
  /\ \A r \in Routes : route[r].pc = "idle" <=> route[r].entry = NoEntry
  /\ \A r \in Routes : route[r].pc \in {"handoff", "delete"} <=> route[r].msg # 0
  /\ sweepMems \subseteq Memories /\ sweepTodo \subseteq Entries
  /\ channel \in Seq(Messages) /\ Len(channel) <= ChannelSize
  /\ budget \in [Refs -> 0..(Retries - 1)]
  /\ Cardinality(Live) <= BudgetRefs
  /\ handed \in [Messages -> Nat] /\ refused \in [Messages -> 0..Retries]
  /\ exhausted \subseteq Messages \ Undecodable
  /\ faults \in 0..MaxFaults /\ crashes \in 0..MaxCrashes

\* What may happen to a message: handed over, given up after its budget, or
\* not decodable.
Answered(m) == handed[m] > 0 \/ m \in exhausted \cup Undecodable

\* With one memory whose slots are not used again no message disappears
\* unanswered, whatever fails or crashes between the read, the hand-off and the
\* attempts to delete it.
NothingLost == \A m \in Arrived : ~Stored(m) => Answered(m)

\* A message is given up only after all its retries were refused (one memory,
\* slots not used again).
ExhaustedWasRefused == \A m \in exhausted : refused[m] >= Retries

\* The handler of its +CMTI and a sweep may both hand a message over; any
\* further copy needs a failed command or a restart (one memory, slots not used
\* again: a wrong selection makes a handler read another memory's slot).
DuplicatesNeedFaults ==
  \A m \in Arrived : handed[m] <= 2 + faults + crashes

\* A message that leaves its slot unanswered is deleted by a route that has
\* read another message, or by one of another memory: the slot was used again,
\* or the wrong memory was selected.
LossNeedsStaleRoute ==
  [][\A m \in Arrived : Stored(m) /\ ~Stored(m)' /\ ~Answered(m) =>
       \E r \in Routes : route[r].pc = "delete" /\ route[r].msg # m]_vars

\* A message in a memory the gateway knows of leaves it, also when no
\* indication of it was handled, commands failed and the channel was full;
\* only a restart may forget a memory, and never the configured one.
TrackedMessageLeaves ==
  \A m \in Messages, k \in 0..MaxCrashes :
    (m \in Arrived /\ filed[m][1] \in tracked /\ crashes = k)
      ~> (~Stored(m) \/ (crashes > k /\ filed[m][1] # Default))

-----------------------------------------------------------------------------
(* Statements of comments.                                                 *)

\* "the delete runs AFTER an accepted hand-off" (handleCMTI), but for an entry
\* whose retry budget is used up.
OnlyBudgetLoses ==
  \A m \in Arrived \ Undecodable : ~Stored(m) => handed[m] > 0 \/ m \in exhausted

\* "a read or delete can never target the wrong slot" (sweepStore).
RightSlot ==
  \A r \in Routes : route[r].msg # 0 => filed[route[r].msg] = route[r].entry

\* "The PER STORE ENTRY bound on failed hand-offs: after this many full-channel
\* drops the entry is deleted" (inboundChannelFullRetries).
BudgetPerEntry == ExhaustedWasRefused

=============================================================================
