---------------------------- MODULE InboundPath ----------------------------
(***************************************************************************)
(* The whole way of an incoming SMS: InboundStore brings it from a slot of *)
(* the modem into the channel (modem.Service.InboundParts), and Inbox, the *)
(* channel's only reader, brings it from there into the inbox table.  Both *)
(* live in one process and end with it; the modem and the table stay.      *)
(*                                                                         *)
(* Part names the part each message decodes to, and what its header says   *)
(* is given by the functions of Inbox.  Parts of two messages differ by    *)
(* name, they may be alike in everything the program sees.                 *)
(***************************************************************************)
EXTENDS InboundStore

CONSTANTS
  Ids, Webhooks, Capacity, TTL,
  Parts, Sender, Width, Ref, Segments, Stamp, Port, Text, NoTime, NoPort,
  Window, Retention, MaxGroups, MaxClock,  \* the constants of Inbox
  Part                                     \* message -> its part

VARIABLES
  clock, groups, hand, rows, used, owed,
  entries, order, held, crowd, missed,  \* the variables of Inbox
  recorded,                             \* inserts of a message that succeeded, also those that met its row
  dropped                               \* messages of which a copy went elsewhere

Ib == INSTANCE Inbox

Decodable == Messages \ Undecodable

ASSUME PathAssumption ==
  /\ Ib!MarksAssumption /\ Ib!InboxAssumption
  /\ Part \in [Decodable -> Parts]
  /\ \A m, n \in Decodable : Part[m] = Part[n] => m = n

inbox    == <<clock, groups, hand, rows, used, owed, entries, order, held, crowd, missed>>
observed == <<recorded, dropped>>
pathvars == <<vars, inbox, observed>>

-----------------------------------------------------------------------------
(* Where a copy of a message is between its slot and the table.            *)

Waiting(m) == \E i \in DOMAIN channel : channel[i] = m

Buffered(m) == \E k \in DOMAIN groups : \E i \in DOMAIN groups[k].parts : groups[k].parts[i] = Part[m]

InHand(m) == hand.stage = "store" /\ \E i \in DOMAIN hand.body : hand.body[i] = Part[m]

InGateway(m) == Waiting(m) \/ Buffered(m) \/ InHand(m)

\* Persist, seen from outside.
Recorded(m) == InHand(m) /\ hand'.stage = "offer"

Observe ==
  /\ recorded' = [m \in Messages |->
                    IF m \in Decodable /\ Recorded(m) THEN recorded[m] + 1 ELSE recorded[m]]
  /\ dropped' = dropped \cup {m \in Decodable : InGateway(m) /\ ~InGateway(m)' /\ ~Recorded(m)}

-----------------------------------------------------------------------------
(* Steps of the two components, alone and together.                        *)

StoreStep(A) == A /\ UNCHANGED inbox /\ Observe

InboxStep(A) == A /\ UNCHANGED vars /\ Observe

Taken == Part[Head(channel)]

\* Run's select receives a part and assembleInbound runs to its end.
Take ==
  /\ Consume
  /\ Ib!TakeSingle(Taken) \/ Ib!TakeKnown(Taken) \/ Ib!TakeNew(Taken)
  /\ Observe

\* The process ends and starts again.
Restart == Crash /\ Ib!Restart /\ Observe

PathInit ==
  /\ Init /\ Ib!Init
  /\ recorded = [m \in Messages |-> 0]
  /\ dropped = {}

PathNext ==
  \/ StoreStep(Modem) \/ StoreStep(HandleCMTI) \/ StoreStep(SweepStep)
  \/ \E r \in Routes : StoreStep(Process(r))
  \/ \E ref \in Refs : StoreStep(SweepBudget(ref))
  \/ Take
  \/ InboxStep(Ib!Persist) \/ InboxStep(Ib!PersistFails) \/ InboxStep(Ib!Emit)
  \/ InboxStep(Ib!Sweep) \/ InboxStep(Ib!Cleanup) \/ InboxStep(Ib!Tick)
  \/ Restart

PathSpec == PathInit /\ [][PathNext]_pathvars

\* The goroutines of InboundStore run.  Run's select takes a part sooner or
\* later, whatever its tickers do, and what it has begun it ends.
PathFairness ==
  /\ WF_pathvars(StoreStep(HandleCMTI)) /\ WF_pathvars(StoreStep(SweepStep))
  /\ \A r \in Routes : WF_pathvars(StoreStep(Process(r)))
  /\ SF_pathvars(Take)
  /\ WF_pathvars(InboxStep(Ib!Persist) \/ InboxStep(Ib!PersistFails))
  /\ WF_pathvars(InboxStep(Ib!Emit))

FairPath == PathSpec /\ PathFairness

-----------------------------------------------------------------------------
(* Properties.                                                             *)

\* modem/service.go:870-877, inbox/service.go:286-352: with one memory whose
\* slots are not used again, an SMS that arrived is in its slot, on its way
\* through the gateway, or in the table, unless it was given up (the modem's
\* side) or dropped (the inbox's, see below).
NothingVanishes ==
  \A m \in Arrived \cap Decodable :
    Stored(m) \/ InGateway(m) \/ recorded[m] > 0 \/ m \in exhausted \cup dropped

\* inbox/service.go:330-352: one hand-off puts a part into one message: what
\* was recorded and what is still on its way was handed over as often.
Count(B) == IF B THEN 1 ELSE 0

Copies(m) == Cardinality({i \in DOMAIN channel : channel[i] = m})

HandedOnce ==
  \A m \in Decodable :
    recorded[m] + Count(InHand(m)) + Count(Buffered(m)) + Copies(m) <= handed[m]

\* modem/service.go:739-757, inbox/service.go:330-352: with one memory whose
\* slots are not used again, a part goes into the table once for its +CMTI and
\* once for a sweep; more often only after a failed command or a restart.
FewRecorded ==
  \A m \in Decodable : recorded[m] <= 2 + faults + crashes

\* The inbox takes a part.
Takes == channel # <<>> /\ channel' = Tail(channel)

\* It replaces part i of group k.
Repeats(k, i) == Takes /\ Ib!KeyOf(Taken[1]) = k /\ Taken[2] = i

\* It needs a group, and k is the oldest of MaxGroups live ones.
GivesWay(k) == Takes /\ ~Ib!Joins(Taken[1]) /\ Ib!Crowded(k)

\* A message of another size with the key of group k is begun or completed.
Superseded(k) ==
  \/ Ib!Resized(k)
  \/ Ib!Completes(k) /\ Segments[hand'.body[1][1]] # groups[k].segments

\* Its number is beyond the size its header announces.
Surplus(k, i) == Ib!Completes(k) /\ i \notin 1..Ib!Needed(groups[k].segments)

\* inbox/service.go:299-398 and :458-467: a copy of a message that has left
\* the modem gets lost only when the process ends, when the insert of its
\* message fails, or in its group: after the window, for another size under
\* its reference, for younger groups, under a repetition of its number, or
\* with a number its message does not have.
DroppedForReason ==
  [][\A m \in dropped' \ dropped :
       \/ crashes' # crashes
       \/ InHand(m) /\ hand'.stage = "offer unstored"
       \/ \E k \in DOMAIN groups : \E i \in DOMAIN groups[k].parts :
            /\ groups[k].parts[i] = Part[m]
            /\ \/ Ib!Expired(k) \/ GivesWay(k) \/ Superseded(k)
               \/ Repeats(k, i) \/ Surplus(k, i)]_pathvars

\* modem/service.go:598-607, inbox/service.go:122-131: an SMS that is filed in
\* the configured memory comes into the table or into a group, or is given up
\* or dropped, whatever failed, crashed or was refused on the way.
FiledIsReceived ==
  \A m \in Decodable :
    (m \in Arrived /\ filed[m][1] = Default)
      ~> (recorded[m] > 0 \/ Buffered(m) \/ m \in exhausted \cup dropped)

=============================================================================
