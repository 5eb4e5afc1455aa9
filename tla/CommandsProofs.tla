--------------------------- MODULE CommandsProofs ---------------------------
(***************************************************************************)
(* Theorems about the AT command layer, for any callers, commands, wrong   *)
(* answers and trouble.                                                    *)
(***************************************************************************)
EXTENDS Commands, TLAPS

-----------------------------------------------------------------------------
(* The inductive invariant.                                                *)

\* The mutex admits one caller; it drains exactly when the barrier is up.
OneInv ==
  /\ \A a, b \in Actors : Busy(a) /\ Busy(b) => a = b
  /\ \A a \in Actors : call[a].phase = "run" => ~pendingDrain
  /\ \A a \in Actors : call[a].phase = "drain" => pendingDrain

\* At most the last command on the wire is still waited for, and nothing is
\* on the wire of a dead port.
LastInv ==
  /\ \A i \in 1..Len(wire) : wire[i].live => i = Len(wire) /\ ~Free
  /\ closed => wire = <<>>

\* While no drain was ended by a late answer and the barrier is down, the
\* wire holds only the command that runs.
CleanInv ==
  ~slipped /\ ~pendingDrain =>
    /\ Free => wire = <<>>
    /\ \A a \in Actors : call[a].phase = "run" =>
         wire = <<>> \/ (Len(wire) = 1 /\ wire[1].cmd = call[a].cmd)

CommandsInv == CommandsType /\ OneInv /\ LastInv /\ CleanInv /\ MisreadNeedsSlip

Entries == [cmd : Command, live : BOOLEAN, answer : Answer]
Calls == [phase : {"idle", "drain", "run", "done"}, cmd : Command, out : Outcome]

-----------------------------------------------------------------------------
(* The wire and the calls.                                                 *)

LEMMA DrainTyped == Drain \in Command
BY DEF Command

LEMMA CallsTyped ==
  ASSUME NEW c \in Command, NEW kind \in Answer \cup {"late", "closed"}, NEW of \in Command,
         NEW phase \in {"idle", "drain", "run", "done"}
  PROVE  Idle \in Calls /\ Running(phase, c) \in Calls /\ Done(c, kind, of) \in Calls
<1>1. [kind |-> "ok", of |-> Drain] \in Outcome /\ [kind |-> kind, of |-> of] \in Outcome
  BY DrainTyped DEF Outcome, Answer
<1>. QED  BY <1>1, DrainTyped DEF Idle, Running, Done, Calls

\* Giving up leaves as many commands on the wire, none of them waited for.
LEMMA OrphanedShape ==
  ASSUME NEW w \in Seq(Entries)
  PROVE  /\ Orphaned(w) \in Seq(Entries) /\ Len(Orphaned(w)) = Len(w)
         /\ \A i \in 1..Len(w) : ~Orphaned(w)[i].live /\ Orphaned(w)[i].cmd = w[i].cmd
<1>1. DOMAIN w = 1..Len(w) /\ \A i \in 1..Len(w) : w[i] \in Entries
  OBVIOUS
<1>2. \A i \in 1..Len(w) : Orphaned(w)[i] = [w[i] EXCEPT !.live = FALSE]
  BY <1>1 DEF Orphaned
<1>3. \A i \in 1..Len(w) : /\ Orphaned(w)[i] \in Entries
                           /\ ~Orphaned(w)[i].live /\ Orphaned(w)[i].cmd = w[i].cmd
  BY <1>1, <1>2 DEF Entries
<1>4. Orphaned(w) = [i \in 1..Len(w) |-> Orphaned(w)[i]]
  BY <1>1 DEF Orphaned
<1>. QED  BY <1>3, <1>4

\* A command is written behind what is on the wire, and waited for.
LEMMA WriteShape ==
  ASSUME CommandsType, NEW w \in Seq(Entries), NEW c \in Command, Write(w, c)
  PROVE  /\ wire' \in Seq(Entries) /\ Len(wire') = Len(w) + 1
         /\ wire'[Len(w) + 1].cmd = c
         /\ \A i \in 1..Len(w) : wire'[i] = w[i]
         /\ trouble' \in 0..Trouble
         /\ taken' \subseteq Command
<1>1. PICK answer \in Answer :
        /\ trouble + Cost(answer) <= Trouble
        /\ trouble' = trouble + Cost(answer)
        /\ wire' = Append(w, [cmd |-> c, live |-> TRUE, answer |-> answer])
        /\ taken' = IF c.part > 0 /\ answer # "error" THEN taken \cup {c} ELSE taken
  BY DEF Write
<1>2. [cmd |-> c, live |-> TRUE, answer |-> answer] \in Entries
  BY DEF Entries
<1>3. trouble' \in 0..Trouble
  BY <1>1, CommandsAssumption DEF CommandsType, Cost
<1>4. taken' \subseteq Command
  BY <1>1 DEF CommandsType
<1>. QED  BY <1>1, <1>2, <1>3, <1>4

LEMMA CommandsInvInit == CommandsInit => CommandsInv
<1>. SUFFICES ASSUME CommandsInit  PROVE CommandsInv
  OBVIOUS
<1>1. Idle \in Calls /\ Idle.phase = "idle"
  BY DrainTyped DEF Idle, Calls, Outcome, Answer
<1>a. call \in [Actors -> Calls]
  BY <1>1 DEF CommandsInit
<1>b. wire \in Seq([cmd : Command, live : BOOLEAN, answer : Answer])
  BY DEF CommandsInit
<1>c. trouble \in 0..Trouble
  BY CommandsAssumption DEF CommandsInit
<1>2. CommandsType
  BY <1>a, <1>b, <1>c DEF CommandsInit, CommandsType, Calls
<1>3. \A a \in Actors : call[a] = Idle
  BY DEF CommandsInit
<1>4. OneInv /\ LastInv /\ CleanInv /\ MisreadNeedsSlip
  BY <1>1, <1>3 DEF CommandsInit, OneInv, LastInv, CleanInv, MisreadNeedsSlip, Asked, Busy
<1>. QED  BY <1>2, <1>4 DEF CommandsInv

-----------------------------------------------------------------------------
(* One lemma per action.                                                   *)

\* What a step does to the calls of the others.
LEMMA OneCall ==
  ASSUME CommandsType, NEW a \in Actors, NEW r \in Calls, call' = [call EXCEPT ![a] = r]
  PROVE  /\ call' \in [Actors -> Calls] /\ call'[a] = r
         /\ \A b \in Actors : b # a => call'[b] = call[b]
BY DEF CommandsType, Calls

LEMMA DiscardInv == ASSUME CommandsInv, Discard  PROVE CommandsInv'
<1>1. /\ wire \in Seq(Entries) /\ wire # <<>> /\ wire' = Tail(wire) /\ Free
      /\ UNCHANGED <<call, pendingDrain, closed, taken, trouble, slipped>>
  BY DEF Discard, CommandsInv, CommandsType, Entries
<1>2. /\ wire' \in Seq(Entries) /\ Len(wire') = Len(wire) - 1
      /\ \A i \in 1..Len(wire') : wire'[i] = wire[i + 1]
  BY <1>1
<1>3. CommandsType'
  BY <1>1, <1>2 DEF CommandsInv, CommandsType, Entries
<1>4. OneInv' /\ MisreadNeedsSlip'
  BY <1>1 DEF CommandsInv, OneInv, MisreadNeedsSlip, Asked, Busy
<1>5. \A i \in 1..Len(wire') : ~wire'[i].live
  BY <1>1, <1>2 DEF CommandsInv, LastInv
<1>6. LastInv' /\ CleanInv'
  BY <1>1, <1>5 DEF CommandsInv, LastInv, CleanInv, Free, Busy
<1>. QED  BY <1>3, <1>4, <1>6 DEF CommandsInv

LEMMA UnplugInv == ASSUME CommandsInv, Unplug  PROVE CommandsInv'
<1>1. /\ wire' = <<>> /\ closed' = TRUE
      /\ UNCHANGED <<call, pendingDrain, taken, trouble, slipped>>
  BY DEF Unplug
<1>3. CommandsType'
  BY <1>1 DEF CommandsInv, CommandsType
<1>4. OneInv' /\ MisreadNeedsSlip'
  BY <1>1 DEF CommandsInv, OneInv, MisreadNeedsSlip, Asked, Busy
<1>6. LastInv' /\ CleanInv'
  BY <1>1 DEF LastInv, CleanInv
<1>. QED  BY <1>3, <1>4, <1>6 DEF CommandsInv

LEMMA ForgetInv == ASSUME CommandsInv, Forget  PROVE CommandsInv'
<1>1. taken' = {} /\ UNCHANGED <<wire, call, pendingDrain, closed, trouble, slipped>>
  BY DEF Forget
<1>3. CommandsType'
  BY <1>1 DEF CommandsInv, CommandsType
<1>4. OneInv' /\ MisreadNeedsSlip' /\ LastInv' /\ CleanInv'
  BY <1>1 DEF CommandsInv, OneInv, MisreadNeedsSlip, Asked, Busy, LastInv, CleanInv, Free
<1>. QED  BY <1>3, <1>4 DEF CommandsInv

\* A call that ends or returns: only the caller's own record changes, and it
\* is not busy after it.
LEMMA ReturnInv == ASSUME CommandsInv, NEW a \in Actors, Return(a)  PROVE CommandsInv'
<1>1. /\ call[a].phase = "done" /\ call' = [call EXCEPT ![a] = Idle]
      /\ UNCHANGED <<wire, pendingDrain, closed, taken, trouble, slipped>>
  BY DEF Return
<1>2. Idle \in Calls /\ Idle.phase = "idle"
  BY DrainTyped DEF Idle, Calls, Outcome, Answer
<1>3. /\ call' \in [Actors -> Calls] /\ call'[a] = Idle
      /\ \A b \in Actors : b # a => call'[b] = call[b]
  BY <1>1, <1>2, OneCall DEF CommandsInv
<1>4. CommandsType'
  BY <1>1, <1>3 DEF CommandsInv, CommandsType, Calls
<1>5. \A b \in Actors : Busy(b)' <=> Busy(b)
  BY <1>1, <1>2, <1>3 DEF Busy
<1>6. \A b \in Actors : Busy(b) => call'[b] = call[b]
  BY <1>1, <1>3 DEF Busy
<1>7. Free' <=> Free
  BY <1>5 DEF Free
<1>8. OneInv'
  BY <1>1, <1>2, <1>3, <1>5 DEF CommandsInv, OneInv
<1>9. LastInv' /\ CleanInv'
  BY <1>1, <1>2, <1>3, <1>7 DEF CommandsInv, LastInv, CleanInv
<1>10. MisreadNeedsSlip'
  BY <1>1, <1>2, <1>3 DEF CommandsInv, MisreadNeedsSlip, Asked
<1>. QED  BY <1>4, <1>8, <1>9, <1>10 DEF CommandsInv

\* A call that starts on a free layer, or goes on after its drain.
LEMMA BusyInv ==
  ASSUME CommandsInv, NEW a \in Actors, NEW c \in Command, NEW phase \in {"drain", "run"},
         \A b \in Actors : b # a => ~Busy(b),
         call' = [call EXCEPT ![a] = Running(phase, c)],
         closed' = closed, pendingDrain' \in BOOLEAN, slipped' \in BOOLEAN,
         phase = "run" <=> ~pendingDrain', slipped => slipped',
         ~closed \/ wire = <<>>, ~closed,
         NEW w \in Seq(Entries), \A i \in 1..Len(w) : ~w[i].live,
         NEW d \in Command, Write(w, d),
         phase = "run" => d = c,
         phase = "run" /\ ~slipped' => w = <<>>
  PROVE  CommandsInv'
<1>1. Running(phase, c) \in Calls /\ Running(phase, c).phase = phase
      /\ Running(phase, c).cmd = c
  BY CallsTyped, DrainTyped DEF Running, Calls, Outcome, Answer
<1>2. /\ call' \in [Actors -> Calls] /\ call'[a] = Running(phase, c)
      /\ \A b \in Actors : b # a => call'[b] = call[b]
  BY <1>1, OneCall DEF CommandsInv
<1>3. /\ wire' \in Seq(Entries) /\ Len(wire') = Len(w) + 1
      /\ wire'[Len(w) + 1].cmd = d
      /\ \A i \in 1..Len(w) : wire'[i] = w[i]
      /\ trouble' \in 0..Trouble /\ taken' \subseteq Command
  BY WriteShape DEF CommandsInv
<1>4. CommandsType'
  BY <1>2, <1>3 DEF CommandsInv, CommandsType, Calls, Entries
<1>5. Busy(a)' /\ \A b \in Actors : b # a => ~Busy(b)'
  BY <1>1, <1>2 DEF Busy
<1>6. ~Free'
  BY <1>5 DEF Free
<1>7. OneInv'
  <2>1. \A x, y \in Actors : Busy(x)' /\ Busy(y)' => x = y
    BY <1>5
  <2>2. \A x \in Actors : x # a => call'[x].phase # "run" /\ call'[x].phase # "drain"
    BY <1>5 DEF Busy
  <2>3. call'[a].phase = phase
    BY <1>1, <1>2
  <2>. QED  BY <2>1, <2>2, <2>3 DEF OneInv
<1>8. LastInv'
  BY <1>3, <1>6 DEF LastInv
<1>9. CleanInv'
  <2>. SUFFICES ASSUME ~slipped', ~pendingDrain', NEW x \in Actors, call'[x].phase = "run"
                PROVE  Len(wire') = 1 /\ wire'[1].cmd = call'[x].cmd
    BY <1>6 DEF CleanInv
  <2>1. x = a
    BY <1>5 DEF Busy
  <2>2. phase = "run" /\ w = <<>> /\ d = c
    OBVIOUS
  <2>. QED  BY <1>1, <1>2, <1>3, <2>1, <2>2
<1>10. MisreadNeedsSlip'
  BY <1>1, <1>2 DEF CommandsInv, MisreadNeedsSlip, Asked
<1>. QED  BY <1>4, <1>7, <1>8, <1>9, <1>10 DEF CommandsInv

LEMMA ExecWritesInv ==
  ASSUME CommandsInv, NEW a \in Actors, NEW c \in Command, ExecWrites(a, c)  PROVE CommandsInv'
<1>1. /\ wire \in Seq(Entries) /\ pendingDrain \in BOOLEAN /\ slipped \in BOOLEAN
      /\ UNCHANGED <<pendingDrain, closed, slipped>> /\ ~closed /\ Free
  BY DEF ExecWrites, CommandsInv, CommandsType, Entries
<1>2. \A b \in Actors : ~Busy(b)
  BY <1>1 DEF Free
<1>3. \A i \in 1..Len(wire) : ~wire[i].live
  BY <1>1 DEF CommandsInv, LastInv
<1>4. CASE pendingDrain
  <2>1. Write(wire, Drain) /\ call' = [call EXCEPT ![a] = Running("drain", c)]
    BY <1>4 DEF ExecWrites
  <2>. QED  BY <1>1, <1>2, <1>3, <1>4, <2>1, BusyInv, DrainTyped
<1>5. CASE ~pendingDrain
  <2>1. Write(wire, c) /\ call' = [call EXCEPT ![a] = Running("run", c)]
    BY <1>5 DEF ExecWrites
  <2>2. ~slipped => wire = <<>>
    BY <1>1, <1>5 DEF CommandsInv, CleanInv
  <2>. QED  BY <1>1, <1>2, <1>3, <1>5, <2>1, <2>2, BusyInv
<1>. QED  BY <1>4, <1>5

LEMMA DrainAnsweredInv == ASSUME CommandsInv, NEW a \in Actors, DrainAnswered(a)  PROVE CommandsInv'
<1>. DEFINE w == Orphaned(Tail(wire))
            c == call[a].cmd
<1>1. /\ wire \in Seq(Entries) /\ wire # <<>> /\ closed' = closed
      /\ call[a].phase = "drain" /\ pendingDrain' = FALSE
      /\ slipped' = (slipped \/ ~Head(wire).live)
      /\ Write(w, c) /\ call' = [call EXCEPT ![a] = Running("run", c)]
  BY DEF DrainAnswered, CommandsInv, CommandsType, Entries
<1>2. c \in Command
  BY DEF CommandsInv, CommandsType
<1>3. Tail(wire) \in Seq(Entries) /\ Len(Tail(wire)) = Len(wire) - 1 /\ Head(wire) = wire[1]
  BY <1>1
<1>4. w \in Seq(Entries) /\ Len(w) = Len(wire) - 1 /\ \A i \in 1..Len(w) : ~w[i].live
  BY <1>3, OrphanedShape, Zenon
<1>5. \A b \in Actors : b # a => ~Busy(b)
  BY <1>1 DEF CommandsInv, OneInv, Busy
<1>6. ~closed
  BY <1>1 DEF CommandsInv, LastInv
<1>7. slipped' \in BOOLEAN /\ (slipped => slipped')
  BY <1>1 DEF CommandsInv, CommandsType
<1>8. ~slipped' => w = <<>>
  <2>1. ~slipped' => Len(wire) = 1
    <3>a. ~slipped' => Head(wire).live
      BY <1>1
    <3>b. Head(wire) = wire[1]
      BY <1>3
    <3>1. ~slipped' => wire[1].live
      BY <3>a, <3>b
    <3>2. 1 \in 1..Len(wire)
      BY <1>1
    <3>3. wire[1].live => 1 = Len(wire)
      BY <3>2 DEF CommandsInv, LastInv
    <3>. QED  BY <3>1, <3>3
  <2>. HIDE DEF w
  <2>2. Len(w) = 0 => w = <<>>
    BY <1>4
  <2>3. Len(wire) = 1 => Len(w) = 0
    BY <1>4
  <2>. QED  BY <2>1, <2>2, <2>3
<1>. HIDE DEF w, c
<1>. QED  BY <1>1, <1>2, <1>4, <1>5, <1>6, <1>7, <1>8, BusyInv

\* A call that ends: the layer is free after it.
LEMMA EndInv ==
  ASSUME CommandsInv, NEW a \in Actors, NEW kind \in Answer \cup {"late", "closed"},
         NEW c \in Command, NEW of \in Command,
         \A b \in Actors : b # a => ~Busy(b),
         call' = [call EXCEPT ![a] = Done(c, kind, of)],
         wire' \in Seq(Entries), \A i \in 1..Len(wire') : ~wire'[i].live,
         closed' = closed, slipped' = slipped, taken' = taken, trouble' \in 0..Trouble,
         pendingDrain' \in BOOLEAN, closed => wire' = <<>>,
         ~slipped /\ ~pendingDrain' => wire' = <<>>,
         ~slipped /\ kind \in Answer => of = c
  PROVE  CommandsInv'
<1>1. /\ Done(c, kind, of) \in Calls /\ Done(c, kind, of).phase = "done"
      /\ Done(c, kind, of).cmd = c /\ Done(c, kind, of).out = [kind |-> kind, of |-> of]
  BY CallsTyped DEF Done
<1>2. /\ call' \in [Actors -> Calls] /\ call'[a] = Done(c, kind, of)
      /\ \A b \in Actors : b # a => call'[b] = call[b]
  BY <1>1, OneCall DEF CommandsInv
<1>4. CommandsType'
  BY <1>2 DEF CommandsInv, CommandsType, Calls, Entries
<1>5. \A b \in Actors : ~Busy(b)'
  BY <1>1, <1>2 DEF Busy
<1>6. \A b \in Actors : call'[b].phase # "run" /\ call'[b].phase # "drain"
  BY <1>5 DEF Busy
<1>7. OneInv' /\ LastInv' /\ CleanInv'
  BY <1>5, <1>6 DEF OneInv, LastInv, CleanInv
<1>8. MisreadNeedsSlip'
  BY <1>1, <1>2 DEF CommandsInv, MisreadNeedsSlip, Asked
<1>. QED  BY <1>4, <1>7, <1>8 DEF CommandsInv

LEMMA ExecFailsInv ==
  ASSUME CommandsInv, NEW a \in Actors, NEW c \in Command, ExecFails(a, c)  PROVE CommandsInv'
<1>1. /\ wire = <<>> /\ Free /\ call' = [call EXCEPT ![a] = Done(c, "closed", c)]
      /\ pendingDrain' = FALSE /\ UNCHANGED <<wire, closed, taken, trouble, slipped>>
  BY DEF ExecFails, CommandsInv, LastInv
<1>2. trouble \in 0..Trouble /\ wire \in Seq(Entries) /\ \A b \in Actors : ~Busy(b)
  BY <1>1 DEF CommandsInv, CommandsType, Free, Entries
<1>3. "closed" \notin Answer
  BY DEF Answer
<1>4. wire' = <<>> /\ wire' \in Seq(Entries) /\ \A i \in 1..Len(wire') : ~wire'[i].live
  BY <1>1
<1>. QED  BY <1>1, <1>2, <1>3, <1>4, EndInv

\* The rest of a sequence after its first element.
LEMMA TailShape ==
  ASSUME NEW S, NEW s \in Seq(S), s # <<>>
  PROVE  /\ Tail(s) \in Seq(S) /\ Len(Tail(s)) = Len(s) - 1
         /\ Head(s) = s[1] /\ s[1] \in S
OBVIOUS

LEMMA CommandAnsweredInv == ASSUME CommandsInv, NEW a \in Actors, CommandAnswered(a)  PROVE CommandsInv'
<1>. DEFINE c == call[a].cmd
            of == Head(wire).cmd
            kind == Head(wire).answer
<1>1. /\ wire \in Seq(Entries) /\ wire # <<>> /\ wire' = Orphaned(Tail(wire))
      /\ call[a].phase = "run" /\ call' = [call EXCEPT ![a] = Done(c, kind, of)]
      /\ UNCHANGED <<pendingDrain, closed, taken, trouble, slipped>>
  BY DEF CommandAnswered, CommandsInv, CommandsType, Entries
<1>2. Tail(wire) \in Seq(Entries) /\ Len(Tail(wire)) = Len(wire) - 1 /\ Head(wire) = wire[1]
      /\ wire[1] \in Entries
  BY <1>1, TailShape, Zenon
<1>3. /\ wire' \in Seq(Entries) /\ Len(wire') = Len(wire) - 1
      /\ \A i \in 1..Len(wire') : ~wire'[i].live
  BY <1>1, <1>2, OrphanedShape, Zenon
<1>4. c \in Command /\ of \in Command /\ kind \in Answer /\ trouble \in 0..Trouble
      /\ pendingDrain \in BOOLEAN
  BY <1>2 DEF CommandsInv, CommandsType, Entries
<1>5. ~pendingDrain /\ \A b \in Actors : b # a => ~Busy(b)
  BY <1>1 DEF CommandsInv, OneInv, Busy
<1>6. ~slipped => Len(wire) = 1 /\ of = c
  BY <1>1, <1>2, <1>5 DEF CommandsInv, CleanInv
<1>7. ~closed /\ (~slipped => wire' = <<>>)
  BY <1>1, <1>3, <1>6 DEF CommandsInv, LastInv
<1>. HIDE DEF c, of, kind
<1>. QED  BY <1>1, <1>3, <1>4, <1>5, <1>6, <1>7, EndInv

LEMMA DeadlineInv == ASSUME CommandsInv, NEW a \in Actors, Deadline(a)  PROVE CommandsInv'
<1>. DEFINE c == call[a].cmd
            short == SubSeq(wire, 1, Len(wire) - 1)
<1>1. /\ wire \in Seq(Entries) /\ wire # <<>> /\ Busy(a)
      /\ trouble < Trouble /\ trouble' = trouble + 1
      /\ pendingDrain' = TRUE /\ call' = [call EXCEPT ![a] = Done(c, "late", c)]
      /\ wire' = Orphaned(wire) \/ wire' = Orphaned(short)
      /\ UNCHANGED <<closed, taken, slipped>>
  BY DEF Deadline, Barrier, CommandsInv, CommandsType, Entries
<1>2. short \in Seq(Entries)
  BY <1>1
<1>3. wire' \in Seq(Entries) /\ \A i \in 1..Len(wire') : ~wire'[i].live
  <2>. HIDE DEF short
  <2>. QED  BY <1>1, <1>2, OrphanedShape
<1>4. c \in Command /\ trouble' \in 0..Trouble /\ ~closed
  BY <1>1, CommandsAssumption DEF CommandsInv, CommandsType, LastInv
<1>5. \A b \in Actors : b # a => ~Busy(b)
  BY <1>1 DEF CommandsInv, OneInv
<1>6. "late" \notin Answer
  BY DEF Answer
<1>. HIDE DEF c
<1>. QED  BY <1>1, <1>3, <1>4, <1>5, <1>6, EndInv

LEMMA PortFailsInv == ASSUME CommandsInv, NEW a \in Actors, PortFails(a)  PROVE CommandsInv'
<1>. DEFINE c == call[a].cmd
<1>1. /\ wire = <<>> /\ Busy(a) /\ call' = [call EXCEPT ![a] = Done(c, "closed", c)]
      /\ pendingDrain' \in BOOLEAN /\ UNCHANGED <<wire, closed, taken, trouble, slipped>>
  BY DEF PortFails, CommandsInv, LastInv
<1>2. trouble \in 0..Trouble /\ wire \in Seq(Entries) /\ c \in Command
  BY <1>1 DEF CommandsInv, CommandsType, Entries
<1>3. "closed" \notin Answer /\ \A b \in Actors : b # a => ~Busy(b)
  BY <1>1 DEF Answer, CommandsInv, OneInv
<1>4. wire' = <<>> /\ wire' \in Seq(Entries) /\ \A i \in 1..Len(wire') : ~wire'[i].live
  BY <1>1
<1>. HIDE DEF c
<1>. QED  BY <1>1, <1>2, <1>3, <1>4, EndInv

LEMMA CommandsInvNext == CommandsInv /\ [CommandsNext]_commandVars => CommandsInv'
<1>. SUFFICES ASSUME CommandsInv, [CommandsNext]_commandVars  PROVE CommandsInv'
  OBVIOUS
<1>1. CASE UNCHANGED commandVars
  BY <1>1 DEF commandVars, CommandsInv, CommandsType, OneInv, LastInv, CleanInv, MisreadNeedsSlip,
              Asked, Busy, Free
<1>2. CASE Callers
  BY <1>2, ReturnInv, ForgetInv, ExecWritesInv, ExecFailsInv DEF Callers, Exec
<1>3. CASE Answers
  BY <1>3, DiscardInv, DrainAnsweredInv, CommandAnsweredInv, DeadlineInv, PortFailsInv
     DEF Answers, Ends
<1>4. CASE Unplug
  BY <1>4, UnplugInv
<1>. QED  BY <1>1, <1>2, <1>3, <1>4 DEF CommandsNext

-----------------------------------------------------------------------------
(* The theorems.                                                           *)

\* The inductive invariant of the layer (sms.go:396-447).
THEOREM CommandsInvCorrect == CommandsSpec => []CommandsInv
BY CommandsInvInit, CommandsInvNext, PTL DEF CommandsSpec

\* The wire, the calls and the barrier keep their types.
THEOREM CommandsTypeCorrect == CommandsSpec => []CommandsType
<1>1. CommandsInv => CommandsType
  BY DEF CommandsInv
<1>. QED  BY <1>1, CommandsInvCorrect, PTL

\* Whatever the callers ask, and however late the answers come, a command is
\* given the answer of another one only after a drain was ended by a late
\* answer (sms.go:404, drainLocked).
THEOREM MisreadNeedsSlipCorrect == CommandsSpec => []MisreadNeedsSlip
<1>1. CommandsInv => MisreadNeedsSlip
  BY DEF CommandsInv
<1>. QED  BY <1>1, CommandsInvCorrect, PTL
=============================================================================
