---------------------------- MODULE ModemProofs -----------------------------
(***************************************************************************)
(* Theorems about the modem service: its two goroutines use the command    *)
(* layer as CommandsSpec allows, and what the service shows is its own.    *)
(***************************************************************************)
EXTENDS Modem, CommandsProofs, FiniteSetTheorems

-----------------------------------------------------------------------------
(* The inductive invariant.                                                *)

RunStates == {"start", "open", "init", "info", "sim", "publish", "ready", "emit",
              "loop", "stop", "failed", "error", "end"}

\* A call of the Run goroutine belongs to the step and the row it stands at.
RunInv ==
  /\ rpc \in RunStates /\ row \in 1..7
  /\ call[Run].phase # "idle" =>
       /\ call[Run].cmd.part = 0
       /\ \/ rpc = "init" /\ row <= 6
          \/ /\ Reading /\ row <= Len(FieldsOf(rpc))
             /\ call[Run].cmd = Plain(FieldsOf(rpc)[row])
          \/ rpc = "loop"

\* Where the Run goroutine stands says what the state and the handle are.
LifeInv ==
  /\ handle <=> rpc \notin {"start", "open", "error", "end"}
  /\ rpc \in {"info", "sim", "publish", "ready", "emit", "loop", "stop"} => initialized
  /\ state \in States
  /\ state = "ready" => rpc \in {"emit", "loop", "stop"}
  /\ state \in {"disconnected", "error"} => rpc \in {"start", "error", "end"}

Ref == [msg : Nat, part : Nat]

\* The message in hand: its parts are numbered, and not all are accepted.
JobInv ==
  /\ job \in [at : {"none", "gate", "parts"}, msg : 0..Sends, parts : 0..MaxParts,
              report : BOOLEAN, refs : Seq(Ref)]
  /\ job.at # "none" => job.msg \in 1..Sends
  /\ job.at # "parts" => job.refs = <<>>
  /\ job.at = "parts" => job.parts \in 1..MaxParts /\ Len(job.refs) < job.parts

Own(f, text) == f \in SimCard => text \in {Blank, f}
Known(f, text) == f \in Identity => text \in {Blank, f, "head"}

\* Each field, read or shown, is its own, the identity unless a drain slipped.
FieldInv ==
  /\ DOMAIN read = Fields /\ DOMAIN shown = Fields
  /\ \A f \in Fields : Own(f, read[f]) /\ Own(f, shown[f])
  /\ slipped \/ \A f \in Fields : Known(f, read[f]) /\ Known(f, shown[f])

\* The message that taken is about: in hand, or returned and not recorded.
Total == IF job.at = "parts" THEN job.parts ELSE result.parts

ReportInv ==
  /\ \A c \in taken : c.part <= Total /\ (c.report => c.part = Total)
  /\ job.at = "gate" \/ (job.at = "none" /\ result = NoResult) => taken = {}
  /\ job.at # "none" => result = NoResult
  /\ call[Worker].phase # "idle" =>
       /\ job.at = "parts" /\ call[Worker].cmd.part <= job.parts
       /\ call[Worker].cmd.report => call[Worker].cmd.part = job.parts

Inv ==
  /\ CommandsInv
  /\ cancelled \in BOOLEAN /\ initialized \in BOOLEAN /\ handle \in BOOLEAN
  /\ RunInv /\ LifeInv /\ JobInv /\ FieldInv /\ ReportInv

-----------------------------------------------------------------------------
(* The commands the goroutines give.                                       *)

LEMMA PlainTyped ==
  ASSUME NEW name \in ModemNames
  PROVE  Plain(name) \in Command \ {Drain} /\ Plain(name).part = 0
<1>1. name \in Names /\ name # ""
  BY ModemAssumption
<1>2. Plain(name) \in Command
  <2>1. Plain(name) \in {Plain(n) : n \in Names}
    BY <1>1
  <2>. QED  BY <2>1 DEF Command
<1>3. Plain(name).name = name /\ Drain.name = "" /\ Plain(name).part = 0
  BY DEF Plain, Drain
<1>. QED  BY <1>1, <1>2, <1>3

LEMMA PartTyped ==
  ASSUME NEW m \in 1..Sends, NEW i \in 1..MaxParts, NEW r \in BOOLEAN
  PROVE  /\ Part(m, i, r) \in Command \ {Drain}
         /\ Part(m, i, r).part = i /\ (Part(m, i, r).report <=> r)
<1>1. Part(m, i, r) \in Command
  BY DEF Command
<1>2. Part(m, i, r).name = "+CMGS" /\ Drain.name = ""
  BY DEF Part, Drain, Plain
<1>3. Part(m, i, r).part = i /\ (Part(m, i, r).report <=> r)
  BY DEF Part
<1>. QED  BY <1>1, <1>2, <1>3

LEMMA CommandNumbers ==
  ASSUME NEW c \in Command  PROVE c.msg \in Nat /\ c.part \in Nat
<1>1. CASE c \in {Plain(name) : name \in Names} \cup {Drain}
  <2>1. PICK name : c = Plain(name)
    BY <1>1 DEF Drain
  <2>. QED  BY <2>1 DEF Plain
<1>2. CASE c \in {Part(m, i, r) : m \in 1..Sends, i \in 1..MaxParts, r \in BOOLEAN}
  <2>1. PICK m \in 1..Sends, i \in 1..MaxParts, r \in BOOLEAN : c = Part(m, i, r)
    BY <1>2
  <2>. QED  BY <2>1, CommandsAssumption DEF Part
<1>. QED  BY <1>1, <1>2 DEF Command

LEMMA RowNames ==
  /\ Len(InitRows) = 6 /\ \A i \in 1..6 : InitRows[i] \in ModemNames
  /\ Len(InfoFields) = 3 /\ \A i \in 1..3 : InfoFields[i] \in ModemNames
  /\ Len(SimFields) = 5 /\ \A i \in 1..5 : SimFields[i] \in ModemNames
BY DEF InitRows, InfoFields, SimFields, ModemNames

LEMMA RowCommands ==
  ASSUME RunInv
  PROVE  /\ rpc = "init" /\ row <= Len(InitRows) => InitRows[row] \in ModemNames
         /\ Reading /\ row <= Len(FieldsOf(rpc)) => FieldsOf(rpc)[row] \in ModemNames
<1>1. row \in 1..7
  BY DEF RunInv
<1>2. rpc = "init" /\ row <= Len(InitRows) => row \in 1..6
  BY <1>1, RowNames
<1>3. CASE rpc = "info"
  <2>1. FieldsOf(rpc) = InfoFields
    BY <1>3 DEF FieldsOf
  <2>. QED  BY <1>1, <1>3, <2>1, RowNames
<1>4. CASE rpc # "info"
  <2>1. FieldsOf(rpc) = SimFields
    BY <1>4 DEF FieldsOf
  <2>2. row <= Len(FieldsOf(rpc)) => row \in 1..5
    BY <1>1, <2>1, RowNames
  <2>. QED  BY <1>2, <2>1, <2>2, RowNames
<1>. QED  BY <1>3, <1>4

\* A part the worker is about to write is a command of the layer.
LEMMA JobParts ==
  ASSUME JobInv, job.at = "parts"
  PROVE  LET i == Len(job.refs) + 1
         IN /\ job.msg \in 1..Sends /\ i \in 1..MaxParts /\ i <= job.parts
            /\ WantsReport(i, job.parts, job.report) \in BOOLEAN
            /\ WantsReport(i, job.parts, job.report) => i = job.parts
<1>1. Len(job.refs) \in Nat /\ job.parts \in Nat
  BY CommandsAssumption DEF JobInv
<1>. QED  BY <1>1, CommandsAssumption DEF JobInv, WantsReport

-----------------------------------------------------------------------------
(* What a step of the layer does to the calls.                             *)

LEMMA ExecCall ==
  ASSUME CommandsType, NEW a \in Actors, NEW c \in Command, Exec(a, c)
  PROVE  /\ call'[a].cmd = c
         /\ \A b \in Actors : b # a => call'[b] = call[b]
<1>1. CASE ExecWrites(a, c)
  <2>. DEFINE r == Running(IF pendingDrain THEN "drain" ELSE "run", c)
  <2>1. call' = [call EXCEPT ![a] = r] /\ r.cmd = c
    BY <1>1 DEF ExecWrites, Running
  <2>. HIDE DEF r
  <2>. QED  BY <2>1 DEF CommandsType
<1>2. CASE ExecFails(a, c)
  <2>1. call' = [call EXCEPT ![a] = Done(c, "closed", c)] /\ Done(c, "closed", c).cmd = c
    BY <1>2 DEF ExecFails, Done
  <2>. QED  BY <2>1 DEF CommandsType
<1>. QED  BY <1>1, <1>2 DEF Exec

LEMMA ReturnCall ==
  ASSUME CommandsType, NEW a \in Actors, Return(a)
  PROVE  /\ call'[a].phase = "idle" /\ call[a].phase = "done"
         /\ \A b \in Actors : b # a => call'[b] = call[b]
BY DEF Return, Idle, CommandsType

LEMMA AnswersCall ==
  ASSUME CommandsType, Answers
  PROVE  \A a \in Actors : /\ call'[a].cmd = call[a].cmd
                           /\ call[a].phase = "idle" => call'[a] = call[a]
<1>1. CASE Discard
  BY <1>1 DEF Discard
<1>2. ASSUME NEW b \in Actors, Ends(b)
      PROVE  \A a \in Actors : /\ call'[a].cmd = call[a].cmd
                               /\ call[a].phase = "idle" => call'[a] = call[a]
  <2>1. PICK r : call' = [call EXCEPT ![b] = r] /\ r.cmd = call[b].cmd
    BY <1>2 DEF Ends, DrainAnswered, CommandAnswered, Deadline, PortFails, Running, Done
  <2>2. call[b].phase # "idle"
    BY <1>2 DEF Ends, DrainAnswered, CommandAnswered, Deadline, PortFails, Busy
  <2>. QED  BY <2>1, <2>2 DEF CommandsType
<1>. QED  BY <1>1, <1>2 DEF Answers

\* What the modem takes is the command of a caller.
LEMMA AnswersTaken ==
  ASSUME CommandsType, Answers
  PROVE  \A c \in taken' : c \in taken \/ \E a \in Actors :
           c = call[a].cmd /\ call[a].phase # "idle" /\ c.part > 0
<1>1. CASE Discard
  BY <1>1 DEF Discard
<1>2. ASSUME NEW b \in Actors, Ends(b)
      PROVE  \A c \in taken' : c \in taken \/ \E a \in Actors :
               c = call[a].cmd /\ call[a].phase # "idle" /\ c.part > 0
  <2>1. CASE DrainAnswered(b)
    BY <2>1 DEF DrainAnswered, Write
  <2>2. CASE ~DrainAnswered(b)
    BY <1>2, <2>2 DEF Ends, CommandAnswered, Deadline, PortFails
  <2>. QED  BY <2>1, <2>2
<1>. QED  BY <1>1, <1>2 DEF Answers

LEMMA ExecTaken ==
  ASSUME CommandsType, NEW a \in Actors, NEW c \in Command, Exec(a, c)
  PROVE  \A d \in taken' : d \in taken \/ (d = c /\ c.part > 0)
<1>1. Drain.part = 0
  BY DEF Drain, Plain
<1>2. CASE ExecFails(a, c)
  BY <1>2 DEF ExecFails
<1>3. CASE ExecWrites(a, c)
  <2>1. CASE pendingDrain
    BY <1>1, <1>3, <2>1 DEF ExecWrites, Write
  <2>2. CASE ~pendingDrain
    BY <1>3, <2>2 DEF ExecWrites, Write
  <2>. QED  BY <2>1, <2>2
<1>. QED  BY <1>2, <1>3 DEF Exec

\* Once a drain slipped it stays so.
LEMMA SlippedStays ==
  ASSUME CommandsType, [CommandsNext]_commandVars
  PROVE  slipped => slipped'
BY DEF CommandsNext, commandVars, Callers, Exec, ExecWrites, ExecFails, Return, Forget,
       Answers, Ends, Discard, DrainAnswered, CommandAnswered, Deadline, PortFails, Unplug

-----------------------------------------------------------------------------
(* Who changes what.                                                       *)

RunStep == RunGoesOn \/ Asks \/ SignalQuery \/ LeaveLoop
WorkStep == Send \/ Sending
OuterStep == Cancel \/ ModemAnswers \/ PortLost

LEMMA Actor == Run \in Actors /\ Worker \in Actors /\ Run # Worker
BY ModemAssumption

LEMMA IdlePhase == Idle.phase = "idle"
BY DEF Idle

\* A command the Run goroutine gives is a plain one.
LEMMA RunExec ==
  ASSUME Inv, NEW name \in ModemNames, Exec(Run, Plain(name))
  PROVE  /\ call'[Worker] = call[Worker] /\ taken' \subseteq taken
         /\ call'[Run].cmd = Plain(name)
         /\ CommandsNext
<1>1. Plain(name) \in Command \ {Drain} /\ Plain(name).part = 0
  BY PlainTyped
<1>2. call'[Worker] = call[Worker] /\ call'[Run].cmd = Plain(name)
  BY <1>1, Actor, ExecCall DEF Inv, CommandsInv
<1>3. \A d \in taken' : d \in taken \/ Plain(name).part > 0
  BY <1>1, Actor, ExecTaken DEF Inv, CommandsInv
<1>4. CommandsNext
  BY <1>1, Actor DEF CommandsNext, Callers
<1>. QED  BY <1>1, <1>2, <1>3, <1>4

LEMMA RunReturn ==
  ASSUME Inv, Return(Run)
  PROVE  /\ call'[Worker] = call[Worker] /\ taken' = taken
         /\ call'[Run].phase = "idle" /\ call[Run].phase = "done"
         /\ CommandsNext
<1>1. /\ call'[Worker] = call[Worker]
      /\ call'[Run].phase = "idle" /\ call[Run].phase = "done"
  BY Actor, ReturnCall DEF Inv, CommandsInv
<1>2. CommandsNext
  BY Actor DEF CommandsNext, Callers
<1>3. taken' = taken
  BY DEF Return
<1>. QED  BY <1>1, <1>2, <1>3

\* The commands of the rows.
LEMMA AsksName ==
  ASSUME Inv
  PROVE  /\ InitRow => InitRows[row] \in ModemNames
         /\ Query => FieldsOf(rpc)[row] \in ModemNames
         /\ "+CSQ" \in ModemNames
<1>1. RunInv
  BY DEF Inv
<1>2. "+CSQ" \in ModemNames
  BY DEF ModemNames
<1>. QED  BY <1>1, <1>2, RowCommands DEF InitRow, Query

\* Closing a port twice changes nothing.
LEMMA DisconnectLayer ==
  ASSUME Inv, Disconnect
  PROVE  [CommandsNext]_commandVars
<1>1. /\ closed' = TRUE /\ wire' = <<>>
      /\ UNCHANGED <<call, pendingDrain, taken, trouble, slipped>>
  BY DEF Disconnect
<1>2. CASE closed
  <2>1. wire = <<>> /\ closed = TRUE
    BY <1>2 DEF Inv, CommandsInv, LastInv, CommandsType
  <2>. QED  BY <1>1, <2>1 DEF commandVars
<1>3. CASE ~closed
  BY <1>1, <1>3 DEF Unplug, CommandsNext
<1>. QED  BY <1>2, <1>3

LEMMA RunStepOthers ==
  ASSUME Inv, RunStep
  PROVE  /\ [CommandsNext]_commandVars
         /\ call'[Worker] = call[Worker] /\ taken' \subseteq taken
         /\ UNCHANGED <<job, result, cancelled>>
<1>1. CASE UNCHANGED commandVars
  <2>1. UNCHANGED <<job, result, cancelled>>
    BY DEF RunStep, RunGoesOn, Asks, SignalQuery, LeaveLoop, Opens, Announces, Stops, Connect,
           OpenPort, OpenFails, InitExpires, InitAnswered, InitRow, InitDone, Query,
           QueryAnswered, QueriesEnd, Publish, BecomeReady, EmitAppStarted, SignalUpdate,
           Disconnect, InitFails, sendVars
  <2>. QED  BY <1>1, <2>1 DEF commandVars
<1>2. CASE InitRow \/ Query \/ SignalQuery
  <2>1. PICK name \in ModemNames : Exec(Run, Plain(name))
    BY <1>2, AsksName DEF InitRow, Query, SignalQuery
  <2>2. UNCHANGED <<job, result, cancelled>>
    BY <1>2 DEF InitRow, Query, SignalQuery, sendVars
  <2>. QED  BY <2>1, <2>2, RunExec
<1>3. CASE InitAnswered \/ QueryAnswered \/ SignalUpdate
  <2>1. Return(Run)
    BY <1>3 DEF InitAnswered, QueryAnswered, SignalUpdate
  <2>2. UNCHANGED <<job, result, cancelled>>
    BY <1>3 DEF InitAnswered, QueryAnswered, SignalUpdate, sendVars
  <2>. QED  BY <2>1, <2>2, RunReturn
<1>4. CASE Disconnect
  <2>1. UNCHANGED <<call, taken, job, result, cancelled>>
    BY <1>4 DEF Disconnect, sendVars
  <2>. QED  BY <1>4, <2>1, DisconnectLayer
<1>. QED
  BY <1>1, <1>2, <1>3, <1>4
     DEF RunStep, RunGoesOn, Asks, LeaveLoop, Opens, Announces, Stops, Connect, OpenPort,
         OpenFails, InitExpires, InitDone, QueriesEnd, Publish, BecomeReady,
         EmitAppStarted, InitFails

\* A part goes out under the command layer's rules.
LEMMA SendPartExec ==
  ASSUME Inv, SendPart
  PROVE  \E c \in Command \ {Drain} :
           /\ Exec(Worker, c) /\ c.part <= job.parts /\ (c.report => c.part = job.parts)
<1>. DEFINE i == Len(job.refs) + 1
            r == WantsReport(i, job.parts, job.report)
<1>1. job.at = "parts" /\ Exec(Worker, Part(job.msg, i, r))
  BY DEF SendPart
<1>2. job.msg \in 1..Sends /\ i \in 1..MaxParts /\ i <= job.parts /\ r \in BOOLEAN
      /\ (r => i = job.parts)
  BY <1>1, JobParts DEF Inv
<1>. HIDE DEF i, r
<1>3. /\ Part(job.msg, i, r) \in Command \ {Drain}
      /\ Part(job.msg, i, r).part = i /\ (Part(job.msg, i, r).report <=> r)
  BY <1>2, PartTyped
<1>. QED  BY <1>1, <1>2, <1>3

LEMMA WorkStepOthers ==
  ASSUME Inv, WorkStep
  PROVE  /\ [CommandsNext]_commandVars
         /\ call'[Run] = call[Run]
         /\ UNCHANGED <<lifeVars, cancelled>>
<1>0. UNCHANGED <<lifeVars, cancelled>>
  BY Zenon DEF WorkStep, Sending, Gates, Send, Gate, GateRefuses, SendPart, PartAnswered,
         SendStops, Record
<1>1. CASE UNCHANGED commandVars
  BY <1>0, <1>1 DEF commandVars
<1>2. CASE SendPart
  <2>1. PICK c \in Command \ {Drain} : Exec(Worker, c)
    BY <1>2, SendPartExec
  <2>2. call'[Run] = call[Run]
    BY <2>1, Actor, ExecCall DEF Inv, CommandsInv
  <2>. QED  BY <1>0, <2>1, <2>2, Actor DEF CommandsNext, Callers
<1>3. CASE PartAnswered
  <2>1. Return(Worker)
    BY <1>3 DEF PartAnswered
  <2>2. call'[Run] = call[Run]
    BY <2>1, Actor, ReturnCall DEF Inv, CommandsInv
  <2>. QED  BY <1>0, <2>1, <2>2, Actor DEF CommandsNext, Callers
<1>4. CASE Record
  BY <1>0, <1>4 DEF Record, Forget, CommandsNext, Callers
<1>. QED
  BY <1>1, <1>2, <1>3, <1>4, Zenon DEF WorkStep, Sending, Gates, Send, Gate, GateRefuses, SendStops

LEMMA OuterStepOthers ==
  ASSUME Inv, OuterStep
  PROVE  /\ [CommandsNext]_commandVars
         /\ UNCHANGED <<lifeVars, sendVars>> /\ cancelled' \in BOOLEAN
         /\ \A a \in Actors : /\ call'[a].cmd = call[a].cmd
                              /\ call[a].phase = "idle" => call'[a] = call[a]
         /\ \A c \in taken' : c \in taken \/ \E a \in Actors :
              c = call[a].cmd /\ call[a].phase # "idle" /\ c.part > 0
<1>1. CASE Cancel
  BY <1>1 DEF Cancel, commandVars
<1>2. CASE ModemAnswers
  BY <1>2, AnswersCall, AnswersTaken DEF ModemAnswers, CommandsNext, Inv, CommandsInv
<1>3. CASE PortLost
  BY <1>3 DEF PortLost, Unplug, CommandsNext, Inv
<1>. QED  BY <1>1, <1>2, <1>3 DEF OuterStep

\* Every step of the service is one the command layer's callers may take.
LEMMA LayerStep == Inv /\ [Next]_vars => [CommandsNext]_commandVars
<1>. SUFFICES ASSUME Inv, [Next]_vars  PROVE [CommandsNext]_commandVars
  OBVIOUS
<1>1. CASE UNCHANGED vars
  BY <1>1 DEF vars
<1>2. CASE RunStep \/ WorkStep \/ OuterStep
  BY <1>2, RunStepOthers, WorkStepOthers, OuterStepOthers
<1>. QED  BY <1>1, <1>2 DEF Next, RunStep, WorkStep, OuterStep

-----------------------------------------------------------------------------
(* The initial states, and each part of the invariant under each step.     *)

LEMMA InitInv == Init => Inv
<1>. SUFFICES ASSUME Init  PROVE Inv
  OBVIOUS
<1>1. CommandsInv /\ \A a \in Actors : call[a].phase = "idle"
  BY CommandsInvInit, IdlePhase DEF Init, CommandsInit
<1>2. RunInv /\ LifeInv
  BY <1>1, Actor DEF Init, RunInv, LifeInv, RunStates, States
<1>3. JobInv
  BY CommandsAssumption DEF Init, JobInv, NoJob
<1>4. FieldInv
  BY DEF Init, FieldInv, NoFields, Own, Known, Blank
<1>5. ReportInv
  BY <1>1, Actor DEF Init, CommandsInit, ReportInv, NoJob
<1>. QED  BY <1>1, <1>2, <1>3, <1>4, <1>5 DEF Inv, Init

\* Between its calls the Run goroutine is idle, except in the loop.
LEMMA RunInvAsks ==
  ASSUME Inv, InitRow \/ Query \/ SignalQuery
  PROVE  RunInv'
<1>1. CASE InitRow
  <2>1. call'[Run].cmd = Plain(InitRows[row]) /\ UNCHANGED <<rpc, row>>
    BY <1>1, RunExec, AsksName DEF InitRow, lifeVars
  <2>2. call'[Run].cmd.part = 0
    BY <2>1 DEF Plain
  <2>3. rpc = "init" /\ row <= 6
    BY <1>1, RowNames DEF InitRow
  <2>. QED  BY <2>1, <2>2, <2>3 DEF Inv, RunInv
<1>2. CASE Query
  <2>1. call'[Run].cmd = Plain(FieldsOf(rpc)[row]) /\ UNCHANGED <<rpc, row>>
    BY <1>2, RunExec, AsksName DEF Query, lifeVars
  <2>2. call'[Run].cmd.part = 0
    BY <2>1 DEF Plain
  <2>3. Reading /\ row <= Len(FieldsOf(rpc))
    BY <1>2 DEF Query
  <2>. QED  BY <2>1, <2>2, <2>3 DEF Inv, RunInv, Reading
<1>3. CASE SignalQuery
  <2>1. call'[Run].cmd = Plain("+CSQ") /\ UNCHANGED <<rpc, row>> /\ rpc = "loop"
    BY <1>3, RunExec, AsksName DEF SignalQuery, lifeVars
  <2>2. call'[Run].cmd.part = 0
    BY <2>1 DEF Plain
  <2>. QED  BY <2>1, <2>2 DEF Inv, RunInv
<1>. QED  BY <1>1, <1>2, <1>3

LEMMA RunInvRuns == ASSUME Inv, RunStep  PROVE RunInv'
<1>1. CASE InitRow \/ Query \/ SignalQuery
  BY <1>1, RunInvAsks
<1>2. CASE InitAnswered \/ QueryAnswered \/ SignalUpdate
  <2>1. Return(Run)
    BY <1>2 DEF InitAnswered, QueryAnswered, SignalUpdate
  <2>2. call'[Run].phase = "idle" /\ call[Run].phase # "idle"
    BY <2>1, RunReturn
  <2>3. row \in 1..7 /\ rpc \in RunStates
    BY DEF Inv, RunInv
  <2>4. CASE InitAnswered
    BY <2>2, <2>3, <2>4 DEF InitAnswered, Step, Inv, RunInv, RunStates, Reading
  <2>5. CASE QueryAnswered
    <3>1. row <= 5
      <4>1. row <= Len(FieldsOf(rpc))
        BY <2>2, <2>5 DEF QueryAnswered, Inv, RunInv, Reading
      <4>2. FieldsOf(rpc) = InfoFields \/ FieldsOf(rpc) = SimFields
        BY DEF FieldsOf
      <4>3. row <= 3 \/ row <= 5
        BY <4>1, <4>2, RowNames
      <4>. QED  BY <2>3, <4>3
    <3>2. \/ rpc' = "sim" /\ row' = 1
          \/ rpc' = rpc /\ row' = row + 1
      BY <2>5 DEF QueryAnswered, Step, GivesUp, After
    <3>. QED  BY <2>2, <2>3, <3>1, <3>2 DEF RunInv, RunStates
  <2>6. CASE SignalUpdate
    BY <2>2, <2>3, <2>6 DEF SignalUpdate, RunInv
  <2>. QED  BY <1>2, <2>4, <2>5, <2>6
<1>3. CASE InitExpires \/ QueriesEnd \/ LeaveLoop
  BY <1>3, IdlePhase DEF InitExpires, QueriesEnd, LeaveLoop, Step, After, Reading, commandVars,
                         RunInv, RunStates
<1>4. CASE InitDone
  <2>1. call[Run].phase = "idle"
    <3>1. rpc = "init" /\ row > 6 /\ row \in 1..7
      BY <1>4, RowNames DEF InitDone, Step, Inv, RunInv
    <3>. QED  BY <3>1 DEF Inv, RunInv, Reading
  <2>. QED  BY <1>4, <2>1 DEF InitDone, Step, commandVars, RunInv, RunStates
<1>5. CASE Opens \/ Announces \/ Stops
  <2>1. call[Run].phase = "idle" /\ call' = call /\ rpc' \in RunStates /\ row' = 1
    BY <1>5 DEF Opens, Announces, Stops, Connect, OpenPort, OpenFails, Publish, BecomeReady,
                EmitAppStarted, Disconnect, InitFails, Step, commandVars, Inv, RunInv,
                RunStates, Reading
  <2>. QED  BY <2>1 DEF RunInv
<1>. QED  BY <1>1, <1>2, <1>3, <1>4, <1>5 DEF RunStep, RunGoesOn, Asks

LEMMA RunInvStep == ASSUME Inv, RunStep \/ WorkStep \/ OuterStep  PROVE RunInv'
<1>1. CASE WorkStep
  <2>1. call'[Run] = call[Run] /\ UNCHANGED <<rpc, row>>
    BY <1>1, WorkStepOthers DEF lifeVars
  <2>. QED  BY <2>1 DEF Inv, RunInv, Reading
<1>2. CASE OuterStep
  <2>1. /\ UNCHANGED <<rpc, row>> /\ call'[Run].cmd = call[Run].cmd
        /\ call[Run].phase = "idle" => call'[Run] = call[Run]
    BY <1>2, OuterStepOthers, Actor DEF lifeVars
  <2>. QED  BY <2>1 DEF Inv, RunInv, Reading
<1>. QED  BY <1>1, <1>2, RunInvRuns

LEMMA LifeInvStep == ASSUME Inv, RunStep \/ WorkStep \/ OuterStep  PROVE LifeInv'
<1>1. CASE WorkStep \/ OuterStep
  <2>1. UNCHANGED <<state, handle, initialized, rpc>>
    BY <1>1, WorkStepOthers, OuterStepOthers DEF lifeVars
  <2>. QED  BY <2>1 DEF Inv, LifeInv
<1>2. CASE RunStep
  <2>1. CASE Asks \/ SignalQuery \/ LeaveLoop \/ InitExpires \/ InitAnswered
    BY <2>1 DEF Asks, SignalQuery, LeaveLoop, InitExpires, InitAnswered, InitRow, InitDone, Query,
                Step, lifeVars, Inv, LifeInv
  <2>2. CASE QueryAnswered \/ QueriesEnd \/ SignalUpdate
    BY <2>2 DEF QueryAnswered, QueriesEnd, SignalUpdate, Step, After, Reading, Inv, LifeInv
  <2>3. CASE Opens \/ Announces
    BY <2>3 DEF Opens, Announces, Connect, OpenPort, OpenFails, Publish, BecomeReady,
                EmitAppStarted, Step, Inv, LifeInv, States
  <2>4. CASE Stops
    BY <2>4 DEF Stops, Disconnect, Left, InitFails, Step, Inv, LifeInv, States
  <2>. QED  BY <1>2, <2>1, <2>2, <2>3, <2>4 DEF RunStep, RunGoesOn
<1>. QED  BY <1>1, <1>2

-----------------------------------------------------------------------------
(* The fields.                                                             *)

LEMMA FieldSets ==
  /\ Identity \subseteq Fields /\ SimCard \subseteq Fields
  /\ \A f \in SimCard : f \notin Identity
  /\ "+CSQ" \in SimCard
BY DEF Identity, SimCard, Fields

LEMMA FieldOwn ==
  ASSUME NEW f \in SimCard, NEW out
  PROVE  FieldOf(f, out) \in {Blank, f}
BY FieldSets DEF FieldOf

LEMMA FieldKnown ==
  ASSUME NEW f \in Identity, NEW out, Answered(out) => out.of.name = f
  PROVE  FieldOf(f, out) \in {Blank, f, "head"}
BY DEF FieldOf, FirstLine

\* What a query of the Run goroutine reads is its field, unless a drain slipped.
LEMMA QueryReads ==
  ASSUME Inv, QueryAnswered
  PROVE  LET f == Target(FieldsOf(rpc))
         IN /\ Own(f, FieldOf(f, call[Run].out))
            /\ slipped \/ Known(f, FieldOf(f, call[Run].out))
<1>. DEFINE f == Target(FieldsOf(rpc))
            out == call[Run].out
<1>1. Own(f, FieldOf(f, out))
  BY FieldOwn DEF Own
<1>2. slipped \/ Known(f, FieldOf(f, out))
  <2>. SUFFICES ASSUME f \in Identity, ~slipped
                PROVE  FieldOf(f, out) \in {Blank, f, "head"}
    BY DEF Known
  <2>1. call[Run].phase = "done"
    BY RunReturn DEF QueryAnswered
  <2>2. call[Run].cmd = Plain(f)
    BY <2>1 DEF QueryAnswered, Target, Inv, RunInv, Reading
  <2>3. Answered(out) => out.of = call[Run].cmd
    BY <2>1, Actor DEF Inv, CommandsInv, MisreadNeedsSlip, Asked, Answered, Answer
  <2>4. Plain(f).name = f
    BY DEF Plain
  <2>. HIDE DEF f, out
  <2>. QED  BY <2>2, <2>3, <2>4, FieldKnown
<1>. QED  BY <1>1, <1>2

LEMMA FieldInvStep == ASSUME Inv, RunStep \/ WorkStep \/ OuterStep  PROVE FieldInv'
<1>s. slipped => slipped'
  BY RunStepOthers, WorkStepOthers, OuterStepOthers, SlippedStays DEF Inv, CommandsInv
<1>1. CASE UNCHANGED <<read, shown>>
  BY <1>1, <1>s DEF Inv, FieldInv
<1>2. CASE QueryAnswered
  <2>. DEFINE f == Target(FieldsOf(rpc))
              text == FieldOf(f, call[Run].out)
  <2>1. read' = [read EXCEPT ![f] = text] /\ shown' = shown
    BY <1>2 DEF QueryAnswered
  <2>2. Own(f, text) /\ (slipped \/ Known(f, text))
    BY <1>2, QueryReads
  <2>. HIDE DEF f, text
  <2>3. /\ DOMAIN read' = Fields /\ \A g \in Fields : Own(g, read'[g])
        /\ slipped \/ \A g \in Fields : Known(g, read'[g])
    BY <2>1, <2>2 DEF Inv, FieldInv
  <2>. QED  BY <1>s, <2>1, <2>3 DEF Inv, FieldInv
<1>3. CASE Publish
  <2>1. shown' = read /\ read' = NoFields
    BY <1>3 DEF Publish
  <2>2. DOMAIN NoFields = Fields /\ \A f \in Fields : Own(f, NoFields[f]) /\ Known(f, NoFields[f])
    BY DEF NoFields, Own, Known
  <2>. QED  BY <1>s, <2>1, <2>2 DEF Inv, FieldInv
<1>4. CASE SignalUpdate
  <2>. DEFINE text == FieldOf("+CSQ", call[Run].out)
  <2>1. shown' \in {shown, [shown EXCEPT !["+CSQ"] = text]} /\ read' = read
    BY <1>4 DEF SignalUpdate
  <2>2. Own("+CSQ", text) /\ Known("+CSQ", text) /\ "+CSQ" \in Fields
    BY FieldOwn, FieldSets DEF Own, Known
  <2>. HIDE DEF text
  <2>3. /\ DOMAIN shown' = Fields /\ \A g \in Fields : Own(g, shown'[g])
        /\ slipped \/ \A g \in Fields : Known(g, shown'[g])
    BY <2>1, <2>2 DEF Inv, FieldInv
  <2>. QED  BY <1>s, <2>1, <2>3 DEF Inv, FieldInv
<1>5. CASE WorkStep \/ OuterStep
  <2>1. UNCHANGED <<read, shown>>
    BY <1>5, WorkStepOthers, OuterStepOthers DEF lifeVars
  <2>. QED  BY <1>1, <2>1
<1>6. CASE RunStep
  <2>1. \/ QueryAnswered \/ Publish \/ SignalUpdate \/ UNCHANGED <<read, shown>>
    BY <1>6 DEF RunStep, RunGoesOn, Asks, SignalQuery, LeaveLoop, Opens, Announces, Stops,
       Connect, OpenPort, OpenFails, InitRow, InitExpires, InitAnswered, InitDone, Query,
       QueriesEnd, BecomeReady, EmitAppStarted, Disconnect, InitFails, lifeVars
  <2>. QED  BY <1>1, <1>2, <1>3, <1>4, <2>1
<1>. QED  BY <1>5, <1>6

-----------------------------------------------------------------------------
(* The worker's message.                                                   *)

LEMMA JobInvStep == ASSUME Inv, RunStep \/ WorkStep \/ OuterStep  PROVE JobInv'
<1>m. Sends \in Nat /\ MaxParts \in Nat \ {0}
  BY CommandsAssumption
<1>t. /\ job.msg \in 0..Sends /\ job.parts \in 0..MaxParts /\ job.report \in BOOLEAN
      /\ job.refs \in Seq(Ref) /\ job.at \in {"none", "gate", "parts"}
      /\ job = [at |-> job.at, msg |-> job.msg, parts |-> job.parts,
                report |-> job.report, refs |-> job.refs]
  BY DEF Inv, JobInv
<1>1. CASE job' = job
  BY <1>1 DEF Inv, JobInv
<1>2. CASE job' = [NoJob EXCEPT !.msg = job.msg]
  <2>1. job' = [at |-> "none", msg |-> job.msg, parts |-> 0, report |-> FALSE, refs |-> <<>>]
    BY <1>2 DEF NoJob
  <2>. QED  BY <1>m, <1>t, <2>1 DEF JobInv
<1>3. CASE Send
  <2>1. \/ job' = [at |-> "gate", msg |-> job.msg + 1, parts |-> 0, report |-> FALSE, refs |-> <<>>]
        \/ job' = [at |-> "none", msg |-> job.msg + 1, parts |-> 0, report |-> FALSE, refs |-> <<>>]
    BY <1>3 DEF Send, Finish, NoJob
  <2>2. job.msg + 1 \in 1..Sends
    BY <1>3, <1>t, <1>m DEF Send
  <2>3. /\ job' \in [at : {"none", "gate", "parts"}, msg : 0..Sends, parts : 0..MaxParts,
                    report : BOOLEAN, refs : Seq(Ref)]
        /\ job'.at \in {"none", "gate"} /\ job'.msg \in 1..Sends /\ job'.refs = <<>>
    <3>1. job.msg + 1 \in 0..Sends /\ 0 \in 0..MaxParts
      BY <1>m, <2>2
    <3>2. <<>> \in Seq(Ref)
      OBVIOUS
    <3>3. PICK at \in {"none", "gate"} :
            job' = [at |-> at, msg |-> job.msg + 1, parts |-> 0, report |-> FALSE, refs |-> <<>>]
      BY <2>1
    <3>. QED  BY <2>2, <3>1, <3>2, <3>3
  <2>. QED  BY <2>3 DEF JobInv
<1>4. ASSUME NEW n \in 0..MaxParts + 1, NEW r \in BOOLEAN, Gate(n, r)  PROVE JobInv'
  <2>1. job' = [at |-> "parts", msg |-> job.msg, parts |-> n, report |-> r, refs |-> job.refs]
    BY <1>4, <1>t DEF Gate
  <2>2. n \in 1..MaxParts /\ job.msg \in 1..Sends /\ job.refs = <<>>
    BY <1>4 DEF Gate, Encodes, Inv, JobInv
  <2>. QED  BY <1>m, <1>t, <2>1, <2>2 DEF JobInv
<1>5. CASE PartAnswered
  <2>. DEFINE out == call[Worker].out
              refs == Append(job.refs, [msg |-> out.of.msg, part |-> out.of.part])
  <2>1. \/ job' = [NoJob EXCEPT !.msg = job.msg]
        \/ job' = [job EXCEPT !.refs = refs] /\ Len(refs) < job.parts
    BY <1>5 DEF PartAnswered, PartFails, Finish
  <2>2. job.at = "parts" /\ job.msg \in 1..Sends /\ job.parts \in 1..MaxParts
    BY <1>5 DEF PartAnswered, Inv, JobInv
  <2>3. out.of \in Command
    BY Actor DEF Inv, CommandsInv, CommandsType, Outcome
  <2>4. \A c \in Command : c.msg \in Nat /\ c.part \in Nat
    BY CommandNumbers
  <2>5. refs \in Seq(Ref)
    <3>1. [msg |-> out.of.msg, part |-> out.of.part] \in Ref
      BY <2>3, <2>4 DEF Ref
    <3>. QED  BY <1>t, <3>1
  <2>. HIDE DEF out, refs
  <2>6. CASE job' = [job EXCEPT !.refs = refs] /\ Len(refs) < job.parts
    <3>1. job' = [at |-> job.at, msg |-> job.msg, parts |-> job.parts,
                  report |-> job.report, refs |-> refs]
      BY <1>t, <2>6
    <3>. QED  BY <1>t, <2>2, <2>5, <2>6, <3>1 DEF JobInv
  <2>. QED  BY <1>2, <2>1, <2>6
<1>6. CASE RunStep \/ OuterStep
  BY <1>1, <1>6, RunStepOthers, OuterStepOthers DEF sendVars
<1>7. CASE WorkStep
  <2>1. \/ job' = job \/ job' = [NoJob EXCEPT !.msg = job.msg] \/ Send \/ PartAnswered
        \/ \E n \in 0..MaxParts + 1, r \in BOOLEAN : Gate(n, r)
    BY <1>7 DEF WorkStep, Sending, Gates, GateRefuses, SendPart, SendStops, Record, PartFails, Finish,
                sendVars
  <2>. QED  BY <1>1, <1>2, <1>3, <1>4, <1>5, <2>1
<1>. QED  BY <1>6, <1>7

\* A step that keeps the message in hand, and takes only what the worker's call
\* says.
LEMMA ReportKept ==
  ASSUME Inv, UNCHANGED <<job, result>>,
         call'[Worker].cmd = call[Worker].cmd,
         call[Worker].phase = "idle" => call'[Worker] = call[Worker],
         \A c \in taken' : c \in taken \/ (c = call[Worker].cmd /\ call[Worker].phase # "idle")
  PROVE  ReportInv'
<1>1. Total' = Total
  BY DEF Total
<1>2. \A c \in taken' : c.part <= Total /\ (c.report => c.part = Total)
  BY DEF Inv, ReportInv, Total
<1>3. job.at = "gate" \/ (job.at = "none" /\ result = NoResult) => taken' = {}
  BY DEF Inv, ReportInv
<1>4. call'[Worker].phase # "idle" => call[Worker].phase # "idle"
  OBVIOUS
<1>. QED  BY <1>1, <1>2, <1>3, <1>4 DEF Inv, ReportInv

\* A message that ends: what was taken of it stays, and its call is done.
LEMMA ReportEnds ==
  ASSUME Inv, NEW refs, NEW err, err # "sending", Finish(job, refs, err), taken' = taken,
         call'[Worker].phase = "idle", job.at = "parts" \/ taken = {}
  PROVE  ReportInv'
<1>1. /\ result'.parts = job.parts /\ result'.err = err /\ job'.at = "none"
      /\ NoResult.err = "sending"
  BY DEF Finish, NoJob, NoResult
<1>2. Total' = job.parts
  BY <1>1 DEF Total
<1>3. \A c \in taken' : c.part <= Total' /\ (c.report => c.part = Total')
  BY <1>2 DEF Inv, ReportInv, Total
<1>. QED  BY <1>1, <1>3 DEF ReportInv

LEMMA ReportInvStep == ASSUME Inv, RunStep \/ WorkStep \/ OuterStep  PROVE ReportInv'
<1>i. job.at # "parts" => call[Worker].phase = "idle"
  BY DEF Inv, ReportInv
<1>g. job.at = "gate" => taken = {} /\ result = NoResult
  BY DEF Inv, ReportInv
<1>1. CASE RunStep
  BY <1>1, RunStepOthers, ReportKept
<1>2. CASE OuterStep
  <2>1. \A c \in taken' : c \in taken \/ (c = call[Worker].cmd /\ call[Worker].phase # "idle")
    <3>. SUFFICES ASSUME NEW c \in taken', c \notin taken
                  PROVE  c = call[Worker].cmd /\ call[Worker].phase # "idle"
      OBVIOUS
    <3>1. PICK a \in Actors : c = call[a].cmd /\ call[a].phase # "idle" /\ c.part > 0
      BY <1>2, OuterStepOthers
    <3>2. a # Run
      BY <3>1 DEF Inv, RunInv
    <3>. QED  BY <3>1, <3>2, ModemAssumption
  <2>. QED  BY <1>2, <2>1, OuterStepOthers, ReportKept, Actor DEF sendVars
<1>3. CASE Send
  <2>1. job.at = "none" /\ result = NoResult /\ taken = {} /\ taken' = taken /\ call' = call
    BY <1>3 DEF Send, commandVars, Inv, ReportInv
  <2>2. CASE job'.at = "gate" /\ result' = result
    BY <1>i, <2>1, <2>2 DEF ReportInv, Total
  <2>3. CASE job'.at = "none" /\ result'.err = "early"
    <3>1. result' # NoResult
      BY <2>3 DEF NoResult
    <3>. QED  BY <1>i, <2>1, <2>3, <3>1 DEF ReportInv
  <2>4. CASE handle
    <3>1. job' = [NoJob EXCEPT !.at = "gate", !.msg = job.msg + 1] /\ result' = result
      BY <1>3, <2>4 DEF Send
    <3>2. job'.at = "gate"
      BY <3>1 DEF NoJob
    <3>. QED  BY <2>2, <3>1, <3>2
  <2>5. CASE ~handle
    <3>1. job'.at = "none" /\ result'.err = "early"
      BY <1>3, <2>5 DEF Send, Finish, NoJob
    <3>. QED  BY <2>3, <3>1
  <2>. QED  BY <2>4, <2>5
<1>4. ASSUME NEW n \in 0..MaxParts + 1, NEW r \in BOOLEAN, Gate(n, r)  PROVE ReportInv'
  <2>1. /\ job.at = "gate" /\ job'.at = "parts" /\ result' = result /\ taken' = taken
        /\ call' = call
    BY <1>4 DEF Gate, commandVars, Inv, JobInv
  <2>. QED  BY <1>i, <1>g, <2>1 DEF ReportInv
<1>5. ASSUME NEW n \in 0..MaxParts + 1, GateRefuses(n)  PROVE ReportInv'
  <2>1. job.at = "gate" /\ taken' = taken /\ call' = call
    BY <1>5 DEF GateRefuses, commandVars
  <2>2. PICK err \in {"part", "early", "invalid"} : Finish(job, <<>>, err)
    BY <1>5 DEF GateRefuses
  <2>. QED  BY <1>i, <1>g, <2>1, <2>2, ReportEnds
<1>6. CASE SendPart
  <2>1. PICK c \in Command \ {Drain} :
          Exec(Worker, c) /\ c.part <= job.parts /\ (c.report => c.part = job.parts)
    BY <1>6, SendPartExec
  <2>2. call'[Worker].cmd = c /\ \A d \in taken' : d \in taken \/ d = c
    BY <2>1, Actor, ExecCall, ExecTaken DEF Inv, CommandsInv
  <2>3. job.at = "parts" /\ UNCHANGED <<job, result>>
    BY <1>6 DEF SendPart, sendVars
  <2>4. Total' = job.parts /\ Total = job.parts
    BY <2>3 DEF Total
  <2>5. \A d \in taken' : d.part <= job.parts /\ (d.report => d.part = job.parts)
    BY <2>1, <2>2, <2>4 DEF Inv, ReportInv
  <2>. QED  BY <2>1, <2>2, <2>3, <2>4, <2>5 DEF Inv, ReportInv
<1>7. CASE PartAnswered
  <2>1. job.at = "parts" /\ Return(Worker) /\ taken' = taken
    BY <1>7 DEF PartAnswered, Return
  <2>2. call'[Worker].phase = "idle"
    BY <2>1, Actor, ReturnCall DEF Inv, CommandsInv
  <2>3. CASE \E refs : job' = [job EXCEPT !.refs = refs] /\ UNCHANGED result
    <3>1. job'.at = "parts" /\ job'.parts = job.parts /\ result' = result
      BY <2>1, <2>3 DEF Inv, JobInv
    <3>. QED  BY <2>1, <2>2, <3>1 DEF Inv, ReportInv, Total
  <2>4. CASE \E refs : Finish(job, refs, "part") \/ Finish(job, refs, "none")
    BY <2>1, <2>2, <2>4, ReportEnds
  <2>. QED  BY <1>7, <2>3, <2>4 DEF PartAnswered, PartFails
<1>8. CASE SendStops
  <2>1. job.at = "parts" /\ taken' = taken /\ call' = call /\ call[Worker] = Idle
    BY <1>8 DEF SendStops, commandVars
  <2>2. \E refs : Finish(job, refs, "part")
    BY <1>8 DEF SendStops, PartFails
  <2>. QED  BY <2>1, <2>2, IdlePhase, ReportEnds
<1>9. CASE Record
  <2>1. taken' = {} /\ job' = job /\ call' = call /\ result' = NoResult /\ job.at = "none"
    BY <1>9 DEF Record, Forget, Inv, ReportInv, JobInv
  <2>. QED  BY <1>i, <2>1 DEF ReportInv
<1>. QED
  BY <1>1, <1>2, <1>3, <1>4, <1>5, <1>6, <1>7, <1>8, <1>9 DEF WorkStep, Sending, Gates

LEMMA NextInv == Inv /\ [Next]_vars => Inv'
<1>. SUFFICES ASSUME Inv, [Next]_vars  PROVE Inv'
  OBVIOUS
<1>1. CommandsInv'
  BY LayerStep, CommandsInvNext DEF Inv
<1>2. CASE UNCHANGED vars
  <2>1. UNCHANGED <<call, taken, slipped, job, result, state, handle, initialized, rpc, row,
                    read, shown, cancelled>>
    BY <1>2 DEF vars, commandVars, lifeVars, sendVars
  <2>2. RunInv' /\ LifeInv' /\ JobInv'
    BY <2>1 DEF Inv, RunInv, LifeInv, JobInv, Reading
  <2>3. FieldInv' /\ ReportInv'
    BY <2>1 DEF Inv, FieldInv, ReportInv, Total
  <2>. QED  BY <1>1, <2>1, <2>2, <2>3 DEF Inv
<1>3. CASE RunStep \/ WorkStep \/ OuterStep
  <2>1. cancelled' \in BOOLEAN
    BY <1>3, RunStepOthers, WorkStepOthers, OuterStepOthers DEF Inv
  <2>2. initialized' \in BOOLEAN /\ handle' \in BOOLEAN
    <3>1. initialized' \in {initialized, TRUE} /\ handle' \in {handle, TRUE, FALSE}
      BY <1>3, WorkStepOthers, OuterStepOthers
         DEF Left, RunStep, RunGoesOn, Asks, SignalQuery, LeaveLoop, Opens, Announces, Stops,
             Connect, OpenPort, OpenFails, InitRow, InitExpires, InitAnswered, InitDone, Query,
             QueryAnswered, QueriesEnd, Publish, BecomeReady, EmitAppStarted, SignalUpdate,
             Disconnect, InitFails, lifeVars
    <3>. QED  BY <3>1 DEF Inv
  <2>. QED  BY <1>1, <1>3, <2>1, <2>2, RunInvStep, LifeInvStep, JobInvStep, FieldInvStep, ReportInvStep
            DEF Inv
<1>. QED  BY <1>2, <1>3 DEF Next, RunStep, WorkStep, OuterStep

-----------------------------------------------------------------------------
(* The theorems.                                                           *)

\* The inductive invariant of the service (service.go:354-620, sms.go:517-569).
THEOREM InvCorrect == Spec => []Inv
BY InitInv, NextInv, PTL DEF Spec

\* The Run goroutine and the worker are callers of the layer: what is proved
\* of CommandsSpec holds in the service.
THEOREM UsesTheLayer == Spec => CommandsSpec
<1>1. Init => CommandsInit
  BY DEF Init
<1>. QED  BY <1>1, LayerStep, InvCorrect, PTL DEF Spec, CommandsSpec

\* Variables have their types, at every step of both goroutines.
THEOREM ModemTypeCorrect == Spec => []ModemType
<1>1. ASSUME Inv  PROVE ModemType
  <2>1. CommandsType /\ state \in States /\ rpc \in RunStates
    BY <1>1 DEF Inv, CommandsInv, LifeInv, RunInv
  <2>2. row \in 1..Len(InitRows) + 1
    BY <1>1, RowNames DEF Inv, RunInv
  <2>3. DOMAIN read = Fields /\ DOMAIN shown = Fields
    BY <1>1 DEF Inv, FieldInv
  <2>4. handle \in BOOLEAN /\ initialized \in BOOLEAN /\ cancelled \in BOOLEAN
    BY <1>1 DEF Inv
  <2>5. job.at \in {"none", "gate", "parts"} /\ job.msg \in 0..Sends
    BY <1>1 DEF Inv, JobInv
  <2>. QED  BY <2>1, <2>2, <2>3, <2>4, <2>5 DEF ModemType, RunStates
<1>. QED  BY <1>1, InvCorrect, PTL

\* In the service, too, a command is given the answer of another one only
\* after a drain was ended by a late answer (sms.go:404).
THEOREM ServiceMisreadNeedsSlip == Spec => []MisreadNeedsSlip
BY UsesTheLayer, MisreadNeedsSlipCorrect, PTL

\* A SIM field that is shown is the SIM's answer for that field, however late
\* the answers come, and the identity that is shown is another command's answer
\* only after a drain was ended by a late one (sms.go:239-366).
THEOREM ShownIsItsOwnCorrect == Spec => []ShownIsItsOwn
<1>1. Inv => SimFieldsAreTheirOwn
  BY FieldSets DEF Inv, FieldInv, Own, SimFieldsAreTheirOwn
<1>2. Inv => IdentityNeedsSlip
  BY FieldSets DEF Inv, FieldInv, Known, IdentityNeedsSlip
<1>3. Inv => ShownIsItsOwn
  BY <1>1, <1>2 DEF ShownIsItsOwn
<1>. QED  BY <1>3, InvCorrect, PTL

\* A ready modem has an initialized handle, a failed or disconnected one has
\* none (service.go:354-441, health.go:27-47).
THEOREM StateTellsHandleCorrect == Spec => []StateTellsHandle
<1>1. Inv => StateTellsHandle
  BY DEF Inv, LifeInv, StateTellsHandle
<1>. QED  BY <1>1, InvCorrect, PTL

\* Only the last part of a message that was taken asks for a report
\* (sms.go:549-551).
THEOREM OneReportCorrect == Spec => []OneReportPerMessage
<1>1. Inv => OneReportPerMessage
  BY DEF Inv, ReportInv, OneReportPerMessage
<1>. QED  BY <1>1, InvCorrect, PTL
-----------------------------------------------------------------------------
(* What a caller of SendSMS knows.                                         *)

\* References of the first parts in order, each of a part the modem took.
Accounted(refs) ==
  \A i \in 1..Len(refs) :
    /\ refs[i] = [msg |-> job.msg, part |-> i]
    /\ \E c \in taken : c.msg = job.msg /\ c.part = i

\* The modem took none but the first n parts of the message.
TookFirst(n) == \A c \in taken : c.msg = job.msg /\ c.part \in 1..n

Unknown(err) == IF err = "part" THEN 1 ELSE 0

\* While no drain slipped, the references say what was taken: the call in hand
\* is for the next part, and an answer other than ERROR is for a part taken.
SendInv ==
  ~slipped =>
    /\ job.at = "parts" =>
         /\ Accounted(job.refs) /\ TookFirst(Len(job.refs) + 1)
         /\ call[Worker].phase # "idle" =>
              call[Worker].cmd.msg = job.msg /\ call[Worker].cmd.part = Len(job.refs) + 1
    /\ call[Worker].phase = "run" /\ wire # <<>> /\ wire[1].answer # "error" =>
         call[Worker].cmd \in taken
    /\ call[Worker].phase = "done" /\ call[Worker].out.kind \in {"ok", "bad", "head"} =>
         call[Worker].cmd \in taken
    /\ result.err # "sending" =>
         /\ result.refs \in Seq(Ref)
         /\ Accounted(result.refs) /\ TookFirst(Len(result.refs) + Unknown(result.err))
         /\ result.err = "none" => Len(result.refs) = result.parts

LEMMA SendInit == ASSUME Init  PROVE SendInv
<1>1. call[Worker].phase = "idle"
  BY Actor, IdlePhase DEF Init, CommandsInit
<1>. QED  BY <1>1 DEF Init, SendInv, NoJob, NoResult

\* A step that leaves the message, what was taken and the worker's call alone.
LEMMA SendKept ==
  ASSUME SendInv, UNCHANGED <<job, result, taken>>, call'[Worker] = call[Worker],
         slipped => slipped',
         call[Worker].phase = "run" => wire' \in {wire, <<>>}
  PROVE  SendInv'
<1>. SUFFICES ASSUME ~slipped'
              PROVE  SendInv'
  BY DEF SendInv
<1>1. \A refs : Accounted(refs)' <=> Accounted(refs)
  BY DEF Accounted
<1>2. \A n : TookFirst(n)' <=> TookFirst(n)
  BY DEF TookFirst
<1>3. job.at = "parts" => Accounted(job.refs)' /\ TookFirst(Len(job.refs) + 1)'
  BY DEF SendInv, Accounted, TookFirst
<1>4. result.err # "sending" =>
        Accounted(result.refs)' /\ TookFirst(Len(result.refs) + Unknown(result.err))'
  BY DEF SendInv, Accounted, TookFirst
<1>. QED  BY <1>3, <1>4 DEF SendInv

\* The modem takes no command of the Run goroutine for a part.
LEMMA RunTaken ==
  ASSUME Inv, RunStep
  PROVE  /\ taken' = taken
         /\ call[Worker].phase = "run" => wire' \in {wire, <<>>}
<1>1. CASE InitRow \/ Query \/ SignalQuery
  <2>1. PICK name \in ModemNames : Exec(Run, Plain(name))
    BY <1>1, AsksName DEF InitRow, Query, SignalQuery
  <2>2. Plain(name).part = 0 /\ Drain.part = 0
    BY DEF Plain, Drain
  <2>3. taken' = taken /\ Free
    <3>1. CASE ExecFails(Run, Plain(name))
      BY <3>1 DEF ExecFails
    <3>2. CASE ExecWrites(Run, Plain(name)) /\ pendingDrain
      BY <2>2, <3>2 DEF ExecWrites, Write
    <3>3. CASE ExecWrites(Run, Plain(name)) /\ ~pendingDrain
      BY <2>2, <3>3 DEF ExecWrites, Write
    <3>. QED  BY <2>1, <3>1, <3>2, <3>3 DEF Exec
  <2>4. call[Worker].phase # "run"
    BY <2>3, Actor DEF Free, Busy
  <2>. QED  BY <2>3, <2>4
<1>2. CASE UNCHANGED <<taken, wire>>
  BY <1>2
<1>3. CASE Disconnect
  BY <1>3 DEF Disconnect
<1>. QED
  BY <1>1, <1>2, <1>3
     DEF RunStep, RunGoesOn, Asks, LeaveLoop, Opens, Announces, Stops, Connect, OpenPort,
         OpenFails, InitExpires, InitAnswered, InitDone, QueryAnswered, QueriesEnd, Publish,
         BecomeReady, EmitAppStarted, SignalUpdate, InitFails, Return, commandVars

\* An answer for the worker's part, or its end without one.
LEMMA SendEnds ==
  ASSUME Inv, SendInv, Ends(Worker), UNCHANGED <<job, result>>
  PROVE  SendInv'
<1>. DEFINE c == call[Worker].cmd
<1>. SUFFICES ASSUME ~slipped'
              PROVE  SendInv'
  BY DEF SendInv
<1>0. /\ call \in [Actors -> Calls] /\ wire \in Seq(Entries) /\ Worker \in Actors
      /\ OneInv /\ LastInv /\ CleanInv
  BY Actor DEF Inv, CommandsInv, CommandsType, Calls, Entries
<1>1. ~slipped /\ call[Worker].phase \in {"drain", "run"}
  <2>1. slipped => slipped'
    BY DEF Ends, DrainAnswered, CommandAnswered, Deadline, PortFails
  <2>2. call[Worker].phase \in {"drain", "run"}
    BY DEF Ends, DrainAnswered, CommandAnswered, Deadline, PortFails, Busy
  <2>. QED  BY <2>1, <2>2
<1>2. job.at = "parts" /\ result.err = "sending"
  BY <1>1 DEF Inv, ReportInv, NoResult
<1>3. /\ Accounted(job.refs) /\ TookFirst(Len(job.refs) + 1) /\ Len(job.refs) \in Nat
      /\ c.msg = job.msg /\ c.part = Len(job.refs) + 1
  BY <1>1, <1>2 DEF SendInv, Inv, JobInv
<1>4. ASSUME taken' \in {taken, taken \cup {c}}, call'[Worker].cmd = c,
             call'[Worker].phase = "run" /\ wire' # <<>> /\ wire'[1].answer # "error" => c \in taken',
             call'[Worker].phase = "done" /\ call'[Worker].out.kind \in {"ok", "bad", "head"} =>
               c \in taken'
      PROVE  SendInv'
  <2>1. Accounted(job.refs)' /\ TookFirst(Len(job.refs) + 1)'
    BY <1>3, <1>4 DEF Accounted, TookFirst
  <2>. QED  BY <1>2, <1>3, <1>4, <2>1 DEF SendInv
<1>5. CASE DrainAnswered(Worker)
  <2>1. /\ wire # <<>> /\ Head(wire).live /\ Write(Orphaned(Tail(wire)), c)
        /\ call' = [call EXCEPT ![Worker] = Running("run", c)]
    BY <1>5 DEF DrainAnswered
  <2>2. Len(wire) = 1
    <3>1. 1 \in 1..Len(wire) /\ wire[1].live
      BY <1>0, <2>1
    <3>. QED  BY <1>0, <3>1 DEF LastInv
  <2>3. Orphaned(Tail(wire)) \in Seq(Entries) /\ Len(Orphaned(Tail(wire))) = 0
    <3>1. Tail(wire) \in Seq(Entries) /\ Len(Tail(wire)) = 0
      BY <1>0, <2>1, <2>2
    <3>. QED  BY <3>1, OrphanedShape
  <2>4. PICK answer \in Answer :
          /\ wire' = Append(Orphaned(Tail(wire)), [cmd |-> c, live |-> TRUE, answer |-> answer])
          /\ taken' = IF c.part > 0 /\ answer # "error" THEN taken \cup {c} ELSE taken
    BY <2>1 DEF Write
  <2>5. wire'[1].answer = answer
    BY <2>3, <2>4
  <2>6. call'[Worker].phase = "run" /\ call'[Worker].cmd = c
    BY <1>0, <2>1 DEF Running
  <2>. QED  BY <1>3, <1>4, <2>4, <2>5, <2>6
<1>6. CASE CommandAnswered(Worker)
  <2>1. /\ call[Worker].phase = "run" /\ wire # <<>> /\ taken' = taken
        /\ call' = [call EXCEPT ![Worker] = Done(c, Head(wire).answer, Head(wire).cmd)]
    BY <1>6 DEF CommandAnswered
  <2>2. /\ call'[Worker].phase = "done" /\ call'[Worker].cmd = c
        /\ call'[Worker].out.kind = wire[1].answer
    BY <1>0, <2>1 DEF Done
  <2>3. wire[1].answer # "error" => c \in taken
    BY <1>1, <2>1 DEF SendInv
  <2>. QED  BY <1>4, <2>1, <2>2, <2>3
<1>7. CASE Deadline(Worker) \/ PortFails(Worker)
  <2>1. PICK kind \in {"late", "closed"} :
          taken' = taken /\ call' = [call EXCEPT ![Worker] = Done(c, kind, c)]
    BY <1>7 DEF Deadline, PortFails
  <2>2. call'[Worker].phase = "done" /\ call'[Worker].cmd = c /\ call'[Worker].out.kind = kind
    BY <1>0, <2>1 DEF Done
  <2>. QED  BY <1>4, <2>1, <2>2
<1>. QED  BY <1>5, <1>6, <1>7 DEF Ends

LEMMA SendOuter == ASSUME Inv, SendInv, OuterStep  PROVE SendInv'
<1>0. /\ UNCHANGED <<job, result>> /\ (slipped => slipped')
  BY OuterStepOthers, SlippedStays DEF Inv, CommandsInv, sendVars
<1>1. CASE Cancel \/ PortLost
  BY <1>0, <1>1, SendKept DEF Cancel, PortLost, Unplug, commandVars
<1>2. CASE Discard
  <2>1. call[Worker].phase # "run" /\ UNCHANGED <<call, taken>>
    BY <1>2, Actor DEF Discard, Free, Busy
  <2>. QED  BY <1>0, <2>1, SendKept
<1>3. CASE Ends(Run)
  <2>1. Busy(Run) /\ call[Run].phase # "idle"
    BY <1>3 DEF Ends, DrainAnswered, CommandAnswered, Deadline, PortFails, Busy
  <2>2. call[Worker].phase # "run"
    BY <2>1, Actor DEF Inv, CommandsInv, OneInv, Busy
  <2>3. call[Run].cmd.part = 0
    BY <2>1 DEF Inv, RunInv
  <2>4. call'[Worker] = call[Worker]
    BY <1>3, Actor DEF Ends, DrainAnswered, CommandAnswered, Deadline, PortFails,
                       Inv, CommandsInv, CommandsType
  <2>5. taken' = taken
    <3>1. CASE DrainAnswered(Run)
      BY <2>3, <3>1 DEF DrainAnswered, Write
    <3>2. CASE ~DrainAnswered(Run)
      BY <1>3, <3>2 DEF Ends, CommandAnswered, Deadline, PortFails
    <3>. QED  BY <3>1, <3>2
  <2>. QED  BY <1>0, <2>2, <2>4, <2>5, SendKept
<1>4. CASE Ends(Worker)
  BY <1>0, <1>4, SendEnds
<1>. QED
  BY <1>1, <1>2, <1>3, <1>4, ModemAssumption DEF OuterStep, ModemAnswers, Answers

\* A message of which nothing was taken yet, or nothing at all.
LEMMA SendBegins ==
  ASSUME taken' = {}, call'[Worker].phase = "idle", job'.at = "parts" => job'.refs = <<>>,
         result'.err = "sending" \/ (result'.refs = <<>> /\ result'.err # "none")
  PROVE  SendInv'
<1>1. \A n : TookFirst(n)'
  BY DEF TookFirst
<1>2. Accounted(<<>>)'
  BY DEF Accounted
<1>3. job'.at = "parts" => Accounted(job.refs)' /\ TookFirst(Len(job.refs) + 1)'
  BY DEF Accounted, TookFirst
<1>4. result'.err # "sending" =>
        Accounted(result.refs)' /\ TookFirst(Len(result.refs) + Unknown(result.err))'
  BY DEF Accounted, TookFirst
<1>5. <<>> \in Seq(Ref)
  OBVIOUS
<1>. QED  BY <1>3, <1>4, <1>5 DEF SendInv

\* A message that ends with these references.
LEMMA SendFinishes ==
  ASSUME NEW refs \in Seq(Ref), NEW err, err # "sending", Finish(job, refs, err),
         taken' = taken, call'[Worker].phase = "idle",
         ~slipped' => /\ Accounted(refs) /\ TookFirst(Len(refs) + Unknown(err))
                      /\ err = "none" => Len(refs) = job.parts
  PROVE  SendInv'
<1>1. /\ job'.at = "none" /\ job'.msg = job.msg
      /\ result'.refs = refs /\ result'.err = err /\ result'.parts = job.parts
  BY DEF Finish, NoJob
<1>2. ~slipped' => Accounted(result.refs)' /\ TookFirst(Len(result.refs) + Unknown(result.err))'
  BY <1>1 DEF Accounted, TookFirst, Unknown
<1>. QED  BY <1>1, <1>2 DEF SendInv

\* What the references of the accepted parts say when the part after them fails.
LEMMA SendPartFails ==
  ASSUME Inv, SendInv, PartFails(job), job.at = "parts", taken' = taken, slipped' = slipped,
         call'[Worker].phase = "idle"
  PROVE  SendInv'
<1>1. job.refs \in Seq(Ref) /\ Len(job.refs) < job.parts
  BY DEF Inv, JobInv
<1>2. PartialRefs(job.refs, job.parts) = job.refs
  BY <1>1 DEF PartialRefs
<1>3. ~slipped => Accounted(job.refs) /\ TookFirst(Len(job.refs) + Unknown("part"))
  BY DEF SendInv, Unknown
<1>. QED  BY <1>1, <1>2, <1>3, SendFinishes DEF PartFails

LEMMA SendPartGoes == ASSUME Inv, SendInv, SendPart  PROVE SendInv'
<1>. DEFINE i == Len(job.refs) + 1
            r == WantsReport(i, job.parts, job.report)
            c == Part(job.msg, i, r)
<1>. SUFFICES ASSUME ~slipped'
              PROVE  SendInv'
  BY DEF SendInv
<1>1. job.at = "parts" /\ Exec(Worker, c) /\ UNCHANGED <<job, result>>
  BY DEF SendPart, sendVars
<1>2. i \in Nat \ {0} /\ c.msg = job.msg /\ c.part = i
  BY <1>1 DEF Inv, JobInv, Part
<1>3. ~slipped
  BY <1>1 DEF Exec, ExecWrites, ExecFails
<1>4. result'.err = "sending"
  BY <1>1 DEF Inv, ReportInv, NoResult
<1>5. Accounted(job.refs) /\ TookFirst(i)
  BY <1>1, <1>3 DEF SendInv
<1>. HIDE DEF c, i, r
<1>6. /\ taken' \in {taken, taken \cup {c}} /\ call'[Worker].cmd = c
      /\ call'[Worker].phase = "run" /\ wire' # <<>> /\ wire'[1].answer # "error" => c \in taken'
      /\ call'[Worker].phase = "done" => call'[Worker].out.kind = "closed"
  <2>0. call \in [Actors -> Calls] /\ wire \in Seq(Entries) /\ Worker \in Actors /\ CleanInv
    BY Actor DEF Inv, CommandsInv, CommandsType, Calls, Entries
  <2>1. CASE ExecFails(Worker, c)
    <3>1. taken' = taken /\ call' = [call EXCEPT ![Worker] = Done(c, "closed", c)]
      BY <2>1 DEF ExecFails
    <3>2. Done(c, "closed", c).cmd = c /\ Done(c, "closed", c).phase = "done"
          /\ Done(c, "closed", c).out.kind = "closed"
      BY DEF Done
    <3>. QED  BY <2>0, <3>1, <3>2
  <2>2. CASE ExecWrites(Worker, c) /\ pendingDrain
    <3>1. Write(wire, Drain) /\ call' = [call EXCEPT ![Worker] = Running("drain", c)]
      BY <2>2 DEF ExecWrites
    <3>2. Drain.part = 0
      BY DEF Drain, Plain
    <3>3. taken' = taken
      BY <3>1, <3>2 DEF Write
    <3>4. Running("drain", c).cmd = c /\ Running("drain", c).phase = "drain"
      BY DEF Running
    <3>. QED  BY <2>0, <3>1, <3>3, <3>4
  <2>3. CASE ExecWrites(Worker, c) /\ ~pendingDrain
    <3>1. Free /\ Write(wire, c) /\ call' = [call EXCEPT ![Worker] = Running("run", c)]
      BY <2>3 DEF ExecWrites
    <3>2. wire = <<>>
      BY <1>3, <2>0, <2>3, <3>1 DEF CleanInv
    <3>3. PICK answer \in Answer :
            /\ wire' = Append(wire, [cmd |-> c, live |-> TRUE, answer |-> answer])
            /\ taken' = IF c.part > 0 /\ answer # "error" THEN taken \cup {c} ELSE taken
      BY <3>1 DEF Write
    <3>4. wire'[1].answer = answer
      BY <3>2, <3>3
    <3>5. Running("run", c).cmd = c /\ Running("run", c).phase = "run"
      BY DEF Running
    <3>6. c.part > 0
      BY <1>2
    <3>. QED  BY <2>0, <3>1, <3>3, <3>4, <3>5, <3>6
  <2>. QED  BY <1>1, <2>1, <2>2, <2>3 DEF Exec
<1>7. TookFirst(Len(job.refs) + 1)' /\ Accounted(job.refs)'
  <2>1. c.msg = job.msg /\ c.part \in 1..i
    BY <1>2
  <2>2. \A d \in taken' : d.msg = job.msg /\ d.part \in 1..i
    BY <1>5, <1>6, <2>1 DEF TookFirst
  <2>4. TookFirst(Len(job.refs) + 1)'
    BY <1>1, <2>2 DEF TookFirst, i
  <2>3. Accounted(job.refs)'
    BY <1>1, <1>5, <1>6 DEF Accounted
  <2>. QED  BY <2>4, <2>3
<1>. QED  BY <1>1, <1>2, <1>4, <1>6, <1>7 DEF SendInv, i

LEMMA SendPartAnswered == ASSUME Inv, SendInv, PartAnswered  PROVE SendInv'
<1>. DEFINE out == call[Worker].out
            refs == Append(job.refs, [msg |-> out.of.msg, part |-> out.of.part])
            c == call[Worker].cmd
<1>1. job.at = "parts" /\ Return(Worker) /\ UNCHANGED <<taken, slipped, wire>>
  BY DEF PartAnswered, Return
<1>2. call'[Worker].phase = "idle" /\ call[Worker].phase = "done"
  BY <1>1, Actor, ReturnCall DEF Inv, CommandsInv
<1>3. job.refs \in Seq(Ref) /\ job.parts \in Nat /\ Len(job.refs) < job.parts
  BY <1>1, CommandsAssumption DEF Inv, JobInv
<1>4. CASE ~HasRef(out)
  <2>1. PartFails(job)
    BY <1>4 DEF PartAnswered
  <2>. QED  BY <1>1, <1>2, <2>1, SendPartFails
<1>5. CASE HasRef(out)
  <2>1. ASSUME ~slipped
        PROVE  /\ out.of = c /\ c \in taken /\ c.msg = job.msg /\ c.part = Len(job.refs) + 1
               /\ Accounted(job.refs) /\ TookFirst(Len(job.refs) + 1)
    <3>1. out.kind \in {"ok", "head"}
      BY <1>5 DEF HasRef
    <3>2. out.of = c
      BY <1>2, <2>1, <3>1, Actor DEF Inv, CommandsInv, MisreadNeedsSlip, Asked, Answer
    <3>. QED  BY <1>1, <1>2, <2>1, <3>1, <3>2 DEF SendInv
  <2>2. refs \in Seq(Ref) /\ Len(refs) = Len(job.refs) + 1
    <3>1. out.of.msg \in Nat /\ out.of.part \in Nat
      BY Actor, CommandNumbers DEF Inv, CommandsInv, CommandsType, Outcome
    <3>. QED  BY <1>3, <3>1 DEF Ref
  <2>3. ASSUME ~slipped  PROVE Accounted(refs)
    <3>1. refs = Append(job.refs, [msg |-> job.msg, part |-> Len(job.refs) + 1])
      BY <2>1, <2>3
    <3>. SUFFICES ASSUME NEW i \in 1..Len(refs)
                  PROVE  /\ refs[i] = [msg |-> job.msg, part |-> i]
                         /\ \E d \in taken : d.msg = job.msg /\ d.part = i
      BY DEF Accounted
    <3>2. CASE i = Len(job.refs) + 1
      BY <1>3, <2>1, <2>3, <3>1, <3>2
    <3>3. CASE i # Len(job.refs) + 1
      <4>1. i \in 1..Len(job.refs) /\ refs[i] = job.refs[i]
        BY <1>3, <2>2, <3>1, <3>3
      <4>. QED  BY <2>1, <2>3, <4>1 DEF Accounted
    <3>. QED  BY <3>2, <3>3
  <2>. HIDE DEF out, c
  <2>4. CASE Len(refs) < job.parts
    <3>1. job' = [job EXCEPT !.refs = refs] /\ result' = result
      BY <1>5, <2>4 DEF PartAnswered, out
    <3>2. job'.at = "parts" /\ job'.refs = refs /\ job'.msg = job.msg
      BY <1>1, <3>1 DEF Inv, JobInv
    <3>3. result'.err = "sending"
      BY <1>1, <3>1 DEF Inv, ReportInv, NoResult
    <3>4. ~slipped => TookFirst(Len(refs) + 1)
      BY <1>3, <2>1, <2>2 DEF TookFirst
    <3>5. ~slipped => Accounted(job.refs)' /\ TookFirst(Len(job.refs) + 1)'
      BY <1>1, <2>3, <3>2, <3>4 DEF Accounted, TookFirst
    <3>. QED  BY <1>1, <1>2, <3>3, <3>5 DEF SendInv
  <2>5. CASE ~(Len(refs) < job.parts)
    <3>1. Finish(job, refs, "none")
      BY <1>5, <2>5 DEF PartAnswered, out
    <3>2. Len(refs) = job.parts
      BY <1>3, <2>2, <2>5
    <3>3. ~slipped => TookFirst(Len(refs) + Unknown("none"))
      BY <1>3, <2>1, <2>2 DEF Unknown
    <3>. HIDE DEF refs
    <3>. QED  BY <1>1, <1>2, <2>2, <2>3, <3>1, <3>2, <3>3, SendFinishes
  <2>. QED  BY <2>4, <2>5
<1>. QED  BY <1>4, <1>5

LEMMA SendWork == ASSUME Inv, SendInv, WorkStep  PROVE SendInv'
<1>i. job.at # "parts" => call[Worker].phase = "idle"
  BY DEF Inv, ReportInv
<1>1. CASE Send
  <2>1. taken' = {} /\ call'[Worker].phase = "idle"
    BY <1>i, <1>1 DEF Send, commandVars, Inv, ReportInv
  <2>2. NoResult.err = "sending" /\ result = NoResult
    BY <1>1 DEF Send, NoResult
  <2>3. CASE handle
    <3>1. job' = [NoJob EXCEPT !.at = "gate", !.msg = job.msg + 1] /\ result' = result
      BY <1>1, <2>3 DEF Send
    <3>2. job'.at = "gate"
      BY <3>1 DEF NoJob
    <3>. QED  BY <2>1, <2>2, <3>1, <3>2, SendBegins
  <2>4. CASE ~handle
    <3>1. job'.at = "none" /\ result'.err = "early" /\ result'.refs = <<>>
      BY <1>1, <2>4 DEF Send, Finish, NoJob
    <3>. QED  BY <2>1, <3>1, SendBegins
  <2>. QED  BY <2>3, <2>4
<1>2. ASSUME NEW n \in 0..MaxParts + 1, NEW r \in BOOLEAN, Gate(n, r)  PROVE SendInv'
  <2>1. job.at = "gate" /\ taken' = taken /\ call' = call /\ result' = result
        /\ job' = [job EXCEPT !.at = "parts", !.parts = n, !.report = r]
    BY <1>2 DEF Gate, commandVars
  <2>2. taken = {} /\ result.err = "sending" /\ job.refs = <<>>
    BY <2>1 DEF Inv, ReportInv, JobInv, NoResult
  <2>3. job'.refs = <<>>
    BY <2>1, <2>2 DEF Inv, JobInv
  <2>. QED  BY <1>i, <2>1, <2>2, <2>3, SendBegins
<1>3. ASSUME NEW n \in 0..MaxParts + 1, GateRefuses(n)  PROVE SendInv'
  <2>1. job.at = "gate" /\ taken' = taken /\ call' = call
    BY <1>3 DEF GateRefuses, commandVars
  <2>2. PICK err \in {"part", "early", "invalid"} : Finish(job, <<>>, err)
    BY <1>3 DEF GateRefuses
  <2>3. taken = {} /\ job'.at = "none" /\ result'.refs = <<>> /\ result'.err = err
    BY <2>1, <2>2 DEF Inv, ReportInv, Finish, NoJob
  <2>. QED  BY <1>i, <2>1, <2>3, SendBegins
<1>4. CASE SendPart
  BY <1>4, SendPartGoes
<1>5. CASE PartAnswered
  BY <1>5, SendPartAnswered
<1>6. CASE SendStops
  <2>1. job.at = "parts" /\ taken' = taken /\ call' = call /\ slipped' = slipped
        /\ call[Worker] = Idle /\ PartFails(job)
    BY <1>6 DEF SendStops, commandVars
  <2>. QED  BY <2>1, IdlePhase, SendPartFails
<1>7. CASE Record
  <2>1. taken' = {} /\ job' = job /\ call' = call /\ result' = NoResult /\ job.at = "none"
    BY <1>7 DEF Record, Forget, Inv, ReportInv, JobInv
  <2>. QED  BY <1>i, <2>1, SendBegins DEF NoResult
<1>. QED
  BY <1>1, <1>2, <1>3, <1>4, <1>5, <1>6, <1>7 DEF WorkStep, Sending, Gates

LEMMA SendRuns == ASSUME Inv, SendInv, RunStep  PROVE SendInv'
<1>1. UNCHANGED <<job, result>> /\ call'[Worker] = call[Worker] /\ (slipped => slipped')
  BY RunStepOthers, SlippedStays DEF Inv, CommandsInv
<1>. QED  BY <1>1, RunTaken, SendKept

LEMMA SendStep == Inv /\ SendInv /\ [Next]_vars => SendInv'
<1>. SUFFICES ASSUME Inv, SendInv, [Next]_vars  PROVE SendInv'
  OBVIOUS
<1>1. CASE UNCHANGED vars
  BY <1>1, SendKept DEF vars, commandVars, sendVars
<1>2. CASE RunStep \/ WorkStep \/ OuterStep
  BY <1>2, SendRuns, SendWork, SendOuter
<1>. QED  BY <1>1, <1>2 DEF Next, RunStep, WorkStep, OuterStep

\* Parts of one message among the first n are at most n.
LEMMA FewParts ==
  ASSUME NEW m, NEW n \in Nat, NEW S,
         \A e \in S : e.msg = m /\ e.part \in 1..n /\ e = [msg |-> e.msg, part |-> e.part]
  PROVE  Cardinality(S) <= n
<1>. DEFINE f == [e \in S |-> e.part]
<1>1. f \in Injection(S, 1..n)
  BY DEF Injection, IsInjective
<1>2. IsFiniteSet(1..n) /\ Cardinality(1..n) = n
  BY FS_Interval
<1>. QED  BY <1>1, <1>2, FS_Injection

\* What a caller of SendSMS is told is what went out: the references are those
\* of the first parts in order, the modem took each of them and at most one
\* part more, and all when there is no error, unless a drain was ended by a
\* late answer (sms.go:517-569, 624-630).
THEOREM SendsAreAccountedForCorrect == Spec => []SendsAreAccountedFor
<1>1. ASSUME Inv, SendInv  PROVE SendsAreAccountedFor
  <2>. SUFFICES ASSUME ~slipped, result.err # "sending"
                PROVE  LET known == {[msg |-> job.msg, part |-> i] : i \in 1..Len(result.refs)}
                           out == {[msg |-> c.msg, part |-> c.part] : c \in taken}
                       IN /\ \A i \in 1..Len(result.refs) :
                               result.refs[i] = [msg |-> job.msg, part |-> i]
                          /\ known \subseteq out
                          /\ Cardinality(out) <= Len(result.refs)
                                                 + (IF result.err = "part" THEN 1 ELSE 0)
                          /\ result.err = "none" => Len(result.refs) = result.parts
    BY DEF SendsAreAccountedFor
  <2>. DEFINE known == {[msg |-> job.msg, part |-> i] : i \in 1..Len(result.refs)}
              out == {[msg |-> c.msg, part |-> c.part] : c \in taken}
              n == Len(result.refs) + Unknown(result.err)
  <2>1. /\ result.refs \in Seq(Ref) /\ Accounted(result.refs) /\ TookFirst(n)
        /\ result.err = "none" => Len(result.refs) = result.parts
    BY <1>1 DEF SendInv
  <2>2. \A i \in 1..Len(result.refs) : result.refs[i] = [msg |-> job.msg, part |-> i]
    BY <2>1 DEF Accounted
  <2>3. known \subseteq out
    <3>. SUFFICES ASSUME NEW i \in 1..Len(result.refs)
                  PROVE  [msg |-> job.msg, part |-> i] \in out
      OBVIOUS
    <3>1. PICK c \in taken : c.msg = job.msg /\ c.part = i
      BY <2>1 DEF Accounted
    <3>. QED  BY <3>1
  <2>4. Cardinality(out) <= n
    <3>1. n \in Nat
      <4>1. Len(result.refs) \in Nat /\ Unknown(result.err) \in {0, 1}
        BY <2>1 DEF Unknown
      <4>. QED  BY <4>1
    <3>. HIDE DEF n
    <3>2. \A e \in out : /\ e.msg = job.msg /\ e.part \in 1..n
                         /\ e = [msg |-> e.msg, part |-> e.part]
      BY <2>1 DEF TookFirst
    <3>. QED  BY <3>1, <3>2, FewParts
  <2>. QED  BY <2>1, <2>2, <2>3, <2>4 DEF Unknown
<1>. QED  BY <1>1, InvCorrect, SendInit, SendStep, PTL DEF Spec

-----------------------------------------------------------------------------
(* What the SIM card costs.                                                *)

\* What a call has in hand, or is about to be given, is no good answer.
Fails(a) ==
  \/ call[a].phase = "done" /\ call[a].out.kind # "ok"
  \/ call[a].phase = "run" /\ wire # <<>> /\ wire[Len(wire)].answer # "ok"

Owed == IF Fails(Run) THEN 1 ELSE 0

Blanks(fields, r) == {f \in fields : r[f] # f}

\* How many of the fields read so far are blank, and of a whole card.
FieldsRead == {f \in SimCard : \E i \in 1..(row - 1) : SimFields[i] = f}
ReadBlanks == Cardinality(Blanks(FieldsRead, read))
CardBlanks(r) == Cardinality(Blanks(SimCard, r))

\* The SIM card is read field by field, then shown, then announced; each blank
\* field is paid for, and so is the failed answer on its way to the next one.
CardInv ==
  ~slipped /\ ~closed /\ ~cancelled =>
    /\ rpc = "sim" => ReadBlanks + Owed <= trouble
    /\ rpc = "publish" => CardBlanks(read) <= trouble
    /\ rpc \in {"ready", "emit"} => CardBlanks(shown) <= trouble
    /\ announced # <<>> => CardBlanks(announced[1]) <= trouble

\* An answer that is not good is paid for when its command is written.
LEMMA WriteCosts ==
  ASSUME trouble \in Nat, NEW w \in Seq(Entries), NEW c \in Command, Write(w, c)
  PROVE  /\ trouble' \in Nat /\ trouble <= trouble'
         /\ wire'[Len(wire')].answer # "ok" => trouble < trouble'
<1>1. PICK answer \in Answer :
        /\ trouble' = trouble + Cost(answer)
        /\ wire' = Append(w, [cmd |-> c, live |-> TRUE, answer |-> answer])
  BY DEF Write
<1>2. Cost(answer) \in {0, 1} /\ (answer # "ok" => Cost(answer) = 1)
  BY DEF Cost
<1>3. wire'[Len(wire')].answer = answer
  <2>. DEFINE e == [cmd |-> c, live |-> TRUE, answer |-> answer]
  <2>1. e \in Entries /\ e.answer = answer
    BY DEF Entries
  <2>. HIDE DEF e
  <2>2. Append(w, e)[Len(Append(w, e))] = e
    BY <2>1
  <2>. QED  BY <1>1, <2>1, <2>2 DEF e
<1>. QED  BY <1>1, <1>2, <1>3

\* Trouble is not undone, and neither is the loss of the port.
LEMMA TroubleGrows ==
  ASSUME CommandsInv, [CommandsNext]_commandVars
  PROVE  /\ trouble \in Nat /\ trouble' \in Nat /\ trouble <= trouble'
         /\ closed => closed'
<1>1. trouble \in Nat /\ wire \in Seq(Entries) /\ call \in [Actors -> Calls]
  BY CommandsAssumption DEF CommandsInv, CommandsType, Entries, Calls
<1>2. CASE UNCHANGED <<trouble, closed>>
  BY <1>1, <1>2
<1>3. CASE Unplug
  BY <1>1, <1>3 DEF Unplug
<1>4. ASSUME NEW a \in Actors, NEW c \in Command, ExecWrites(a, c)
      PROVE  trouble' \in Nat /\ trouble <= trouble' /\ closed' = closed
  BY <1>1, <1>4, WriteCosts, DrainTyped DEF ExecWrites
<1>5. ASSUME NEW a \in Actors, DrainAnswered(a)
      PROVE  trouble' \in Nat /\ trouble <= trouble' /\ closed' = closed
  <2>1. wire # <<>> /\ call[a].cmd \in Command
    BY <1>1, <1>5 DEF DrainAnswered, Calls
  <2>2. Tail(wire) \in Seq(Entries)
    BY <1>1, <2>1
  <2>3. Orphaned(Tail(wire)) \in Seq(Entries)
    BY <2>2, OrphanedShape
  <2>. QED  BY <1>1, <1>5, <2>1, <2>3, WriteCosts DEF DrainAnswered
<1>6. ASSUME NEW a \in Actors, Deadline(a)
      PROVE  trouble' \in Nat /\ trouble <= trouble' /\ closed' = closed
  BY <1>1, <1>6 DEF Deadline
<1>7. CASE Discard \/ Forget \/ UNCHANGED commandVars \/ \E a \in Actors :
             \/ Return(a) \/ CommandAnswered(a) \/ PortFails(a)
             \/ \E c \in Command : ExecFails(a, c)
  BY <1>2, <1>7 DEF Discard, Forget, Return, CommandAnswered, PortFails, ExecFails, commandVars
<1>. QED
  BY <1>1, <1>3, <1>4, <1>5, <1>6, <1>7 DEF CommandsNext, Callers, Exec, Answers, Ends

\* A failure that is new was paid for by this step.
LEMMA FailsCosts ==
  ASSUME CommandsInv, CommandsNext, ~slipped', ~closed', NEW a \in Actors, Fails(a)'
  PROVE  Fails(a) \/ trouble < trouble'
<1>1. /\ trouble \in Nat /\ wire \in Seq(Entries) /\ call \in [Actors -> Calls]
      /\ OneInv /\ LastInv /\ CleanInv
  BY CommandsAssumption DEF CommandsInv, CommandsType, Entries, Calls
<1>2. ~slipped /\ ~closed
  BY SlippedStays, TroubleGrows DEF CommandsInv
<1>3. CASE call'[a] = call[a] /\ ~Busy(a)
  BY <1>3 DEF Fails, Busy
<1>4. CASE Discard
  BY <1>3, <1>4 DEF Discard, Free
<1>5. CASE Unplug
  BY <1>5 DEF Unplug
<1>6. CASE Forget
  BY <1>6 DEF Forget, Fails
<1>7. ASSUME NEW b \in Actors, Return(b)
      PROVE  Fails(a)
  <2>1. UNCHANGED wire /\ call' = [call EXCEPT ![b] = Idle]
    BY <1>7 DEF Return
  <2>2. call'[a] \in {call[a], Idle}
    BY <1>1, <2>1
  <2>. QED  BY <2>1, <2>2, IdlePhase DEF Fails
<1>8. ASSUME NEW b \in Actors, NEW c \in Command, Exec(b, c)
      PROVE  Fails(a) \/ trouble < trouble'
  <2>1. ExecWrites(b, c)
    BY <1>2, <1>8 DEF Exec, ExecFails
  <2>2. /\ ~Busy(a)
        /\ Write(wire, IF pendingDrain THEN Drain ELSE c)
        /\ call' = [call EXCEPT ![b] = Running(IF pendingDrain THEN "drain" ELSE "run", c)]
    BY <2>1 DEF ExecWrites, Free
  <2>3. wire'[Len(wire')].answer # "ok" => trouble < trouble'
    BY <1>1, <2>2, WriteCosts, DrainTyped
  <2>4. CASE b # a
    BY <1>1, <1>3, <2>2, <2>4
  <2>5. CASE b = a
    <3>1. call'[a].phase # "done"
      BY <1>1, <2>2, <2>5 DEF Running
    <3>. QED  BY <2>3, <3>1 DEF Fails
  <2>. QED  BY <2>4, <2>5
<1>9. ASSUME NEW b \in Actors, Ends(b)
      PROVE  Fails(a) \/ trouble < trouble'
  <2>1. Busy(b)
    BY <1>9 DEF Ends, DrainAnswered, CommandAnswered, Deadline, PortFails, Busy
  <2>2. CASE b # a
    <3>1. ~Busy(a)
      BY <1>1, <2>1, <2>2 DEF OneInv
    <3>2. PICK r : call' = [call EXCEPT ![b] = r]
      BY <1>9 DEF Ends, DrainAnswered, CommandAnswered, Deadline, PortFails
    <3>3. call'[a] = call[a]
      BY <1>1, <2>2, <3>2
    <3>. QED  BY <1>3, <3>1, <3>3
  <2>3. CASE b = a /\ DrainAnswered(a)
    <3>1. /\ Write(Orphaned(Tail(wire)), call[a].cmd) /\ wire # <<>>
          /\ call' = [call EXCEPT ![a] = Running("run", call[a].cmd)]
      BY <2>3 DEF DrainAnswered
    <3>a. Tail(wire) \in Seq(Entries) /\ call[a].cmd \in Command
      BY <1>1, <3>1 DEF Calls
    <3>2. Orphaned(Tail(wire)) \in Seq(Entries) /\ call[a].cmd \in Command
      BY <3>a, OrphanedShape
    <3>3. wire'[Len(wire')].answer # "ok" => trouble < trouble'
      BY <1>1, <3>1, <3>2, WriteCosts
    <3>4. call'[a].phase # "done"
      BY <1>1, <3>1 DEF Running
    <3>. QED  BY <3>3, <3>4 DEF Fails
  <2>4. CASE b = a /\ CommandAnswered(a)
    <3>1. /\ call[a].phase = "run" /\ wire # <<>>
          /\ call' = [call EXCEPT ![a] = Done(call[a].cmd, Head(wire).answer, Head(wire).cmd)]
      BY <2>4 DEF CommandAnswered
    <3>2. Len(wire) = 1
      BY <1>1, <1>2, <3>1 DEF OneInv, CleanInv
    <3>3. Head(wire) = wire[Len(wire)]
      BY <1>1, <3>2
    <3>4. call'[a].phase = "done" /\ call'[a].out.kind = Head(wire).answer
      BY <1>1, <3>1 DEF Done
    <3>. QED  BY <3>1, <3>3, <3>4 DEF Fails
  <2>5. CASE Deadline(b)
    BY <1>1, <2>5 DEF Deadline
  <2>6. CASE PortFails(b)
    BY <1>2, <2>6 DEF PortFails
  <2>. QED  BY <1>9, <2>2, <2>3, <2>4, <2>5, <2>6 DEF Ends
<1>. QED  BY <1>4, <1>5, <1>6, <1>7, <1>8, <1>9 DEF CommandsNext, Callers, Answers

\* Numbers that grow with what is paid.
LEMMA Paid ==
  /\ \A o, p \in 0..1, t, u \in Nat :
       t <= u /\ (p = 1 => o = 1 \/ t < u) => p + t <= o + u
  /\ \A o, p \in 0..1, b, t, u \in Nat :
       b + o <= t /\ p + t <= o + u => b + p <= u
  /\ \A o \in 0..1, a, b, t, u \in Nat :
       a <= b + o /\ b + o <= t /\ t <= u => a + 0 <= u
OBVIOUS

\* What the Run goroutine owes grows only with what is paid.
LEMMA OwedGrows ==
  ASSUME CommandsInv, [CommandsNext]_commandVars, ~slipped', ~closed'
  PROVE  /\ trouble \in Nat /\ trouble' \in Nat /\ trouble <= trouble'
         /\ Owed \in 0..1 /\ Owed' \in 0..1
         /\ Owed' + trouble <= Owed + trouble'
<1>1. trouble \in Nat /\ trouble' \in Nat /\ trouble <= trouble'
  BY TroubleGrows
<1>2. Owed \in 0..1 /\ Owed' \in 0..1
  BY DEF Owed
<1>3. (Owed' = 1 => Fails(Run)') /\ (Fails(Run) => Owed = 1)
  BY DEF Owed
<1>4. CASE UNCHANGED commandVars
  <2>1. Owed' = Owed
    BY <1>4 DEF commandVars, Owed, Fails
  <2>. QED  BY <1>1, <1>2, <2>1, Paid
<1>5. CASE CommandsNext
  <2>1. Fails(Run)' => Fails(Run) \/ trouble < trouble'
    BY <1>5, Actor, FailsCosts
  <2>2. Owed' = 1 => Owed = 1 \/ trouble < trouble'
    BY <1>3, <2>1
  <2>. QED  BY <1>1, <1>2, <2>2, Paid
<1>. QED  BY <1>4, <1>5

LEMMA SimRows == SimCard = {SimFields[i] : i \in 1..5}
<1>1. SimFields[1] = "+CNUM" /\ SimFields[2] = "+CCID" /\ SimFields[3] = "+COPS"
      /\ SimFields[4] = "+CSQ" /\ SimFields[5] = "+CREG"
  BY DEF SimFields
<1>2. \A f \in SimCard : \E i \in 1..5 : SimFields[i] = f
  BY <1>1 DEF SimCard
<1>3. \A i \in 1..5 : SimFields[i] \in SimCard
  <2>. TAKE i \in 1..5
  <2>1. i = 1 \/ i = 2 \/ i = 3 \/ i = 4 \/ i = 5
    OBVIOUS
  <2>. QED  BY <1>1, <2>1 DEF SimCard
<1>. QED  BY <1>2, <1>3

LEMMA CardFinite == IsFiniteSet(SimCard)
<1>1. SimCard = {"+CNUM"} \cup {"+CCID"} \cup {"+COPS"} \cup {"+CSQ"} \cup {"+CREG"}
  BY DEF SimCard
<1>. QED  BY <1>1, FS_Singleton, FS_Union

\* A set of blank fields that is part of another, or has one field more.
LEMMA FewBlanks ==
  ASSUME NEW S \in SUBSET SimCard, NEW T \in SUBSET SimCard
  PROVE  /\ Cardinality(S) \in Nat /\ Cardinality(T) \in Nat
         /\ S \subseteq T => Cardinality(S) <= Cardinality(T)
         /\ \A f : S \subseteq T \cup {f} => Cardinality(S) <= Cardinality(T) + 1
<1>1. IsFiniteSet(S) /\ IsFiniteSet(T)
  BY CardFinite, FS_Subset
<1>2. Cardinality(S) \in Nat /\ Cardinality(T) \in Nat
  BY <1>1, FS_CardinalityType
<1>3. S \subseteq T => Cardinality(S) <= Cardinality(T)
  BY <1>1, FS_Subset
<1>4. ASSUME NEW f, S \subseteq T \cup {f}  PROVE Cardinality(S) <= Cardinality(T) + 1
  <2>1. /\ IsFiniteSet(T \cup {f})
        /\ Cardinality(T \cup {f}) = Cardinality(T) \/ Cardinality(T \cup {f}) = Cardinality(T) + 1
    BY <1>1, FS_AddElement
  <2>2. Cardinality(S) <= Cardinality(T \cup {f})
    BY <1>4, <2>1, FS_Subset
  <2>. QED  BY <1>2, <2>1, <2>2
<1>. QED  BY <1>2, <1>3, <1>4

\* A good answer to the query of a SIM field is that field.
LEMMA SimFieldRead ==
  ASSUME Inv, QueryAnswered, rpc = "sim", ~slipped
  PROVE  LET f == SimFields[row]
             text == FieldOf(f, call[Run].out)
         IN /\ row \in 1..5 /\ f \in SimCard
            /\ read' = [read EXCEPT ![f] = text]
            /\ Owed = 0 => text = f
            /\ rpc' = "sim" /\ row' = row + 1
<1>. DEFINE out == call[Run].out
            f == SimFields[row]
<1>1. call[Run].phase = "done"
  BY RunReturn DEF QueryAnswered
<1>2. FieldsOf(rpc) = SimFields /\ row \in 1..7
  BY DEF FieldsOf, Inv, RunInv
<1>3. row <= Len(SimFields) /\ call[Run].cmd = Plain(f)
  BY <1>1, <1>2 DEF Inv, RunInv, Reading
<1>4. row \in 1..5 /\ f \in SimCard
  <2>1. row \in 1..5
    BY <1>2, <1>3, RowNames
  <2>. QED  BY <2>1, SimRows
<1>5. Owed = 0 => out.kind = "ok"
  BY <1>1 DEF Owed, Fails
<1>6. out.kind = "ok" => out.of.name = f
  <2>1. out.kind = "ok" => out.of = Plain(f)
    BY <1>1, <1>3, Actor DEF Inv, CommandsInv, MisreadNeedsSlip, Asked, Answer
  <2>. QED  BY <2>1 DEF Plain
<1>7. /\ read' = [read EXCEPT ![f] = FieldOf(f, out)]
      /\ rpc' = "sim" /\ row' = row + 1
  BY <1>2 DEF QueryAnswered, Target, GivesUp, f, out
<1>. HIDE DEF f, out
<1>8. Owed = 0 => FieldOf(f, out) = f
  BY <1>4, <1>5, <1>6, FieldSets DEF FieldOf, Answered
<1>. QED  BY <1>4, <1>7, <1>8 DEF f, out

LEMMA BlanksCounted ==
  /\ ReadBlanks \in Nat /\ ReadBlanks' \in Nat
  /\ \A r : CardBlanks(r) \in Nat
BY FewBlanks DEF ReadBlanks, CardBlanks, Blanks, FieldsRead

\* Before the first field is asked for nothing is blank or owed.
LEMMA SimBegins ==
  ASSUME row' = 1, call'[Run].phase = "idle"
  PROVE  ReadBlanks' = 0 /\ Owed' = 0
<1>1. Blanks(FieldsRead, read)' = {}
  BY DEF Blanks, FieldsRead
<1>. QED  BY <1>1, FS_EmptySet DEF ReadBlanks, Owed, Fails

\* A field that is read is blank at the cost of what was owed.
LEMMA SimReads ==
  ASSUME Inv, QueryAnswered, rpc = "sim", ~slipped
  PROVE  ReadBlanks' <= ReadBlanks + Owed /\ Owed' = 0 /\ rpc' = "sim"
<1>. DEFINE f == SimFields[row]
            text == FieldOf(f, call[Run].out)
<1>1. /\ row \in 1..5 /\ f \in SimCard
      /\ read' = [read EXCEPT ![f] = text]
      /\ Owed = 0 => text = f
      /\ rpc' = "sim" /\ row' = row + 1
  BY SimFieldRead
<1>. HIDE DEF f, text
<1>2. call'[Run].phase = "idle" /\ DOMAIN read = Fields
  BY RunReturn DEF QueryAnswered, Inv, FieldInv
<1>3. Owed' = 0 /\ Owed \in 0..1
  BY <1>2 DEF Owed, Fails
<1>4. \A g \in FieldsRead' : g = f \/ g \in FieldsRead
  BY <1>1 DEF FieldsRead, f
<1>5. \A g \in SimCard : g # f => read'[g] = read[g]
  BY <1>1, <1>2, FieldSets
<1>6. read'[f] = text
  BY <1>1, <1>2, FieldSets
<1>7. Blanks(FieldsRead, read)' \subseteq Blanks(FieldsRead, read) \cup {f}
  BY <1>4, <1>5 DEF Blanks, FieldsRead
<1>8. Owed = 0 => Blanks(FieldsRead, read)' \subseteq Blanks(FieldsRead, read)
  BY <1>1, <1>6, <1>7 DEF Blanks
<1>9. Blanks(FieldsRead, read)' \in SUBSET SimCard /\ Blanks(FieldsRead, read) \in SUBSET SimCard
  BY DEF Blanks, FieldsRead
<1>10. /\ ReadBlanks \in Nat /\ ReadBlanks' \in Nat
       /\ ReadBlanks' <= ReadBlanks + 1
       /\ Owed = 0 => ReadBlanks' <= ReadBlanks
  BY <1>7, <1>8, <1>9, FewBlanks DEF ReadBlanks
<1>. QED  BY <1>1, <1>3, <1>10

\* All fields were read.
LEMMA SimEnds ==
  ASSUME row \in 1..7, row > 5
  PROVE  CardBlanks(read) <= ReadBlanks
<1>1. SimCard \subseteq FieldsRead
  <2>1. \A i \in 1..5 : i \in 1..(row - 1)
    OBVIOUS
  <2>. QED  BY <2>1, SimRows DEF FieldsRead
<1>2. Blanks(SimCard, read) \subseteq Blanks(FieldsRead, read)
  BY <1>1 DEF Blanks
<1>. QED  BY <1>2, FewBlanks DEF CardBlanks, ReadBlanks, Blanks, FieldsRead

LEMMA CardRuns ==
  ASSUME Inv, CardInv, RunStep, ~slipped, ~closed, ~cancelled, ~slipped', ~closed'
  PROVE  CardInv'
<1>0. /\ trouble \in Nat /\ trouble' \in Nat /\ trouble <= trouble'
      /\ Owed \in 0..1 /\ Owed' \in 0..1
      /\ Owed' + trouble <= Owed + trouble'
  BY RunStepOthers, OwedGrows DEF Inv
<1>c. /\ ReadBlanks \in Nat /\ ReadBlanks' \in Nat
      /\ \A r : CardBlanks(r) \in Nat
  BY BlanksCounted
<1>i. /\ rpc = "sim" => ReadBlanks + Owed <= trouble
      /\ rpc = "publish" => CardBlanks(read) <= trouble
      /\ rpc \in {"ready", "emit"} => CardBlanks(shown) <= trouble
      /\ announced # <<>> => CardBlanks(announced[1]) <= trouble
  BY DEF CardInv
<1>a. UNCHANGED announced =>
        (announced' # <<>> => CardBlanks(announced'[1]) <= trouble')
  BY <1>0, <1>c, <1>i
<1>1. CASE UNCHANGED <<rpc, row, read, shown, announced>>
  <2>1. ReadBlanks' = ReadBlanks
    BY <1>1 DEF ReadBlanks, FieldsRead, Blanks
  <2>a. rpc' = rpc /\ read' = read /\ shown' = shown
    BY <1>1
  <2>2. rpc' = "sim" => ReadBlanks' + Owed' <= trouble'
    BY <1>0, <2>a, <1>c, <1>i, <2>1, Paid
  <2>3. rpc' = "publish" => CardBlanks(read') <= trouble'
    BY <1>0, <2>a, <1>c, <1>i
  <2>4. rpc' \in {"ready", "emit"} => CardBlanks(shown') <= trouble'
    BY <1>0, <2>a, <1>c, <1>i
  <2>. QED  BY <1>1, <1>a, <2>2, <2>3, <2>4 DEF CardInv, CardBlanks, Blanks
<1>2. ASSUME rpc' = "sim", ReadBlanks' + Owed' <= trouble', UNCHANGED announced
      PROVE  CardInv'
  BY <1>2, <1>a DEF CardInv, CardBlanks, Blanks
<1>3. ASSUME rpc = "info", rpc' = "sim", row' = 1, call'[Run].phase = "idle", UNCHANGED announced
      PROVE  CardInv'
  BY <1>0, <1>2, <1>3, SimBegins
<1>4. CASE QueryAnswered
  <2>1. UNCHANGED announced /\ call'[Run].phase = "idle"
    BY <1>4, RunReturn DEF QueryAnswered
  <2>2. CASE rpc = "sim"
    <3>1. ReadBlanks' <= ReadBlanks + Owed /\ Owed' = 0 /\ rpc' = "sim"
      BY <1>4, <2>2, SimReads
    <3>2. ReadBlanks' + 0 <= trouble'
      BY <1>0, <1>c, <1>i, <2>2, <3>1, Paid
    <3>. QED  BY <1>2, <2>1, <3>1, <3>2
  <2>3. CASE rpc = "info"
    <3>1. (rpc' = "sim" /\ row' = 1) \/ rpc' = "info"
      BY <1>4, <2>3 DEF QueryAnswered, Step, After
    <3>2. CASE rpc' = "info"
      BY <1>a, <2>1, <3>2 DEF CardInv, CardBlanks, Blanks
    <3>. QED  BY <1>3, <2>1, <2>3, <3>1, <3>2
  <2>. QED  BY <1>4, <2>2, <2>3 DEF QueryAnswered, Reading
<1>5. CASE QueriesEnd
  <2>1. /\ UNCHANGED <<read, announced, call>> /\ rpc' = After(rpc) /\ row' = 1
        /\ call[Run] = Idle
    BY <1>5 DEF QueriesEnd, Step, commandVars
  <2>2. CASE rpc = "sim"
    <3>1. rpc' = "publish" /\ row > 5 /\ row \in 1..7
      BY <1>5, <2>1, <2>2, RowNames DEF QueriesEnd, After, FieldsOf, Inv, RunInv
    <3>2. CardBlanks(read') <= trouble'
      BY <1>0, <1>c, <1>i, <2>1, <2>2, <3>1, SimEnds
    <3>. QED  BY <1>a, <2>1, <3>1, <3>2 DEF CardInv, CardBlanks, Blanks
  <2>3. CASE rpc = "info"
    BY <1>3, <2>1, <2>3, IdlePhase DEF After
  <2>. QED  BY <1>5, <2>2, <2>3 DEF QueriesEnd, Reading
<1>6. CASE Publish
  <2>1. rpc = "publish" /\ rpc' = "ready" /\ shown' = read /\ UNCHANGED announced
    BY <1>6 DEF Publish, Step
  <2>2. CardBlanks(shown') <= trouble'
    BY <1>0, <1>c, <1>i, <2>1
  <2>. QED  BY <1>a, <2>1, <2>2 DEF CardInv, CardBlanks, Blanks
<1>7. CASE BecomeReady
  <2>1. rpc = "ready" /\ rpc' = "emit" /\ UNCHANGED <<shown, announced>>
    BY <1>7 DEF BecomeReady, Step
  <2>2. CardBlanks(shown') <= trouble'
    BY <1>0, <1>c, <1>i, <2>1
  <2>. QED  BY <1>a, <2>1, <2>2 DEF CardInv, CardBlanks, Blanks
<1>8. CASE EmitAppStarted
  <2>1. /\ rpc = "emit" /\ rpc' = "loop"
        /\ announced' = IF announced = <<>> THEN <<[f \in SimCard |-> shown[f]]>> ELSE announced
    BY <1>8 DEF EmitAppStarted, Step
  <2>2. announced = <<>> => CardBlanks(announced'[1]) = CardBlanks(shown)
    BY <2>1 DEF CardBlanks, Blanks
  <2>3. CardBlanks(announced'[1]) <= trouble'
    BY <1>0, <1>c, <1>i, <2>1, <2>2
  <2>. QED  BY <2>1, <2>3 DEF CardInv, CardBlanks, Blanks
<1>9. CASE rpc' \notin {"sim", "publish", "ready", "emit"} /\ UNCHANGED announced
  BY <1>9, <1>a DEF CardInv, CardBlanks, Blanks
<1>10. CASE SignalUpdate
  BY <1>9, <1>10 DEF SignalUpdate
<1>11. CASE Opens \/ Stops \/ InitExpires \/ InitDone \/ LeaveLoop
  BY <1>9, <1>11 DEF Opens, Connect, OpenPort, OpenFails, Stops, Disconnect, InitFails,
                    InitExpires, InitDone, LeaveLoop, Step
<1>12. CASE InitAnswered
  BY <1>9, <1>12 DEF InitAnswered, Step
<1>13. CASE InitRow \/ Query \/ SignalQuery
  BY <1>1, <1>13 DEF InitRow, Query, SignalQuery, lifeVars
<1>. QED
  BY <1>4, <1>5, <1>6, <1>7, <1>8, <1>10, <1>11, <1>12, <1>13
     DEF RunStep, RunGoesOn, Asks, Announces

LEMMA CardStep == Inv /\ CardInv /\ [Next]_vars => CardInv'
<1>. SUFFICES ASSUME Inv, CardInv, [Next]_vars,
                     ~slipped', ~closed', ~cancelled'
              PROVE  CardInv'
  BY DEF CardInv
<1>1. [CommandsNext]_commandVars
  BY LayerStep
<1>2. ~slipped /\ ~closed
  BY <1>1, SlippedStays, TroubleGrows DEF Inv, CommandsInv
<1>3. ~cancelled
  <2>1. CASE RunStep \/ WorkStep
    BY <2>1, RunStepOthers, WorkStepOthers
  <2>2. CASE OuterStep \/ UNCHANGED vars
    BY <2>2 DEF OuterStep, Cancel, ModemAnswers, PortLost, vars
  <2>. QED  BY <2>1, <2>2 DEF Next, RunStep, WorkStep, OuterStep
<1>4. CASE UNCHANGED lifeVars
  <2>1. /\ trouble \in Nat /\ trouble' \in Nat /\ trouble <= trouble'
        /\ Owed \in 0..1 /\ Owed' \in 0..1
        /\ Owed' + trouble <= Owed + trouble'
    BY <1>1, OwedGrows DEF Inv
  <2>2. /\ ReadBlanks \in Nat /\ ReadBlanks' = ReadBlanks
        /\ \A r : CardBlanks(r) \in Nat
    BY <1>4, BlanksCounted DEF lifeVars, ReadBlanks, FieldsRead, Blanks
  <2>3. rpc' = rpc /\ read' = read /\ shown' = shown /\ announced' = announced
    BY <1>4 DEF lifeVars
  <2>4. /\ rpc = "sim" => ReadBlanks + Owed <= trouble
        /\ rpc = "publish" => CardBlanks(read) <= trouble
        /\ rpc \in {"ready", "emit"} => CardBlanks(shown) <= trouble
        /\ announced # <<>> => CardBlanks(announced[1]) <= trouble
    BY <1>2, <1>3 DEF CardInv
  <2>5. rpc' = "sim" => ReadBlanks' + Owed' <= trouble'
    BY <2>1, <2>2, <2>3, <2>4, Paid
  <2>6. rpc' = "publish" => CardBlanks(read') <= trouble'
    BY <2>1, <2>2, <2>3, <2>4
  <2>7. rpc' \in {"ready", "emit"} => CardBlanks(shown') <= trouble'
    BY <2>1, <2>2, <2>3, <2>4
  <2>8. announced' # <<>> => CardBlanks(announced'[1]) <= trouble'
    BY <2>1, <2>2, <2>3, <2>4
  <2>. QED  BY <2>5, <2>6, <2>7, <2>8 DEF CardInv, CardBlanks, Blanks
<1>5. CASE RunStep
  BY <1>2, <1>3, <1>5, CardRuns
<1>6. CASE WorkStep \/ OuterStep \/ UNCHANGED vars
  BY <1>4, <1>6, WorkStepOthers, OuterStepOthers DEF vars
<1>. QED  BY <1>5, <1>6 DEF Next, RunStep, WorkStep, OuterStep

\* Each blank field of the SIM card in the app:started event costs an answer of
\* its own that was late, lost or wrong, unless the port was lost, a stop came
\* or a drain was ended by a late answer (sms.go:178-194, service.go:444-484).
THEOREM BlankHasCauseCorrect == Spec => []BlankHasCause
<1>1. Init => CardInv
  BY DEF Init, CardInv
<1>2. CardInv => BlankHasCause
  BY DEF CardInv, BlankHasCause, CardBlanks, Blanks
<1>. QED  BY <1>1, <1>2, InvCorrect, CardStep, PTL DEF Spec
=============================================================================
