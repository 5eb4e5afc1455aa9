------------------------------- MODULE Modem --------------------------------
(***************************************************************************)
(* The life of the modem service (internal/modem/service.go): the Run      *)
(* goroutine opens the port, runs the init sequence, reads the identity    *)
(* and the SIM, announces the device and keeps the signal fresh, while the *)
(* messages worker sends through the same handle from the first moment.    *)
(***************************************************************************)
EXTENDS Commands, FiniteSets

CONSTANTS Run, Worker   \* the two actors

VARIABLES state,        \* Service.state
          handle,       \* Service.commands is not nil
          initialized,  \* Commands.initialized
          rpc, row,     \* where the Run goroutine is, and at which command of the step
          read,         \* connect's info and sim while they are read
          shown,        \* Service.info and Service.sim
          announced,    \* the SIM card in each app:started event
          cancelled,    \* the contexts of the goroutines are canceled
          job,          \* the message the worker is sending
          result        \* what SendSMS returned, until the worker has recorded it

lifeVars == <<state, handle, initialized, rpc, row, read, shown, announced>>
sendVars == <<job, result>>
vars == <<commandVars, lifeVars, cancelled, sendVars>>

-----------------------------------------------------------------------------
(* The commands of each step, and what is read from an answer. *)

InitRows == <<"AT", "E0", "+CMEE", "+CMGF", "+CNMI", "+CPIN">>
InfoFields == <<"+GMI", "+GMM", "+GSN">>
SimFields == <<"+CNUM", "+CCID", "+COPS", "+CSQ", "+CREG">>
ModemNames == {"AT", "E0", "+CMEE", "+CMGF", "+CNMI", "+CPIN", "+GMI", "+GMM",
               "+GSN", "+CNUM", "+CCID", "+COPS", "+CSQ", "+CREG"}

\* The two goroutines use only the commands above.
ASSUME ModemAssumption ==
  /\ Actors = {Run, Worker} /\ Run # Worker
  /\ ModemNames \subseteq Names /\ "" \notin Names

Identity == {"+GMI", "+GMM", "+GSN"}
SimCard == {"+CNUM", "+CCID", "+COPS", "+CSQ", "+CREG"}
Fields == Identity \cup SimCard
Blank == "blank"
NoFields == [f \in Fields |-> Blank]

Answered(out) == out.kind \in {"ok", "bad", "head"}

\* The text of an answer's first line, by the command it answers.
FirstLine(out) ==
  IF out.kind = "head" THEN "head"
  ELSE IF out.kind = "bad" \/ out.of.name \in {"", "AT", "E0", "+CMEE", "+CMGF", "+CNMI"}
       THEN Blank ELSE out.of.name

FieldOf_Bug(f, out) == IF Answered(out) THEN FirstLine(out) ELSE Blank
\* The identity is the first line as it comes; a SIM field is cut from the
\* first line that carries the prefix of its own command.
FieldOf(f, out) ==
  CASE ~Answered(out) -> Blank
    [] Answered(out) /\ f \in Identity -> FirstLine(out)
    [] OTHER -> IF out.kind # "bad" /\ out.of.name = f THEN f ELSE Blank

-----------------------------------------------------------------------------
(* The Run goroutine: connect. *)

Step(from, to) == rpc = from /\ rpc' = to /\ row' = 1

Connect ==
  /\ Step("start", "open")
  /\ state' = "connecting"
  /\ UNCHANGED <<commandVars, handle, initialized, read, shown, announced, cancelled, sendVars>>

OpenPort ==
  /\ Step("open", "init")
  /\ handle' = TRUE
  /\ UNCHANGED <<commandVars, state, initialized, read, shown, announced, cancelled, sendVars>>

OpenFails ==
  /\ Step("open", "end")
  /\ state' = "error"
  /\ UNCHANGED <<commandVars, handle, initialized, read, shown, announced, cancelled, sendVars>>

\* The context is looked at before each row; InitTimeout may end it as well.
InitRow ==
  /\ rpc = "init" /\ row <= Len(InitRows) /\ ~cancelled
  /\ Exec(Run, Plain(InitRows[row]))
  /\ UNCHANGED <<lifeVars, cancelled, sendVars>>

InitExpires ==
  /\ rpc = "init" /\ row <= Len(InitRows) /\ call[Run] = Idle
  /\ Step("init", "failed")
  /\ UNCHANGED <<commandVars, state, handle, initialized, read, shown, announced, cancelled, sendVars>>

\* Only the last row looks at the lines: another status than READY fails.
RowPasses(out) == Answered(out) /\ ~(row = Len(InitRows) /\ out.kind = "bad")

InitAnswered ==
  /\ rpc = "init"
  /\ Return(Run)
  /\ IF RowPasses(call[Run].out) THEN row' = row + 1 /\ rpc' = rpc
                                 ELSE Step("init", "failed")
  /\ UNCHANGED <<state, handle, initialized, read, shown, announced, cancelled, sendVars>>

InitDone ==
  /\ rpc = "init" /\ row > Len(InitRows) /\ Free
  /\ Step("init", "info")
  /\ initialized' = TRUE
  /\ UNCHANGED <<commandVars, state, handle, read, shown, announced, cancelled, sendVars>>

\* GetModemInfo gives up at the first field that fails, GetSimInfo leaves the
\* field blank and goes on.
FieldsOf(phase) == IF phase = "info" THEN InfoFields ELSE SimFields
GivesUp_Bug(phase) == TRUE
GivesUp(phase) == phase = "info"
After(phase) == IF phase = "info" THEN "sim" ELSE "publish"
Reading == rpc \in {"info", "sim"}
Target_Bug(fields) == fields[1]
Target(fields) == fields[row]

Query ==
  /\ Reading /\ row <= Len(FieldsOf(rpc)) /\ ~cancelled
  /\ Exec(Run, Plain(FieldsOf(rpc)[row]))
  /\ UNCHANGED <<lifeVars, cancelled, sendVars>>

QueryAnswered ==
  /\ Reading
  /\ Return(Run)
  /\ LET f == Target(FieldsOf(rpc))
         out == call[Run].out
     IN /\ read' = [read EXCEPT ![f] = FieldOf(f, out)]
        /\ IF GivesUp(rpc) /\ ~Answered(out) THEN Step(rpc, After(rpc))
                                              ELSE row' = row + 1 /\ rpc' = rpc
  /\ UNCHANGED <<state, handle, initialized, shown, announced, cancelled, sendVars>>

QueriesEnd ==
  /\ Reading /\ call[Run] = Idle
  /\ row > Len(FieldsOf(rpc)) \/ cancelled
  /\ Step(rpc, After(rpc))
  /\ UNCHANGED <<commandVars, state, handle, initialized, read, shown, announced, cancelled, sendVars>>

\* info and sim are replaced under one lock, and before the state is Ready.
Publish ==
  /\ Step("publish", "ready")
  /\ shown' = read
  /\ read' = NoFields
  /\ UNCHANGED <<commandVars, state, handle, initialized, announced, cancelled, sendVars>>

BecomeReady ==
  /\ Step("ready", "emit")
  /\ state' = "ready"
  /\ UNCHANGED <<commandVars, handle, initialized, read, shown, announced, cancelled, sendVars>>

EmitAppStarted ==
  /\ Step("emit", "loop")
  /\ announced' = IF announced = <<>> THEN <<[f \in SimCard |-> shown[f]]>> ELSE announced
  /\ UNCHANGED <<commandVars, state, handle, initialized, read, shown, cancelled, sendVars>>

-----------------------------------------------------------------------------
(* The Run goroutine: the loop and the end. *)

SignalQuery ==
  /\ rpc = "loop" /\ handle /\ ~cancelled
  /\ Exec(Run, Plain("+CSQ"))
  /\ UNCHANGED <<lifeVars, cancelled, sendVars>>

\* A reading that failed leaves the last one in place.
SignalUpdate ==
  /\ rpc = "loop"
  /\ Return(Run)
  /\ LET new == FieldOf("+CSQ", call[Run].out)
     IN shown' = IF new = Blank \/ ~handle THEN shown ELSE [shown EXCEPT !["+CSQ"] = new]
  /\ UNCHANGED <<state, handle, initialized, rpc, row, read, announced, cancelled, sendVars>>

LoopEnds_Bug == cancelled
LoopEnds == cancelled \/ closed

LeaveLoop ==
  /\ Step("loop", "stop") /\ call[Run] = Idle /\ LoopEnds
  /\ UNCHANGED <<commandVars, state, handle, initialized, read, shown, announced, cancelled, sendVars>>

\* A failed init disconnects too, and then says Error.
Left == FALSE

Disconnect ==
  /\ \/ Step("stop", "end")
     \/ Step("failed", "error")
  /\ handle' = Left
  /\ state' = "disconnected"
  /\ closed' = TRUE
  /\ wire' = <<>>
  /\ UNCHANGED <<call, pendingDrain, taken, trouble, slipped,
                 initialized, read, shown, announced, cancelled, sendVars>>

InitFails ==
  /\ Step("error", "end")
  /\ state' = "error"
  /\ UNCHANGED <<commandVars, handle, initialized, read, shown, announced, cancelled, sendVars>>

-----------------------------------------------------------------------------
(* The messages worker: Service.SendSMS and Commands.SendSMS. *)

NoJob == [at |-> "none", msg |-> 0, parts |-> 0, report |-> FALSE, refs |-> <<>>]
NoResult == [parts |-> 0, refs |-> <<>>, err |-> "sending"]

\* The references of the accepted parts go with the error, except that the
\* only part of a message has none to show.
PartialRefs_Bug(refs, total) == <<>>
PartialRefs(refs, total) == IF total = 1 THEN <<>> ELSE refs

\* err: "none", "early" (no handle, or not initialized), "invalid" (the text
\* makes no part, or too many), "part" (a part failed, or the stop came first).
Finish(j, refs, err) ==
  /\ result' = [parts |-> j.parts, refs |-> refs, err |-> err]
  /\ job' = [NoJob EXCEPT !.msg = j.msg]

Send ==
  LET j == [NoJob EXCEPT !.at = "gate", !.msg = job.msg + 1]
  IN /\ job.at = "none" /\ result = NoResult
     /\ job.msg < Sends /\ ~cancelled
     /\ IF handle THEN job' = j /\ UNCHANGED result ELSE Finish(j, <<>>, "early")
     /\ UNCHANGED <<commandVars, lifeVars, cancelled>>

\* The worker writes the outcome down (module Outbox) before the next message.
Record ==
  /\ result # NoResult
  /\ result' = NoResult
  /\ Forget
  /\ UNCHANGED <<job, lifeVars, cancelled>>

\* The gate reads initialized under the mutex of the commands; all parts are
\* encoded before the first goes out.
MaySend == initialized
Encodes(n) == n \in 1..MaxParts

Gate(n, report) ==
  /\ job.at = "gate" /\ Free
  /\ ~cancelled /\ MaySend /\ Encodes(n)
  /\ job' = [job EXCEPT !.at = "parts", !.parts = n, !.report = report]
  /\ UNCHANGED <<commandVars, lifeVars, cancelled, result>>

GateRefuses(n) ==
  /\ job.at = "gate" /\ Free
  /\ \/ cancelled /\ Finish(job, <<>>, "part")
     \/ ~cancelled /\ ~MaySend /\ Finish(job, <<>>, "early")
     \/ ~cancelled /\ MaySend /\ ~Encodes(n) /\ Finish(job, <<>>, "invalid")
  /\ UNCHANGED <<commandVars, lifeVars, cancelled>>

\* The status report is requested on the last part only.
WantsReport(i, n, report) == report /\ i = n

SendPart ==
  LET i == Len(job.refs) + 1
  IN /\ job.at = "parts" /\ ~cancelled
     /\ Exec(Worker, Part(job.msg, i, WantsReport(i, job.parts, job.report)))
     /\ UNCHANGED <<lifeVars, cancelled, sendVars>>

\* A reference is read from a +CMGS line, wherever that line comes from.
HasRef(out) == out.kind \in {"ok", "head"} /\ out.of.part > 0

PartFails_Bug(j) == UNCHANGED sendVars
PartFails(j) == Finish(j, PartialRefs(j.refs, j.parts), "part")

PartAnswered ==
  /\ job.at = "parts"
  /\ Return(Worker)
  /\ LET out == call[Worker].out
         refs == Append(job.refs, [msg |-> out.of.msg, part |-> out.of.part])
     IN CASE ~HasRef(out) -> PartFails(job)
          [] HasRef(out) /\ Len(refs) < job.parts -> job' = [job EXCEPT !.refs = refs] /\ UNCHANGED result
          [] OTHER -> Finish(job, refs, "none")
  /\ UNCHANGED <<lifeVars, cancelled>>

SendStops ==
  /\ job.at = "parts" /\ call[Worker] = Idle /\ cancelled
  /\ PartFails(job)
  /\ UNCHANGED <<commandVars, lifeVars, cancelled>>

-----------------------------------------------------------------------------
Init ==
  /\ CommandsInit
  /\ state = "disconnected" /\ handle = FALSE /\ initialized = FALSE
  /\ rpc = "start" /\ row = 1
  /\ read = NoFields /\ shown = NoFields
  /\ announced = <<>>
  /\ cancelled = FALSE
  /\ job = NoJob
  /\ result = NoResult

Opens == Connect \/ OpenPort \/ OpenFails
Asks == InitRow \/ InitDone \/ Query
Announces == Publish \/ BecomeReady \/ EmitAppStarted
Stops == Disconnect \/ InitFails
RunGoesOn == Opens \/ InitExpires \/ InitAnswered \/ QueryAnswered \/ QueriesEnd
               \/ Announces \/ SignalUpdate \/ Stops
Gates == \E n \in 0..MaxParts + 1 :
           GateRefuses(n) \/ \E report \in BOOLEAN : Gate(n, report)
Sending == Gates \/ SendPart \/ PartAnswered \/ SendStops \/ Record

\* OnStop ends the contexts of both goroutines.
Cancel ==
  /\ ~cancelled
  /\ cancelled' = TRUE
  /\ UNCHANGED <<commandVars, lifeVars, sendVars>>

ModemAnswers == Answers /\ UNCHANGED <<lifeVars, cancelled, sendVars>>
PortLost == rpc \notin {"start", "open"} /\ Unplug /\ UNCHANGED <<lifeVars, cancelled, sendVars>>

Next ==
  \/ RunGoesOn \/ Asks \/ SignalQuery \/ LeaveLoop
  \/ Send \/ Sending
  \/ Cancel \/ ModemAnswers \/ PortLost

Spec == Init /\ [][Next]_vars

\* The port delivers or the command's timer fires, and the Run goroutine goes
\* on.  A waiter of the mutex is handed it in the end (sync.Mutex), and the
\* select of the loop does not prefer the tick for ever.
Fairness ==
  /\ WF_vars(ModemAnswers \/ RunGoesOn)
  /\ SF_vars(Asks)
  /\ SF_vars(LeaveLoop)
  /\ SF_vars(Sending)
FairSpec == Spec /\ Fairness

-----------------------------------------------------------------------------
(* Properties. *)

States == {"disconnected", "connecting", "ready", "error"}

ModemType ==
  /\ CommandsType
  /\ state \in States /\ handle \in BOOLEAN /\ initialized \in BOOLEAN
  /\ rpc \in {"start", "open", "init", "info", "sim", "publish", "ready", "emit",
              "loop", "stop", "failed", "error", "end"}
  /\ row \in 1..Len(InitRows) + 1
  /\ DOMAIN read = Fields /\ DOMAIN shown = Fields
  /\ cancelled \in BOOLEAN
  /\ job.at \in {"none", "gate", "parts"} /\ job.msg \in 0..Sends

\* A SIM field is blank or what the SIM answered for that very field, however
\* late the answers come (sms.go:256-366: each cut is by its own prefix).
SimFieldsAreTheirOwn == \A f \in SimCard : shown[f] \in {Blank, f}

\* The identity, read from a bare first line, takes another command's answer
\* only after a drain was ended by a late one, and otherwise at worst the head
\* of a notification (sms.go:239-253).
IdentityNeedsSlip == slipped \/ \A f \in Identity : shown[f] \in {Blank, f, "head"}

\* What the device shows of itself is what was asked for, field by field,
\* although the worker asks other things in between (sms.go:239-366).
ShownIsItsOwn == SimFieldsAreTheirOwn /\ IdentityNeedsSlip

\* A caller of SendSMS knows what went out: the references are those of the
\* first parts in order, the modem took at most one part more, none at all
\* when the call failed before the first part, and all when there is no error
\* (sms.go:517-569, 624-630).
SendsAreAccountedFor ==
  ~slipped /\ result.err # "sending" =>
    LET known == {[msg |-> job.msg, part |-> i] : i \in 1..Len(result.refs)}
        out == {[msg |-> c.msg, part |-> c.part] : c \in taken}
    IN /\ \A i \in 1..Len(result.refs) : result.refs[i] = [msg |-> job.msg, part |-> i]
       /\ known \subseteq out
       /\ Cardinality(out) <= Len(result.refs) + (IF result.err = "part" THEN 1 ELSE 0)
       /\ result.err = "none" => Len(result.refs) = result.parts

\* The network is asked for at most one report per message, and for the last
\* part, whose reference is the one the caller matches (sms.go:549-551).
OneReportPerMessage ==
  \A c, d \in taken : c.report => d.part <= c.part

\* The probe of health.go:27-47 tells the truth: a ready modem has a handle
\* that was initialized, and a failed or disconnected one has no handle.
StateTellsHandle ==
  /\ state = "ready" => handle /\ initialized
  /\ state \in {"disconnected", "error"} => ~handle

\* The SIM card in the app:started event is the one just read: each field that
\* is blank costs an answer of its own, late, lost or wrong, and one that fails
\* does not take the rest of the card with it; unless the port was lost, a stop
\* came, or a drain was ended by a late answer, which shifts all answers after
\* it (sms.go:178-194, service.go:444-484).
BlankHasCause ==
  announced # <<>> /\ ~slipped /\ ~closed /\ ~cancelled =>
    Cardinality({f \in SimCard : announced[1][f] # f}) <= trouble

\* Whatever happens to the port, each SendSMS returns (sms.go:517-569).
SendsReturn == job.at # "none" ~> job.at = "none"

\* A lost port or a stop ends the service, and it does not stay Ready
\* (service.go:354-377).
EndIsNoticed == closed \/ cancelled ~> rpc = "end" /\ ~handle
=============================================================================
