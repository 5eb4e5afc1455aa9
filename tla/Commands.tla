------------------------------ MODULE Commands ------------------------------
(***************************************************************************)
(* The AT command layer (internal/modem/sms.go): callers that share one    *)
(* modem handle, the mutex that admits one of them at a time, and the lazy *)
(* drain barrier that keeps a late answer from the command after it.       *)
(*                                                                         *)
(* The AT library and the modem are external.  The modem answers in the    *)
(* order it was asked, the library gives the next answer to whichever      *)
(* command waits, and throws away an answer nobody waits for.              *)
(***************************************************************************)
EXTENDS Integers, Sequences

CONSTANTS Actors,    \* the goroutines that call the layer
          Names,     \* the names of the plain commands
          Wrong,     \* bound: the commands that may fail, and with which answers
          MaxParts,  \* smsMaxParts
          Sends,     \* bound: how many messages are sent
          Trouble    \* bound: how many answers are late, lost, malformed or errors

ASSUME CommandsAssumption ==
  MaxParts \in Nat \ {0} /\ Sends \in Nat /\ Trouble \in Nat

VARIABLES wire,          \* the commands written and not yet answered, oldest first
          call,          \* the command each actor has in hand, and what came of it
          pendingDrain,  \* Commands.pendingDrain
          closed,        \* the port is gone
          taken,         \* the parts of the message now sent that the modem has taken
          trouble,       \* how much of Trouble is spent
          slipped        \* a drain was once ended by a late answer

commandVars == <<wire, call, pendingDrain, closed, taken, trouble, slipped>>

-----------------------------------------------------------------------------
(* Commands and their answers. *)

Plain(name) == [name |-> name, msg |-> 0, part |-> 0, report |-> FALSE]
Drain == Plain("")
Part(m, i, report) == [name |-> "+CMGS", msg |-> m, part |-> i, report |-> report]

Command == {Plain(name) : name \in Names} \cup {Drain}
             \cup {Part(m, i, r) : m \in 1..Sends, i \in 1..MaxParts, r \in BOOLEAN}

\* "bad": OK without the line asked for, or with one that does not parse;
\* "head": the head of an unsolicited notification leads the answer's lines.
Answer == {"ok", "bad", "head", "error"}
Cost(answer) == IF answer = "ok" THEN 0 ELSE 1

Outcome == [kind : Answer \cup {"late", "closed"}, of : Command]

Idle == [phase |-> "idle", cmd |-> Drain, out |-> [kind |-> "ok", of |-> Drain]]
Running(phase, c) == [phase |-> phase, cmd |-> c, out |-> [kind |-> "ok", of |-> Drain]]
Done(c, kind, of) == [phase |-> "done", cmd |-> c, out |-> [kind |-> kind, of |-> of]]

Busy(a) == call[a].phase \in {"drain", "run"}
Free == \A a \in Actors : ~Busy(a)

-----------------------------------------------------------------------------
(* The wire. *)

Orphaned(w) == [i \in DOMAIN w |-> [w[i] EXCEPT !.live = FALSE]]

\* The modem's verdict on a command is fixed as it is written, and what it
\* takes it takes, whether or not its answer reaches the caller.
Write(w, c) ==
  \E answer \in Answer :
    /\ trouble + Cost(answer) <= Trouble
    /\ answer # "ok" => c.name \in DOMAIN Wrong /\ answer \in Wrong[c.name]
    /\ trouble' = trouble + Cost(answer)
    /\ wire' = Append(w, [cmd |-> c, live |-> TRUE, answer |-> answer])
    /\ taken' = IF c.part > 0 /\ answer # "error" THEN taken \cup {c} ELSE taken

\* An answer that arrives while no command waits is thrown away.
Discard ==
  /\ Free /\ wire # <<>>
  /\ wire' = Tail(wire)
  /\ UNCHANGED <<call, pendingDrain, closed, taken, trouble, slipped>>

Unplug ==
  /\ ~closed
  /\ closed' = TRUE
  /\ wire' = <<>>
  /\ UNCHANGED <<call, pendingDrain, taken, trouble, slipped>>

-----------------------------------------------------------------------------
(* execLocked and execSMS: a drain first if one is due, then the command. *)

ExecWrites(a, c) ==
  /\ Free /\ call[a].phase = "idle" /\ ~closed
  /\ Write(wire, IF pendingDrain THEN Drain ELSE c)
  /\ call' = [call EXCEPT ![a] = Running(IF pendingDrain THEN "drain" ELSE "run", c)]
  /\ UNCHANGED <<pendingDrain, closed, slipped>>

\* On a dead port the drain fails at once, which clears the barrier, and so
\* does the command.
ExecFails(a, c) ==
  /\ Free /\ call[a].phase = "idle" /\ closed
  /\ call' = [call EXCEPT ![a] = Done(c, "closed", c)]
  /\ pendingDrain' = FALSE
  /\ UNCHANGED <<wire, closed, taken, trouble, slipped>>

Exec(a, c) == ExecWrites(a, c) \/ ExecFails(a, c)

\* Any answer ends the drain, the late one of an earlier command as well.
DrainAnswered(a) ==
  /\ call[a].phase = "drain" /\ wire # <<>>
  /\ pendingDrain' = FALSE
  /\ slipped' = (slipped \/ ~Head(wire).live)
  /\ Write(Orphaned(Tail(wire)), call[a].cmd)
  /\ call' = [call EXCEPT ![a] = Running("run", call[a].cmd)]
  /\ UNCHANGED closed

CommandAnswered(a) ==
  /\ call[a].phase = "run" /\ wire # <<>>
  /\ call' = [call EXCEPT ![a] = Done(call[a].cmd, Head(wire).answer, Head(wire).cmd)]
  /\ wire' = Orphaned(Tail(wire))
  /\ UNCHANGED <<pendingDrain, closed, taken, trouble, slipped>>

\* mapCommandError and mapSMSError raise the barrier; a drain that runs into
\* its deadline keeps it and fails the whole call.
Barrier_Bug(phase) == phase = "drain"
Barrier(phase) == TRUE

\* The answer comes later, or never.
Deadline(a) ==
  /\ Busy(a) /\ wire # <<>>
  /\ trouble < Trouble /\ wire[Len(wire)].cmd.name \in DOMAIN Wrong
  /\ trouble' = trouble + 1
  /\ pendingDrain' = Barrier(call[a].phase)
  /\ call' = [call EXCEPT ![a] = Done(call[a].cmd, "late", call[a].cmd)]
  /\ \/ wire' = Orphaned(wire)
     \/ wire' = Orphaned(SubSeq(wire, 1, Len(wire) - 1))
  /\ UNCHANGED <<closed, taken, slipped>>

PortFails(a) ==
  /\ Busy(a) /\ closed
  /\ call' = [call EXCEPT ![a] = Done(call[a].cmd, "closed", call[a].cmd)]
  /\ pendingDrain' = (pendingDrain /\ call[a].phase # "drain")
  /\ UNCHANGED <<wire, closed, taken, trouble, slipped>>

CommandsInit ==
  /\ wire = <<>>
  /\ call = [a \in Actors |-> Idle]
  /\ pendingDrain = FALSE
  /\ closed = FALSE
  /\ taken = {}
  /\ trouble = 0
  /\ slipped = FALSE

Ends(a) == DrainAnswered(a) \/ CommandAnswered(a) \/ Deadline(a) \/ PortFails(a)
Answers == Discard \/ \E a \in Actors : Ends(a)

Return(a) ==
  /\ call[a].phase = "done"
  /\ call' = [call EXCEPT ![a] = Idle]
  /\ UNCHANGED <<wire, pendingDrain, closed, taken, trouble, slipped>>

\* The next message starts with nothing taken.
Forget ==
  /\ taken' = {}
  /\ UNCHANGED <<wire, call, pendingDrain, closed, trouble, slipped>>

\* The layer under callers that ask anything in any order.
Callers ==
  \/ \E a \in Actors : Return(a) \/ \E c \in Command \ {Drain} : Exec(a, c)
  \/ Forget

CommandsNext == Callers \/ Answers \/ Unplug
CommandsSpec == CommandsInit /\ [][CommandsNext]_commandVars

-----------------------------------------------------------------------------
CommandsType ==
  /\ wire \in Seq([cmd : Command, live : BOOLEAN, answer : Answer])
  /\ call \in [Actors -> [phase : {"idle", "drain", "run", "done"},
                          cmd : Command, out : Outcome]]
  /\ pendingDrain \in BOOLEAN /\ closed \in BOOLEAN /\ slipped \in BOOLEAN
  /\ taken \subseteq Command
  /\ trouble \in 0..Trouble

Asked(a) ==
  call[a].phase = "done" /\ call[a].out.kind \in Answer => call[a].out.of = call[a].cmd

\* A command is given the answer of another one only after a drain was ended
\* by a late answer: one drain is enough as long as it gets its own answer
\* (sms.go:404, drainLocked).
MisreadNeedsSlip == slipped \/ \A a \in Actors : Asked(a)
=============================================================================
