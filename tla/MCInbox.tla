------------------------------ MODULE MCInbox ------------------------------
(* An instance of Inbox whose parts are read from the modem's answers.  a  *)
(* and d use one reference with different sizes: d announces no parts at   *)
(* all, and numbers one of its two 1 and the other 2.  w uses the          *)
(* reference of a in the other width; v is another sender's; c is a data   *)
(* message without concatenation, its stamp is of no live network, and it  *)
(* names its port in both elements.  A behaviour is of one lot of parts.   *)
EXTENDS Inbox, InboundPart
LOCAL INSTANCE SequencesExt
CONSTANTS h1

MCParts == {<<"a", 1>>, <<"a", 2>>, <<"d", 1>>, <<"d", 2>>, <<"w", 1>>, <<"v", 2>>, <<"c", 1>>}

Header(m, seq) ==
  CASE m = "a" -> [i \in {0} |-> <<1, 2, seq>>]
    [] m = "d" -> [i \in {0} |-> <<1, 0, seq>>]
    [] m = "w" -> [i \in {8} |-> <<0, 1, 2, seq>>]
    [] m = "v" -> [i \in {0} |-> <<1, 2, seq>>]
    [] m = "c" -> [i \in {4, 5} |-> IF i = 4 THEN <<9, 9>> ELSE <<0, 7, 1, 8>>]

TPDU(p) ==
  [type |-> "SMS-DELIVER", UD |-> p, UDH |-> Header(p[1], p[2]),
   OA   |-> IF p[1] = "v" THEN 2 ELSE 1,
   SCTS |-> [year   |-> IF p[1] = "c" THEN 1999 ELSE 2024,
             local  |-> IF p[1] = "a" THEN 3 ELSE 2, offset |-> 2]]

Hex(tp) == [look |-> "hex", pdu |-> tp]
Words == [look |-> "words"]

CMGR == [prefix |-> "+CMGR:", fields |-> <<Words, Words, Words>>]
Body(tp) == [prefix |-> "", fields |-> <<Hex(tp)>>]
Inline(tp) == [prefix |-> "+CMGR:", fields |-> <<Words, Words, Words, Hex(tp)>>]
Leak == [prefix |-> "+CREG:", fields |-> <<Words>>]

Answer(p) == <<CMGR, Body(TPDU(p))>>

\* The answers the modem may give for an entry: the PDU in a line of its own or
\* inline, and a leaked head anywhere.
Answers(p) ==
  LET clean == {Answer(p), <<Inline(TPDU(p))>>} IN
    clean \cup UNION {{InsertAt(r, i, Leak) : i \in 1..Len(r) + 1} : r \in clean}

Decoded(p) == CHOOSE part \in Read(Answer(p)) : TRUE

\* A leaked head changes no part, and neither a header without a PDU, a PDU
\* without a header nor another type of TPDU is taken for one.
ASSUME LeaksDoNotShow ==
  \A p \in MCParts :
    /\ \A r \in Answers(p) : Read(r) = {Decoded(p)}
    /\ Decoded(p).Concat.Sequence = (IF p[1] = "c" THEN 1 ELSE p[2])
    /\ Read(<<CMGR>>) = {} /\ Read(<<CMGR, Leak>>) = {} /\ Read(<<Body(TPDU(p))>>) = {}
    /\ Read(<<CMGR, Body([TPDU(p) EXCEPT !.type = "SMS-SUBMIT"])>>) = {}

MCSender == [a |-> 1, d |-> 1, w |-> 1, v |-> 2, c |-> 1]
MCWidth == [a |-> 8, d |-> 8, w |-> 16, v |-> 8, c |-> 0]
MCRef == [a |-> 1, d |-> 1, w |-> 1, v |-> 1, c |-> 0]
MCSegments == [a |-> 2, d |-> 0, w |-> 2, v |-> 2, c |-> 0]
MCStamp == [a |-> 1, d |-> 0, w |-> 0, v |-> 0, c |-> NoTime]
MCPort == [a |-> NoPort, d |-> NoPort, w |-> NoPort, v |-> NoPort, c |-> 7]
MCText == [p \in MCParts |-> p]

\* These tables are what the answers decode to.
ASSUME TablesAreDecoded ==
  \A p \in MCParts :
    LET part == Decoded(p) m == p[1] IN
      /\ part.Sender = MCSender[m]
      /\ part.Concat.RefWidth = MCWidth[m] /\ part.Concat.Ref = MCRef[m]
      /\ part.Concat.Segments = MCSegments[m]
      /\ (IF part.TimestampValid THEN part.ReceivedAt ELSE NoTime) = MCStamp[m]
      /\ (IF part.Ported THEN part.Port ELSE NoPort) = MCPort[m]
      /\ part.Content = MCText[p]

Lots == {MCParts \ {<<"d", 1>>, <<"d", 2>>}, MCParts \ {<<"c", 1>>, <<"w", 1>>}}

\* The identities of the messages that can be completed.
MCIds == {IdOf(<<<<"a", 1>>, <<"a", 2>>>>), IdOf(<<<<"d", 1>>>>), IdOf(<<<<"c", 1>>>>)}

VARIABLE lot  \* the parts the modem hands off in this behaviour

InPlay ==
  {hand.body[i] : i \in DOMAIN hand.body}
    \cup UNION {{groups[k].parts[i] : i \in DOMAIN groups[k].parts} : k \in DOMAIN groups}

MCInit == Init /\ lot \in Lots

MCSpec ==
  /\ MCInit
  /\ [][Next /\ UNCHANGED lot /\ InPlay' \subseteq lot]_<<vars, lot>>
  /\ Fairness
=============================================================================
