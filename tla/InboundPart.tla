---------------------------- MODULE InboundPart ----------------------------
(***************************************************************************)
(* From the answer to AT+CMGR to a decoded part (internal/modem/store.go   *)
(* and inbound.go).  A line of the answer is [prefix, fields]: the prefix  *)
(* is "" unless the line starts with '+'.  A field is [look, pdu], where   *)
(* look is "hex", "words" or "blank", and pdu is its TPDU when it is hex.  *)
(* A TPDU is [type, OA, SCTS, UDH, UD]; its type is "garbage" when the     *)
(* library decodes none, its SCTS is [year, local, offset] (the zero stamp *)
(* has year 1), and UDH maps the element identifiers to their octets.      *)
(***************************************************************************)
EXTENDS Integers, Sequences

\* dropURCHeads: unsolicited heads that leaked into the answer.
DropURCHeads(lines, want) == SelectSeq(lines, LAMBDA l : l.prefix \in {"", want})

NoPDU == [look |-> "blank"]

storePDUFieldIndex == 3

\* The body line, when there is one that is not blank; whatever it looks like.
BodyLine(kept) ==
  IF Len(kept) < 2 THEN NoPDU
  ELSE IF kept[2].prefix = "" THEN kept[2].fields[1]
  ELSE [look |-> "words"]

\* The PDU in the header line itself: it must look like one.
InlinePDU(fields) ==
  IF Len(fields) > storePDUFieldIndex /\ fields[storePDUFieldIndex + 1].look = "hex"
  THEN fields[storePDUFieldIndex + 1]
  ELSE NoPDU

\* storedPDU: the parse is positional, after the leaked heads are gone.
StoredPDU(lines, want) ==
  LET kept == DropURCHeads(lines, want) IN
    IF kept = <<>> \/ kept[1].prefix # want THEN NoPDU
    ELSE IF BodyLine(kept).look # "blank" THEN BodyLine(kept)
    ELSE InlinePDU(kept[1].fields)

minInboundSCTSYear == 2000

\* sctsUTC: no stamp is better than a wrong one.
SctsUTC(scts) ==
  IF scts.year < minInboundSCTSYear THEN [at |-> 0, valid |-> FALSE]
  ELSE [at |-> scts.local - scts.offset, valid |-> TRUE]

ieiPort8 == 4
ieiPort16 == 5

HasElement(udh, iei, length) == iei \in DOMAIN udh /\ Len(udh[iei]) = length

\* destinationPort: it comes first in either element, and 16 bits win.
DestinationPort(udh) ==
  IF HasElement(udh, ieiPort16, 4)
  THEN [port |-> 256 * udh[ieiPort16][1] + udh[ieiPort16][2], ported |-> TRUE]
  ELSE IF HasElement(udh, ieiPort8, 2) THEN [port |-> udh[ieiPort8][1], ported |-> TRUE]
  ELSE [port |-> 0, ported |-> FALSE]

\* The library's accessors, one for each width.
ConcatInfo8(ie) == [RefWidth |-> 8, Ref |-> ie[1], Segments |-> ie[2], Sequence |-> ie[3]]
ConcatInfo16(ie) ==
  [RefWidth |-> 16, Ref |-> 256 * ie[1] + ie[2], Segments |-> ie[3], Sequence |-> ie[4]]

\* No concatenation.
NoConcat == [RefWidth |-> 0, Ref |-> 0, Segments |-> 0, Sequence |-> 1]

\* concatRef: the element of 8 bits is asked for first.
ConcatRef(udh) ==
  IF HasElement(udh, 0, 3) THEN ConcatInfo8(udh[0])
  ELSE IF HasElement(udh, 8, 4) THEN ConcatInfo16(udh[8])
  ELSE NoConcat

Decodable(field) == field.look = "hex" /\ field.pdu.type = "SMS-DELIVER"

\* DecodeInboundSMS, of a decodable body.
DecodeInboundSMS(field) ==
  LET tp == field.pdu stamp == SctsUTC(tp.SCTS) port == DestinationPort(tp.UDH) IN
    [Sender |-> tp.OA, Content |-> tp.UD, Concat |-> ConcatRef(tp.UDH),
     ReceivedAt |-> stamp.at, TimestampValid |-> stamp.valid,
     Port |-> port.port, Ported |-> port.ported]

\* The part an answer carries: none, or exactly one.
Read(lines) ==
  LET field == StoredPDU(lines, "+CMGR:") IN
    IF Decodable(field) THEN {DecodeInboundSMS(field)} ELSE {}
=============================================================================
