--------------------------- MODULE MCInboundPath ----------------------------
(* The two parts of one SMS on the whole way.                              *)
EXTENDS InboundPath

MCParts == {<<"a", 1>>, <<"a", 2>>}
MCPart == [m \in Decodable |-> <<"a", m>>]

MCSender == [a |-> 1]
MCWidth == [a |-> 8]
MCRef == [a |-> 1]
MCSegments == [a |-> 2]
MCStamp == [a |-> 0]
MCPort == [a |-> NoPort]
MCText == [p \in MCParts |-> p]

\* The identity of the message.
MCIds == {[stamp |-> 0, sender |-> 1, port |-> NoPort,
           text |-> <<<<"a", 1>>, <<"a", 2>>>>, concat |-> <<8, 1>>]}
=============================================================================
