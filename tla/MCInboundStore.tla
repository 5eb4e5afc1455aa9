--------------------------- MODULE MCInboundStore ---------------------------
(* Instances of InboundStore for TLC.                                      *)
EXTENDS InboundStore, TLC

\* Handlers are interchangeable.
Symmetry == Permutations(Handlers)
=============================================================================
