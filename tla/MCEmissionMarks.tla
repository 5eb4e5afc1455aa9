-------------------------- MODULE MCEmissionMarks ---------------------------
(* The marks by themselves.  Two webhooks, so that some may take a message  *)
(* others refuse, and one's mark may revive an entry of the other's; fewer  *)
(* marks than messages, but more than one, so that the first in order need  *)
(* not be the one with the oldest stamp.                                    *)
EXTENDS EmissionMarks, TLC

MarksSymmetry == Permutations(Ids) \cup Permutations(Webhooks)
=============================================================================
