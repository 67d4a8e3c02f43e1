--------------------------- MODULE MCMatchingEngine ---------------------------
(* Small instances of MatchingEngine for TLC.                              *)
EXTENDS MatchingEngine, TLC
\* No step reads the event of an earlier one.
ButEvent == <<heap, stp, pc, taker, cursor>>
CallerSymmetry == Permutations(OrderId) \cup Permutations(Participant)
=============================================================================
