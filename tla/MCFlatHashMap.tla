----------------------------- MODULE MCFlatHashMap -----------------------------
(* A small instance of FlatHashMap for TLC.                                *)
EXTENDS FlatHashMap, TLC
KeySymmetry == Permutations(Key) \cup Permutations(Value)
=============================================================================
