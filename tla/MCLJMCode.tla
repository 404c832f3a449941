----------------------------- MODULE MCLJMCode -----------------------------
(* Areas and traces of LJMCode for TLC. *)
EXTENDS LJMCode, TLC
CONSTANTS a1, a2, a3, t1, t2
Sym == Permutations(Area) \cup Permutations(Trace)
=============================================================================
