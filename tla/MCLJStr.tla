------------------------------ MODULE MCLJStr ------------------------------
(* Five strings, one of them a reserved word, in chains that collide, for TLC. *)
EXTENDS LJStr, Sequences, TLC
MCData == 1 .. 5
MCHash == [d \in MCData |-> <<0, 2, 4, 1, 3>>[d]]
Sym == Permutations(Str)
=============================================================================
