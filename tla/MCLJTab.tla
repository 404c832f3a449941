------------------------------ MODULE MCLJTab ------------------------------
(***************************************************************************)
(* Instances of LJTab for TLC: which programs, how many keys and hashes.   *)
(***************************************************************************)
EXTENDS LJTab, TLC

CONSTANTS s1, s2, s3
Program == [keys |-> {}, reuse |-> FALSE, items |-> 0, repeated |-> FALSE]
\* strings and integers that collide, the array grows and shrinks
Mixed == [Program EXCEPT !.keys = {s1, s2, 1, 2, 3}, !.items = 2]
\* integers only: every border of a list, every size of an array
List == [Program EXCEPT !.keys = {1, 2, 3, 4, 5}, !.items = 3]
\* strings only: every chain
Chains == [Program EXCEPT !.keys = {s1, s2, s3, 1}, !.items = 3]
\* two strings whose addresses others may take
Taken == [Program EXCEPT !.keys = {s1, s2, 1}, !.items = 2, !.reuse = TRUE]
\* three
Reused == [Chains EXCEPT !.reuse = TRUE, !.keys = {s1, s2, s3}, !.items = 0]
Twice == [Program EXCEPT !.keys = {s1, s2}, !.items = 2, !.repeated = TRUE]

TabPrograms == {Mixed, List, Chains, Taken}
RechainPrograms == {Reused}
DuplicatePrograms == {Twice}

MCHashes == 0 .. 3
MCIntHash == <<2, 1, 2, 0, 3>>
Symmetry == Permutations({s1, s2, s3})
=============================================================================
