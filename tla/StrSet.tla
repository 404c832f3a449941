-------------------------------- MODULE StrSet --------------------------------
(* What interning promises to the program: equal strings are the same object    *)
(* for as long as one of them is held.                                          *)
CONSTANTS Data, Str, None
VARIABLES has     \* the object that the program holds for each value

Init == has = [d \in Data |-> None]

\* a string with value d is made, or got from somewhere
Intern(d) ==
  /\ has[d] = None
  /\ \E s \in Str : (\A e \in Data : has[e] # s) /\ has' = [has EXCEPT ![d] = s]

\* the last reference to it is gone
Drop(d) == has[d] # None /\ has' = [has EXCEPT ![d] = None]

Next == \E d \in Data : Intern(d) \/ Drop(d)
Spec == Init /\ [][Next]_has
=============================================================================
