------------------------------ MODULE MCLJFold ------------------------------
(* Values and programs for LJFold under TLC: integers of 4 bits. *)
EXTENDS LJFold
MCKonst == {-8, -1, 0, 1, 2, 3, 5}
MCInputs == {-8, -3, 0, 6} \X {-7, -1, 2, 7}
MCFirst == (Arith \cup Checked \cup {"BNOT", "ABC"}) 
MCSecond == Arith \cup Checked \cup Guards \cup {"BNOT"}
=============================================================================
