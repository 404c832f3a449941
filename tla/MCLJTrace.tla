------------------------------ MODULE MCLJTrace ------------------------------
(* Programs of LJTrace for TLC. *)
EXTENDS LJTrace, TLC

CONSTANTS l1, l2, r1, o1, o2, o3

\* all code is in one function
OneProto == [pc \in Pc |-> CHOOSE p \in Proto : TRUE]

\* a loop, two trace numbers, flushes between the recordings
OneLoop == [pcs |-> {l1}, objs |-> {o1, o2}, maxtrace |-> 2, penalties |-> 1, ops |-> {"setmode"},
            flushin |-> {}, codein |-> {}]
\* ... or in a hook that has aborted recording
Hooks == [OneLoop EXCEPT !.ops = {"setmode", "hook"}]
\* two loops that call each other
Loops == [OneLoop EXCEPT !.pcs = {l1, l2}, !.penalties = 0, !.ops = {}]
\* three trace numbers: side traces of side traces
Sides == [OneLoop EXCEPT !.objs = {o1, o2, o3}, !.maxtrace = 3, !.ops = {}]
\* stitched calls, handlers that flush and run compiled code
Stitches == [OneLoop EXCEPT !.penalties = 0, !.ops = {"setmode", "stitch"},
                            !.flushin = {"stop", "abort"}, !.codein = {"stop", "abort"}]
\* a loop and a return
Returns == [OneLoop EXCEPT !.pcs = {l1, r1}, !.penalties = 0, !.ops = {}]
\* ... with one trace number, and flushes
Flushes == [Returns EXCEPT !.objs = {o1}, !.maxtrace = 1, !.ops = {"setmode"}]
AllPrograms == {Hooks, Loops, Sides, Stitches, Returns, Flushes}

\* the C function of a stitched call catches an error while its callee is recorded
Throws == {[OneLoop EXCEPT !.pcs = {l1, l2}, !.objs = {o1, o2, o3}, !.maxtrace = 3,
                           !.ops = {"setmode", "stitch", "throw"}]}

\* nothing is left to be compiled, the interpreter goes on
Interpreted == Interp /\ (\A pc \in Loop \cap prog.pcs : op[pc] = "ILOOP") /\ UNCHANGED vars
MCSpec == Init /\ [][Next \/ Interpreted]_vars
Sym == Permutations(Obj) \cup Permutations(Loop)
=============================================================================
