------------------------------- MODULE MCLJGC -------------------------------
(* Instances of LJGC for TLC.  A run explores the behaviours of one program  *)
(* at a time: prog is chosen at the start from the programs of the run.      *)
EXTENDS LJGCInv, TLC

CONSTANTS t1, t2, f1, f2, u1, u2, co, d1, d2, s1

VARIABLE prog
mcvars == <<vars, prog>>

MCInit == Init /\ prog \in Programs
MCNext ==
  \/ Mutator(prog) /\ UNCHANGED prog
  \/ finalizer_error /\ UNCHANGED prog
  \/ Collector /\ UNCHANGED prog
MCSpec == MCInit /\ [][MCNext]_mcvars
MCFairSpec == MCSpec /\ Fairness

-----------------------------------------------------------------------------
(* Programs, as changes to one that does nothing *)

Idle == [objs |-> {}, data |-> {}, keys |-> {Prim}, tabs |-> {Glob}, metas |-> {},
         fields |-> {}, setuv |-> {}, ops |-> {}]

\* two tables, values in registers of machine code, full collections
Tables == [Idle EXCEPT !.objs = {t1, t2}, !.data = {t1, t2}, !.tabs = {Glob, t1},
                       !.ops = {"fullgc", "trace", "rawseti"}]
\* two closures that share, inherit, join and close upvalues
Closures == [Idle EXCEPT !.objs = {f1, f2, u1, u2}, !.data = {f1, f2}, !.ops = {"chunk", "join"}]
\* debug.setupvalue on the only closure that knows the upvalue
SetUpvalue == [Idle EXCEPT !.objs = {f1, u1, d1}, !.data = {f1, d1}, !.ops = {"chunk"},
                           !.setuv = {f1}]
\* debug.setupvalue on closures that share an upvalue
SharedUpvalue == [Idle EXCEPT !.objs = {f1, f2, u1}, !.data = {f1, f2}, !.ops = {"chunk"},
                              !.setuv = {f1, f2}]
\* a coroutine with a captured local, full collections
Coroutines == [Idle EXCEPT !.objs = {f1, u1, co}, !.data = {co}, !.ops = {"thread", "fullgc"}]
\* a userdata, its metatable and environment, full collections
Userdata == [Idle EXCEPT !.objs = {t1, d1}, !.data = {t1, d1}, !.keys = {}, !.tabs = {},
                         !.metas = {t1}, !.fields = {{}, {"gc"}},
                         !.ops = {"setmt", "setfenv", "fullgc", "basemt"}]
\* a weak table and a userdata in it
Weak == [Idle EXCEPT !.objs = {t1, d1}, !.data = {t1, d1}, !.tabs = {t1}, !.metas = {t1},
                     !.fields = {{"k", "v"}}, !.ops = {"setmt", "basemt"}]
\* a table that may become weak and a string in it, as key or as value
Strings == [Idle EXCEPT !.objs = {t1, s1}, !.data = {t1, s1}, !.keys = {t1, s1}, !.tabs = {t1},
                        !.metas = {t1}, !.fields = {{}, {"k"}, {"v"}}, !.ops = {"setmt", "basemt"}]
\* finalizers and full collections; a trace and full collections
Finalizers == [Idle EXCEPT !.objs = {t1, d1}, !.data = {d1}, !.keys = {}, !.tabs = {},
                           !.metas = {t1}, !.fields = {{}, {"gc"}},
                           !.ops = {"setmt", "fullgc", "basemt"}]
Trace == [Idle EXCEPT !.objs = {t1}, !.data = {t1}, !.ops = {"trace", "fullgc"}]

ReachPrograms == {Tables, Closures, SetUpvalue, Coroutines}
FinalizePrograms == {Userdata, Weak, Strings}
SharedPrograms == {SharedUpvalue}
LivePrograms == {Finalizers, Trace}

-----------------------------------------------------------------------------
\* the registry, the globals and the main thread are the oldest objects;
\* userdata have a list of their own that is swept last
AgeRank == [o \in Obj |-> CASE o = Reg -> 1 [] o = Glob -> 2 [] o = Main -> 3
                            [] o \in Udata -> 4 [] OTHER -> 0]
Sym == Permutations(Tab \ {Reg, Glob}) \cup Permutations(Func) \cup Permutations(Uv)
         \cup Permutations(Udata)
=============================================================================
