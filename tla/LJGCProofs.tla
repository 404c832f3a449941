----------------------------- MODULE LJGCProofs -----------------------------
(* Types, and what LJGC guarantees for every heap and every program,          *)
(* debug.setupvalue and full collections at any time included.                *)
EXTENDS LJGCInv, TLAPS

(***************************************************************************)
(* Types                                                                   *)
(***************************************************************************)

Colours == {"free", "w0", "w1", "gray", "black"}

LEMMA UvvalType ==
  ASSUME TypeOK, NEW u \in Uv
  PROVE  uvval(u) \in Val
BY DEF TypeOK, uvval

LEMMA ShadedType ==
  ASSUME TypeOK, NEW S
  PROVE  /\ Marked(S) \subseteq S \cup Obj
         /\ Shaded(S) \in [Obj -> Colours]
         /\ Queued(S) \subseteq Obj
BY DEF TypeOK, Marked, Shaded, Queued, Objs, MarkColour, Obj, Colours

LEMMA AvailType ==
  ASSUME TypeOK
  PROVE  /\ Held \subseteq Obj \ Uv
         /\ Avail \subseteq Obj \ Uv
<1>1. Held \subseteq Obj \ Uv
  BY Kinds, Permanent DEF Held, Objs, LiveSlots, TypeOK, Val
<1>2. ASSUME NEW o \in Held PROVE Loads(o) \subseteq Obj \ Uv
  <2>1. CASE o \in Tab
    BY <2>1, Kinds DEF Loads, Objs, Keys, Vals, TypeOK, Entry, Val
  <2>2. CASE o \in Func
    <3>1. Loads(o) = Objs({env[o]} \cup (IF fuv[o] = Nil THEN {} ELSE {uvval(fuv[o])}))
      BY <2>2, Kinds DEF Loads
    <3>2. fuv[o] # Nil => uvval(fuv[o]) \in Val
      BY <2>2, UvvalType DEF TypeOK
    <3>3. env[o] \in Tab \cup {Nil}
      BY <2>2 DEF TypeOK
    <3>. QED BY <3>1, <3>2, <3>3, Kinds DEF Objs, Val, Obj
  <2>3. CASE o \in Udata
    BY <2>3, Kinds DEF Loads, Objs, TypeOK, Obj, Val
  <2>4. CASE o \in Thread
    BY <2>4, Kinds DEF Loads, Objs, LiveSlots, TypeOK, Val
  <2>5. CASE o \in Str
    BY <2>5, Kinds DEF Loads, Objs
  <2>. QED BY <1>1, <2>1, <2>2, <2>3, <2>4, <2>5 DEF Obj
<1>. QED BY <1>1, <1>2 DEF Avail

LEMMA UvWriteType ==
  ASSUME TypeOK, NEW u \in Uv, NEW v \in Val, UvWrite(u, v)
  PROVE  stk' \in [Thread -> [Slots -> Val]] /\ uval' \in [Uv -> Val]
<1>1. CASE uvth[u] = Closed
  BY <1>1 DEF TypeOK, UvWrite
<1>2. CASE uvth[u] # Closed
  <2>1. uvth[u] \in Thread /\ uvix[u] \in Slots
    BY <1>2 DEF TypeOK
  <2>2. stk' = [stk EXCEPT ![uvth[u]] = [stk[uvth[u]] EXCEPT ![uvix[u]] = v]]
    BY <1>2, <2>1 DEF TypeOK, UvWrite
  <2>3. [stk[uvth[u]] EXCEPT ![uvix[u]] = v] \in [Slots -> Val]
    BY <2>1 DEF TypeOK
  <2>. QED BY <1>2, <2>1, <2>2, <2>3 DEF TypeOK, UvWrite
<1>. QED BY <1>1, <1>2

LEMMA CloseUvsType ==
  ASSUME TypeOK, NEW S, NEW T, CloseUvs(S, T)
  PROVE  /\ uvth' \in [Uv -> Thread \cup {Closed}] /\ uvix' \in [Uv -> Slots]
         /\ uval' \in [Uv -> Val]
<1>1. \A u \in Uv : uvval(u) \in Val
  BY UvvalType
<1>. QED BY <1>1, Bounds DEF TypeOK, CloseUvs, Slots, Val

LEMMA BarrierfType ==
  ASSUME TypeOK, NEW o \in Obj, NEW v, barrierf(o, v)
  PROVE  col' \in [Obj -> Colours] /\ gray' \subseteq Obj
BY ShadedType DEF TypeOK, barrierf, Colours

LEMMA BarrierbackType ==
  ASSUME TypeOK, NEW t \in Tab, barrierback(t)
  PROVE  col' \in [Obj -> Colours] /\ grayagain' \subseteq Obj
BY DEF TypeOK, barrierback, Colours, Obj

LEMMA TabSetType ==
  ASSUME TypeOK, NEW t \in Tab,
         NEW k \in (Obj \ Uv) \cup {Prim}, NEW v \in (Obj \ Uv) \cup {Prim, Nil}, TabSet(t, k, v)
  PROVE  ent' \in [Tab -> SUBSET Entry]
BY DEF TypeOK, TabSet, Entry

(***************************************************************************)
(* Each group of actions preserves TypeOK.                                 *)
(***************************************************************************)

\* allocation
LEMMA AllocType ==
  ASSUME TypeOK, NEW i \in Slots
  PROVE  /\ \A t \in Tab : lj_tab_new(t, i) => TypeOK'
         /\ \A u \in Udata, e \in Tab : lj_udata_new(u, e, i) => TypeOK'
         /\ \A s \in Str : lj_str_new(s, i) => TypeOK'
         /\ \A th \in Thread : lj_state_new(th, i) => TypeOK'
         /\ \A f \in Func, u \in Uv, j \in Slots, e \in Tab :
              lj_func_newL_local(f, u, j, e, i) => TypeOK'
         /\ \A f, p \in Func : lj_func_newL_inherit(f, p, i) => TypeOK'
         /\ \A f \in Func, u \in Uv : lj_func_newL_empty(f, u, i) => TypeOK'
<1>. USE Kinds DEF TypeOK, Fresh, Reborn, SetSlot, allocvars, gclists, graph, Val, Obj
<1>1. \A t \in Tab : lj_tab_new(t, i) => TypeOK'
  BY DEF lj_tab_new
<1>2. \A u \in Udata, e \in Tab : lj_udata_new(u, e, i) => TypeOK'
  BY DEF lj_udata_new
<1>3. \A s \in Str : lj_str_new(s, i) => TypeOK'
  BY DEF lj_str_new
<1>4. \A th \in Thread : lj_state_new(th, i) => TypeOK'
  BY DEF lj_state_new
<1>5. ASSUME NEW f \in Func, NEW u \in Uv, NEW j \in Slots, NEW e \in Tab,
             lj_func_newL_local(f, u, j, e, i)
      PROVE  TypeOK'
  <2>1. /\ col' \in [Obj -> Colours]
        /\ env' \in [Func \cup Udata \cup Thread -> Tab \cup {Nil}]
        /\ fuv' \in [Func -> Uv \cup {Nil}]
    BY <1>5 DEF lj_func_newL_local, Colours
  <2>2. uvth' \in [Uv -> Thread \cup {Closed}] /\ uvix' \in [Uv -> Slots]
    <3>1. CASE \E w \in OpenUvs(cur) : uvix[w] = j
      BY <1>5, <3>1 DEF lj_func_newL_local, func_finduv
    <3>2. CASE ~\E w \in OpenUvs(cur) : uvix[w] = j
      <4>. uvth' = [uvth EXCEPT ![u] = cur] /\ uvix' = [uvix EXCEPT ![u] = j]
        BY <1>5, <3>2 DEF lj_func_newL_local, func_finduv
      <4>. QED OBVIOUS
    <3>. QED BY <3>1, <3>2
  <2>3. stk' \in [Thread -> [Slots -> Val]]
    BY <1>5 DEF lj_func_newL_local
  <2>. QED BY <1>5, <2>1, <2>2, <2>3 DEF lj_func_newL_local, Colours
<1>6. \A f, p \in Func : lj_func_newL_inherit(f, p, i) => TypeOK'
  BY DEF lj_func_newL_inherit
<1>7. ASSUME NEW f \in Func, NEW u \in Uv, lj_func_newL_empty(f, u, i) PROVE TypeOK'
  <2>1. /\ col' \in [Obj -> Colours]
        /\ env' \in [Func \cup Udata \cup Thread -> Tab \cup {Nil}]
        /\ fuv' \in [Func -> Uv \cup {Nil}]
    BY <1>7 DEF lj_func_newL_empty, Colours
  <2>2. stk' \in [Thread -> [Slots -> Val]]
    BY <1>7 DEF lj_func_newL_empty
  <2>. QED BY <1>7, <2>1, <2>2 DEF lj_func_newL_empty, Colours
<1>. QED BY <1>1, <1>2, <1>3, <1>4, <1>5, <1>6, <1>7

\* registers, threads, machine code
LEMMA StackType ==
  ASSUME TypeOK
  PROVE  /\ \A i \in Slots, v \in Obj \cup {Nil} : Move(i, v) => TypeOK'
         /\ \A n \in 0 .. NS : SetTop(n) => TypeOK'
         /\ \A th \in Thread : lua_xmove(th) => TypeOK'
         /\ \A th \in Thread : lua_resume(th) => TypeOK'
         /\ lua_yield => TypeOK'
         /\ TraceEnter => TypeOK'
         /\ \A v \in Obj : TraceLoad(v) => TypeOK'
         /\ \A i \in Slots : TraceExit(i) => TypeOK'
<1>. USE Kinds, Permanent, AvailType
     DEF TypeOK, SetSlot, gcvars, gclists, graph, Val, Obj
<1>1. \A i \in Slots, v \in Obj \cup {Nil} : Move(i, v) => TypeOK'
  BY DEF Move
<1>2. \A n \in 0 .. NS : SetTop(n) => TypeOK'
  BY DEF SetTop
<1>3. ASSUME NEW th \in Thread, lua_xmove(th) PROVE TypeOK'
  <2>1. top[th] + 1 \in Slots /\ top[th] + 1 \in 0 .. NS
    BY <1>3, Bounds DEF lua_xmove, Slots
  <2>2. top[cur] \in Slots /\ top[cur] - 1 \in 0 .. NS
    BY <1>3, Bounds DEF lua_xmove, Slots
  <2>. QED BY <1>3, <2>1, <2>2 DEF lua_xmove
<1>4. \A th \in Thread : lua_resume(th) => TypeOK'
  BY DEF lua_resume
<1>5. lua_yield => TypeOK'
  BY DEF lua_yield
<1>6. TraceEnter => TypeOK'
  BY DEF TraceEnter
<1>7. \A v \in Obj : TraceLoad(v) => TypeOK'
  BY DEF TraceLoad
<1>8. \A i \in Slots : TraceExit(i) => TypeOK'
  BY DEF TraceExit
<1>. QED BY <1>1, <1>2, <1>3, <1>4, <1>5, <1>6, <1>7, <1>8

\* stores into objects, with their barriers
LEMMA StoreType ==
  ASSUME TypeOK
  PROVE  /\ \A t \in Tab, k \in Obj \cup {Prim}, v \in Obj \cup {Prim, Nil} :
              lua_rawset(t, k, v) \/ lua_rawseti(t, v) => TypeOK'
         /\ \A t \in Tab, m \in SUBSET MetaFields : SetMetaField(t, m) => TypeOK'
         /\ \A o \in Tab \cup Udata, m \in Tab \cup {Nil} : lua_setmetatable(o, m) => TypeOK'
         /\ \A m \in Tab \cup {Nil} : lua_setbasemt(m) => TypeOK'
         /\ \A o \in Func \cup Udata \cup Thread, e \in Tab : lua_setfenv(o, e) => TypeOK'
         /\ \A f \in Func, v \in Obj \cup {Nil} : USET(f, v) \/ lua_setupvalue(f, v) => TypeOK'
         /\ \A f, g \in Func : lua_upvaluejoin(f, g) => TypeOK'
         /\ \A i \in Slots : lj_func_closeuv(i) => TypeOK'
<1>. USE Kinds, Permanent, AvailType, BarrierfType, BarrierbackType, TabSetType
     DEF TypeOK, Colours, colvars, gcvars, gclists, graph, thvars, Obj
<1>1. ASSUME NEW t \in Tab, NEW k \in Obj \cup {Prim}, NEW v \in Obj \cup {Prim, Nil},
             lua_rawset(t, k, v)
      PROVE  TypeOK'
  <2>1. ent' \in [Tab -> SUBSET Entry]
    BY <1>1 DEF lua_rawset
  <2>. QED BY <1>1, <2>1 DEF lua_rawset
<1>2. ASSUME NEW t \in Tab, NEW v \in Obj \cup {Prim, Nil}, lua_rawseti(t, v)
      PROVE  TypeOK'
  <2>1. ent' \in [Tab -> SUBSET Entry]
    BY <1>2 DEF lua_rawseti
  <2>2. col' \in [Obj -> Colours] /\ grayagain' \subseteq Obj
    BY <1>2 DEF lua_rawseti
  <2>. QED BY <1>2, <2>1, <2>2 DEF lua_rawseti
<1>3. ASSUME NEW t \in Tab, NEW m \in SUBSET MetaFields, SetMetaField(t, m) PROVE TypeOK'
  <2>1. col' \in [Obj -> Colours] /\ grayagain' \subseteq Obj
    BY <1>3 DEF SetMetaField
  <2>. QED BY <1>3, <2>1 DEF SetMetaField
<1>4. ASSUME NEW o \in Tab \cup Udata, NEW m \in Tab \cup {Nil}, lua_setmetatable(o, m)
      PROVE  TypeOK'
  <2>1. col' \in [Obj -> Colours] /\ gray' \subseteq Obj /\ grayagain' \subseteq Obj
    <3>1. CASE o \in Tab
      BY <1>4, <3>1 DEF lua_setmetatable
    <3>2. CASE o \notin Tab
      BY <1>4, <3>2 DEF lua_setmetatable
    <3>. QED BY <3>1, <3>2
  <2>. QED BY <1>4, <2>1 DEF lua_setmetatable
<1>5. \A m \in Tab \cup {Nil} : lua_setbasemt(m) => TypeOK'
  BY DEF lua_setbasemt
<1>6. ASSUME NEW o \in Func \cup Udata \cup Thread, NEW e \in Tab, lua_setfenv(o, e)
      PROVE  TypeOK'
  <2>1. col' \in [Obj -> Colours] /\ gray' \subseteq Obj
    BY <1>6 DEF lua_setfenv
  <2>. QED BY <1>6, <2>1 DEF lua_setfenv
<1>7. ASSUME NEW f \in Func, NEW v \in Obj \cup {Nil}, USET(f, v) PROVE TypeOK'
  <2>1. fuv[f] \in Uv /\ v \in Val
    BY <1>7 DEF USET, Val
  <2>2. stk' \in [Thread -> [Slots -> Val]] /\ uval' \in [Uv -> Val]
    BY <1>7, <2>1, UvWriteType DEF USET
  <2>3. col' \in [Obj -> Colours] /\ gray' \subseteq Obj
    BY <1>7, <2>1 DEF USET
  <2>. QED BY <1>7, <2>2, <2>3 DEF USET
<1>8. ASSUME NEW f \in Func, NEW v \in Obj \cup {Nil}, lua_setupvalue(f, v) PROVE TypeOK'
  <2>1. fuv[f] \in Uv /\ v \in Val
    BY <1>8 DEF lua_setupvalue, Val
  <2>2. stk' \in [Thread -> [Slots -> Val]] /\ uval' \in [Uv -> Val]
    BY <1>8, <2>1, UvWriteType DEF lua_setupvalue
  <2>3. col' \in [Obj -> Colours] /\ gray' \subseteq Obj
    BY <1>8 DEF lua_setupvalue
  <2>. QED BY <1>8, <2>2, <2>3 DEF lua_setupvalue
<1>9. ASSUME NEW f \in Func, NEW g \in Func, lua_upvaluejoin(f, g) PROVE TypeOK'
  <2>1. col' \in [Obj -> Colours] /\ gray' \subseteq Obj
    BY <1>9 DEF lua_upvaluejoin
  <2>. QED BY <1>9, <2>1 DEF lua_upvaluejoin
<1>10. ASSUME NEW i \in Slots, lj_func_closeuv(i) PROVE TypeOK'
  <2>1. /\ uvth' \in [Uv -> Thread \cup {Closed}] /\ uvix' \in [Uv -> Slots]
        /\ uval' \in [Uv -> Val]
    <3>1. PICK S, T : CloseUvs(S, T)
      BY <1>10 DEF lj_func_closeuv
    <3>. QED BY <3>1, CloseUvsType
  <2>2. col' \in [Obj -> Colours] /\ gray' \subseteq Obj
    BY <1>10, ShadedType DEF lj_func_closeuv
  <2>. QED BY <1>10, <2>1, <2>2 DEF lj_func_closeuv
<1>. QED BY <1>1, <1>2, <1>3, <1>4, <1>5, <1>6, <1>7, <1>8, <1>9, <1>10

\* the mark phase
LEMMA MarkType ==
  ASSUME TypeOK
  PROVE  /\ gc_mark_start \/ propagate_end => TypeOK'
         /\ \A o \in Obj : propagatemark(o) => TypeOK'
         /\ atomic_mark_uv \/ atomic_weak \/ atomic_grayagain => TypeOK'
         /\ lj_gc_separateudata => TypeOK'
         /\ atomic_end => TypeOK'
<1>. USE ShadedType
     DEF TypeOK, Colours, colvars, gcvars, gclists, graph, thvars
<1>1. gc_mark_start => TypeOK'
  BY DEF gc_mark_start
<1>2. propagate_end => TypeOK'
  BY DEF propagate_end
<1>3. ASSUME NEW o \in Obj, propagatemark(o) PROVE TypeOK'
  <2>1. col' \in [Obj -> Colours] /\ gray' \subseteq Obj /\ grayagain' \subseteq Obj
    BY <1>3 DEF propagatemark
  <2>2. weak' \subseteq Tab
    BY <1>3 DEF propagatemark
  <2>3. stk' \in [Thread -> [Slots -> Val]]
    BY <1>3 DEF propagatemark, Val
  <2>. QED BY <1>3, <2>1, <2>2, <2>3 DEF propagatemark
<1>4. atomic_mark_uv => TypeOK'
  BY DEF atomic_mark_uv
<1>5. atomic_weak => TypeOK'
  BY DEF atomic_weak, RootsAgain, Obj
<1>6. atomic_grayagain => TypeOK'
  BY DEF atomic_grayagain
<1>7. ASSUME lj_gc_separateudata PROVE TypeOK'
  <2>1. fin' \subseteq Udata /\ mmudata' \subseteq Udata
    BY <1>7 DEF lj_gc_separateudata
  <2>2. col' \in [Obj -> Colours] /\ gray' \subseteq Obj
    BY <1>7 DEF lj_gc_separateudata
  <2>. QED BY <1>7, <2>1, <2>2 DEF lj_gc_separateudata
<1>8. ASSUME atomic_end PROVE TypeOK'
  <2>1. ent' \in [Tab -> SUBSET Entry]
    BY <1>8 DEF atomic_end
  <2>2. col' \in [Obj -> Colours] /\ unswept' \subseteq Obj /\ white' \in {"w0", "w1"}
    BY <1>8 DEF atomic_end, Heap, otherwhite
  <2>. QED BY <1>8, <2>1, <2>2 DEF atomic_end
<1>. QED BY <1>1, <1>2, <1>3, <1>4, <1>5, <1>6, <1>7, <1>8

\* the sweep phase
LEMMA SweepType ==
  ASSUME TypeOK
  PROVE  /\ \A s \in Str : sweepstring(s) => TypeOK'
         /\ sweepstring_end \/ gc_sweep_end => TypeOK'
         /\ \A o \in Obj : gc_sweep(o) => TypeOK'
<1>1. \A s \in Str : sweepstring(s) => TypeOK'
  BY DEF sweepstring, TypeOK, gclists, graph, thvars
<1>2. sweepstring_end \/ gc_sweep_end => TypeOK'
  BY DEF sweepstring_end, gc_sweep_end, endfull, TypeOK, gclists, graph, thvars
<1>3. ASSUME NEW o \in Obj, gc_sweep(o) PROVE TypeOK'
  <2>1. col' \in [Obj -> Colours]
    BY <1>3 DEF TypeOK, gc_sweep, Colours
  <2>2. /\ uvth' \in [Uv -> Thread \cup {Closed}] /\ uvix' \in [Uv -> Slots]
        /\ uval' \in [Uv -> Val]
    <3>1. PICK S, T : CloseUvs(S, T)
      BY <1>3 DEF gc_sweep
    <3>. QED BY <3>1, CloseUvsType
  <2>3. /\ mt' \in [Tab \cup Udata -> Tab \cup {Nil}]
        /\ env' \in [Func \cup Udata \cup Thread -> Tab \cup {Nil}]
        /\ fuv' \in [Func -> Uv \cup {Nil}]
    BY <1>3 DEF TypeOK, gc_sweep
  <2>4. /\ ent' \in [Tab -> SUBSET Entry]
        /\ meta' \in [Tab -> SUBSET MetaFields]
    BY <1>3 DEF TypeOK, gc_sweep
  <2>5. stk' \in [Thread -> [Slots -> Val]]
    BY <1>3 DEF TypeOK, gc_sweep, Val
  <2>6. top' \in [Thread -> 0 .. NS]
    BY <1>3, Bounds DEF TypeOK, gc_sweep
  <2>. QED
    BY <1>3, <2>1, <2>2, <2>3, <2>4, <2>5, <2>6 DEF TypeOK, gc_sweep, gclists, Colours
<1>. QED BY <1>1, <1>2, <1>3

\* finalizers and full collections
LEMMA FinalizeType ==
  ASSUME TypeOK
  PROVE  /\ \A u \in Udata : gc_finalize(u) => TypeOK'
         /\ gc_finalize_end \/ lj_gc_fullgc \/ fullgc_cycle \/ finalizer_error => TypeOK'
<1>1. ASSUME NEW u \in Udata, gc_finalize(u) PROVE TypeOK'
  <2>1. u \in Val /\ u \in Obj
    BY Kinds DEF Val, Obj
  <2>2. stk' \in [Thread -> [Slots -> Val]] /\ top' \in [Thread -> 0 .. NS]
    <3>1. CASE HasGC(u)
      <4>1. top[cur] + 1 \in Slots /\ top[cur] + 1 \in 0 .. NS
        BY <1>1, <3>1, Bounds DEF TypeOK, gc_finalize, Slots
      <4>2. cur \in Thread /\ stk \in [Thread -> [Slots -> Val]] /\ top \in [Thread -> 0 .. NS]
        BY DEF TypeOK
      <4>3. /\ stk' = [stk EXCEPT ![cur][top[cur] + 1] = u]
            /\ top' = [top EXCEPT ![cur] = @ + 1]
        BY <1>1, <3>1 DEF gc_finalize
      <4>. QED BY <2>1, <4>1, <4>2, <4>3
    <3>2. CASE ~HasGC(u)
      BY <1>1, <3>2 DEF TypeOK, gc_finalize
    <3>. QED BY <3>1, <3>2
  <2>. QED BY <1>1, <2>1, <2>2 DEF TypeOK, gc_finalize, gclists, graph
<1>2. gc_finalize_end \/ lj_gc_fullgc \/ fullgc_cycle \/ finalizer_error => TypeOK'
  BY DEF gc_finalize_end, lj_gc_fullgc, fullgc_cycle, finalizer_error, endfull, Heap,
         TypeOK, gclists, graph, thvars
<1>. QED BY <1>1, <1>2

LEMMA InitType == Init => TypeOK
BY Kinds, Permanent, Bounds DEF Init, TypeOK, Val, Slots, Obj

LEMMA NextType == TypeOK /\ [Next]_vars => TypeOK'
<1>. SUFFICES ASSUME TypeOK, [Next]_vars PROVE TypeOK'
  OBVIOUS
<1>1. ASSUME NEW p \in Programs, Mutator(p) PROVE TypeOK'
  <2>1. /\ p.objs \subseteq Obj /\ p.data \subseteq Obj \cup {Prim}
        /\ p.keys \subseteq Obj \cup {Prim} /\ p.tabs \subseteq Tab /\ p.metas \subseteq Tab
        /\ p.fields \subseteq SUBSET MetaFields /\ p.setuv \subseteq Func
    BY Bounds
  <2>. QED
    BY <1>1, <2>1, AllocType, StackType, StoreType, FinalizeType DEF Mutator, Obj
<1>2. CASE Collector
  BY <1>2, MarkType, SweepType, FinalizeType, Kinds DEF Collector, Obj
<1>3. CASE finalizer_error
  BY <1>3, FinalizeType
<1>4. CASE UNCHANGED vars
  BY <1>4 DEF TypeOK, vars, gcvars, gclists, graph, thvars
<1>. QED BY <1>1, <1>2, <1>3, <1>4 DEF Next

\* Every state variable keeps its type in every behaviour: no store puts an
\* upvalue or a list marker where the collector expects a value.
THEOREM TypeCorrect == Spec => []TypeOK
BY InitType, NextType, PTL DEF Spec

(***************************************************************************)
(* The wavefront: while marking, no step makes a gray or black object      *)
(* white.                                                                  *)
(***************************************************************************)

Reached == {"gray", "black"}
Kept == \A o \in Obj : col[o] \in Reached => col'[o] \in Reached

LEMMA ReachedColours ==
  ASSUME TypeOK
  PROVE  \A o \in Obj : col[o] \in Reached <=> o \in Nonwhite
BY DEF TypeOK, Nonwhite, Heap, iswhite, Reached

\* marking takes white objects only
LEMMA ShadedKeeps ==
  ASSUME TypeOK, NEW S, NEW o \in Obj, col[o] \in Reached
  PROVE  Shaded(S)[o] = col[o]
BY DEF Shaded, Marked, Reached, iswhite

LEMMA ShadingKeeps ==
  ASSUME TypeOK, NEW S, col' = Shaded(S)
  PROVE  Kept
BY ShadedKeeps DEF Kept

LEMMA BarriersKeep ==
  ASSUME TypeOK
  PROVE  /\ \A t \in Tab : barrierback(t) => Kept
         /\ \A o \in Obj : \A v : Marking /\ barrierf(o, v) => Kept
         /\ UNCHANGED col => Kept
<1>1. ASSUME NEW t \in Tab, barrierback(t) PROVE Kept
  BY <1>1 DEF TypeOK, barrierback, Kept, Reached
<1>2. ASSUME NEW o \in Obj, NEW v, Marking, barrierf(o, v) PROVE Kept
  <2>1. col' = col \/ col' = Shaded({v})
    BY <1>2 DEF barrierf
  <2>. QED BY <2>1, ShadingKeeps DEF Kept
<1>3. UNCHANGED col => Kept
  BY DEF Kept
<1>. QED BY <1>1, <1>2, <1>3

\* an object that is created was free, one that is found again was dead
LEMMA AllocKeeps ==
  ASSUME TypeOK, NEW i \in Slots
  PROVE  /\ \A t \in Tab : lj_tab_new(t, i) => Kept
         /\ \A u \in Udata, e \in Tab : lj_udata_new(u, e, i) => Kept
         /\ \A s \in Str : lj_str_new(s, i) => Kept
         /\ \A th \in Thread : lj_state_new(th, i) => Kept
         /\ \A f \in Func, u \in Uv, j \in Slots, e \in Tab :
              lj_func_newL_local(f, u, j, e, i) => Kept
         /\ \A f, p \in Func : lj_func_newL_inherit(f, p, i) => Kept
         /\ \A f \in Func, u \in Uv : lj_func_newL_empty(f, u, i) => Kept
<1>. USE Kinds DEF TypeOK, Fresh, Reborn, isdead, otherwhite, Kept, Reached, Obj
<1>1. \A t \in Tab : lj_tab_new(t, i) => Kept
  BY DEF lj_tab_new
<1>2. \A u \in Udata, e \in Tab : lj_udata_new(u, e, i) => Kept
  BY DEF lj_udata_new
<1>3. \A s \in Str : lj_str_new(s, i) => Kept
  BY DEF lj_str_new
<1>4. \A th \in Thread : lj_state_new(th, i) => Kept
  BY DEF lj_state_new
<1>5. \A f \in Func, u \in Uv, j \in Slots, e \in Tab :
        lj_func_newL_local(f, u, j, e, i) => Kept
  BY DEF lj_func_newL_local
<1>6. \A f, p \in Func : lj_func_newL_inherit(f, p, i) => Kept
  BY DEF lj_func_newL_inherit
<1>7. \A f \in Func, u \in Uv : lj_func_newL_empty(f, u, i) => Kept
  BY DEF lj_func_newL_empty
<1>. QED BY <1>1, <1>2, <1>3, <1>4, <1>5, <1>6, <1>7

LEMMA StackKeeps ==
  ASSUME TypeOK
  PROVE  /\ \A i \in Slots, v \in Obj \cup {Nil} : Move(i, v) => Kept
         /\ \A n \in 0 .. NS : SetTop(n) => Kept
         /\ \A th \in Thread : lua_xmove(th) \/ lua_resume(th) => Kept
         /\ lua_yield \/ TraceEnter => Kept
         /\ \A v \in Obj : TraceLoad(v) => Kept
         /\ \A i \in Slots : TraceExit(i) => Kept
BY DEF Move, SetTop, lua_xmove, lua_resume, lua_yield, TraceEnter, TraceLoad, TraceExit,
       gcvars, Kept

\* while marking, the barriers shade and never bleach
LEMMA StoreKeeps ==
  ASSUME TypeOK, Marking
  PROVE  /\ \A t \in Tab, k \in Obj \cup {Prim}, v \in Obj \cup {Prim, Nil} :
              lua_rawset(t, k, v) \/ lua_rawseti(t, v) => Kept
         /\ \A t \in Tab, m \in SUBSET MetaFields : SetMetaField(t, m) => Kept
         /\ \A o \in Tab \cup Udata, m \in Tab \cup {Nil} : lua_setmetatable(o, m) => Kept
         /\ \A m \in Tab \cup {Nil} : lua_setbasemt(m) => Kept
         /\ \A o \in Func \cup Udata \cup Thread, e \in Tab : lua_setfenv(o, e) => Kept
         /\ \A f \in Func, v \in Obj \cup {Nil} : USET(f, v) \/ lua_setupvalue(f, v) => Kept
         /\ \A f, g \in Func : lua_upvaluejoin(f, g) => Kept
         /\ \A i \in Slots : lj_func_closeuv(i) => Kept
<1>. USE BarriersKeep DEF Obj
<1>1. \A t \in Tab, k \in Obj \cup {Prim}, v \in Obj \cup {Prim, Nil} :
              lua_rawset(t, k, v) \/ lua_rawseti(t, v) => Kept
  BY DEF lua_rawset, lua_rawseti
<1>2. \A t \in Tab, m \in SUBSET MetaFields : SetMetaField(t, m) => Kept
  BY DEF SetMetaField
<1>3. \A o \in Tab \cup Udata, m \in Tab \cup {Nil} : lua_setmetatable(o, m) => Kept
  BY DEF lua_setmetatable
<1>4. \A m \in Tab \cup {Nil} : lua_setbasemt(m) => Kept
  BY DEF lua_setbasemt, gcvars
<1>5. \A o \in Func \cup Udata \cup Thread, e \in Tab : lua_setfenv(o, e) => Kept
  BY DEF lua_setfenv
<1>6. ASSUME NEW f \in Func, NEW v \in Obj \cup {Nil}, USET(f, v) \/ lua_setupvalue(f, v) PROVE Kept
  <2>1. CASE USET(f, v)
    <3>1. fuv[f] \in Obj
      BY <2>1 DEF USET, TypeOK
    <3>. QED BY <2>1, <3>1 DEF USET
  <2>2. CASE lua_setupvalue(f, v)
    BY <2>2 DEF lua_setupvalue
  <2>. QED BY <1>6, <2>1, <2>2
<1>7. \A f, g \in Func : lua_upvaluejoin(f, g) => Kept
  BY DEF lua_upvaluejoin
<1>8. ASSUME NEW i \in Slots, lj_func_closeuv(i) PROVE Kept
  <2>. DEFINE above == {u \in OpenUvs(cur) : uvix[u] >= i}
              freed == {u \in above : isdead(u)}
              grays == {u \in above \ freed : isgray(u)}
              values == Objs({uvval(u) : u \in grays})
  <2>1. col' = [o \in Obj |-> IF o \in freed THEN "free"
                              ELSE IF o \in grays THEN "black" ELSE Shaded(values)[o]]
    BY <1>8 DEF lj_func_closeuv
  <2>2. \A o \in freed : o \in Obj => col[o] \notin Reached
    BY DEF TypeOK, isdead, otherwhite, Reached
  <2>. QED BY <2>1, <2>2, ShadedKeeps DEF Kept, Reached
<1>. QED BY <1>1, <1>2, <1>3, <1>4, <1>5, <1>6, <1>7, <1>8

\* the collector's own steps, up to the flip
LEMMA MarkKeeps ==
  ASSUME TypeOK
  PROVE  /\ gc_mark_start \/ propagate_end => Kept
         /\ \A o \in Obj : propagatemark(o) => Kept
         /\ atomic_mark_uv \/ atomic_weak \/ atomic_grayagain => Kept
         /\ lj_gc_separateudata => Kept
<1>1. gc_mark_start \/ propagate_end => Kept
  BY ShadingKeeps DEF gc_mark_start, propagate_end, Kept
<1>2. ASSUME NEW o \in Obj, propagatemark(o) PROVE Kept
  <2>1. \A x \in Obj : x # o => col'[x] = Shaded(Trav(o))[x]
    BY <1>2, ShadedType DEF propagatemark
  <2>2. col'[o] \in Reached
    BY <1>2, ShadedType DEF propagatemark, Reached
  <2>. QED BY <2>1, <2>2, ShadedKeeps DEF Kept
<1>3. atomic_mark_uv \/ atomic_weak \/ atomic_grayagain => Kept
  BY ShadingKeeps DEF atomic_mark_uv, atomic_weak, atomic_grayagain, Kept
<1>4. lj_gc_separateudata => Kept
  BY ShadedKeeps DEF lj_gc_separateudata, Kept, Reached
<1>. QED BY <1>1, <1>2, <1>3, <1>4

\* programs do not run inside atomic()
LEMMA MutatorRuns ==
  ASSUME NEW p \in Programs, Mutator(p)
  PROVE  Running
<1>1. /\ \A o, i : lj_tab_new(o, i) \/ lj_str_new(o, i) \/ lj_state_new(o, i) => Running
      /\ \A o, e, i : lj_udata_new(o, e, i) => Running
      /\ \A f, u, j, e, i : lj_func_newL_local(f, u, j, e, i) => Running
      /\ \A f, u, i : lj_func_newL_inherit(f, u, i) \/ lj_func_newL_empty(f, u, i) => Running
  BY DEF Fresh, lj_tab_new, lj_udata_new, lj_str_new, lj_state_new, lj_func_newL_local,
         lj_func_newL_inherit, lj_func_newL_empty
<1>2. /\ \A i, v : Move(i, v) => Running
      /\ \A i : SetTop(i) \/ TraceExit(i) \/ lj_func_closeuv(i) => Running
      /\ \A th : lua_resume(th) \/ lua_xmove(th) => Running
      /\ lua_yield \/ TraceEnter \/ lj_gc_fullgc => Running
      /\ \A v : TraceLoad(v) => Running
  BY DEF Move, SetTop, lua_xmove, lua_resume, lua_yield, TraceEnter, TraceLoad, TraceExit,
         lj_func_closeuv, lj_gc_fullgc
<1>3. /\ \A t, k, v : lua_rawset(t, k, v) => Running
      /\ \A t, v : lua_rawseti(t, v) \/ SetMetaField(t, v) \/ lua_setmetatable(t, v)
                   \/ lua_setfenv(t, v) => Running
      /\ \A m : lua_setbasemt(m) => Running
      /\ \A f, v : USET(f, v) \/ lua_setupvalue(f, v) \/ lua_upvaluejoin(f, v) => Running
  BY DEF lua_rawset, lua_rawseti, SetMetaField, lua_setmetatable, lua_setbasemt, lua_setfenv,
         USET, lua_setupvalue, lua_upvaluejoin
<1>. QED BY <1>1, <1>2, <1>3 DEF Mutator

LEMMA NextKeeps ==
  ASSUME TypeOK, [Next]_vars, Marking \/ InAtomic, gcstate' # "sweepstring"
  PROVE  Kept
<1>1. ASSUME NEW p \in Programs, Mutator(p) PROVE Kept
  <2>1. /\ p.objs \subseteq Obj /\ p.data \subseteq Obj \cup {Prim}
        /\ p.keys \subseteq Obj \cup {Prim} /\ p.tabs \subseteq Tab /\ p.metas \subseteq Tab
        /\ p.fields \subseteq SUBSET MetaFields /\ p.setuv \subseteq Func
    BY Bounds
  <2>2. CASE lj_gc_fullgc
    BY <2>2 DEF lj_gc_fullgc, Kept
  <2>3. Marking
    BY <1>1, MutatorRuns DEF Running
  <2>. QED
    BY <1>1, <2>1, <2>2, <2>3, AllocKeeps, StackKeeps, StoreKeeps DEF Mutator, Obj
<1>2. CASE Collector
  <2>1. ~(gcstate \in {"sweepstring", "sweep", "finalize", "pause"})
    BY DEF Marking, InAtomic
  <2>. QED
    BY <1>2, <2>1, MarkKeeps
    DEF Collector, atomic_end, sweepstring, sweepstring_end, gc_sweep, gc_sweep_end,
        gc_finalize, gc_finalize_end, fullgc_cycle
<1>3. CASE finalizer_error \/ UNCHANGED vars
  BY <1>3 DEF finalizer_error, vars, gcvars, Kept
<1>. QED BY <1>1, <1>2, <1>3 DEF Next

\* What a mark phase has reached stays reached until the flip of the white: the
\* barriers of lj_gc.c shade while marking and never turn an object white again.
THEOREM WavefrontNeverRecedes == Spec => WavefrontAdvances
<1>1. ASSUME TypeOK, TypeOK', [Next]_vars
      PROVE  (Marking \/ InAtomic) /\ gcstate' # "sweepstring" =>
               \A o \in Heap : ~iswhite(o) => ~iswhite(o)'
  <2>. SUFFICES ASSUME Marking \/ InAtomic, gcstate' # "sweepstring",
                       NEW o \in Heap, ~iswhite(o)
                PROVE  ~iswhite(o)'
    OBVIOUS
  <2>1. col[o] \in Reached /\ o \in Obj
    BY <1>1, ReachedColours DEF Nonwhite, Heap
  <2>2. col'[o] \in Reached
    BY <1>1, <2>1, NextKeeps DEF Kept
  <2>. QED BY <2>2 DEF iswhite, Reached
<1>. QED BY <1>1, TypeCorrect, PTL DEF Spec, WavefrontAdvances

(***************************************************************************)
(* Open upvalues: func_finduv finds the one there is, dead or alive, so    *)
(* that a slot never has two, and an upvalue is closed before it is freed. *)
(***************************************************************************)

UvsKept == UNCHANGED <<uvth, uvix>> /\ \A u \in Uv : col[u] # "free" => col'[u] # "free"

LEMMA KeptUvs ==
  ASSUME TypeOK, UvInv, UvsKept
  PROVE  UvInv'
BY DEF UvInv, UvsKept, OneUvPerSlot, OpenAllocated, Heap, Obj

LEMMA ShadedFreesNone ==
  ASSUME TypeOK, NEW S, NEW o \in Obj
  PROVE  Shaded(S)[o] = "free" <=> col[o] = "free"
BY DEF Shaded, Marked, MarkColour, iswhite, Objs, Obj

LEMMA BarriersFreeNone ==
  ASSUME TypeOK, UNCHANGED <<uvth, uvix>>
  PROVE  /\ \A t \in Tab : barrierback(t) => UvsKept
         /\ \A o \in Obj : \A v : barrierf(o, v) => UvsKept
         /\ UNCHANGED col => UvsKept
<1>1. ASSUME NEW t \in Tab, barrierback(t) PROVE UvsKept
  BY <1>1 DEF TypeOK, barrierback, UvsKept, Obj
<1>2. ASSUME NEW o \in Obj, NEW v, barrierf(o, v) PROVE UvsKept
  <2>1. col' = col \/ col' = Shaded({v}) \/ col' = [col EXCEPT ![o] = white]
    BY <1>2 DEF barrierf
  <2>. QED BY <2>1, ShadedFreesNone DEF UvsKept, TypeOK, Obj
<1>3. UNCHANGED col => UvsKept
  BY DEF UvsKept
<1>. QED BY <1>1, <1>2, <1>3

LEMMA AllocUvs ==
  ASSUME TypeOK, UvInv, NEW i \in Slots
  PROVE  /\ \A t \in Tab : lj_tab_new(t, i) => UvInv'
         /\ \A u \in Udata, e \in Tab : lj_udata_new(u, e, i) => UvInv'
         /\ \A s \in Str : lj_str_new(s, i) => UvInv'
         /\ \A th \in Thread : lj_state_new(th, i) => UvInv'
         /\ \A f \in Func, u \in Uv, j \in Slots, e \in Tab :
              lj_func_newL_local(f, u, j, e, i) => UvInv'
         /\ \A f, p \in Func : lj_func_newL_inherit(f, p, i) => UvInv'
         /\ \A f \in Func, u \in Uv : lj_func_newL_empty(f, u, i) => UvInv'
<1>. USE Kinds, KeptUvs DEF TypeOK, Reborn, UvsKept, graph, Obj
<1>1. \A t \in Tab : lj_tab_new(t, i) => UvInv'
  BY DEF lj_tab_new
<1>2. \A u \in Udata, e \in Tab : lj_udata_new(u, e, i) => UvInv'
  BY DEF lj_udata_new
<1>3. \A s \in Str : lj_str_new(s, i) => UvInv'
  BY DEF lj_str_new
<1>4. \A th \in Thread : lj_state_new(th, i) => UvInv'
  BY DEF lj_state_new
<1>5. ASSUME NEW f \in Func, NEW u \in Uv, NEW j \in Slots, NEW e \in Tab,
             lj_func_newL_local(f, u, j, e, i)
      PROVE  UvInv'
  <2>1. \A w \in Uv : col[w] # "free" \/ w = u => col'[w] # "free"
    BY <1>5 DEF lj_func_newL_local
  <2>2. CASE \E w \in OpenUvs(cur) : uvix[w] = j
    BY <1>5, <2>1, <2>2 DEF lj_func_newL_local, func_finduv
  <2>3. CASE ~\E w \in OpenUvs(cur) : uvix[w] = j
    <3>1. /\ uvth' = [uvth EXCEPT ![u] = cur] /\ uvix' = [uvix EXCEPT ![u] = j]
          /\ \A w \in Uv : uvth[w] = cur => uvix[w] # j
      BY <1>5, <2>3 DEF lj_func_newL_local, func_finduv, OpenUvs
    <3>2. OneUvPerSlot'
      BY <3>1 DEF UvInv, OneUvPerSlot
    <3>3. OpenAllocated'
      BY <2>1, <3>1 DEF UvInv, OpenAllocated, Heap
    <3>. QED BY <3>2, <3>3 DEF UvInv
  <2>. QED BY <2>2, <2>3
<1>6. \A f, p \in Func : lj_func_newL_inherit(f, p, i) => UvInv'
  BY DEF lj_func_newL_inherit
<1>7. \A f \in Func, u \in Uv : lj_func_newL_empty(f, u, i) => UvInv'
  BY DEF lj_func_newL_empty
<1>. QED BY <1>1, <1>2, <1>3, <1>4, <1>5, <1>6, <1>7

LEMMA StackUvs ==
  ASSUME TypeOK
  PROVE  /\ \A i \in Slots, v \in Obj \cup {Nil} : Move(i, v) => UvsKept
         /\ \A n \in 0 .. NS : SetTop(n) => UvsKept
         /\ \A th \in Thread : lua_xmove(th) \/ lua_resume(th) => UvsKept
         /\ lua_yield \/ TraceEnter => UvsKept
         /\ \A v \in Obj : TraceLoad(v) => UvsKept
         /\ \A i \in Slots : TraceExit(i) => UvsKept
BY DEF Move, SetTop, lua_xmove, lua_resume, lua_yield, TraceEnter, TraceLoad, TraceExit,
       gcvars, graph, UvsKept

LEMMA StoreUvs ==
  ASSUME TypeOK
  PROVE  /\ \A t \in Tab, k \in Obj \cup {Prim}, v \in Obj \cup {Prim, Nil} :
              lua_rawset(t, k, v) \/ lua_rawseti(t, v) => UvsKept
         /\ \A t \in Tab, m \in SUBSET MetaFields : SetMetaField(t, m) => UvsKept
         /\ \A o \in Tab \cup Udata, m \in Tab \cup {Nil} : lua_setmetatable(o, m) => UvsKept
         /\ \A m \in Tab \cup {Nil} : lua_setbasemt(m) => UvsKept
         /\ \A o \in Func \cup Udata \cup Thread, e \in Tab : lua_setfenv(o, e) => UvsKept
         /\ \A f \in Func, v \in Obj \cup {Nil} : USET(f, v) \/ lua_setupvalue(f, v) => UvsKept
         /\ \A f, g \in Func : lua_upvaluejoin(f, g) => UvsKept
<1>. USE BarriersFreeNone DEF Obj
<1>1. \A t \in Tab, k \in Obj \cup {Prim}, v \in Obj \cup {Prim, Nil} :
        lua_rawset(t, k, v) \/ lua_rawseti(t, v) => UvsKept
  BY DEF lua_rawset, lua_rawseti
<1>2. \A t \in Tab, m \in SUBSET MetaFields : SetMetaField(t, m) => UvsKept
  BY DEF SetMetaField
<1>3. \A o \in Tab \cup Udata, m \in Tab \cup {Nil} : lua_setmetatable(o, m) => UvsKept
  BY DEF lua_setmetatable
<1>4. \A m \in Tab \cup {Nil} : lua_setbasemt(m) => UvsKept
  BY DEF lua_setbasemt, gcvars, graph
<1>5. \A o \in Func \cup Udata \cup Thread, e \in Tab : lua_setfenv(o, e) => UvsKept
  BY DEF lua_setfenv
<1>6. ASSUME NEW f \in Func, NEW v \in Obj \cup {Nil}, USET(f, v) PROVE UvsKept
  <2>1. fuv[f] \in Obj
    BY <1>6 DEF USET, TypeOK
  <2>. QED BY <1>6, <2>1 DEF USET
<1>7. \A f \in Func, v \in Obj \cup {Nil} : lua_setupvalue(f, v) => UvsKept
  BY DEF lua_setupvalue
<1>8. \A f, g \in Func : lua_upvaluejoin(f, g) => UvsKept
  BY DEF lua_upvaluejoin
<1>. QED BY <1>1, <1>2, <1>3, <1>4, <1>5, <1>6, <1>7, <1>8

\* what is freed has been closed
LEMMA ClosedUvs ==
  ASSUME TypeOK, UvInv, NEW closing, NEW freed, CloseUvs(closing, freed),
         \A u \in Uv : col[u] # "free" /\ col'[u] = "free" => u \in freed
  PROVE  UvInv'
<1>1. \A u \in Uv : u \notin closing \cup freed => uvth'[u] = uvth[u] /\ uvix'[u] = uvix[u]
  BY DEF CloseUvs
<1>2. \A u \in Uv : u \in closing \cup freed => uvth'[u] = Closed
  BY DEF CloseUvs
<1>3. OneUvPerSlot'
  BY <1>1, <1>2 DEF UvInv, OneUvPerSlot
<1>4. OpenAllocated'
  BY <1>1, <1>2 DEF UvInv, OpenAllocated, Heap, Obj
<1>. QED BY <1>3, <1>4 DEF UvInv

LEMMA FreeingUvs ==
  ASSUME TypeOK, UvInv
  PROVE  /\ \A i \in Slots : lj_func_closeuv(i) => UvInv'
         /\ \A o \in Obj : gc_sweep(o) => UvInv'
         /\ \A s \in Str : sweepstring(s) => UvInv'
<1>1. ASSUME NEW i \in Slots, lj_func_closeuv(i) PROVE UvInv'
  <2>. DEFINE above == {u \in OpenUvs(cur) : uvix[u] >= i}
              freed == {u \in above : isdead(u)}
              grays == {u \in above \ freed : isgray(u)}
              values == Objs({uvval(u) : u \in grays})
  <2>1. col' = [o \in Obj |-> IF o \in freed THEN "free"
                              ELSE IF o \in grays THEN (IF Marking THEN "black" ELSE white)
                              ELSE IF Marking THEN Shaded(values)[o] ELSE col[o]]
    BY <1>1 DEF lj_func_closeuv
  <2>2. \A u \in Uv : col[u] # "free" /\ col'[u] = "free" => u \in freed
    BY <2>1, ShadedFreesNone DEF TypeOK, Obj
  <2>3. CloseUvs(above \ freed, freed)
    BY <1>1 DEF lj_func_closeuv
  <2>. HIDE DEF above, freed
  <2>. QED BY <2>2, <2>3, ClosedUvs
<1>2. ASSUME NEW o \in Obj, gc_sweep(o) PROVE UvInv'
  <2>. DEFINE uvs == SweptWith(o)
              freed == {u \in uvs \cup {o} : isdead(u)}
  <2>1. col' = [x \in Obj |-> IF x \in freed THEN "free"
                              ELSE IF x \in uvs \cup {o} THEN white ELSE col[x]]
    BY <1>2 DEF gc_sweep
  <2>2. \A u \in Uv : col[u] # "free" /\ col'[u] = "free" => u \in freed \cap Uv
    BY <2>1 DEF TypeOK, Obj
  <2>3. CloseUvs(IF o \in freed THEN uvs \ freed ELSE {}, freed \cap Uv)
    BY <1>2 DEF gc_sweep
  <2>. HIDE DEF uvs, freed
  <2>. QED BY <2>2, <2>3, ClosedUvs
<1>3. \A s \in Str : sweepstring(s) => UvInv'
  BY KeptUvs, Kinds DEF sweepstring, graph, UvsKept, TypeOK, Obj
<1>. QED BY <1>1, <1>2, <1>3

LEMMA CollectorUvs ==
  ASSUME TypeOK
  PROVE  /\ gc_mark_start \/ propagate_end => UvsKept
         /\ \A o \in Obj : propagatemark(o) => UvsKept
         /\ atomic_mark_uv \/ atomic_weak \/ atomic_grayagain => UvsKept
         /\ lj_gc_separateudata \/ atomic_end => UvsKept
         /\ sweepstring_end \/ gc_sweep_end => UvsKept
         /\ \A u \in Udata : gc_finalize(u) => UvsKept
         /\ gc_finalize_end \/ lj_gc_fullgc \/ fullgc_cycle \/ finalizer_error => UvsKept
<1>. USE ShadedFreesNone DEF UvsKept, graph, Obj
<1>1. gc_mark_start \/ propagate_end => UvsKept
  BY DEF gc_mark_start, propagate_end
<1>2. ASSUME NEW o \in Obj, propagatemark(o) PROVE UvsKept
  BY <1>2, ShadedType DEF propagatemark
<1>3. atomic_mark_uv \/ atomic_weak \/ atomic_grayagain => UvsKept
  BY DEF atomic_mark_uv, atomic_weak, atomic_grayagain
<1>4. lj_gc_separateudata \/ atomic_end => UvsKept
  <2>1. CASE lj_gc_separateudata
    <3>1. PICK all, S : col' = [o \in Obj |-> IF o \in all THEN "black" ELSE Shaded(S)[o]]
      BY <2>1 DEF lj_gc_separateudata
    <3>. QED BY <2>1, <3>1 DEF lj_gc_separateudata
  <2>2. CASE atomic_end
    BY <2>2 DEF atomic_end
  <2>. QED BY <2>1, <2>2
<1>5. sweepstring_end \/ gc_sweep_end => UvsKept
  BY DEF sweepstring_end, gc_sweep_end
<1>6. \A u \in Udata : gc_finalize(u) => UvsKept
  BY DEF gc_finalize, TypeOK
<1>7. gc_finalize_end \/ lj_gc_fullgc \/ fullgc_cycle \/ finalizer_error => UvsKept
  BY DEF gc_finalize_end, lj_gc_fullgc, fullgc_cycle, finalizer_error
<1>. QED BY <1>1, <1>2, <1>3, <1>4, <1>5, <1>6, <1>7

LEMMA UvInvInit == Init => UvInv
BY DEF Init, UvInv, OneUvPerSlot, OpenAllocated

LEMMA UvInvNext == TypeOK /\ UvInv /\ [Next]_vars => UvInv'
<1>. SUFFICES ASSUME TypeOK, UvInv, [Next]_vars PROVE UvInv'
  OBVIOUS
<1>1. ASSUME NEW p \in Programs, Mutator(p) PROVE UvInv'
  <2>1. /\ p.objs \subseteq Obj /\ p.data \subseteq Obj \cup {Prim}
        /\ p.keys \subseteq Obj \cup {Prim} /\ p.tabs \subseteq Tab /\ p.metas \subseteq Tab
        /\ p.fields \subseteq SUBSET MetaFields /\ p.setuv \subseteq Func
    BY Bounds
  <2>. QED
    BY <1>1, <2>1, KeptUvs, AllocUvs, StackUvs, StoreUvs, FreeingUvs, CollectorUvs
    DEF Mutator, Obj
<1>2. CASE Collector
  BY <1>2, KeptUvs, CollectorUvs, FreeingUvs, Kinds DEF Collector, Obj
<1>3. CASE finalizer_error
  BY <1>3, KeptUvs, CollectorUvs
<1>4. CASE UNCHANGED vars
  BY <1>4, KeptUvs DEF UvsKept, vars, gcvars, graph
<1>. QED BY <1>1, <1>2, <1>3, <1>4 DEF Next

\* Closures of one local variable share it: no slot ever has two open upvalues,
\* and no upvalue is freed while it is open, in every phase of the collector and
\* whether func_finduv finds it alive or dead.
THEOREM LocalsShared == Spec => [](OneUvPerSlot /\ OpenAllocated)
BY TypeCorrect, UvInvInit, UvInvNext, PTL DEF Spec, UvInv

-----------------------------------------------------------------------------
(***************************************************************************)
(* Colours: what is gray and on which list, which colours an object may    *)
(* have, and what the sweep still has to meet: Lists (LJGCInv), and with   *)
(* it ListsConsistent; then ColourOK, UnsweptOK and NoTrace, given TypeOK, *)
(* UvInv and Lists.                                                        *)
(***************************************************************************)

(***************************************************************************)
(* The lists                                                               *)
(***************************************************************************)

listvars == <<gcstate, white, gray, grayagain, weak, unswept>>
\* nothing happens to the containers but allocation
ContainersKept ==
  /\ UNCHANGED listvars
  /\ \A o \in Container : col'[o] = col[o] \/ (col[o] = "free" /\ col'[o] = white)

LEMMA Phases ==
  ASSUME TypeOK
  PROVE  /\ Marking \/ InAtomic <=> ~(gcstate \in {"pause", "finalize"}) /\ ~Sweeping
         /\ Marking => ~InAtomic
BY DEF TypeOK, Marking, InAtomic, Sweeping

LEMMA KeptLists ==
  ASSUME TypeOK, Lists, ContainersKept
  PROVE  Lists'
<1>. USE Kinds DEF ContainersKept, listvars, TypeOK
<1>1. \A o \in Container : isgray(o)' <=> isgray(o)
  BY DEF isgray
<1>2. ListsWhileMarking'
  BY <1>1 DEF Lists, ListsWhileMarking, Marking, InAtomic
<1>3. WhiteBetweenCycles'
  BY DEF Lists, WhiteBetweenCycles, Heap
<1>4. SweptWhite'
  BY DEF Lists, SweptWhite, Heap, Sweeping
<1>. QED BY <1>2, <1>3, <1>4 DEF Lists

\* gc_mark: what turns gray is queued
LEMMA ShadedContainers ==
  ASSUME TypeOK, NEW S
  PROVE  /\ {o \in Container : Shaded(S)[o] = "gray"} = {o \in Container : isgray(o)} \cup Queued(S)
         /\ Queued(S) \subseteq Container
         /\ Queued(S) \cap {o \in Container : isgray(o)} = {}
<1>1. \A o \in Container : MarkColour(o) = "gray"
  BY Kinds DEF Container, MarkColour
<1>2. \A o \in Marked(S) : iswhite(o)
  BY DEF Marked
<1>3. Container \subseteq Obj
  BY DEF Container, Obj
<1>. QED BY <1>1, <1>2, <1>3 DEF Shaded, Queued, isgray, iswhite, Container

LEMMA ShadingLists ==
  ASSUME TypeOK, Lists, Marking \/ InAtomic, (Marking \/ InAtomic)',
         NEW S, \A o \in Container : col'[o] = Shaded(S)[o],
         gray' = gray \cup Queued(S), UNCHANGED <<grayagain, weak>>
  PROVE  Lists'
<1>1. {o \in Container : isgray(o)}' = {o \in Container : isgray(o)} \cup Queued(S)
  BY ShadedContainers DEF isgray
<1>2. ListsWhileMarking'
  BY <1>1, ShadedContainers DEF Lists, ListsWhileMarking
<1>3. WhiteBetweenCycles' /\ SweptWhite'
  BY DEF WhiteBetweenCycles, SweptWhite, Sweeping, Marking, InAtomic
<1>. QED BY <1>2, <1>3 DEF Lists

(***************************************************************************)
(* The program                                                             *)
(***************************************************************************)

LEMMA BarrierLists ==
  ASSUME TypeOK, Lists, UNCHANGED <<gcstate, white, unswept, weak>>
  PROVE  /\ \A t \in Tab : barrierback(t) /\ UNCHANGED gray => Lists'
         /\ \A o \in Obj : \A v : barrierf(o, v) /\ UNCHANGED grayagain => Lists'
         /\ UNCHANGED <<col, gray, grayagain>> => Lists'
<1>1. UNCHANGED <<col, gray, grayagain>> => Lists'
  BY KeptLists DEF ContainersKept, listvars
<1>2. ASSUME NEW t \in Tab, barrierback(t), UNCHANGED gray PROVE Lists'
  <2>1. CASE ~isblack(t)
    BY <1>1, <1>2, <2>1 DEF barrierback
  <2>2. CASE isblack(t)
    <3>1. /\ col' = [col EXCEPT ![t] = "gray"] /\ grayagain' = grayagain \cup {t}
          /\ t \in Container /\ t \in Obj /\ col[t] = "black"
      BY <1>2, <2>2 DEF barrierback, isblack, Container, Obj
    <3>2. {o \in Container : isgray(o)}' = {o \in Container : isgray(o)} \cup {t}
      BY <3>1 DEF isgray, TypeOK
    <3>3. t \notin {o \in Container : isgray(o)}
      BY <3>1 DEF isgray
    <3>4. ListsWhileMarking'
      BY <1>2, <3>1, <3>2, <3>3 DEF Lists, ListsWhileMarking, Marking, InAtomic
    <3>5. col[t] # white
      BY <3>1 DEF TypeOK
    <3>6. WhiteBetweenCycles'
      BY <3>1, <3>5 DEF Lists, WhiteBetweenCycles, Heap
    <3>7. SweptWhite'
      BY <3>1, <3>5 DEF Lists, SweptWhite, Sweeping, Heap, TypeOK
    <3>. QED BY <3>4, <3>6, <3>7 DEF Lists
  <2>. QED BY <2>1, <2>2
<1>3. ASSUME NEW o \in Obj, NEW v, barrierf(o, v), UNCHANGED grayagain PROVE Lists'
  <2>1. CASE ~(isblack(o) /\ v \in Obj /\ iswhite(v))
    BY <1>1, <1>3, <2>1 DEF barrierf
  <2>2. CASE isblack(o) /\ v \in Obj /\ iswhite(v) /\ Marking
    <3>1. col' = Shaded({v}) /\ gray' = gray \cup Queued({v})
      BY <1>3, <2>2 DEF barrierf
    <3>2. (Marking \/ InAtomic)'
      BY <2>2 DEF Marking
    <3>. QED BY <1>3, <2>2, <3>1, <3>2, ShadingLists
  <2>3. CASE isblack(o) /\ v \in Obj /\ iswhite(v) /\ ~Marking
    <3>1. col' = [col EXCEPT ![o] = white] /\ gray' = gray
      BY <1>3, <2>3 DEF barrierf
    <3>2. {x \in Container : isgray(x)}' = {x \in Container : isgray(x)}
      BY <2>3, <3>1 DEF isgray, isblack, TypeOK
    <3>3. ListsWhileMarking'
      BY <1>3, <3>1, <3>2 DEF Lists, ListsWhileMarking, Marking, InAtomic
    <3>4. WhiteBetweenCycles' /\ SweptWhite'
      BY <2>3, <3>1
      DEF Lists, WhiteBetweenCycles, SweptWhite, Sweeping, Heap, TypeOK, isblack
    <3>. QED BY <3>3, <3>4 DEF Lists
  <2>. QED BY <2>1, <2>2, <2>3
<1>. QED BY <1>1, <1>2, <1>3

LEMMA AllocLists ==
  ASSUME TypeOK, Lists, NEW i \in Slots
  PROVE  /\ \A t \in Tab : lj_tab_new(t, i) => Lists'
         /\ \A u \in Udata, e \in Tab : lj_udata_new(u, e, i) => Lists'
         /\ \A s \in Str : lj_str_new(s, i) => Lists'
         /\ \A th \in Thread : lj_state_new(th, i) => Lists'
         /\ \A f \in Func, u \in Uv, j \in Slots, e \in Tab :
              lj_func_newL_local(f, u, j, e, i) => Lists'
         /\ \A f, p \in Func : lj_func_newL_inherit(f, p, i) => Lists'
         /\ \A f \in Func, u \in Uv : lj_func_newL_empty(f, u, i) => Lists'
<1>. USE Kinds, KeptLists
     DEF TypeOK, Fresh, ContainersKept, Container, allocvars, listvars, gclists, Obj
<1>1. \A t \in Tab : lj_tab_new(t, i) => Lists'
  BY DEF lj_tab_new
<1>2. \A u \in Udata, e \in Tab : lj_udata_new(u, e, i) => Lists'
  BY DEF lj_udata_new
<1>3. \A s \in Str : lj_str_new(s, i) => Lists'
  BY DEF lj_str_new
<1>4. \A th \in Thread : lj_state_new(th, i) => Lists'
  BY DEF lj_state_new
<1>5. \A f \in Func, u \in Uv, j \in Slots, e \in Tab : lj_func_newL_local(f, u, j, e, i) => Lists'
  BY DEF lj_func_newL_local
<1>6. \A f, p \in Func : lj_func_newL_inherit(f, p, i) => Lists'
  BY DEF lj_func_newL_inherit
<1>7. \A f \in Func, u \in Uv : lj_func_newL_empty(f, u, i) => Lists'
  BY DEF lj_func_newL_empty
<1>. QED BY <1>1, <1>2, <1>3, <1>4, <1>5, <1>6, <1>7

LEMMA StackLists ==
  ASSUME TypeOK, Lists
  PROVE  /\ \A i \in Slots, v \in Obj \cup {Nil} : Move(i, v) => Lists'
         /\ \A n \in 0 .. NS : SetTop(n) => Lists'
         /\ \A th \in Thread : lua_xmove(th) \/ lua_resume(th) => Lists'
         /\ lua_yield \/ TraceEnter => Lists'
         /\ \A v \in Obj : TraceLoad(v) => Lists'
         /\ \A i \in Slots : TraceExit(i) => Lists'
<1>1. UNCHANGED gcvars => Lists'
  BY KeptLists DEF gcvars, gclists, ContainersKept, listvars
<1>. QED
  BY <1>1 DEF Move, SetTop, lua_xmove, lua_resume, lua_yield, TraceEnter, TraceLoad, TraceExit

LEMMA StoreLists ==
  ASSUME TypeOK, Lists
  PROVE  /\ \A t \in Tab, k \in Obj \cup {Prim}, v \in Obj \cup {Prim, Nil} :
              lua_rawset(t, k, v) \/ lua_rawseti(t, v) => Lists'
         /\ \A t \in Tab, m \in SUBSET MetaFields : SetMetaField(t, m) => Lists'
         /\ \A o \in Tab \cup Udata, m \in Tab \cup {Nil} : lua_setmetatable(o, m) => Lists'
         /\ \A m \in Tab \cup {Nil} : lua_setbasemt(m) => Lists'
         /\ \A o \in Func \cup Udata \cup Thread, e \in Tab : lua_setfenv(o, e) => Lists'
         /\ \A f \in Func, v \in Obj \cup {Nil} : USET(f, v) \/ lua_setupvalue(f, v) => Lists'
         /\ \A f, g \in Func : lua_upvaluejoin(f, g) => Lists'
<1>. USE BarrierLists DEF colvars, Obj
<1>1. \A t \in Tab, k \in Obj \cup {Prim}, v \in Obj \cup {Prim, Nil} :
        lua_rawset(t, k, v) \/ lua_rawseti(t, v) => Lists'
  BY DEF lua_rawset, lua_rawseti
<1>2. \A t \in Tab, m \in SUBSET MetaFields : SetMetaField(t, m) => Lists'
  BY DEF SetMetaField
<1>3. \A o \in Tab \cup Udata, m \in Tab \cup {Nil} : lua_setmetatable(o, m) => Lists'
  BY DEF lua_setmetatable
<1>4. \A m \in Tab \cup {Nil} : lua_setbasemt(m) => Lists'
  BY DEF lua_setbasemt, gcvars, gclists
<1>5. \A o \in Func \cup Udata \cup Thread, e \in Tab : lua_setfenv(o, e) => Lists'
  BY DEF lua_setfenv
<1>6. ASSUME NEW f \in Func, NEW v \in Obj \cup {Nil}, USET(f, v) PROVE Lists'
  <2>1. fuv[f] \in Obj
    BY <1>6 DEF USET, TypeOK
  <2>. QED BY <1>6, <2>1 DEF USET
<1>7. \A f \in Func, v \in Obj \cup {Nil} : lua_setupvalue(f, v) => Lists'
  BY DEF lua_setupvalue
<1>8. \A f, g \in Func : lua_upvaluejoin(f, g) => Lists'
  BY DEF lua_upvaluejoin
<1>. QED BY <1>1, <1>2, <1>3, <1>4, <1>5, <1>6, <1>7, <1>8

LEMMA CloseLists ==
  ASSUME TypeOK, Lists, NEW i \in Slots, lj_func_closeuv(i)
  PROVE  Lists'
<1>. DEFINE above == {u \in OpenUvs(cur) : uvix[u] >= i}
            freed == {u \in above : isdead(u)}
            grays == {u \in above \ freed : isgray(u)}
            values == Objs({uvval(u) : u \in grays})
<1>1. \A o \in Container : o \in Obj /\ o \notin freed \cup grays
  BY Kinds DEF OpenUvs, Container, Obj
<1>2. /\ col' = [o \in Obj |-> IF o \in freed THEN "free"
                               ELSE IF o \in grays THEN (IF Marking THEN "black" ELSE white)
                               ELSE IF Marking THEN Shaded(values)[o] ELSE col[o]]
      /\ gray' = IF Marking THEN gray \cup Queued(values) ELSE gray
      /\ UNCHANGED <<gcstate, white, unswept, grayagain, weak>>
  BY DEF lj_func_closeuv, colvars
<1>. HIDE DEF values, freed, grays
<1>3. CASE Marking
  <2>1. (Marking \/ InAtomic)'
    BY <1>2, <1>3 DEF Marking
  <2>. QED BY <1>1, <1>2, <1>3, <2>1, ShadingLists
<1>4. CASE ~Marking
  BY <1>1, <1>2, <1>4, KeptLists DEF ContainersKept, listvars
<1>. QED BY <1>3, <1>4

(***************************************************************************)
(* The collector                                                           *)
(***************************************************************************)

LEMMA MarkLists ==
  ASSUME TypeOK, Lists
  PROVE  /\ gc_mark_start => Lists'
         /\ \A o \in Obj : propagatemark(o) => Lists'
         /\ propagate_end => Lists'
         /\ atomic_mark_uv \/ atomic_weak \/ atomic_grayagain => Lists'
         /\ lj_gc_separateudata => Lists'
<1>1. ASSUME gc_mark_start PROVE Lists'
  <2>1. PICK S : col' = Shaded(S) /\ gray' = Queued(S) /\ grayagain' = {} /\ weak' = {}
    BY <1>1 DEF gc_mark_start
  <2>2. gcstate = "pause" /\ gcstate' = "propagate"
    BY <1>1 DEF gc_mark_start, Paused
  <2>3. {o \in Container : isgray(o)} = {}
    BY <2>2 DEF Lists, WhiteBetweenCycles, isgray, Heap, TypeOK, Container, Obj
  <2>4. {o \in Container : isgray(o)}' = Queued(S)
    BY <2>1, <2>3, ShadedContainers DEF isgray
  <2>. QED
    BY <2>1, <2>2, <2>4 DEF Lists, ListsWhileMarking, WhiteBetweenCycles, SweptWhite, Sweeping
<1>2. ASSUME NEW o \in Obj, propagatemark(o) PROVE Lists'
  <2>. DEFINE isweak == o \in Tab /\ Mode(o) # {}
              S == Trav(o)
  <2>1. /\ col' = [Shaded(S) EXCEPT ![o] = IF isweak \/ o \in Thread THEN "gray" ELSE "black"]
        /\ gray' = (gray \ {o}) \cup Queued(S)
        /\ weak' = IF isweak THEN weak \cup {o} ELSE weak
        /\ grayagain' = IF o \in Thread THEN grayagain \cup {o} ELSE grayagain
        /\ o \in gray
    BY <1>2 DEF propagatemark, First
  <2>2. gcstate' = gcstate /\ (Marking \/ InAtomic)
    BY <1>2 DEF propagatemark, Marking, colvars
  <2>3. o \in Container /\ isgray(o)
    BY <2>1, <2>2 DEF Lists, ListsWhileMarking
  <2>4. {x \in Container : isgray(x)}' =
          (({x \in Container : isgray(x)} \cup Queued(S)) \ {o})
            \cup IF isweak \/ o \in Thread THEN {o} ELSE {}
    <3>. HIDE DEF S, isweak
    <3>. QED BY <2>1, <2>3, ShadedContainers, ShadedType DEF isgray, Container
  <2>5. ~(o \in Tab /\ o \in Thread)
    BY Kinds
  <2>6. ListsWhileMarking'
    <3>. HIDE DEF S
    <3>. QED
      BY <2>1, <2>2, <2>3, <2>4, <2>5, ShadedContainers DEF Lists, ListsWhileMarking
  <2>7. WhiteBetweenCycles' /\ SweptWhite'
    BY <2>2 DEF WhiteBetweenCycles, SweptWhite, Sweeping, Marking, InAtomic
  <2>. QED BY <2>6, <2>7 DEF Lists
<1>3. propagate_end => Lists'
  BY KeptLists
  DEF propagate_end, gclists, Lists, ListsWhileMarking, WhiteBetweenCycles, SweptWhite,
      Sweeping, Marking, InAtomic, isgray
<1>4. ASSUME atomic_mark_uv PROVE Lists'
  <2>1. PICK S : col' = Shaded(S) /\ gray' = gray \cup Queued(S)
    BY <1>4 DEF atomic_mark_uv
  <2>2. (Marking \/ InAtomic) /\ (Marking \/ InAtomic)' /\ UNCHANGED <<grayagain, weak>>
    BY <1>4 DEF atomic_mark_uv, Marking, InAtomic
  <2>. QED BY <2>1, <2>2, ShadingLists
<1>5. ASSUME atomic_weak PROVE Lists'
  <2>1. /\ col' = Shaded(RootsAgain) /\ gray' = weak \cup Queued(RootsAgain) /\ weak' = {}
        /\ gray = {} /\ grayagain' = grayagain
        /\ gcstate = "atomic_uv" /\ gcstate' = "atomic_weak"
    BY <1>5 DEF atomic_weak
  <2>2. {o \in Container : isgray(o)}' = {o \in Container : isgray(o)} \cup Queued(RootsAgain)
    BY <2>1, ShadedContainers DEF isgray
  <2>. QED
    BY <2>1, <2>2, ShadedContainers
    DEF Lists, ListsWhileMarking, WhiteBetweenCycles, SweptWhite, Sweeping, InAtomic
<1>6. atomic_grayagain => Lists'
  BY DEF atomic_grayagain, Lists, ListsWhileMarking, WhiteBetweenCycles, SweptWhite, Sweeping,
         InAtomic, isgray
<1>7. ASSUME lj_gc_separateudata PROVE Lists'
  <2>. DEFINE all == mmudata \cup {u \in Udata : Separable(u) /\ HasGC(u)}
              S == Objs(UNION {{mt[u], env[u]} : u \in all})
  <2>1. /\ all \subseteq Udata
        /\ col' = [o \in Obj |-> IF o \in all THEN "black" ELSE Shaded(S)[o]]
        /\ gray' = gray \cup Queued(S)
    <3>1. all = mmudata \cup {u \in {x \in Udata : Separable(x)} : HasGC(u)}
      OBVIOUS
    <3>. QED BY <1>7, <3>1, Zenon DEF lj_gc_separateudata, TypeOK
  <2>. HIDE DEF all, S
  <2>2. \A o \in Container : col'[o] = Shaded(S)[o]
    BY <2>1, Kinds DEF Container, Obj
  <2>3. (Marking \/ InAtomic) /\ (Marking \/ InAtomic)' /\ UNCHANGED <<grayagain, weak>>
    BY <1>7 DEF lj_gc_separateudata, InAtomic
  <2>. QED BY <2>1, <2>2, <2>3, ShadingLists
<1>. QED BY <1>1, <1>2, <1>3, <1>4, <1>5, <1>6, <1>7

\* the flip, and what lj_gc_fullgc does instead: everything is to be swept
LEMMA SweepStartLists ==
  ASSUME TypeOK, gcstate' = "sweepstring",
         \A o \in Container : o \in Heap' => o \in unswept'
  PROVE  Lists'
BY DEF Lists, ListsWhileMarking, WhiteBetweenCycles, SweptWhite, Marking, InAtomic

LEMMA SweepLists ==
  ASSUME TypeOK, Lists
  PROVE  /\ atomic_end \/ lj_gc_fullgc => Lists'
         /\ \A s \in Str : sweepstring(s) => Lists'
         /\ sweepstring_end => Lists'
         /\ \A o \in Obj : gc_sweep(o) => Lists'
         /\ gc_sweep_end => Lists'
         /\ \A u \in Udata : gc_finalize(u) => Lists'
         /\ gc_finalize_end \/ fullgc_cycle \/ finalizer_error => Lists'
<1>1. Container \cap (Udata \cup Uv \cup Str) = {} /\ Container \subseteq Obj
  BY Kinds DEF Container, Obj
<1>2. ASSUME atomic_end PROVE Lists'
  <2>1. \A o \in Container : o \in Heap' => o \in unswept'
    BY <1>1, <1>2 DEF atomic_end, Heap, TypeOK
  <2>. QED BY <1>2, <2>1, SweepStartLists DEF atomic_end
<1>3. ASSUME lj_gc_fullgc PROVE Lists'
  <2>1. CASE gcstate \in {"pause", "propagate", "atomic"}
    <3>1. \A o \in Container : o \in Heap' => o \in unswept'
      BY <1>1, <1>3, <2>1 DEF lj_gc_fullgc, Heap, TypeOK
    <3>. QED BY <1>3, <2>1, <3>1, SweepStartLists DEF lj_gc_fullgc
  <2>2. CASE ~(gcstate \in {"pause", "propagate", "atomic"})
    BY <1>3, <2>2, KeptLists DEF lj_gc_fullgc, gclists, ContainersKept, listvars
  <2>. QED BY <2>1, <2>2
<1>4. ASSUME NEW s \in Str, sweepstring(s) PROVE Lists'
  <2>1. \A o \in Container : col'[o] = col[o] /\ o # s
    BY <1>1, <1>4 DEF sweepstring, TypeOK
  <2>. QED
    BY <1>4, <2>1
    DEF sweepstring, Lists, ListsWhileMarking, WhiteBetweenCycles, SweptWhite, Sweeping,
        Marking, InAtomic, Heap
<1>5. sweepstring_end => Lists'
  BY DEF sweepstring_end, Lists, ListsWhileMarking, WhiteBetweenCycles, SweptWhite, Sweeping,
         Marking, InAtomic, Heap
<1>6. ASSUME NEW o \in Obj, gc_sweep(o) PROVE Lists'
  <2>1. SweptWith(o) \subseteq Uv
    BY DEF SweptWith, OpenUvs
  <2>2. /\ \A x \in Container : x # o => col'[x] = col[x]
        /\ col'[o] \in {"free", white}
        /\ unswept' = unswept \ {o} /\ gcstate = "sweep" /\ UNCHANGED <<gcstate, white>>
    BY <1>1, <1>6, <2>1 DEF gc_sweep
  <2>. QED
    BY <2>2
    DEF Lists, ListsWhileMarking, WhiteBetweenCycles, SweptWhite, Sweeping, Marking, InAtomic,
        Heap
<1>7. gc_sweep_end => Lists'
  BY DEF gc_sweep_end, Lists, ListsWhileMarking, WhiteBetweenCycles, SweptWhite, Sweeping,
         Marking, InAtomic, Heap
<1>8. ASSUME NEW u \in Udata, gc_finalize(u) PROVE Lists'
  BY <1>1, <1>8, KeptLists DEF gc_finalize, gclists, ContainersKept, listvars, TypeOK
<1>9. gc_finalize_end \/ fullgc_cycle \/ finalizer_error => Lists'
  BY DEF gc_finalize_end, fullgc_cycle, finalizer_error, Lists, ListsWhileMarking,
         WhiteBetweenCycles, SweptWhite, Sweeping, Marking, InAtomic, Heap
<1>. QED BY <1>2, <1>3, <1>4, <1>5, <1>6, <1>7, <1>8, <1>9

LEMMA ListsInit == Init => Lists
BY Kinds, Permanent
DEF Init, Lists, ListsWhileMarking, WhiteBetweenCycles, SweptWhite, Sweeping, Marking, InAtomic,
    Heap, Obj, Container

LEMMA ListsNext == TypeOK /\ Lists /\ [Next]_vars => Lists'
<1>. SUFFICES ASSUME TypeOK, Lists, [Next]_vars PROVE Lists'
  OBVIOUS
<1>1. ASSUME NEW p \in Programs, Mutator(p) PROVE Lists'
  <2>1. /\ p.objs \subseteq Obj /\ p.data \subseteq Obj \cup {Prim}
        /\ p.keys \subseteq Obj \cup {Prim} /\ p.tabs \subseteq Tab /\ p.metas \subseteq Tab
        /\ p.fields \subseteq SUBSET MetaFields /\ p.setuv \subseteq Func
    BY Bounds
  <2>. QED
    BY <1>1, <2>1, AllocLists, StackLists, StoreLists, CloseLists, SweepLists DEF Mutator, Obj
<1>2. CASE Collector
  BY <1>2, MarkLists, SweepLists, Kinds DEF Collector, Obj
<1>3. CASE finalizer_error
  BY <1>3, SweepLists
<1>4. CASE UNCHANGED vars
  BY <1>4, KeptLists DEF ContainersKept, listvars, vars, gcvars, gclists
<1>. QED BY <1>1, <1>2, <1>3, <1>4 DEF Next

\* While marking, the lists of lj_gc.c hold exactly the gray tables, closures and
\* threads, and no object is linked twice: a barrier, a full collection or an
\* allocation never makes one that the collector will not look at again.
THEOREM GrayIsListed == Spec => []ListsConsistent
<1>1. Lists => ListsConsistent
  BY DEF Lists, ListsWhileMarking, ListsConsistent, Container
<1>. QED BY <1>1, TypeCorrect, ListsInit, ListsNext, PTL DEF Spec

(***************************************************************************)
(* Colours and the sweep                                                   *)
(***************************************************************************)


Regular == ColourOK /\ UnsweptOK /\ NoTrace

\* no upvalue is opened or closed, and what a step turns gray or black takes
\* the colour gc_mark would give it
ColoursKept ==
  /\ UNCHANGED uvth
  /\ \A o \in Uv \cup Thread \cup Udata : col'[o] \in {col[o], "free", "w0", "w1", MarkColour(o)}

LEMMA KeptColours ==
  ASSUME TypeOK, ColourOK, ColoursKept
  PROVE  ColourOK'
BY Kinds DEF ColourOK, ColoursKept, MarkColour, isblack, isgray, TypeOK

\* the sweep has nothing more and nothing less to do
SweepKept ==
  /\ UNCHANGED <<gcstate, unswept, mmudata>>
  /\ \A o \in Obj : col[o] # "free" => col'[o] # "free"
  /\ \A u \in Uv : col[u] # "free" => uvth'[u] = uvth[u]

LEMMA KeptUnswept ==
  ASSUME TypeOK, UnsweptOK, SweepKept
  PROVE  UnsweptOK'
BY DEF TypeOK, UnsweptOK, SweepKept, Sweeping, Heap, Obj

LEMMA KeptNoTrace ==
  ASSUME NoTrace, UNCHANGED gcstate, UNCHANGED jit \/ ~InAtomic
  PROVE  NoTrace'
BY DEF NoTrace, InAtomic

\* shading leaves colours that MarkColour allows, and frees nothing
LEMMA ShadedColours ==
  ASSUME TypeOK, NEW S, NEW o \in Obj
  PROVE  Shaded(S)[o] \in {col[o], MarkColour(o)}
BY DEF Shaded

\* only a closure leads gc_mark to an upvalue
LEMMA ShadedUvs ==
  ASSUME TypeOK, NEW S, S \cap Uv = {}
  PROVE  \A u \in Uv : Shaded(S)[u] = col[u]
<1>1. \A w \in Uv : uvval(w) \notin Uv
  BY UvvalType, Kinds DEF Val, Obj
<1>2. \A o \in Tab \cup Udata : mt[o] \notin Uv
  BY Kinds DEF TypeOK, Obj
<1>3. \A o \in Udata : env[o] \notin Uv
  BY Kinds DEF TypeOK, Obj
<1>4. Marked(S) \cap Uv = {}
  BY <1>1, <1>2, <1>3 DEF Marked, Objs
<1>. QED BY <1>4 DEF Shaded, Obj

LEMMA BarrierColours ==
  ASSUME TypeOK, UNCHANGED uvth
  PROVE  /\ \A t \in Tab : barrierback(t) => ColoursKept
         /\ \A o \in Obj : \A v : barrierf(o, v) => ColoursKept
         /\ UNCHANGED col => ColoursKept
<1>1. ASSUME NEW t \in Tab, barrierback(t) PROVE ColoursKept
  <2>1. \A o \in Uv \cup Thread \cup Udata : o # t
    BY Kinds
  <2>. QED BY <1>1, <2>1 DEF barrierback, ColoursKept, TypeOK, Obj
<1>2. ASSUME NEW o \in Obj, NEW v, barrierf(o, v) PROVE ColoursKept
  <2>1. \/ col' = col \/ col' = Shaded({v}) \/ col' = [col EXCEPT ![o] = white]
    BY <1>2 DEF barrierf
  <2>2. \A x \in Uv \cup Thread \cup Udata : x \in Obj
    BY DEF Obj
  <2>. QED BY <2>1, <2>2, ShadedColours DEF ColoursKept, TypeOK
<1>3. UNCHANGED col => ColoursKept
  BY DEF ColoursKept
<1>. QED BY <1>1, <1>2, <1>3

(***************************************************************************)
(* The program                                                             *)
(***************************************************************************)

LEMMA KeptRegular ==
  ASSUME TypeOK, Regular, ColoursKept, SweepKept, UNCHANGED jit \/ ~InAtomic
  PROVE  Regular'
BY KeptColours, KeptUnswept, KeptNoTrace DEF Regular, SweepKept

\* func_finduv: an upvalue that it opens is new and white
LEMMA LocalColours ==
  ASSUME TypeOK, UvInv, Regular, NEW i \in Slots, NEW f \in Func, NEW u \in Uv, NEW j \in Slots,
         NEW e \in Tab, lj_func_newL_local(f, u, j, e, i)
  PROVE  Regular'
<1>1. /\ \A w \in Uv : col[w] # "free" => uvth'[w] = uvth[w]
      /\ \A w \in Uv : w # u => uvth'[w] = uvth[w]
      /\ uvth[u] = Closed => col[u] = "free"
  BY Permanent, Kinds DEF lj_func_newL_local, func_finduv, OpenUvs, UvInv, OpenAllocated, Heap, TypeOK, Obj
<1>2. /\ \A o \in Obj : o # f /\ o # u => col'[o] = col[o]
      /\ col'[f] = white /\ col'[u] = Reborn(u)
      /\ UNCHANGED <<gcstate, unswept, mmudata, jit>>
  BY Kinds DEF lj_func_newL_local, allocvars, TypeOK, Obj
<1>3. /\ uvth[u] = Closed => col'[u] = white
      /\ col'[u] \in {white, col[u]} /\ white \in {"w0", "w1"}
  BY <1>1, <1>2 DEF Reborn, TypeOK
<1>4. SweepKept
  BY <1>1, <1>2, <1>3 DEF SweepKept
<1>5. ColourOK'
  <2>1. \A o \in Uv \cup Thread \cup Udata : o # u => col'[o] = col[o]
    BY <1>2, Kinds DEF Obj
  <2>. QED BY <1>1, <1>3, <2>1, Kinds DEF Regular, ColourOK, isblack, isgray
<1>. QED BY <1>2, <1>4, <1>5, KeptUnswept, KeptNoTrace DEF Regular

LEMMA AllocColours ==
  ASSUME TypeOK, UvInv, Regular, NEW i \in Slots
  PROVE  /\ \A t \in Tab : lj_tab_new(t, i) => Regular'
         /\ \A u \in Udata, e \in Tab : lj_udata_new(u, e, i) => Regular'
         /\ \A s \in Str : lj_str_new(s, i) => Regular'
         /\ \A th \in Thread : lj_state_new(th, i) => Regular'
         /\ \A f \in Func, u \in Uv, j \in Slots, e \in Tab :
              lj_func_newL_local(f, u, j, e, i) => Regular'
         /\ \A f, p \in Func : lj_func_newL_inherit(f, p, i) => Regular'
         /\ \A f \in Func, u \in Uv : lj_func_newL_empty(f, u, i) => Regular'
<1>. USE Kinds, KeptRegular
     DEF TypeOK, Fresh, Reborn, ColoursKept, SweepKept, allocvars, graph, Obj
<1>1. \A t \in Tab : lj_tab_new(t, i) => Regular'
  BY DEF lj_tab_new
<1>2. \A u \in Udata, e \in Tab : lj_udata_new(u, e, i) => Regular'
  BY DEF lj_udata_new
<1>3. \A s \in Str : lj_str_new(s, i) => Regular'
  BY DEF lj_str_new
<1>4. \A th \in Thread : lj_state_new(th, i) => Regular'
  BY DEF lj_state_new
<1>5. \A f \in Func, u \in Uv, j \in Slots, e \in Tab :
        lj_func_newL_local(f, u, j, e, i) => Regular'
  BY LocalColours
<1>6. \A f, p \in Func : lj_func_newL_inherit(f, p, i) => Regular'
  BY DEF lj_func_newL_inherit
<1>7. ASSUME NEW f \in Func, NEW u \in Uv, lj_func_newL_empty(f, u, i) PROVE Regular'
  <2>1. /\ \A o \in Obj : o # f /\ o # u => col'[o] = col[o]
        /\ col'[f] = white /\ col'[u] = white
        /\ UNCHANGED <<gcstate, unswept, mmudata, jit, uvth>>
    BY <1>7 DEF lj_func_newL_empty
  <2>. QED BY <2>1
<1>. QED BY <1>1, <1>2, <1>3, <1>4, <1>5, <1>6, <1>7

LEMMA StackColours ==
  ASSUME TypeOK, Regular
  PROVE  /\ \A i \in Slots, v \in Obj \cup {Nil} : Move(i, v) => Regular'
         /\ \A n \in 0 .. NS : SetTop(n) => Regular'
         /\ \A th \in Thread : lua_xmove(th) \/ lua_resume(th) => Regular'
         /\ lua_yield \/ TraceEnter => Regular'
         /\ \A v \in Obj : TraceLoad(v) => Regular'
         /\ \A i \in Slots : TraceExit(i) => Regular'
<1>1. UNCHANGED <<gcvars, uvth>> /\ (UNCHANGED jit \/ ~InAtomic) => Regular'
  BY KeptRegular DEF gcvars, ColoursKept, SweepKept
<1>. QED
  BY <1>1 DEF Move, SetTop, lua_xmove, lua_resume, lua_yield, TraceEnter, TraceLoad, TraceExit,
              graph, Running

LEMMA StoreColours ==
  ASSUME TypeOK, Regular
  PROVE  /\ \A t \in Tab, k \in Obj \cup {Prim}, v \in Obj \cup {Prim, Nil} :
              lua_rawset(t, k, v) \/ lua_rawseti(t, v) => Regular'
         /\ \A t \in Tab, m \in SUBSET MetaFields : SetMetaField(t, m) => Regular'
         /\ \A o \in Tab \cup Udata, m \in Tab \cup {Nil} : lua_setmetatable(o, m) => Regular'
         /\ \A m \in Tab \cup {Nil} : lua_setbasemt(m) => Regular'
         /\ \A o \in Func \cup Udata \cup Thread, e \in Tab : lua_setfenv(o, e) => Regular'
         /\ \A f \in Func, v \in Obj \cup {Nil} : USET(f, v) \/ lua_setupvalue(f, v) => Regular'
         /\ \A f, g \in Func : lua_upvaluejoin(f, g) => Regular'
<1>. DEFINE Store == UNCHANGED <<colvars, uvth, uvix, jit>>
<1>1. \A t \in Tab : Store /\ barrierback(t) => Regular'
  BY KeptRegular, BarrierColours, BarriersFreeNone DEF SweepKept, UvsKept, colvars, barrierback, TypeOK, Obj
<1>2. \A o \in Obj : \A v : Store /\ barrierf(o, v) => Regular'
  <2>. SUFFICES ASSUME NEW o \in Obj, NEW v, Store, barrierf(o, v) PROVE Regular'
    OBVIOUS
  <2>1. col' = col \/ col' = Shaded({v}) \/ col' = [col EXCEPT ![o] = white]
    BY DEF barrierf
  <2>2. \A x \in Obj : col[x] # "free" => col'[x] # "free"
    BY <2>1, ShadedFreesNone DEF TypeOK
  <2>3. ColoursKept
    BY BarrierColours
  <2>. QED BY <2>2, <2>3, KeptRegular DEF SweepKept, colvars
<1>3. Store /\ UNCHANGED col => Regular'
  BY KeptRegular, BarrierColours DEF SweepKept, colvars
<1>. HIDE DEF Store
<1>. USE <1>1, <1>2, <1>3 DEF Store, thvars, Obj
<1>4. \A t \in Tab, k \in Obj \cup {Prim}, v \in Obj \cup {Prim, Nil} :
        lua_rawset(t, k, v) \/ lua_rawseti(t, v) => Regular'
  BY DEF lua_rawset, lua_rawseti
<1>5. \A t \in Tab, m \in SUBSET MetaFields : SetMetaField(t, m) => Regular'
  BY DEF SetMetaField
<1>6. \A o \in Tab \cup Udata, m \in Tab \cup {Nil} : lua_setmetatable(o, m) => Regular'
  BY DEF lua_setmetatable
<1>7. \A m \in Tab \cup {Nil} : lua_setbasemt(m) => Regular'
  BY DEF lua_setbasemt, gcvars, graph, colvars
<1>8. \A o \in Func \cup Udata \cup Thread, e \in Tab : lua_setfenv(o, e) => Regular'
  BY DEF lua_setfenv
<1>9. ASSUME NEW f \in Func, NEW v \in Obj \cup {Nil}, USET(f, v) PROVE Regular'
  <2>1. fuv[f] \in Obj
    BY <1>9 DEF USET, TypeOK
  <2>. QED BY <1>9, <2>1 DEF USET
<1>10. \A f \in Func, v \in Obj \cup {Nil} : lua_setupvalue(f, v) => Regular'
  BY DEF lua_setupvalue
<1>11. \A f, g \in Func : lua_upvaluejoin(f, g) => Regular'
  BY DEF lua_upvaluejoin
<1>. QED BY <1>4, <1>5, <1>6, <1>7, <1>8, <1>9, <1>10, <1>11

LEMMA CloseColours ==
  ASSUME TypeOK, UvInv, Regular, NEW i \in Slots, lj_func_closeuv(i)
  PROVE  Regular'
<1>. DEFINE above == {u \in OpenUvs(cur) : uvix[u] >= i}
            freed == {u \in above : isdead(u)}
            grays == {u \in above \ freed : isgray(u)}
            values == Objs({uvval(u) : u \in grays})
<1>1. /\ col' = [o \in Obj |-> IF o \in freed THEN "free"
                               ELSE IF o \in grays THEN (IF Marking THEN "black" ELSE white)
                               ELSE IF Marking THEN Shaded(values)[o] ELSE col[o]]
      /\ uvth' = [u \in Uv |-> IF u \in above THEN Closed ELSE uvth[u]]
      /\ UNCHANGED <<gcstate, unswept, mmudata, jit>>
  <2>1. (above \ freed) \cup freed = above
    OBVIOUS
  <2>. QED BY <2>1 DEF lj_func_closeuv, CloseUvs, colvars, thvars
<1>2. /\ above \subseteq Uv /\ freed \subseteq above /\ grays \subseteq above
      /\ \A u \in above : uvth[u] # Closed
      /\ \A u \in above \ grays : col[u] # "gray"
  BY Permanent, Kinds DEF OpenUvs, isgray, isdead, otherwhite, TypeOK, Obj
<1>3. /\ \A o \in Obj : Shaded(values)[o] \in {col[o], MarkColour(o)}
      /\ \A o \in Obj : Shaded(values)[o] = "free" <=> col[o] = "free"
      /\ \A u \in Uv : Shaded(values)[u] = col[u]
  <2>1. values \cap Uv = {}
    BY UvvalType, <1>2, Kinds DEF Objs, Val, Obj
  <2>. HIDE DEF values
  <2>. QED BY <2>1, ShadedColours, ShadedFreesNone, ShadedUvs
<1>. HIDE DEF above, freed, grays, values
<1>4. ColourOK'
  <2>1. \A u \in Uv : uvth'[u] # Closed => ~isblack(u)'
    BY <1>1, <1>2, <1>3 DEF Regular, ColourOK, isblack, MarkColour, Obj
  <2>2. \A u \in Uv : uvth'[u] = Closed => ~isgray(u)'
    BY <1>1, <1>2, <1>3 DEF Regular, ColourOK, isgray, MarkColour, Obj, TypeOK
  <2>3. /\ \A th \in Thread : ~isblack(th)'
        /\ \A u \in Udata : ~isgray(u)'
    BY <1>1, <1>2, <1>3, Kinds DEF Regular, ColourOK, isblack, isgray, MarkColour, Obj
  <2>. QED BY <2>1, <2>2, <2>3 DEF ColourOK
<1>5. UnsweptOK'
  <2>1. \A o \in unswept : o \notin above
    BY <1>2 DEF Regular, UnsweptOK
  <2>2. \A o \in unswept : o \in Obj /\ col'[o] # "free"
    BY <1>1, <1>2, <1>3, <2>1 DEF Regular, UnsweptOK, Heap
  <2>. QED BY <1>1, <2>1, <2>2 DEF Regular, UnsweptOK, Sweeping, Heap
<1>. QED BY <1>1, <1>4, <1>5, KeptNoTrace DEF Regular

(***************************************************************************)
(* The collector                                                           *)
(***************************************************************************)

LEMMA ShadingColours ==
  ASSUME TypeOK, NEW S, UNCHANGED uvth, \A o \in Uv \cup Thread \cup Udata : col'[o] = Shaded(S)[o]
  PROVE  ColoursKept
BY ShadedColours DEF ColoursKept, Obj

\* the sweep has not begun
LEMMA UnsweptMarking ==
  ASSUME UnsweptOK, ~Sweeping, UNCHANGED unswept
  PROVE  UnsweptOK'
BY DEF UnsweptOK

LEMMA MarkColours ==
  ASSUME TypeOK, Lists, Regular
  PROVE  /\ gc_mark_start => Regular'
         /\ \A o \in Obj : propagatemark(o) => Regular'
         /\ propagate_end => Regular'
         /\ atomic_mark_uv \/ atomic_weak \/ atomic_grayagain => Regular'
         /\ lj_gc_separateudata => Regular'
<1>. USE UnsweptMarking DEF Regular, Sweeping
<1>1. ASSUME gc_mark_start PROVE Regular'
  <2>1. PICK S : col' = Shaded(S)
    BY <1>1 DEF gc_mark_start
  <2>. QED
    BY <1>1, <2>1, ShadingColours, KeptColours DEF gc_mark_start, Paused, graph, NoTrace, InAtomic
<1>2. ASSUME NEW o \in Obj, propagatemark(o) PROVE Regular'
  <2>1. /\ \A x \in Obj : x # o => col'[x] = Shaded(Trav(o))[x]
        /\ o \in Thread => col'[o] = "gray"
        /\ o \in gray /\ (Marking \/ InAtomic)
        /\ UNCHANGED <<gcstate, unswept, uvth, jit>>
    BY <1>2, ShadedType DEF propagatemark, First, Marking, colvars, graph
  <2>2. o \notin Uv \cup Udata
    BY <2>1, Kinds DEF Lists, ListsWhileMarking, Container
  <2>3. \A x \in Uv \cup Thread \cup Udata : x # o => col'[x] = Shaded(Trav(o))[x]
    BY <2>1 DEF Obj
  <2>4. o \in Thread => MarkColour(o) = "gray"
    BY Kinds DEF MarkColour
  <2>5. ColoursKept
    BY <2>1, <2>2, <2>3, <2>4, ShadedColours DEF ColoursKept, Obj
  <2>. QED BY <2>1, <2>5, KeptColours DEF NoTrace, InAtomic, Marking
<1>3. propagate_end => Regular'
  BY KeptColours DEF propagate_end, graph, NoTrace, InAtomic, ColoursKept
<1>4. ASSUME atomic_mark_uv \/ atomic_weak \/ atomic_grayagain PROVE Regular'
  <2>1. ColoursKept
    BY <1>4, ShadingColours DEF atomic_mark_uv, atomic_weak, atomic_grayagain, graph, ColoursKept
  <2>. QED
    BY <1>4, <2>1, KeptColours
    DEF atomic_mark_uv, atomic_weak, atomic_grayagain, thvars, NoTrace, InAtomic
<1>5. ASSUME lj_gc_separateudata PROVE Regular'
  <2>1. PICK all, S : /\ all = mmudata \cup {u \in {x \in Udata : Separable(x)} : HasGC(u)}
                      /\ col' = [o \in Obj |-> IF o \in all THEN "black" ELSE Shaded(S)[o]]
    BY <1>5, Zenon DEF lj_gc_separateudata
  <2>2. all \subseteq Udata
    BY <2>1 DEF TypeOK
  <2>3. ColoursKept
    <3>1. \A o \in all : MarkColour(o) = "black"
      BY <2>2 DEF MarkColour
    <3>2. UNCHANGED uvth
      BY <1>5 DEF lj_gc_separateudata, graph
    <3>. QED BY <2>1, <3>1, <3>2, ShadedColours DEF ColoursKept, Obj
  <2>. QED BY <1>5, <2>3, KeptColours DEF lj_gc_separateudata, thvars, NoTrace, InAtomic
<1>. QED BY <1>1, <1>2, <1>3, <1>4, <1>5

LEMMA SweepColours ==
  ASSUME TypeOK, UvInv, Regular, PendingLive
  PROVE  /\ atomic_end \/ lj_gc_fullgc => Regular'
         /\ \A s \in Str : sweepstring(s) => Regular'
         /\ sweepstring_end => Regular'
         /\ \A o \in Obj : gc_sweep(o) => Regular'
         /\ gc_sweep_end => Regular'
         /\ \A u \in Udata : gc_finalize(u) => Regular'
         /\ gc_finalize_end \/ fullgc_cycle \/ finalizer_error => Regular'
<1>. USE DEF Regular
<1>1. ASSUME atomic_end PROVE Regular'
  <2>1. ColoursKept
    BY <1>1, Kinds DEF atomic_end, ColoursKept, Obj
  <2>2. UnsweptOK'
    BY <1>1 DEF atomic_end, UnsweptOK, Sweeping, Heap, TypeOK
  <2>. QED BY <1>1, <2>1, <2>2, KeptColours DEF atomic_end, NoTrace, InAtomic
<1>2. ASSUME lj_gc_fullgc PROVE Regular'
  <2>1. ColoursKept
    BY <1>2 DEF lj_gc_fullgc, ColoursKept, graph
  <2>2. UnsweptOK'
    BY <1>2 DEF lj_gc_fullgc, UnsweptOK, Sweeping, Heap, graph
  <2>. QED BY <1>2, <2>1, <2>2, KeptColours DEF lj_gc_fullgc, NoTrace, InAtomic, thvars
<1>3. ASSUME NEW s \in Str, sweepstring(s) PROVE Regular'
  <2>1. \A o \in Obj : o # s => col'[o] = col[o]
    BY <1>3 DEF sweepstring, TypeOK
  <2>2. ColoursKept
    BY <1>3, <2>1, Kinds DEF sweepstring, ColoursKept, graph, Obj
  <2>3. UnsweptOK'
    BY <1>3, <2>1 DEF sweepstring, UnsweptOK, Sweeping, Heap, graph, TypeOK
  <2>. QED BY <1>3, <2>2, <2>3, KeptColours DEF sweepstring, NoTrace, InAtomic, thvars
<1>4. ASSUME NEW o \in Obj, gc_sweep(o) PROVE Regular'
  <2>. DEFINE uvs == SweptWith(o)
              freed == {u \in uvs \cup {o} : isdead(u)}
  <2>1. /\ col' = [x \in Obj |-> IF x \in freed THEN "free"
                                 ELSE IF x \in uvs \cup {o} THEN white ELSE col[x]]
        /\ o \in unswept /\ unswept' = unswept \ {o}
        /\ UNCHANGED <<gcstate, mmudata, jit>> /\ gcstate = "sweep"
    BY <1>4 DEF gc_sweep, First
  <2>2. CloseUvs(IF o \in freed THEN uvs \ freed ELSE {}, freed \cap Uv)
    BY <1>4 DEF gc_sweep
  <2>3. /\ \A u \in uvs : u \in Uv /\ uvth[u] # Closed
        /\ freed \subseteq uvs \cup {o}
    BY Kinds DEF SweptWith, OpenUvs, TypeOK, Obj
  <2>. HIDE DEF uvs, freed
  <2>4. \A u \in Uv : uvth'[u] = uvth[u] \/ (uvth'[u] = Closed /\ u \in uvs \cup {o})
    BY <2>2, <2>3 DEF CloseUvs
  <2>5. ColourOK'
    BY <2>1, <2>4, Kinds DEF ColourOK, isblack, isgray, TypeOK, Obj
  <2>6. UnsweptOK'
    <3>1. \A x \in unswept' : x \notin uvs \cup {o}
      BY <2>1, <2>3 DEF UnsweptOK
    <3>2. \A x \in unswept' : x \in Obj /\ col'[x] = col[x]
      BY <2>1, <2>3, <3>1 DEF UnsweptOK, Heap
    <3>. QED BY <2>1, <2>4, <3>1, <3>2 DEF UnsweptOK, Sweeping, Heap
  <2>. QED BY <2>1, <2>5, <2>6 DEF NoTrace, InAtomic
<1>5. ASSUME sweepstring_end \/ gc_sweep_end \/ gc_finalize_end \/ fullgc_cycle \/ finalizer_error
      PROVE  Regular'
  <2>1. /\ UNCHANGED <<col, unswept, mmudata, uvth, jit>>
        /\ ~InAtomic' /\ ((Sweeping /\ Sweeping') \/ unswept = {})
    BY <1>5
    DEF sweepstring_end, gc_sweep_end, gc_finalize_end, fullgc_cycle, finalizer_error, graph,
        thvars, InAtomic, UnsweptOK, Sweeping
  <2>. QED
    BY <2>1, KeptColours DEF ColoursKept, UnsweptOK, NoTrace, Heap
<1>6. ASSUME NEW u \in Udata, gc_finalize(u) PROVE Regular'
  <2>1. \A o \in Obj : o # u => col'[o] = col[o]
    BY <1>6 DEF gc_finalize, TypeOK
  <2>2. ColoursKept
    BY <1>6, <2>1, Kinds DEF gc_finalize, ColoursKept, graph, Obj, TypeOK
  <2>. QED
    BY <1>6, <2>2, KeptColours
    DEF gc_finalize, UnsweptOK, Sweeping, NoTrace, InAtomic, TypeOK
<1>. QED BY <1>1, <1>2, <1>3, <1>4, <1>5, <1>6

LEMMA RegularInit == Init => Regular
BY Permanent
DEF Init, Regular, ColourOK, UnsweptOK, NoTrace, Sweeping, InAtomic, isblack, isgray, Obj, Heap

LEMMA RegularNext == TypeOK /\ UvInv /\ Lists /\ PendingLive /\ Regular /\ [Next]_vars => Regular'
<1>. SUFFICES ASSUME TypeOK, UvInv, Lists, PendingLive, Regular, [Next]_vars PROVE Regular'
  OBVIOUS
<1>1. ASSUME NEW p \in Programs, Mutator(p) PROVE Regular'
  <2>1. /\ p.objs \subseteq Obj /\ p.data \subseteq Obj \cup {Prim}
        /\ p.keys \subseteq Obj \cup {Prim} /\ p.tabs \subseteq Tab /\ p.metas \subseteq Tab
        /\ p.fields \subseteq SUBSET MetaFields /\ p.setuv \subseteq Func
    BY Bounds
  <2>. QED
    BY <1>1, <2>1, AllocColours, StackColours, StoreColours, CloseColours, SweepColours
    DEF Mutator, Obj
<1>2. CASE Collector
  BY <1>2, MarkColours, SweepColours, Kinds DEF Collector, Obj
<1>3. CASE finalizer_error
  BY <1>3, SweepColours
<1>4. CASE UNCHANGED vars
  BY <1>4, KeptRegular DEF ColoursKept, SweepKept, vars, gcvars, graph, thvars
<1>. QED BY <1>1, <1>2, <1>3, <1>4 DEF Next
=============================================================================
