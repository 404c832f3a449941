-------------------------------- MODULE LJGC --------------------------------
(***************************************************************************)
(* The incremental, tri-colour, two-white garbage collector of lj_gc.c     *)
(* and the mutator operations that it has to survive: allocation, stores   *)
(* with their write barriers, upvalues, metatables and environments,       *)
(* coroutines, interned strings, __gc finalizers, and values that machine  *)
(* code holds in registers only.                                           *)
(*                                                                         *)
(* One GC action is one gc_onestep(), or one part of it: atomic() is cut   *)
(* at its propagation loops, and no mutator action is enabled in between.  *)
(* gc_onestep() runs between any two mutator actions (lj_gc_check is       *)
(* reached by every allocation, and collectgarbage("step") anywhere).      *)
(*                                                                         *)
(* An operator whose comment starts with "Wrong:" is not part of the       *)
(* model: it is a plausible mistake in the definition that follows, which  *)
(* the properties below must notice.                                       *)
(***************************************************************************)
EXTENDS Naturals, FiniteSets

CONSTANTS
  Tab, Func, Uv, Thread, Udata, Str,  \* the object identities of each kind
  Main, Reg, Glob,   \* main thread, registry table, the main thread's first environment
  Nil, Prim,         \* nil, and every other value that is not collectable
  Off, Closed,       \* "not on a trace", "not an open upvalue"
  NS,                \* bound: slots of each stack
  MaxEnt,            \* bound: entries of each table
  Rank,              \* bound: the lists deliver objects of lower rank first
  Programs           \* bounds on what programs do, see Bounds and Mutator

Obj == Tab \cup Func \cup Uv \cup Thread \cup Udata \cup Str
Slots == 1 .. NS
MetaFields == {"k", "v", "gc"}  \* __mode contains k, contains v; there is a __gc

ASSUME Kinds ==
  /\ Tab \cap (Func \cup Uv \cup Thread \cup Udata \cup Str) = {}
  /\ Func \cap (Uv \cup Thread \cup Udata \cup Str) = {}
  /\ Uv \cap (Thread \cup Udata \cup Str) = {}
  /\ Thread \cap (Udata \cup Str) = {}
  /\ Udata \cap Str = {}
  /\ Obj \cap {Nil, Prim, Off, Closed} = {}
  /\ Nil # Prim /\ Nil # Off /\ Prim # Off
ASSUME Permanent == Main \in Thread /\ {Reg, Glob} \subseteq Tab
ASSUME Bounds ==
  /\ NS \in Nat \ {0} /\ MaxEnt \in Nat /\ Rank \in [Obj -> Nat]
  /\ Programs \subseteq
       [objs : SUBSET Obj,            \* the objects they create
        data : SUBSET (Obj \cup {Prim}), keys : SUBSET (Obj \cup {Prim}),
                                      \* the values they handle, those used as keys
        tabs : SUBSET Tab,            \* the tables they fill
        metas : SUBSET Tab,           \* those they use as metatables and environments
        fields : SUBSET SUBSET MetaFields,  \* the metafields they give to them
        setuv : SUBSET Func,          \* the closures they hand to debug.setupvalue
        ops : SUBSET {"chunk", "join", "thread", "trace", "rawseti", "basemt", "setmt",
                      "setfenv", "fullgc"}]  \* the operations they use besides

VARIABLES
  \* global_State.gc
  gcstate,    \* gc.state; "atomic..." are the points inside atomic()
  white,      \* gc.currentwhite
  col,        \* gch.marked of each object, "free" when it is not allocated
  gray, grayagain, weak,  \* the lists linked by gclist
  unswept,    \* what the sweep pointer has not passed yet
  mmudata,    \* gc.mmudata: userdata whose finalizer is due
  fin,        \* userdata with LJ_GC_FINALIZED
  full,       \* lj_gc_fullgc is running: "no", "finish" the sweep, or the "cycle"
  \* the object graph
  mt, env, ent, meta,   \* metatable, environment, table entries, metafields
  fuv,                  \* the upvalue of a closure
  uvth, uvix, uval,     \* thread and slot of an open upvalue, value of a closed one
  stk, top,             \* stack slots and top of each thread
  basemt,               \* g->gcroot: a base metatable
  cur,                  \* g->cur_L, the running thread
  jit                   \* g->jit_base: Off, or the value only a register holds

gclists == <<gray, grayagain, weak>>
gcvars == <<gcstate, white, col, gclists, unswept, mmudata, fin, full>>
graph == <<mt, env, ent, meta, fuv, uvth, uvix, uval>>
thvars == <<stk, top, basemt, cur, jit>>
vars == <<gcvars, graph, thvars>>

-----------------------------------------------------------------------------
(* Colours (lj_gc.h) *)

otherwhite == IF white = "w0" THEN "w1" ELSE "w0"
iswhite(o) == col[o] \in {"w0", "w1"}
isblack(o) == col[o] = "black"
isgray(o) == col[o] = "gray"
isdead(o) == col[o] = otherwhite
Heap == {o \in Obj : col[o] # "free"}
Live == {o \in Heap : ~isdead(o)}

\* inside atomic(): the collector owns the heap
InAtomic == gcstate \in {"atomic_uv", "atomic_weak", "atomic_again", "atomic_ud"}
\* the mutator may see these two; stores have to keep the tri-colour invariant
Marking == gcstate \in {"propagate", "atomic"}

uvval(u) == IF uvth[u] = Closed THEN uval[u] ELSE stk[uvth[u]][uvix[u]]
OpenUvs(th) == {u \in Uv : uvth[u] = th}
LiveSlots(th) == {stk[th][i] : i \in {j \in Slots : j <= top[th]}}
Objs(S) == S \cap Obj     \* the collectable values of a set of values

\* what gc_mark() turns gray or black when asked to mark the set S: the white
\* ones, the values of the upvalues among them, the tables of the userdata
Marked(S) ==
  LET whites == {o \in S : iswhite(o)}
      values == {o \in Objs({uvval(u) : u \in whites \cap Uv}) : iswhite(o)}
      ud == (whites \cup values) \cap Udata
      tabs == {o \in Objs(UNION {{mt[u], env[u]} : u \in ud}) : iswhite(o)}
  IN  whites \cup values \cup tabs

\* userdata and closed upvalues go black at once, all others gray
MarkColour(o) ==
  IF o \in Udata \/ (o \in Uv /\ uvth[o] = Closed) THEN "black" ELSE "gray"
Shaded(S) == [o \in Obj |-> IF o \in Marked(S) THEN MarkColour(o) ELSE col[o]]
\* strings, upvalues and userdata have nothing left to traverse
Queued(S) == Marked(S) \cap (Tab \cup Func \cup Thread)

Mode(t) == IF mt[t] = Nil THEN {} ELSE meta[mt[t]] \cap {"k", "v"}
HasGC(u) == mt[u] # Nil /\ "gc" \in meta[mt[u]]
Keys(t) == {e[1] : e \in ent[t]}
Vals(t) == {e[2] : e \in ent[t]}

\* what a traversal of o marks: gc_traverse_tab, _func, _thread
Trav(o) ==
  Objs(CASE o \in Tab -> {mt[o]} \cup (IF "k" \in Mode(o) THEN {} ELSE Keys(o))
                                 \cup (IF "v" \in Mode(o) THEN {} ELSE Vals(o))
         [] o \in Func -> {env[o], fuv[o]}
         [] o \in Thread -> {env[o]} \cup LiveSlots(o)
         [] OTHER -> {})

\* every pointer an object holds, weak ones and stale stack slots included
Refs(o) ==
  Objs(CASE o \in Tab -> {mt[o]} \cup Keys(o) \cup Vals(o)
         [] o \in Func -> {env[o], fuv[o]}
         [] o \in Thread -> {env[o]} \cup {stk[o][i] : i \in Slots}
         [] o \in Udata -> {mt[o], env[o]}
         [] o \in Uv -> {uvval(o)}
         [] OTHER -> {})

Roots == Objs({Main, Reg, basemt, cur, jit})

\* what a list may deliver next: gclist is last in, first out, and new objects
\* go to the front of gc.root, so the oldest come last.  Objects of one rank
\* come in any order.
First(list) == {o \in list : \A p \in list : Rank[o] <= Rank[p]}

-----------------------------------------------------------------------------
(* What the running thread can name: its live registers and roots, and     *)
(* whatever one load from them yields.                                     *)

Held == Objs(LiveSlots(cur) \cup {Main, Reg, env[cur], basemt, jit, cur})
Loads(o) ==
  Objs(CASE o \in Tab -> {mt[o]} \cup Keys(o) \cup Vals(o)
         [] o \in Func -> {env[o]} \cup (IF fuv[o] = Nil THEN {} ELSE {uvval(fuv[o])})
         [] o \in Udata -> {mt[o], env[o]}
         [] o \in Thread -> {env[o]} \cup LiveSlots(o)
         [] OTHER -> {})
Avail == Held \cup UNION {Loads(o) : o \in Held}

\* Lua or C code runs: not inside atomic(), not under lj_gc_fullgc unless it
\* has reached the phase that calls finalizers
Running == ~InAtomic /\ (full = "no" \/ (full = "cycle" /\ gcstate = "finalize"))

Init ==
  /\ gcstate = "pause" /\ white = "w0" /\ full = "no"
  /\ col = [o \in Obj |-> IF o \in {Main, Reg, Glob} THEN "w0" ELSE "free"]
  /\ gray = {} /\ grayagain = {} /\ weak = {} /\ unswept = {}
  /\ mmudata = {} /\ fin = {}
  /\ mt = [o \in Tab \cup Udata |-> Nil]
  /\ env = [o \in Func \cup Udata \cup Thread |-> IF o = Main THEN Glob ELSE Nil]
  /\ ent = [t \in Tab |-> {}] /\ meta = [t \in Tab |-> {}]
  /\ fuv = [f \in Func |-> Nil]
  /\ uvth = [u \in Uv |-> Closed] /\ uvix = [u \in Uv |-> 1] /\ uval = [u \in Uv |-> Nil]
  /\ stk = [th \in Thread |-> [i \in Slots |-> Nil]] /\ top = [th \in Thread |-> 0]
  /\ basemt = Nil /\ cur = Main /\ jit = Off

-----------------------------------------------------------------------------
(* Write barriers *)

\* Wrong: no barrier.
barrierback_none(t) == UNCHANGED <<col, grayagain>>
\* Wrong: the table is not linked into grayagain.
barrierback_unlinked(t) ==
  col' = (IF isblack(t) THEN [col EXCEPT ![t] = "gray"] ELSE col) /\ UNCHANGED grayagain

\* lj_gc_barrierback: a black table goes back to gray
barrierback(t) ==
  IF isblack(t)
  THEN col' = [col EXCEPT ![t] = "gray"] /\ grayagain' = grayagain \cup {t}
  ELSE UNCHANGED <<col, grayagain>>

\* Wrong: the owner is made white while marking, too.
barrierf_back(o, v) ==
  /\ col' = IF isblack(o) /\ v \in Obj /\ iswhite(v) THEN [col EXCEPT ![o] = white] ELSE col
  /\ UNCHANGED gray

\* lj_gc_objbarrier with lj_gc_barrierf: v is stored into o, not a table
barrierf(o, v) ==
  IF isblack(o) /\ v \in Obj /\ iswhite(v)
  THEN IF Marking
       THEN col' = Shaded({v}) /\ gray' = gray \cup Queued({v})
       ELSE col' = [col EXCEPT ![o] = white] /\ UNCHANGED gray
  ELSE UNCHANGED <<col, gray>>

\* a store to stack slot i of the running thread: no barrier, ever
SetSlot(i, v) == stk' = [stk EXCEPT ![cur][i] = v]

\* upvalues that are closed copy their slot, ones that are freed are wiped
CloseUvs(closing, freed) ==
  /\ uvth' = [u \in Uv |-> IF u \in closing \cup freed THEN Closed ELSE uvth[u]]
  /\ uvix' = [u \in Uv |-> IF u \in closing \cup freed THEN 1 ELSE uvix[u]]
  /\ uval' = [u \in Uv |-> IF u \in freed THEN Nil
                           ELSE IF u \in closing THEN uvval(u) ELSE uval[u]]

-----------------------------------------------------------------------------
(* The mutator: allocation.  The new object is white and lands in a slot.  *)

Fresh(o) == Running /\ col[o] = "free"
allocvars == <<gcstate, white, gclists, unswept, mmudata, fin, full>>
colvars == <<gcstate, white, unswept, mmudata, fin, full>>  \* with col and lists aside

lj_tab_new(t, i) ==
  /\ Fresh(t) /\ i <= top[cur]
  /\ col' = [col EXCEPT ![t] = white] /\ SetSlot(i, t)
  /\ UNCHANGED <<allocvars, graph, top, basemt, cur, jit>>

lj_udata_new(u, e, i) ==
  /\ Fresh(u) /\ i <= top[cur]
  /\ e \in {env[cur]} \cup {env[f] : f \in LiveSlots(cur) \cap Func}  \* getcurrenv
  /\ col' = [col EXCEPT ![u] = white] /\ SetSlot(i, u)
  /\ env' = [env EXCEPT ![u] = e]
  /\ UNCHANGED <<allocvars, mt, ent, meta, fuv, uvth, uvix, uval, top, basemt, cur, jit>>

lj_state_new(th, i) ==
  /\ Fresh(th) /\ i <= top[cur]
  /\ col' = [col EXCEPT ![th] = white] /\ SetSlot(i, th)
  /\ env' = [env EXCEPT ![th] = env[cur]]
  /\ UNCHANGED <<allocvars, mt, ent, meta, fuv, uvth, uvix, uval, top, basemt, cur, jit>>

\* Wrong: what is dead stays dead.
Reborn_dead(o) == IF col[o] = "free" THEN white ELSE col[o]
\* an object that is created, or found although it is dead and waits for the
\* sweep: flipping its white resurrects it
Reborn(o) == IF col[o] = "free" \/ isdead(o) THEN white ELSE col[o]

\* interning: an equal string that is still in its chain is used again
lj_str_new(s, i) ==
  /\ Running /\ i <= top[cur]
  /\ col' = [col EXCEPT ![s] = Reborn(s)]
  /\ SetSlot(i, s)
  /\ UNCHANGED <<allocvars, graph, top, basemt, cur, jit>>

\* Wrong: every closure gets an upvalue of its own.
func_finduv_new(u, j) ==
  col[u] = "free" /\ uvth' = [uvth EXCEPT ![u] = cur] /\ uvix' = [uvix EXCEPT ![u] = j]
\* u is the open upvalue of slot j, which may be dead, or a new one
func_finduv(u, j) ==
  IF \E w \in OpenUvs(cur) : uvix[w] = j
  THEN u \in OpenUvs(cur) /\ uvix[u] = j /\ UNCHANGED <<uvth, uvix>>
  ELSE /\ col[u] = "free"
       /\ uvth' = [uvth EXCEPT ![u] = cur] /\ uvix' = [uvix EXCEPT ![u] = j]

\* FNEW of a function whose upvalue is local slot j
lj_func_newL_local(f, u, j, e, i) ==
  /\ Fresh(f) /\ i <= top[cur] /\ j <= top[cur]
  /\ e \in Objs({env[cur]} \cup {env[g] : g \in LiveSlots(cur) \cap Func})
  /\ func_finduv(u, j)
  /\ col' = [col EXCEPT ![f] = white, ![u] = Reborn(u)]
  /\ env' = [env EXCEPT ![f] = e] /\ fuv' = [fuv EXCEPT ![f] = u]
  /\ SetSlot(i, f)
  /\ UNCHANGED <<allocvars, mt, ent, meta, uval, top, basemt, cur, jit>>

\* FNEW of a function that inherits the upvalue of its parent p
lj_func_newL_inherit(f, p, i) ==
  /\ Fresh(f) /\ i <= top[cur] /\ p \in LiveSlots(cur) \cap Func
  /\ col' = [col EXCEPT ![f] = white]
  /\ env' = [env EXCEPT ![f] = env[p]] /\ fuv' = [fuv EXCEPT ![f] = fuv[p]]
  /\ SetSlot(i, f)
  /\ UNCHANGED <<allocvars, mt, ent, meta, uvth, uvix, uval, top, basemt, cur, jit>>

\* a loaded chunk: its upvalues are created closed and hold nil
lj_func_newL_empty(f, u, i) ==
  /\ Fresh(f) /\ col[u] = "free" /\ i <= top[cur]
  /\ col' = [col EXCEPT ![f] = white, ![u] = white]
  /\ env' = [env EXCEPT ![f] = env[cur]] /\ fuv' = [fuv EXCEPT ![f] = u]
  /\ SetSlot(i, f)
  /\ UNCHANGED <<allocvars, mt, ent, meta, uvth, uvix, uval, top, basemt, cur, jit>>

-----------------------------------------------------------------------------
(* The mutator: registers, stacks and threads *)

Move(i, v) ==
  /\ Running /\ i <= top[cur] /\ v \in Avail \cup {Nil}
  /\ SetSlot(i, v)
  /\ UNCHANGED <<gcvars, graph, top, basemt, cur, jit>>

\* calls and returns, lj_gc_step_fixtop: what lies above is left as it is and
\* may come back to life.  A return has closed the upvalues of the slots it drops.
SetTop(n) ==
  /\ Running /\ n # top[cur] /\ \A u \in OpenUvs(cur) : uvix[u] <= n
  /\ top' = [top EXCEPT ![cur] = n]
  /\ UNCHANGED <<gcvars, graph, stk, basemt, cur, jit>>

\* move the topmost value, not a captured local, onto the stack of another thread
lua_xmove(th) ==
  /\ Running /\ jit = Off /\ th \in Avail \cap Thread /\ th # cur
  /\ top[cur] > 0 /\ top[th] < NS /\ \A u \in OpenUvs(cur) : uvix[u] < top[cur]
  /\ stk' = [stk EXCEPT ![th][top[th] + 1] = stk[cur][top[cur]]]
  /\ top' = [top EXCEPT ![th] = @ + 1, ![cur] = @ - 1]
  /\ UNCHANGED <<gcvars, graph, basemt, cur, jit>>

\* Bound: coroutines nest one deep
lua_resume(th) ==
  /\ Running /\ cur = Main /\ jit = Off /\ th \in LiveSlots(cur) \cap Thread /\ th # Main
  /\ cur' = th
  /\ UNCHANGED <<gcvars, graph, stk, top, basemt, jit>>

lua_yield ==
  /\ Running /\ cur # Main /\ jit = Off
  /\ cur' = Main
  /\ UNCHANGED <<gcvars, graph, stk, top, basemt, jit>>

\* machine code: a trace is entered, loads into a register, and writes the
\* register back to the stack when it exits
TraceEnter ==
  /\ Running /\ jit = Off /\ full = "no"
  /\ jit' = Nil
  /\ UNCHANGED <<gcvars, graph, stk, top, basemt, cur>>
TraceLoad(v) ==
  /\ Running /\ jit # Off /\ v \in Avail
  /\ jit' = v
  /\ UNCHANGED <<gcvars, graph, stk, top, basemt, cur>>
TraceExit(i) ==
  /\ Running /\ jit # Off
  /\ SetSlot(i, jit) /\ jit' = Off
  /\ UNCHANGED <<gcvars, graph, top, basemt, cur>>

-----------------------------------------------------------------------------
(* The mutator: stores into objects *)

TabSet(t, k, v) ==   \* at most one entry per key; nil removes it
  LET others == {e \in ent[t] : e[1] # k}
      new == IF v = Nil THEN others ELSE others \cup {<<k, v>>}
  IN  /\ Cardinality(new) <= MaxEnt
      /\ ent' = [ent EXCEPT ![t] = new]

\* lua_rawset, TSETV and the other interpreter stores: lj_gc_anybarriert
lua_rawset(t, k, v) ==
  /\ Running /\ t \in Avail \cap Tab
  /\ k \in Avail \cup {Prim} /\ v \in Avail \cup {Prim, Nil}
  /\ TabSet(t, k, v) /\ barrierback(t)
  /\ UNCHANGED <<colvars, gray, weak, mt, env, meta, fuv, uvth, uvix, uval, thvars>>

\* lua_rawseti: the key is a number, so only a white value needs the barrier
lua_rawseti(t, v) ==
  /\ Running /\ t \in Avail \cap Tab /\ v \in Avail \cup {Prim, Nil}
  /\ TabSet(t, Prim, v)
  /\ IF v \in Obj /\ iswhite(v) THEN barrierback(t) ELSE UNCHANGED <<col, grayagain>>
  /\ UNCHANGED <<colvars, gray, weak, mt, env, meta, fuv, uvth, uvix, uval, thvars>>

\* a store of __mode or __gc into a table some objects have as metatable
SetMetaField(t, m) ==
  /\ Running /\ t \in Avail \cap Tab /\ m # meta[t]
  /\ meta' = [meta EXCEPT ![t] = m] /\ barrierback(t)
  /\ UNCHANGED <<colvars, gray, weak, mt, env, ent, fuv, uvth, uvix, uval, thvars>>

lua_setmetatable(o, m) ==
  /\ Running /\ o \in Avail \cap (Tab \cup Udata) /\ m \in (Avail \cap Tab) \cup {Nil}
  /\ mt' = [mt EXCEPT ![o] = m]
  /\ IF o \in Tab
     THEN /\ IF m # Nil /\ iswhite(m) THEN barrierback(o) ELSE UNCHANGED <<col, grayagain>>
          /\ UNCHANGED gray
     ELSE barrierf(o, m) /\ UNCHANGED grayagain
  /\ UNCHANGED <<colvars, weak, env, ent, meta, fuv, uvth, uvix, uval, thvars>>

\* no barrier: the base metatables are roots
lua_setbasemt(m) ==
  /\ Running /\ m \in (Avail \cap Tab) \cup {Nil} /\ m # basemt
  /\ basemt' = m
  /\ UNCHANGED <<gcvars, graph, stk, top, cur, jit>>

lua_setfenv(o, e) ==
  /\ Running /\ o \in Avail \cap (Func \cup Udata \cup Thread) /\ e \in Avail \cap Tab
  /\ env' = [env EXCEPT ![o] = e] /\ barrierf(o, e)
  /\ UNCHANGED <<colvars, grayagain, weak, mt, ent, meta, fuv, uvth, uvix, uval, thvars>>

\* write v through upvalue u: to the slot while it is open, else to its cell
UvWrite(u, v) ==
  IF uvth[u] = Closed
  THEN uval' = [uval EXCEPT ![u] = v] /\ UNCHANGED stk
  ELSE stk' = [stk EXCEPT ![uvth[u]][uvix[u]] = v] /\ UNCHANGED uval

\* USETV in a running closure f: lj_gc_barrieruv on a black (closed) upvalue
USET(f, v) ==
  /\ Running /\ f \in LiveSlots(cur) \cap Func /\ fuv[f] # Nil /\ v \in Avail \cup {Nil}
  /\ UvWrite(fuv[f], v)
  /\ IF uvth[fuv[f]] = Closed THEN barrierf(fuv[f], v) ELSE UNCHANGED <<col, gray>>
  /\ UNCHANGED <<colvars, grayagain, weak, mt, env, ent, meta, fuv, uvth, uvix>>
  /\ UNCHANGED <<top, basemt, cur, jit>>

\* lua_setupvalue: the barrier looks at the closure, not at the upvalue
lua_setupvalue(f, v) ==
  /\ Running /\ f \in Avail /\ fuv[f] # Nil /\ v \in Avail \cup {Nil}
  /\ UvWrite(fuv[f], v) /\ barrierf(f, v)
  /\ UNCHANGED <<colvars, grayagain, weak, mt, env, ent, meta, fuv, uvth, uvix>>
  /\ UNCHANGED <<top, basemt, cur, jit>>

\* Wrong: joins the closure, not its upvalue.
lua_upvaluejoin_fn(f1, f2) ==
  /\ Running /\ {f1, f2} \subseteq Avail \cap Func /\ fuv[f1] # Nil /\ fuv[f2] # Nil
  /\ fuv' = [fuv EXCEPT ![f1] = f2] /\ barrierf(f1, f2)
  /\ UNCHANGED <<colvars, grayagain, weak, mt, env, ent, meta, uvth, uvix, uval, thvars>>

lua_upvaluejoin(f1, f2) ==
  /\ Running /\ {f1, f2} \subseteq Avail \cap Func /\ fuv[f1] # Nil /\ fuv[f2] # Nil
  /\ fuv' = [fuv EXCEPT ![f1] = fuv[f2]] /\ barrierf(f1, fuv[f2])
  /\ UNCHANGED <<colvars, grayagain, weak, mt, env, ent, meta, uvth, uvix, uval, thvars>>

\* UCLO, RET: leave the block whose locals start at slot i.  A dead upvalue is
\* freed; a gray one may not stay gray when it is closed (lj_gc_closeuv)
lj_func_closeuv(i) ==
  LET above == {u \in OpenUvs(cur) : uvix[u] >= i}
      freed == {u \in above : isdead(u)}
      closing == above \ freed
      grays == {u \in closing : isgray(u)}
      values == Objs({uvval(u) : u \in grays})
  IN  /\ Running /\ above # {}
      /\ CloseUvs(closing, freed)
      /\ col' = [o \in Obj |-> IF o \in freed THEN "free"
                               ELSE IF o \in grays THEN (IF Marking THEN "black" ELSE white)
                               ELSE IF Marking THEN Shaded(values)[o] ELSE col[o]]
      /\ gray' = IF Marking THEN gray \cup Queued(values) ELSE gray
      /\ UNCHANGED <<colvars, grayagain, weak, mt, env, ent, meta, fuv, thvars>>

-----------------------------------------------------------------------------
(* The collector: mark phase *)

Paused == gcstate = "pause" /\ full # "finish"

gc_mark_start ==
  LET S == Objs({Main, Reg, env[Main], basemt})
  IN  /\ Paused
      /\ col' = Shaded(S) /\ gray' = Queued(S) /\ grayagain' = {} /\ weak' = {}
      /\ gcstate' = "propagate"
      /\ UNCHANGED <<white, unswept, mmudata, fin, full, graph, thvars>>

\* weak tables stay gray on their own list, threads on the second-chance list
propagatemark(o) ==
  LET isweak == o \in Tab /\ Mode(o) # {}
  IN  /\ gcstate = "propagate" \/ InAtomic
      /\ o \in First(gray)
      /\ col' = [Shaded(Trav(o)) EXCEPT ![o] = IF isweak \/ o \in Thread THEN "gray" ELSE "black"]
      /\ gray' = (gray \ {o}) \cup Queued(Trav(o))
      /\ weak' = IF isweak THEN weak \cup {o} ELSE weak
      /\ grayagain' = IF o \in Thread THEN grayagain \cup {o} ELSE grayagain
      /\ IF o \in Thread /\ InAtomic   \* clear the slots above top
         THEN stk' = [stk EXCEPT ![o] = [i \in Slots |-> IF i <= top[o] THEN @[i] ELSE Nil]]
         ELSE UNCHANGED stk
      /\ UNCHANGED <<colvars, graph, top, basemt, cur, jit>>

propagate_end ==
  /\ gcstate = "propagate" /\ gray = {}
  /\ gcstate' = "atomic"
  /\ UNCHANGED <<white, col, gclists, unswept, mmudata, fin, full, graph, thvars>>

\* atomic(), up to its first propagation loop: remark the open upvalues
atomic_mark_uv ==
  LET S == Objs({uvval(u) : u \in {w \in Uv : uvth[w] # Closed /\ isgray(w)}})
  IN  /\ gcstate = "atomic" /\ jit = Off
      /\ col' = Shaded(S) /\ gray' = gray \cup Queued(S)
      /\ gcstate' = "atomic_uv"
      /\ UNCHANGED <<white, grayagain, weak, unswept, mmudata, fin, full, graph, thvars>>

RootsAgain == Objs({cur, basemt})

\* ... up to the second: the weak tables, the running thread, the roots again
atomic_weak ==
  /\ gcstate = "atomic_uv" /\ gray = {}
  /\ col' = Shaded(RootsAgain) /\ gray' = weak \cup Queued(RootsAgain) /\ weak' = {}
  /\ gcstate' = "atomic_weak"
  /\ UNCHANGED <<white, grayagain, unswept, mmudata, fin, full, graph, thvars>>

\* ... up to the third: the second-chance list
atomic_grayagain ==
  /\ gcstate = "atomic_weak" /\ gray = {}
  /\ gray' = grayagain /\ grayagain' = {}
  /\ gcstate' = "atomic_again"
  /\ UNCHANGED <<white, col, weak, unswept, mmudata, fin, full, graph, thvars>>

\* Wrong: marked userdata are separated, too.
Separable_all(u) == u \in Heap \ (fin \cup mmudata)
Separable(u) == iswhite(u) /\ u \notin fin /\ u \notin mmudata

\* ... up to the fourth: white userdata are flagged as finalized; those with a
\* __gc go to mmudata, and all of mmudata is marked (again)
lj_gc_separateudata ==
  LET sep == {u \in Udata : Separable(u)}
      all == mmudata \cup {u \in sep : HasGC(u)}
      S == Objs(UNION {{mt[u], env[u]} : u \in all})
  IN  /\ gcstate = "atomic_again" /\ gray = {}
      /\ fin' = fin \cup sep /\ mmudata' = all
      /\ col' = [o \in Obj |-> IF o \in all THEN "black" ELSE Shaded(S)[o]]
      /\ gray' = gray \cup Queued(S)
      /\ gcstate' = "atomic_ud"
      /\ UNCHANGED <<white, grayagain, weak, unswept, full, graph, thvars>>

\* gc_mayclear: white objects go; strings are never weak, they are marked
\* instead; finalized userdata are dropped from values only
mayclear(v, isval) ==
  v \in Obj \ Str /\ (iswhite(v) \/ (isval /\ v \in fin))
\* Wrong: values are not looked at.
clearable_keys(e) == mayclear(e[1], FALSE)
clearable(e) == mayclear(e[1], FALSE) \/ mayclear(e[2], TRUE)
\* the strings gc_mayclear meets: a value is looked at only when the key stays
weakstrs(t) ==
  {e[1] : e \in ent[t]} \cup {e[2] : e \in {d \in ent[t] : ~mayclear(d[1], FALSE)}}

\* ... to its end: clear the weak tables and flip the white
atomic_end ==
  LET strs == Str \cap UNION {weakstrs(t) : t \in weak}
  IN  /\ gcstate = "atomic_ud" /\ gray = {}
      /\ ent' = [t \in Tab |-> IF t \in weak THEN {e \in ent[t] : ~clearable(e)} ELSE ent[t]]
      /\ col' = [o \in Obj |-> IF o \in strs THEN "gray" ELSE col[o]]
      /\ white' = otherwhite /\ unswept' = Heap \ (mmudata \cup {u \in Uv : uvth[u] # Closed})
      /\ gcstate' = "sweepstring"
      /\ UNCHANGED <<gclists, mmudata, fin, full, mt, env, meta, fuv, uvth, uvix, uval, thvars>>

-----------------------------------------------------------------------------
(* The collector: sweep phase, one object at a time and in any order *)

sweepstring(s) ==
  /\ gcstate = "sweepstring" /\ s \in unswept \cap Str
  /\ col' = [col EXCEPT ![s] = IF isdead(s) THEN "free" ELSE white]
  /\ unswept' = unswept \ {s}
  /\ UNCHANGED <<gcstate, white, gclists, mmudata, fin, full, graph, thvars>>

sweepstring_end ==
  /\ gcstate = "sweepstring" /\ unswept \cap Str = {}
  /\ gcstate' = "sweep"
  /\ UNCHANGED <<white, col, gclists, unswept, mmudata, fin, full, graph, thvars>>

\* Wrong: the open upvalues of a thread are left alone.
SweptWith_none(o) == {}
SweptWith(o) == IF o \in Thread THEN OpenUvs(o) ELSE {}

\* gc_sweep of one object.  A thread takes its open upvalues with it; when it
\* dies, lj_state_free closes those that live on.
gc_sweep(o) ==
  LET uvs == SweptWith(o)
      freed == {u \in uvs \cup {o} : isdead(u)}
  IN  /\ gcstate = "sweep" /\ o \in First(unswept)
      /\ unswept' = unswept \ {o}
      /\ col' = [x \in Obj |-> IF x \in freed THEN "free"
                               ELSE IF x \in uvs \cup {o} THEN white ELSE col[x]]
      /\ CloseUvs(IF o \in freed THEN uvs \ freed ELSE {}, freed \cap Uv)
      \* the memory of freed objects is gone
      /\ mt' = [x \in Tab \cup Udata |-> IF x \in freed THEN Nil ELSE mt[x]]
      /\ env' = [x \in Func \cup Udata \cup Thread |-> IF x \in freed THEN Nil ELSE env[x]]
      /\ ent' = [t \in Tab |-> IF t \in freed THEN {} ELSE ent[t]]
      /\ meta' = [t \in Tab |-> IF t \in freed THEN {} ELSE meta[t]]
      /\ fuv' = [f \in Func |-> IF f \in freed THEN Nil ELSE fuv[f]]
      /\ stk' = [th \in Thread |-> IF th \in freed THEN [i \in Slots |-> Nil] ELSE stk[th]]
      /\ top' = [th \in Thread |-> IF th \in freed THEN 0 ELSE top[th]]
      /\ fin' = fin \ freed
      /\ UNCHANGED <<gcstate, white, gclists, mmudata, full, basemt, cur, jit>>

\* the end of a full collection is the end of its cycle
endfull == full' = IF full = "cycle" THEN "no" ELSE full

\* Wrong: finalizers that are due are forgotten.
gc_sweep_end_pause ==
  /\ gcstate = "sweep" /\ unswept = {}
  /\ gcstate' = "pause" /\ endfull
  /\ UNCHANGED <<white, col, gclists, unswept, mmudata, fin, graph, thvars>>

gc_sweep_end ==
  /\ gcstate = "sweep" /\ unswept = {}
  /\ IF mmudata # {} THEN gcstate' = "finalize" /\ UNCHANGED full
                     ELSE gcstate' = "pause" /\ endfull
  /\ UNCHANGED <<white, col, gclists, unswept, mmudata, fin, graph, thvars>>

-----------------------------------------------------------------------------
(* The collector: finalizers, full collections *)

\* the userdata returns to its list; when it (still) has a __gc, it is pushed
\* onto the running stack and the finalizer goes on as mutator actions
gc_finalize(u) ==
  /\ gcstate = "finalize" /\ full # "finish" /\ jit = Off /\ u \in mmudata
  /\ mmudata' = mmudata \ {u} /\ col' = [col EXCEPT ![u] = white]
  /\ IF HasGC(u)
     THEN /\ top[cur] < NS
          /\ stk' = [stk EXCEPT ![cur][top[cur] + 1] = u]
          /\ top' = [top EXCEPT ![cur] = @ + 1]
     ELSE UNCHANGED <<stk, top>>
  /\ UNCHANGED <<gcstate, white, gclists, unswept, fin, full, graph, basemt, cur, jit>>

gc_finalize_end ==
  /\ gcstate = "finalize" /\ full # "finish" /\ mmudata = {}
  /\ gcstate' = "pause" /\ endfull
  /\ UNCHANGED <<white, col, gclists, unswept, mmudata, fin, graph, thvars>>

\* Wrong: a mark phase it interrupts ends with a flip.
lj_gc_fullgc_flip ==
  /\ Running /\ jit = Off /\ gcstate \in {"pause", "propagate", "atomic"}
  /\ full' = "finish" /\ gray' = {} /\ grayagain' = {} /\ weak' = {}
  /\ unswept' = Heap \ (mmudata \cup {u \in Uv : uvth[u] # Closed})
  /\ gcstate' = "sweepstring" /\ white' = otherwhite
  /\ UNCHANGED <<col, mmudata, fin, graph, thvars>>

\* lj_gc_fullgc.  A mark phase it interrupts is abandoned: everything is swept,
\* but without a flip, so that nothing is freed.
lj_gc_fullgc ==
  /\ Running /\ jit = Off
  /\ full' = "finish"
  /\ IF gcstate \in {"pause", "propagate", "atomic"}
     THEN /\ gray' = {} /\ grayagain' = {} /\ weak' = {}
          /\ unswept' = Heap \ (mmudata \cup {u \in Uv : uvth[u] # Closed})
          /\ gcstate' = "sweepstring"
     ELSE UNCHANGED <<gclists, unswept, gcstate>>
  /\ UNCHANGED <<white, col, mmudata, fin, graph, thvars>>

\* Wrong: finishing the sweep is all that is done.
fullgc_cycle_none ==
  /\ full = "finish" /\ gcstate \in {"pause", "finalize"}
  /\ full' = "no"
  /\ UNCHANGED <<gcstate, white, col, gclists, unswept, mmudata, fin, graph, thvars>>

\* the sweep is finished: start over; pending finalizers wait for the new cycle
fullgc_cycle ==
  /\ full = "finish" /\ gcstate \in {"pause", "finalize"}
  /\ full' = "cycle" /\ gcstate' = "pause"
  /\ UNCHANGED <<white, col, gclists, unswept, mmudata, fin, graph, thvars>>

\* an error in a finalizer unwinds lj_gc_fullgc as well
finalizer_error ==
  /\ full = "cycle" /\ gcstate = "finalize"
  /\ full' = "no"
  /\ UNCHANGED <<gcstate, white, col, gclists, unswept, mmudata, fin, graph, thvars>>

Collector ==
  \/ gc_mark_start
  \/ \E o \in Obj : propagatemark(o)
  \/ propagate_end
  \/ atomic_mark_uv \/ atomic_weak \/ atomic_grayagain \/ lj_gc_separateudata \/ atomic_end
  \/ \E s \in Str : sweepstring(s)
  \/ sweepstring_end
  \/ \E o \in Obj : gc_sweep(o)
  \/ gc_sweep_end
  \/ \E u \in Udata : gc_finalize(u)
  \/ gc_finalize_end
  \/ fullgc_cycle

\* what a program p may do
Mutator(p) ==
  \/ \E i \in Slots :
       \/ \E t \in Tab \cap p.objs : lj_tab_new(t, i)
       \/ \E u \in Udata \cap p.objs, e \in Tab : lj_udata_new(u, e, i)
       \/ \E s \in Str \cap p.objs : lj_str_new(s, i)
       \/ \E th \in Thread \cap p.objs : lj_state_new(th, i)
       \/ \E f \in Func \cap p.objs :
            \/ \E u \in Uv \cap p.objs, j \in Slots, e \in Tab : lj_func_newL_local(f, u, j, e, i)
            \/ \E g \in Func : lj_func_newL_inherit(f, g, i)
            \/ \E u \in Uv \cap p.objs : "chunk" \in p.ops /\ lj_func_newL_empty(f, u, i)
       \/ \E v \in (p.data \cap Obj) \cup {Nil} : Move(i, v)
       \/ lj_func_closeuv(i)
       \/ "trace" \in p.ops /\ TraceExit(i)
  \/ \E n \in 0 .. NS : SetTop(n)
  \/ \E t \in p.tabs, v \in p.data \cup {Nil} :
       \/ \E k \in p.keys : lua_rawset(t, k, v)
       \/ "rawseti" \in p.ops /\ lua_rawseti(t, v)
  \/ \E t \in p.metas, m \in p.fields : SetMetaField(t, m)
  \/ \E m \in p.metas \cup {Nil} :
       \/ "basemt" \in p.ops /\ lua_setbasemt(m)
       \/ "setmt" \in p.ops /\ \E o \in p.data \cap (Tab \cup Udata) : lua_setmetatable(o, m)
  \/ "setfenv" \in p.ops /\ \E o \in p.data \cap (Func \cup Udata \cup Thread), e \in p.metas :
                             lua_setfenv(o, e)
  \/ \E v \in (p.data \cap Obj) \cup {Nil} :
       \/ \E f \in Func : USET(f, v)
       \/ \E f \in p.setuv : lua_setupvalue(f, v)
  \/ "join" \in p.ops /\ \E f, g \in Func : lua_upvaluejoin(f, g)
  \/ "thread" \in p.ops /\ \/ \E th \in Thread : lua_resume(th) \/ lua_xmove(th)
                           \/ lua_yield
  \/ "trace" \in p.ops /\ (TraceEnter \/ \E v \in p.data \cap Obj : TraceLoad(v))
  \/ "fullgc" \in p.ops /\ lj_gc_fullgc

Next == (\E p \in Programs : Mutator(p)) \/ finalizer_error \/ Collector

Spec == Init /\ [][Next]_vars

\* Fairness.  A program that goes on allocating drives the collector forward:
\* lj_gc_check in the interpreter and on traces; lj_gc_step_jit forces a trace to
\* exit when the next step cannot run on it, and lj_trace_exit then runs that
\* step.  mmudata is a queue, and lj_gc_fullgc cannot finish without calling the
\* finalizer at its head.  Functions return, in the interpreter, too: this makes
\* the room for the finalizer's argument that the bound NS denies.
Return == jit = Off /\ \E n \in 0 .. NS : n < top[cur] /\ SetTop(n)
Fairness ==
  /\ SF_vars(Collector)
  /\ \A u \in Udata : SF_vars(gc_finalize(u))
  /\ WF_vars(\E i \in Slots : TraceExit(i))
  /\ SF_vars(Return)
FairSpec == Spec /\ Fairness

-----------------------------------------------------------------------------
(* Correctness *)

Val == (Obj \ Uv) \cup {Nil}      \* upvalues are never values themselves
Entry == ((Obj \ Uv) \cup {Prim}) \X ((Obj \ Uv) \cup {Prim})
TypeOK ==
  /\ gcstate \in {"pause", "propagate", "atomic", "atomic_uv", "atomic_weak",
                  "atomic_again", "atomic_ud", "sweepstring", "sweep", "finalize"}
  /\ white \in {"w0", "w1"} /\ full \in {"no", "finish", "cycle"}
  /\ col \in [Obj -> {"free", "w0", "w1", "gray", "black"}]
  /\ gray \subseteq Obj /\ grayagain \subseteq Obj /\ weak \subseteq Tab
  /\ unswept \subseteq Obj /\ mmudata \subseteq Udata /\ fin \subseteq Udata
  /\ mt \in [Tab \cup Udata -> Tab \cup {Nil}]
  /\ env \in [Func \cup Udata \cup Thread -> Tab \cup {Nil}]
  /\ ent \in [Tab -> SUBSET Entry]
  /\ meta \in [Tab -> SUBSET MetaFields]
  /\ fuv \in [Func -> Uv \cup {Nil}]
  /\ uvth \in [Uv -> Thread \cup {Closed}] /\ uvix \in [Uv -> Slots]
  /\ uval \in [Uv -> Val]
  /\ stk \in [Thread -> [Slots -> Val]] /\ top \in [Thread -> 0 .. NS]
  /\ basemt \in Tab \cup {Nil} /\ cur \in Thread /\ jit \in Val \cup {Off}

\* A pointer of an object that is not condemned, and every root, leads to an
\* object that is allocated and not condemned: gc_sweep never frees what the
\* program can still reach, weak entries and stale stack slots included.
NoDangling ==
  /\ Roots \subseteq Live
  /\ \A o \in Live : Refs(o) \subseteq Live

\* The invariant of lj_obj.h: while marking, a black object never points to a
\* white one.  (Pending userdata of the cycle before are black and are marked
\* again by gc_mark_mmudata.)
TriColour ==
  Marking => \A o \in Heap \ mmudata : isblack(o) => \A r \in Refs(o) : ~iswhite(r)

\* gclist links an object into one list at a time, only gray objects are
\* linked, and a gray table, closure or thread never drops out of the lists
ListsConsistent ==
  Marking \/ InAtomic =>
    /\ gray \cap grayagain = {} /\ gray \cap weak = {} /\ grayagain \cap weak = {}
    /\ {o \in Tab \cup Func \cup Thread : isgray(o)} = gray \cup grayagain \cup weak

\* func_finduv never makes a second upvalue for a slot, so closures of one
\* local variable share it; and an open upvalue points into a stack that exists
OpenUvsShared ==
  \A u \in Uv : uvth[u] # Closed =>
    /\ uvth[u] \in Heap /\ u \in Heap
    /\ \A w \in OpenUvs(uvth[u]) : uvix[w] = uvix[u] => w = u

\* lua_assert(!isblack(o)) of lj_func_closeuv, and the assertions of the write
\* barriers about GCSpause and GCSfinalize: by then only pending userdata are
\* black, nothing but them is still marked, and nothing is condemned
SweepComplete ==
  /\ \A u \in Uv : uvth[u] # Closed => ~isblack(u)
  /\ gcstate \in {"pause", "finalize"} =>
       \A o \in Heap \ mmudata : col[o] = white
  /\ ~(gcstate \in {"sweepstring", "sweep"}) => \A o \in Heap : ~isdead(o)

\* Userdata are freed only after lj_gc_separateudata has looked at them, and
\* never while their finalizer is still due.
FreedUdataFinalized ==
  [][\A u \in Udata : u \in Heap /\ u \notin Heap' => u \in fin /\ u \notin mmudata]_vars

\* Userdata are condemned to finalization only when the program has lost them:
\* no path of strong references leads there from the roots.
StrongStrs(t) ==   \* gc_mayclear marks strings, but looks at a value only when the key stays
  Str \cap (Keys(t) \cup {e[2] : e \in {d \in ent[t] : "k" \in Mode(t) => d[1] \notin Obj \ Str}})
StrongRefs(o) ==
  CASE o \in Tab -> Trav(o) \cup StrongStrs(o)
    [] o \in Func \cup Thread -> Trav(o)
    [] OTHER -> Refs(o)
Lost(U) ==
  \E S \in SUBSET Live :
    Roots \subseteq S /\ S \cap U = {} /\ \A o \in S : StrongRefs(o) \subseteq S
CondemnedAreGarbage ==
  [][~(mmudata' \subseteq mmudata) => Lost(mmudata' \ mmudata)]_vars

\* The wavefront never recedes: what a mark phase has reached stays reached
\* until the white is flipped (or lj_gc_fullgc gives the phase up).
WavefrontAdvances ==
  [][(Marking \/ InAtomic) /\ gcstate' # "sweepstring" =>
       \A o \in Heap : ~iswhite(o) => ~iswhite(o)']_vars

\* Nothing leaks: no object stays allocated forever once the program has lost
\* it, whatever the program does, full collections in the middle of a cycle and
\* time spent on traces included.
NoLeak == \A o \in Obj : []<>(o \in Heap => ~Lost({o}))

\* Every finalizer that is due is called, or found to be gone.
PendingFinalized == \A u \in Udata : u \in mmudata ~> u \notin mmudata

-----------------------------------------------------------------------------
(* The collector as its programs see it: objects are gone when the white    *)
(* flips.  References that do not keep their target alive are loose: weak   *)
(* ones, values that gc_mayclear drops for being finalized, stack slots     *)
(* above the top.                                                           *)

Loose(o) ==
  Objs(CASE o \in Tab -> (IF "k" \in Mode(o) THEN Keys(o) ELSE {})
                           \cup (IF "v" \in Mode(o) THEN Vals(o) ELSE {})
                           \cup (IF Mode(o) # {} THEN Vals(o) \cap fin ELSE {})
         [] o \in Thread -> {stk[o][i] : i \in {j \in Slots : j > top[o]}}
         [] OTHER -> {})

H == INSTANCE Heap WITH
       Finalizable <- Udata, heap <- Live,
       strong <- [o \in Obj |-> IF o \in Live THEN StrongRefs(o) ELSE {}],
       loose <- [o \in Obj |-> IF o \in Live THEN Loose(o) ELSE {}],
       roots <- Roots, pending <- mmudata, done <- fin \cap Live

\* Every step of the collector and of the mutator is one the abstract heap
\* allows, or changes nothing the program can see.
ImplementsHeap == H!Spec
=============================================================================
