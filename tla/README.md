# A formal model of DontStarveLuaJIT

DontStarveLuaJIT replaces the Lua 5.1 interpreter inside the game Don't Starve
by LuaJIT 2.1.0-beta2. `src/luajit` is the engine that is injected (with a few
changes of its own: a hook in the loader, `require("util")`, a string hash), and
`src/lua51` is the stock interpreter that it has to be indistinguishable from.
This directory holds TLA+ models of the parts of the engine where the order of
events decides about correctness, configurations that model-check them with TLC,
and theorems about them that TLAPS checks.

All paths below are relative to `src/luajit/src` unless they say otherwise.

## 1. Inventory

| component | state | operations | talks to | hard behaviour |
|---|---|---|---|---|
| garbage collector (`lj_gc.c`, `lj_gc.h`) | `gc.state`, `currentwhite`, mark bits, the lists `gray`, `grayagain`, `weak`, `mmudata`, the sweep pointer | `gc_onestep`, `atomic`, `gc_sweep`, `gc_finalize`, `lj_gc_fullgc`, the write barriers | everything that allocates or stores | runs between any two steps of the program; objects are dead but not yet freed during the sweep |
| upvalues and closures (`lj_func.c`) | open upvalue list of each thread, `uvhead`, closed values | `func_finduv`, `lj_func_closeuv`, `lj_func_newL_*` | collector, stacks | found again while dead; closed while marked |
| strings (`lj_str.c`) | hash chains, `strnum`, `strmask` | `lj_str_new`, `lj_str_resize`, `lj_str_free` | collector (sweeps the chains) | found again while dead; resized during a sweep |
| tables (`lj_tab.c`) | array part, hash part, free pointer | `lj_tab_newkey`, `lj_tab_resize`, `lj_tab_next` | collector, traces | collision chains, rehash at a boundary, removal during traversal |
| threads and stacks (`lj_state.c`, `lj_frame.h`) | stack, `base`, `top`, `maxstack`, frames, open upvalues | `lj_state_new`, `lj_state_free`, `lj_state_growstack`, `lj_state_shrinkstack` | collector, upvalues, interpreter, errors | grows in the middle of calls and returns, shrinks in the collector, is overdrawn to handle an overflow |
| errors (`lj_err.c`) | `L->status`, `L->cframe` | `lj_err_throw`, `err_unwind`, `lj_err_run`, `finderrfunc` | stacks, hooks, traces | two linked lists walked in step; errors in handlers and finalizers |
| userdata, cdata (`lj_udata.c`, `lj_cdata.c`) | metatable, environment, finalizer table | creation, `lj_cdata_setfin` | collector | resurrection |
| C API (`lj_api.c`) | - | `lua_*` | all of the above | every store needs the right barrier |
| trace compiler driver (`lj_trace.c`, `lj_dispatch.c`) | `J->state`, trace slots, hot counters, penalties, dispatch table | `trace_start`, `trace_stop`, `trace_abort`, `lj_trace_flush`, `lj_trace_exit` | interpreter, collector, machine code | an event can ask for an abort between any two states; traces are linked to, patched over and freed |
| recorder, optimiser, assembler (`lj_record.c`, `lj_opt_*.c`, `lj_asm*.h`) | IR, snapshots | one pass each; `lj_opt_fold` at each instruction | trace compiler driver | hundreds of rewrite rules that feed each other |
| machine code areas (`lj_mcode.c`) | area list, protection, `mctop`, `mcbot` | reserve, commit, abort, patch | assembler, `lj_trace.c` | writable and executable never at once |
| profiler (`lj_profile.c`) | `ProfileState`, `hookmask` | timer tick in a thread of its own or a signal, `lj_profile_hook_enter`, `lj_profile_interpreter` | dispatch, traces | read-modify-write of `hookmask` by two actors |
| hooks and dispatch (`lj_dispatch.c`) | `hookmask`, dispatch modes | `lj_dispatch_update`, `lua_sethook` | profiler, trace compiler | stale dispatch table |
| loader and `gemcore` hook (`lj_load.c`, `lib_package.c`) | chunk text | `luaL_loadbufferx`, `luaL_loadfilex`, `require` | parser | text that is rewritten while it is read |
| lexer, parser, bytecode reader and writer (`lj_lex.c`, `lj_parse.c`, `lj_bc*.c`) | parser state | - | loader | data |
| interpreter (`vm_*.dasc`) | registers | one routine per bytecode | all | assembler |
| FFI (`lj_c*.c`, `lib_ffi.c`) | C type table, callbacks | - | interpreter, traces | data |
| allocator (`lj_alloc.c`) | bins, segments | malloc, free | collector | Doug Lea's allocator |
| libraries (`lib_*.c`) | - | - | C API | - |
| build tools (`host/`, `../dynasm`), stock interpreter (`src/lua51`) | - | - | - | generated or third-party code |

## 2. Modules

| module | what it is |
|---|---|
| `Heap` | abstract specification: what a garbage collector promises to the program |
| `LJGC` | the collector and the mutator operations, one action per operation; properties; `ImplementsHeap` |
| `LJGCInv` | the inductive invariant `IInv` of `LJGC` in named parts |
| `LJGCProofs`, `LJGCSafety` | proofs about `LJGC`, the second on top of the first (section 6) |
| `MCLJGC` | its programs and instances for TLC (`Reach`, `Finalize`, `Liveness`, `SharedUpvalue`) |
| `LJProfile`, `MCLJProfile`, `LJProfileProofs` | `hookmask`, dispatch mode, profiler (`Profile`), and proofs about them |
| `LJTrace`, `MCLJTrace`, `LJTraceProofs` | trace compiler driver (`Trace`), and proofs about it |
| `LJTab`, `MCLJTab`, `LJTabProofs` | tables (`Tab`), and proofs about them |
| `LJMCode`, `MCLJMCode`, `LJMCodeProofs` | machine code areas, and proofs about them (`MCode`) |
| `StrSet` | abstract specification: what interning promises |
| `LJStr`, `MCLJStr`, `LJStrProofs` | string table and its sweep; `ImplementsStrSet` (`Strings`); proofs |
| `LJState`, `LJStateProofs` | stacks, calls, errors (`Stack`, `StackHandler`), and proofs about them |
| `LJFold`, `MCLJFold` | FOLD engine for 32 bit integers (`Fold`) |

Two conventions hold everywhere. An operator whose comment starts with *Wrong:*
is a plausible mistake in the definition that follows it; it is used by no
specification, and replacing the definition by it breaks a property (PROJECT.json,
"mutants"). And `LJGC`, `LJProfile`, `LJTrace` and `LJTab` have a constant `Programs`: a set of
records, each of which bounds what *one* program does - which objects it creates, which functions
of the engine it calls. Each behaviour is that of one program (`prog` never
changes), so a run is the union of several small state spaces that exercise
different parts of the engine, instead of one that no bound makes finite in
time. `LJGC` itself has no `prog`: its `Next` lets every program of the set act
at any time, which is more than any run explores and what the theorems are about.

### LJGC and the code

| variables | code |
|---|---|
| `gcstate`, `white`, `col` | `gc.state`, `gc.currentwhite`, `gch.marked`; "atomic_*" are points inside `atomic()` where the mutator is not enabled |
| `gray`, `grayagain`, `weak` | the lists linked by `gclist`; sets, with `Rank` standing for their order |
| `unswept` | what `gc.sweep`/`gc.sweepstr` have not passed |
| `mmudata`, `fin` | `gc.mmudata`, `LJ_GC_FINALIZED` |
| `full` | how far `lj_gc_fullgc` is |
| `mt`, `env`, `ent`, `meta`, `fuv`, `uvth`, `uvix`, `uval`, `stk`, `top`, `basemt`, `cur`, `jit` | the object graph |

One action of the collector is one `gc_onestep`, or one object of a sweep, or a
part of `atomic()` between two propagation loops. The mutator's operations are
those of the interpreter and of the C API that allocate or store, each with the
write barrier that the code has there, and no other: stack slots have none,
base metatables have none, tables go back to gray, everything else forward.
`gc_finalize` pushes the userdata; the finalizer's body is whatever the program
does next.

Left out: cdata finalizers (`lj_gc_finalize_cdata`), traces as objects (they are
in `LJTrace`), prototypes and their constants (immutable after loading), the
pacing (`gc.threshold`, `debt`, `estimate`), string chains (one string is one
step; the chains are in `LJStr`), and memory errors. Coroutines nest one deep.

### LJProfile and the code

A function of the VM is a sequence of its accesses to `hookmask`, the dispatch
table and `J->state`; a frame of `vm` is a call of one with its locals. The timer
of Windows is a thread (`profile_thread`) that interleaves with every access; the
one of POSIX is a signal handler that runs to its end between two of them. Both
builds are in the same run (`prog.variant`). The profiler lock is a variable,
and is taken only where the code takes it.

Left out: the profiler's stop inside its own callback, and which entries of the dispatch
table are written in which order.

### LJTrace and the code

`trace_state` is one action per state; a VM event (`lj_vmevent_send`) is a point
at which `event` names it, handlers run as actions of the program, and the
action that resets `event` is the rest of the function. Recorder, optimiser and
assembler are nondeterministic: they go on, stop with a link, or raise an error
of each kind `trace_abort` tells apart. Machine code is `jump` and `side`: where a
trace goes at its end and at its exit; whether what it goes to still exists is
not looked at by the code, and therefore a property here (`CodeRegistered`).
The collector is `atomic` (mark all traces from the roots) and `lj_trace_free`.

`BC_JLOOP` and `cont_stitch` look at no state of the recorder, as in `vm_x86.dasc`. What keeps a
second recording from starting within the first (`HotsideIdle`) is where the interpreter is, `ip`:
while recording is on, the dispatch table leads to `vm_record`, which shows the instruction to the
recorder (`lj_trace_ins`) and then executes it. A compiled loop that is entered and a return to C end
the trace (`rec_loop_jit`, `lj_record_ins`), the rest of the driver runs before the instruction does,
and `trace_end` must not go back to recording for such a trace (`Unrolls`: `rec_loop_jit` clears
`J->instunroll`). An instruction that machine code has patched back meanwhile is executed as what it is
now (`vm_record`). `ip` also tells when the C function of a stitched call is in control: its callees
return to it (`vm_leave`) or throw (`lj_err_throw`), and it may catch the error or not.

Bounds: one exit per trace; at most three trace numbers and objects; one penalty
before a loop is blacklisted; one stitched call at a time; handlers of the
"start" event do not flush. Left out: hot counters, the random slots of the
penalty cache, `LJ_TRACE_RECORD_1ST`, how often a loop is unrolled, the penalty of the pc that
a side trace has after `trace_downrec`, switching the compiler off as a whole.

### LJTab and the code

`tab` is one `GCtab`: array, nodes, free pointer; it is `broken` when the code would follow
a null pointer, and nothing happens after that. A chain is a function of how far one has gone.
`lj_tab_newkey`, `rehashtab`, `lj_tab_resize`, `lj_tab_next`, `lj_tab_len` and the
template cache of the parser (`t->cache`, a change of this repository) are
functions on that record, the actions are what a program does with a table:
items of its constructor, then stores, `table.clear`, traversal. `content` is
what the program believes to be in it. A key is its own value: a lookup that
finds the wrong node gives the wrong value. `Reuse` is the collector: a string
that only a node with a nil value names is freed, and its address becomes the
key of another string.

Bounds: strings with hashes 0..3, positive integer keys up to 5, hence at most 8
nodes, at most 3 items in a constructor. These are enough for every shape of
chains of three colliding keys, a rehash that grows and one that shrinks each
part, and integer keys on both sides of the array's border. Left out: keys that
are numbers with fractions, booleans or objects (their hash is an address, as
for strings), `t->nomm`, weak tables (`LJGC`), the colocated array.

### LJMCode and the code

| variables | code |
|---|---|
| `mc` | `jit_State`: `mcarea`, `mcprot`, `szmcarea`, `mctop`, `mcbot`, `szallmcarea` |
| `mem` | the areas: their protection and the `MCLink` at their bottom |
| `stubs`, `code` | where the groups of exit stubs and the code of each trace are |
| `asm`, `job`, `err`, `pc` | `ASMState`, the trace that is assembled, the error raised, what comes next |
| `param`, `retries` | parameter `sizemcode`, which the program may change at any time; history |

Positions are offsets into an area. The assembler is: reserve, exit stubs, then
instructions of any length up to what one check lets through (`Emit`), the loop
realigned on the way, the tail, the parent patched, commit; after any of them an error,
and the retry with a new area. Left out: the search for an address in the jump range,
the instruction cache, W^X on other systems than POSIX.

### LJStr and the code

`strhash` maps each chain to the set of its strings (their order in a chain decides
nothing), `val` is the content of an object or `None` when its memory is free, `mark` its
colour. What the program holds is `held`: the marking itself is `LJGC`'s subject and is
one step here (`atomic`), which may also mark strings that were dropped since. The sweep is
chain by chain; between two of its steps the program interns, and the table grows; it
shrinks at the end of a cycle. `lj_gc_fullgc` may find any state. The hash is a constant
function: that this repository replaced LuaJIT's by that of Lua 5.1 changes which strings
collide, and the instance has collisions in every table size.

### LJState and the code

| variables | code |
|---|---|
| `base`, `top`, `stacksize`, `status`, `openupval` | the fields of `lua_State`; slot numbers for pointers |
| `frames` | at each slot with a frame: its type (Lua, C, `lj_vm_pcall`, continuation, `pcall`), the distance to the frame below, and its function's frame size |
| `cframe` | the list of cframes: `cframe_nres`, `cframe_errfunc`, and whether it was made by `lua_resume` |
| `calls` | what is active in truth |
| `todo` | where the interpreter, or the code that raises an error, is |

No operation of the code reads `calls`, except to know what the C code that a call returns to
does next; the properties compare it with the rest.

A call is several steps, as in the code: the entry (`CallLua`, `Enter`), the function's head with its
check of the stack (`Call`), and the return, frame by frame (`ReturnToLua`, `ReturnToPcall`,
`ReturnToC`). So is an error: the message is pushed (`err_msgv`), the line added
(`lj_debug_addloc`), the handler searched and called (`lj_err_run`), what catches it searched and
the stack unwound (`lj_err_throw`). Each check of the stack may grow it, overflow, or fail for lack of
memory, which are errors of their own. Where the code walks along the frames and cframes, `Walk`
takes one step of its loop (`UnwindStep`, `HandlerStep`) after the other. The collector shrinks the stack
and runs finalizers in any code.

Bounds: code calls while fewer than four calls are active (C code and the function it
calls count as two, so that there may be five, and seven while the handler of an error runs);
stacks of at most 40 slots (with `LUA_MINSTACK` 4 and `LJ_STACK_EXTRA` 5), Lua frames of nine
slots, C code that asks for room for six or twenty; each `lua_call` asks for one result. A coroutine is a second initial state: it ends where it would yield or
return. Left out: vararg frames, hooks (`FRAME_PCALLH`), FFI callbacks, external unwinding, GC64, and
that the stack of a running trace is not shrunk.

### LJFold and the code

`ir` is `J->cur.ir`, constants are negative references. Each fold function is an operator
with the function's name; `kfold`, `simplify_int`, `reassoc` and the like are the `LJFOLD` lines of the
sections of `lj_opt_fold.c`, `Rule` the table that `buildvm` generates from them, and
`lj_opt_fold` tries it with both operands' opcodes, one, the other, none.
The recorder emits any instruction of `Arith`, `Checked`, `Guards` and `BNOT`. Two have their own
handlers: the divisor of a `MOD` may be a variable, which is guarded first (`lj_opt_narrow_mod` emits
`NE` with 0, then `narrow_mod_guarded` the `MOD`), or a constant that is not 0; and the constant index
of a bounds check is not negative (`rec_idx_abc`). What the trace
computes for given inputs (`Value`, `Completes`) is defined by the meaning of the IR
and not by any rule, and is the reference.

Bounds: integers of four bits - shift counts are masked with 3, and every rule about
signs, overflow and the largest shift has its case; `Konst` has both ends, powers of two and
others; programs of up to two operations, the second of which uses the result of the first; three when
they are `ADD` and `SUB` (the only rule that looks at two operands' operands); two or three of which the
last two are bounds checks of the same size, with another check in between or not (`abc_k` drops the
later one or changes the earlier one). Left out: PHIs, hence
`abc_fwd`, `abc_invar` and `PHIBARRIER`; `BSWAP`, as a word of four bits has no bytes; floating point, 64 bit integers, conversions,
strings, memory.

## 3. Runs

A run is named after its question; times are those of two workers.

| run | question | bounds | time |
|---|---|---|---|
| `reach` | is anything freed that a program can reach, while it stores into tables, shares, joins and closes upvalues, runs coroutines and traces, forces full collections? | two objects of each kind at most, one stack slot, one entry per table | 2 min |
| `finalize` | does the collector implement `Heap`: weak tables, strings in them, userdata that are resurrected by their finalizers? | the same | 75 s |
| `liveness` | is every lost object freed and every due finalizer called? | a userdata with a metatable; a table and a trace | 20 s |
| `profile` | do hooks, finalizers, event handlers, errors, traces and profiler callbacks nest without losing a bit of `hookmask`, a tick or an update of the dispatch table? | three frames, two ticks | 90 s |
| `trace` | do bytecode and machine code lead to live traces only, whatever is compiled, linked, stitched, flushed, blacklisted and collected? | six programs of one or two loops, a return, one to three traces | 2 min |
| `tab` | do lookups, traversal and length agree with what was stored? | four programs: strings only, integers only, both, and strings whose addresses are taken by others | 35 s |
| `mcode` | is what was written ever overwritten, or left writable, when traces are given up at any point? | two traces, three areas of two sizes that allow one or two traces each | 25 s |
| `strings` | do equal strings stay one object while the table is swept and resized? | five contents and objects, one reserved word, tables of 1 to 8 chains, which grow and shrink | 110 s |
| `stack` | does every error find its call and its handler, and does the stack fit what is left? | section 2 | 60 s |
| `fold` | does folding preserve what a trace computes and which guards fail, and end? | section 2; sixteen pairs of inputs | 2 min |
| `shared_upvalue`, `stack_handler` | counterexamples, section 4 | | seconds |

`reach`, `finalize`, `trace`, `tab`, `mcode` and `strings` use symmetry over identities that
the specification compares for equality only; `liveness` uses none. Deadlock is checked in
every run but two: the programs of `fold` have an end, and the run `stack_handler` looks for one
state only. The interpreter of `MCLJTrace` may go on when every loop is blacklisted
(`Interpreted`), everything else always has a step.

One slot and one entry seem little. They are enough because every hazard of the
collector is about one edge of the object graph - the new reference, hidden from
the collector by removing the old one - and the tables, the registry, upvalues,
environments and metatables still make paths of length three and more. What is
proved (section 6) does not depend on these bounds.

The runs keep to programs outside of the deviations of section 4. `tab` has the collector
reuse addresses in one program only, of two strings and an integer, and constructors name
no field twice; `reach` calls `debug.setupvalue` on closures that share no upvalue only;
in `profile`, finalizers and event handlers are not in the program with a timer thread; in
`trace`, the C function of a stitched call catches no error that is thrown while its callee is
recorded; in `mcode`, `mprotect` succeeds; in `stack`, C code
asks for one result, and `HandlerFound` is about errors outside of finalizers.

### Properties

* `LJGC`: `NoDangling` (nothing reachable is freed), `TriColour` (lj_obj.h:92),
  `ListsConsistent`, `OpenUvsShared`, `SweepComplete`, `WavefrontAdvances`,
  `FreedUdataFinalized`, `CondemnedAreGarbage`, `ImplementsHeap`, `NoLeak`,
  `PendingFinalized`.
* `LJProfile`: `MaskRestored`, `NoTraceWithin`, `SamplesConserved`; `ProfilerSound`, which is
  `TypeOK`, `DispatchFresh` (the dispatch table is what `hookmask` asks for) and
  `CallbackNotNested`.
* `LJTrace`: `CodeValid` (`JloopValid` for bytecode, `CodeRegistered` for machine code);
  `NumbersSound` (`TypeOK`, `NoneMissing`, `CurOnce`, `FreeNumbersFound`); `PatchUndone`,
  `SideAtItsExit`, `AbortHonoured`, `HotsideIdle`.
* `LJTab`: `Faithful`, `LenIsBorder`, `TraversalExact`; `NodesSound` (`TypeOK`,
  `KeysReachable`, `KeysUnique`, `RehashFits`).
* `LJMCode`: `NoOverlap`, `Executable`, `ExitsLead`, `SizesAccounted`, `FewRetries`; and
  `Writable`, `CacheTrue`, which are proved (section 6).
* `LJStr`: `StringsSound` (`TypeOK`, `Masked`, `ChainsSound`, `CountTrue`, `SweptClean`, and no string in
  use is freed), `ImplementsStrSet`.
* `LJState`: `Agree` (frames, cframes, `base`, upvalues and calls), `StackFits`,
  `CatchFound`, `HandlerFound`.
* `LJFold`: `FoldSound`, `FoldEnds`.

What each says stands before its definition.

`ImplementsStrSet` is a refinement too: `StrSet` has one object for each content that the
program holds, and no collector. That a sweep frees a string in use, that interning makes a
second object, or misses one because it was put into the wrong chain, would be a step that
`StrSet` does not have.

`ImplementsHeap` is the refinement: `Heap` knows neither colours nor phases. An
object is in the abstract heap as long as it is not condemned (`Live`); it is gone
at the flip of the white, not when the sweep reaches it. Weak references, the
stack slots above `top` and finalized values in weak tables are `loose`. Every
action of `LJGC` is then an abstract `Mutate`, `Forget`, `Condemn`, `Collect`,
`Finalize` or a stutter, which is proved (section 6). Interning that finds a dead string shows
as `Mutate`.

### Fairness

`liveness` is the only run with liveness properties (`Fairness` in `LJGC`).

* `SF_vars(Collector)`: a program that goes on allocating reaches `lj_gc_check`,
  in the interpreter and on traces. It is disabled again and again - a finalizer
  needs the interpreter - so that weak fairness would promise nothing.
* `SF_vars(gc_finalize(u))` for each userdata: `mmudata` is a queue in the code
  and a set in the model; and `lj_gc_fullgc` loops until the finalizer at its
  head has been called.
* `WF_vars(TraceExit)`: `lj_gc_step_jit` asks the trace to exit when the collector
  is in a state where it cannot go on (`GCSatomic`, `GCSfinalize`), and
  `lj_trace_exit` then runs the step.
* `SF_vars(Return)`: functions return in the interpreter. The code has a stack
  that grows; the model has `NS` slots and needs the room for a finalizer's
  argument.

Nothing is assumed about what the program does otherwise: it may force a full
collection in any phase, again and again.

## 4. Findings

Each of these is a run that TLC ends with a counterexample (PROJECT.json,
"findings", quotes the comment that the code disagrees with).

1. `shared_upvalue` - `lua_setupvalue` (lj_api.c:1013) runs the barrier of the
   closure, not of the upvalue. Two closures share a closed upvalue; the collector
   has blackened it through the first; a store through the second, still white,
   hides a white value from the collector.
2. `stack_handler` - `finderrfunc` (lj_err.c) does not unwind the cframe of a `lj_vm_pcall`
   whose handler is inherited, as it does for `lj_vm_cpcall`. Finalizers are called so: their
   errors pass by the handler of the `lua_pcall` around them.

### Deviations seen and not run

Counterexamples that TLC gave for an instance other than those of the runs; what to
change to see them again is in brackets.

* `hookmask` is declared to be under `profile_state.lock` (lj_profile.c:78), but most
  of its writers do not take it. A timer thread that has read the mask of a running
  finalizer stores it after the finalizer is over: `HOOK_ACTIVE` and `HOOK_GC`
  stay set, no hook is called and no trace is started any more. The thread exists
  in the Windows build, which is the one the game uses. [`Programs <- Finalizers` in
  `Profile.cfg`: `MaskRestored`]
* If the C function of a stitched call catches an error that is thrown while its callee is recorded,
  recording is only about to be aborted when it returns: `cont_stitch` goes on with the linked trace,
  whose exit starts a recording over the running one, against the assertion of lj_trace.c:708.
  An error that leaves the stitched call does no harm.
  [`Programs <- Throws`, with three objects, in `Trace.cfg`:
  `HotsideIdle`]
* `jit.flush(n)` of a trace that has been flushed before unpatches the loop of the trace
  that has replaced it (lj_trace.c:202). [`lj_trace_flush` twice in `Hooks` of `MCLJTrace`]
* `lj_trace_exit` takes a return's JLOOP away while it records (lj_trace.c:838). If a hook asks for an
  abort and flushes meanwhile, `trace_pendpatch` (lj_trace.c:580) brings back a JLOOP to a trace that is no
  more. [`Returns` with `ops = {"setmode", "hook"}`: `CodeValid`]
* If a hook flushes while a stitched trace is recorded, `trace_abort` looks up the number in
  `J->exitno` (lj_trace.c:534), which nobody has any more. [`OneLoop` with `ops = {"setmode", "hook", "stitch"}` and no
  penalties: `NumbersSound`]
* The loop of `lj_tab_newkey` that rechained resurrected string keys is commented out in this
  repository (lj_tab.c:550): with three strings that take each other's addresses a key with a
  value is lost to lookups although `next` returns it. [`Programs <- RechainPrograms` in
  `Tab.cfg`: `NodesSound`]
* `{a=1, a=2}` builds a template with two nodes for one key, since the template cache of this
  repository is not looked up (lj_tab.c:494). [`Programs <- DuplicatePrograms`: `NodesSound`]
* `mcode_protect` records the new protection also when `mprotect` has failed and the
  panic function returns, or there is none (lj_mcode.c:200): an area stays writable.
  [`ProtFails = TRUE` in `MCode.cfg`: `Executable`]
* A return to C code that asks for more results than the stack has room for (`vm_return`,
  label 8) grows the stack after `L->base` was reset and before `L->cframe` is: an error in
  this (no memory, overflow) is looked for with the cframe of a call that is over, and
  caught by it. [`NRes = {1, 6}` in `Stack.cfg`: `Agree`]
* A Lua function that is called while the stack is overdrawn has slots beyond
  `LUAI_MAXSTACK`; an error that it catches (`pcall` in the handler) cuts them off
  (lj_state.c:80). `StackFits` has an exception for such functions.
* lj_str.c:167 says of resurrecting a string "Can only happen with fixstring() (keywords)".
  It happens with every string that was dropped and is made again during the sweep,
  and has to. The mutant `RevivedNot` shows what happens otherwise.

Met while modelling; the programs of the runs avoid them by the bounds named in
the modules.

* `lj_gc_fullgc` during `GCSfinalize` (lj_gc.c:736): userdata that only pending
  userdata lead to are condemned in the second cycle, before the finalizer that
  may still use them has been called. `Heap!Condemn` allows this explicitly
  (paths through pending objects are not followed).
* `lua_setmetatable` of a pending userdata, which is black, reaches
  `lj_gc_barrierf` outside marking; lj_gc.c:750 asserts that it does not.
* `hook_restore` brings a `HOOK_PROFILE` back that the dispatch has served
  already, or drops one that came in between (signal build: `DispatchFresh` and
  `SamplesConserved` are stated for the timer thread); samples of a signal between
  reading and resetting the counter (lj_profile.c:134) are lost.
* `lua_sethook` from a signal handler (lj_dispatch.c:337 allows it), or within a
  profiler callback, is undone by the function it interrupts when that restores
  the mask it has saved.
* A VM event handler of "record" that asks for an abort: the state is assigned by
  `lj_record_stop` afterwards and the request is forgotten (lj_record.c:242).
* A trace is flushed, or collected, while the VM event handlers of another one
  run: the continuation of a stitched trace (lj_trace.c:471, 540), the parent of a
  side trace (lj_trace.c:703) and `J->exitno` of a handler's own compiled code
  (lj_trace.c:456) may then be those of other traces, and the instruction that
  `trace_abort` restores (lj_trace.c:582) may name a flushed one. A handler of
  "start" that flushes makes `trace_unpatch` follow a starting point that is not
  set yet (lj_trace.c:398).
* An error in a table constructor leaves the template's cache to nobody
  (lj_parse.c:1741), and `lua_assert(t->cacheHead)` in `lj_tab_prepare_cache` names
  a field that `GCtab` does not have: a build with assertions does not compile.

## 5. Mutants

PROJECT.json lists, for each property of each passing run, a definition and a
"Wrong:" version of it that breaks the property under the run's own
configuration. This is the evidence that the bounds are large enough for the
hazard to happen at all.

## 6. Proofs

Two modules prove facts about `LJGC!Spec` with arbitrary sets of objects, any number of
slots and entries, and any set of programs; `LJMCodeProofs`, `LJStrProofs`, `LJProfileProofs`,
`LJTraceProofs`, `LJTabProofs` and `LJStateProofs` are below. The assumptions are `Kinds` (the kinds of objects are disjoint, markers are no
objects), `Permanent` (main thread, registry and globals exist) and `Bounds` (what
the constants are); TLC evaluates them in every run.

| theorem | module | argument |
|---|---|---|
| `TypeCorrect`: `[]TypeOK` | `LJGCProofs` | inductive by itself; one lemma for each group of actions, lemmas about what `Avail`, `Marked` and the barriers return |
| `WavefrontNeverRecedes`: `WavefrontAdvances` | `LJGCProofs` | `ShadedKeeps` (marking takes white objects only), then `Kept` for each group of actions; `MutatorRuns` (no program acts inside `atomic()`) |
| `LocalsShared`: `[](OneUvPerSlot /\ OpenAllocated)` | `LJGCProofs` | inductive with `TypeOK`; the only steps that matter are `func_finduv`, `lj_func_closeuv` and `gc_sweep`; `ShadedFreesNone` for the others |
| `GrayIsListed`: `[]ListsConsistent` | `LJGCProofs` | needs strengthening: a mark phase starts with no gray container only because the sweep before it has turned all of them white. `Lists` adds `WhiteBetweenCycles` and `SweptWhite`; `ShadedContainers` says that what turns gray is queued |
| `CollectorInvariant`: `[]IInv` | `LJGCSafety` | `IInv` (`LJGCInv`) is inductive, see below |
| `NothingReachableIsFreed`: `[]NoDangling` | `LJGCSafety` | a conjunct of `IInv` |
| `BarriersKeepTriColour`: `[]TriColour` | `LJGCSafety` | from `Wavefront` |
| `LocalsSharedSafely`: `[]OpenUvsShared` | `LJGCSafety` | from `UvInv` and `OpenUvOK` |
| `SweepsAreComplete`: `[]SweepComplete` | `LJGCSafety` | from `ColourOK` and `PhaseOK` |
| `CollectorImplementsHeap`: `Spec => ImplementsHeap` | `LJGCSafety` | from `IInv` and `WeakModes`, see below |
| `FreedOnlyFinalized`: `FreedUdataFinalized` | `LJGCSafety` | from `IInv` and `Finalized` |

The last seven have the hypothesis `NoSetUpvalue`: no program calls
`debug.setupvalue` (`\A p \in Programs : p.setuv = {}`). It cannot be left out: with
that call `TriColour` and therefore `IInv` fail, as `shared_upvalue` shows. The
first four need no hypothesis.

**Why `IInv`.** `NoDangling` says nothing about colours, and so nothing about why the
flip in `atomic_end` condemns no reachable object. `IInv` is built in layers, each
inductive given the ones before it:

1. `TypeOK`; `UvInv` (one open upvalue for each slot, and it is allocated);
2. `Lists` (what is gray and can be traversed is on a list), so that an empty list means
   that the traversal is over;
3. `Regular`: which colours an object may have (an open upvalue and a thread are never
   black, a closed upvalue and a userdata never gray), what is left to sweep, and that no
   machine code runs inside `atomic()`;
4. `Safe`: `Wavefront` (while marking, a black object leads to nothing white, pending
   userdata excepted), `AtomicOK` (what the parts of `atomic()` have made sure of besides:
   open upvalues, weak tables' strong parts, threads whose stacks have been seen for the last
   time, pending userdata), `PhaseOK` (nothing is condemned outside a sweep, what the
   sweep has passed has the current white), `PendingLive`, `FreeWiped`, `OpenUvOK`, and
   `NoDangling`.

At the flip all gray objects are thus known - second-chance threads, weak tables and open
upvalues - and so is what each of them leads to; `FlipKeepsRefs` puts it together.
The program's operations are sorted by what they have in common: `Allocated` (a new or
resurrected object is put into a slot), `Restacked` (only stacks and roots
change, no barrier), `Stored` (a store covered by a barrier), and closing upvalues
(all in `LJGCSafety`); the collector's by `Shades` (mark phase) and `SweptSome` (sweep).

**Why the collector implements `Heap`.** The steps of the program grow the abstract heap
(`Grown`: nothing that was there goes, no dead userdata comes back), which makes them `Mutate`.
Between two flips the collector changes no colour from white to dead, so that its steps are
`Forget` (`Weakened`), the clearing of stale stack slots included. Three steps do more:

* `lj_gc_separateudata` is `Condemn`: the lists are empty, so that all gray and black objects lead
  to such objects only (`AllTraced`); with the strings of weak tables they are the set that
  contains the roots and no userdata that is separated;
* `atomic_end` is `Collect`: the same set, with the strings that `gc_mayclear` meets - and
  they are all those that weak tables keep (`KeptStrings`) - is what remains. A table that loses
  entries has loose references (`ClearedTables`), which needs that the tables on the list
  are still weak: `WeakModes`;
* `gc_finalize` is `Finalize`.

What gets condemned is what is white at the flip; that white userdata are flagged by then is
`Finalized`, which is inductive together with `WeakModes` and `IInv`.

### Machine code (`LJMCodeProofs`)

Theorems about `LJMCode!Spec` for any number of areas, traces and stub groups, areas of any
sizes that hold the header, all stubs, the tail and the red zone (`AreasLargeEnough`), and a
red zone that covers what one check lets through (`RedZoneCovers`); a header that is small beside it
(`HeaderIsSmall`: `sizeof(MCLink)` is 16, `MCLIM_REDZONE` 64; only `FewRetries` needs it); and finitely many areas
(`MemoryIsFinite`). All have the hypothesis `ProtFails = FALSE`, without which `Executable` is false (section 4).

| theorem | follows from |
|---|---|
| `MCodeTypeCorrect`: `[]TypeOK` | inductive by itself: positions never leave the naturals |
| `MCodeApart`: `[]NoOverlap` | `Geometry`, `Assembling`, `Spans` |
| `MCodeExecutable`: `[]Executable` | `Protection` |
| `MCodeWritable`: `[]Writable` | `Protection` |
| `MCodeCacheTrue`: `[]CacheTrue` | `Protection`, `Geometry` |
| `MCodeExitsLead`: `[]ExitsLead` | a conjunct of the invariant |
| `MCodeSizes`: `[]SizesAccounted` | the invariant, and lemmas about `Found` and `Total` |
| `MCodeFewRetries`: `[]FewRetries` | `Fitting`, inductive together with the invariant |

`NoOverlap` is not inductive: it does not say where free memory is. `Geometry` does - stubs
of the current area end below `mcbot`, code begins above `mctop` - and `Assembling` bounds what
the assembler may write before its next check. `Protection` says which areas may be writable:
the current one, and the one that is patched.

What `mcode_free` finds is `Found`, the least set that has the current area and, with an area, the
one that its header links to; a new area puts itself in front of all others, so that it adds
itself to `Found` and its size to `Total`. The estimate of `lj_mcode_limiterr` bounds the
retries because of what `Fitting` says: the area of a retry is as large as `sizemcode` and has nothing in it
but stubs; that of a second one has not even these, since all stubs that the trace needs were
emitted into the first. What does not fit there is larger than `sizemcode`, and
`LJ_TRERR_MCODEOV`.

### Strings (`LJStrProofs`)

Theorems about `LJStr!Spec` for any finite set of strings, any contents, any hash function
(`HashIsFunction`) and any table sizes (`TableSizes`); `MemoryIsFinite` and `NullIsNone` are the
other assumptions.

| theorem | follows from |
|---|---|
| `StringTableSound`: `[]StringsSound` | the inductive invariant, and `PowerOf2` |
| `StringsAreInterned`: `Spec => ImplementsStrSet` | the invariant, and one lemma for each way of making a string |

The invariant adds `MarksSound`: outside a sweep all strings have the current white; during one,
those in chains that have been swept have it, and none that the program holds is dead. Without the
second part a held string could be swept; without the first, the flip could not be followed by
a sweep that leaves nothing. A resurrected string is where both meet: it is dead, not yet swept, and
in use again. That masking a hash with
`strmask` is division by the table's size (`Masked`) needs that the size is a power of two: all its
divisors but 1 are even (`PowerOf2`), which doubling and halving keep; of the smallest size
it is an assumption (`TableSizes`).

### Hooks and profiler (`LJProfileProofs`)

Theorems about `LJProfile!Spec` for any set of programs, functions that nest to any depth and any
number of ticks (`Parameters`). All have the hypothesis `Disciplined`: in a build with a timer
thread, programs only use functions that take the profiler lock to write `hookmask` - hooks, the
profiler's callback, start and stop - as lj_profile.c:78 demands. Finalizers, event handlers, the
error paths and `lua_sethook` do not take it, and `MaskRestored` is false of a thread
build that runs them (section 4). Programs of a build with a timer signal may do anything,
set hooks in signal handlers included.

| theorem | follows from |
|---|---|
| `ProfilerStaysSound`: `[]ProfilerSound` | `Types`, `Fresh`, `Masking` |
| `MaskIsRestored`: `[]MaskRestored` | `Masking` |
| `SamplesAreConserved`: `[]SamplesConserved` | `Counts` |
| `NoTraceStartsWithin`: `NoTraceWithin` | `Masking` |

The properties speak of the time when no function is left, or of two frames anywhere in `vm`; the
invariant `PInv` has to say what holds in the middle of each function, however deep:

* `Stack`: every frame but the innermost is at its callback (`"lua"`); frames are data, and what
  a function does at which position is a table (`PositionsOf`) from which `Where`, `Last`
  and `Sequel` follow;
* `Locks`: in its sections (`Section`) a function has the lock or the profiler is off, behind
  `join` the timer is dead, so that a mask that was read is still the mask when it is
  written back;
* `Counts`: no tick is lost between the reading and the reset of `samples`;
* `Masking`: for each frame there are the bits that were set outside of it, and what it has set
  itself (`Inner`) and saved (`Fits`) leads from one frame to the next. What an interrupted
  function saves is right whatever ran in between, since that left the mask as it found it;
* `Fresh`: the dispatch table is what `hookmask` asks for, unless someone who has the lock
  is about to write it (`Stale`).

### Trace compiler driver (`LJTraceProofs`)

Theorems about `LJTrace!Spec` for any number of traces, numbers, loops, returns and prototypes
(`Sorts`). All have the hypothesis that every program is `Tame`, and every program of the run
`trace` is. A program that is not does one of the things of section 4 that the code does not
survive: it catches, in the C function of a stitched call, an error that is thrown while its callee is
recorded; flushes in stitched calls; flushes in a hook although it
records returns or stitched traces; flushes or runs compiled code in the handlers of "record" and "texit".
Everything else is allowed at any time: flushes between recordings and in the handlers of "stop" and
"abort", compiled code that exits in those, hooks that abort and flush while a loop is recorded,
errors and errors caught while nothing is recorded, collections, blacklisting, any number of side
traces of side traces.

| theorem | follows from |
|---|---|
| `TraceInvariant`: `[](IInv /\ IpSound /\ Penalized)` | one lemma for each action |
| `TraceNumbers`: `[]NumbersSound` | `Named`, and two conjuncts of `IInv` |
| `TraceCode`: `[]CodeValid` | `ChainsSound`, `KeptSound`, `HoldsSound` |
| `TracePatch`: `[]PatchUndone` | `PhasesSound` |
| `TraceSides`: `SideAtItsExit` | `HoldsSound`, `Named` |
| `TraceAborts`: `AbortHonoured` | `PhasesSound` |
| `TraceHotside`: `HotsideIdle` | `IpSound`, `PhasesSound` |

`CodeValid` looks at what can be run now; it is no reason for anything to be there after the next
collection. The invariant speaks of what the prototypes keep alive instead: `Kept` is what can be
reached from the heads of their chains by the links that `gc_traverse_trace` marks.

* `PhasesSound`, `RecorderSound`: which of the driver, a handler and the program is waiting for which
  other one, and what `J->cur` holds by then;
* `Named`, `Shapes`: numbers and objects name each other, and what kinds of traces there are;
* `ChainsSound`: `nextroot` chains lead to root traces of their own prototype, and every JLOOP - the one
  that `lj_trace_exit` has taken away for a moment included - to the one that starts there;
* `KeptSound`: what is kept has its number, is not about to be freed, goes on to what its `link`
  names, and has its exits patched to side traces in the list of its root (`SideList`) only;
* `HoldsSound`: what `J->parent`, `J->exitno`, the link that the recorder has chosen, the program's
  position and the stitched frame name is kept too - or has no number any more, which is
  what the return of a stitched call looks at;
* `StitchSound`: programs without stitched calls have no stitched traces;
* `IpSound`: when the recorder has been shown a compiled loop or a return to C, it is still at it, or it
  has ended the trace and does not go back to recording, neither to unroll a loop nor for a
  down-recursion. So the recorder is idle when `BC_JLOOP` and `cont_stitch` enter machine code
  (`DispatchedIdle`), which is what the first conjunct of `PhasesSound`, and with it `HotsideIdle`, needs.

Most steps change no saved trace (`SameHeap`). A flush leaves nothing kept of the
prototype (`FlushallIs`, `FlushLinks`). Saving a trace adds it, and what it links to was kept already
(`Adds`, `AddsChains`, `AddsKept`, `AddsSides`). The collector frees what is not kept, which is
what makes the marking of all exits and links necessary (`Marked` has `Kept` in it). `Penalized`, that
no loop is penalized more often than the bound allows, is what keeps `TypeOK` inductive.

`Chain`, `Reach` and `Runnable` are least closed sets, not recursive: a lemma about
what is in them is a closed set that TLAPS can be told of.

### Tables (`LJTabProofs`)

Theorems about `LJTab!Spec` for any set of strings, any number of integer keys, any hash values and
any number of items in a constructor (`Sorts`). Tables are as large as that makes them. All have
the hypothesis that the program that runs is `Plain`: no string's address is taken by another one
while a dead node names it, and no constructor names a field twice. The code survives neither
(section 4). What is true of addresses that two strings take, and not three, only the run `tab` shows;
its other three programs are `Plain`.

| theorem | follows from |
|---|---|
| `TabNodes`: `[]NodesSound` | `Sound`, and `FindIs`, `GetIs` |
| `TabFaithful`: `[]Faithful` | `Stored` |
| `TabLength`: `[]LenIsBorder` | `Stored`, and `LengthIs` |
| `TabTraversal`: `TraversalExact` | `Traversed`, and `FollowingIs` |

`NodesSound` is far from inductive. It speaks of nodes with values, and what `lj_tab_newkey` does to
a chain is right because of the nodes without: a dead node keeps its key and its place. `Sound`, the
heart of the invariant `IInv`, is about all nodes that have a key:

* `Linked`: links form chains that end and do not run together. That they end is a function that gets
  less along them: each insertion has to give the new node a rank, and to move one gives the free node
  the rank of the old;
* `Placed`: no two nodes have a key in common, and the node of a key is on the chain
  through its main position, *and the node there is in its own main position*. The second half is why
  the predecessor of a colliding node can be found, and why moving that one away loses nobody;
* `FreeBelow`: a node at or above `freetop` has a key, so that searching downwards from there
  finds a free node if there is one;
* `Valued`: a value is its key's (or, in a template, the mark for one that is to come).

`NewKeyIs` has a lemma for each of the three ways in which `lj_tab_newkey` ends (`Overwritten`,
`LinkedBehind`, `Displaced`). A chain is the least set that links lead to (`On`), so a node is on it
if every closed set has it. What `Find` returns is an induction along the recursive function
`Chain`, done as a least counterexample (`LeastOf`).

A resize inserts again, one by one, what had a value. That it never lacks a node is a count: the
keys that are in nodes by then (`NodeKeys`) are among those that were to be hashed (`Hashed`), of which
there are no more than nodes, and the key to insert is not among them, so some node has none
(`RoomLeft`). `RehashIs` is that `rehashtab` counts right: an integer key that its candidate array takes is
counted out of the hash part (`na`), every other key with a value is in it, and one is added
for the new key. `CommittedIs` is the same for the template cache, whose keys have room because all
nodes of the template are free; `Template` says so, and that nothing is in the cache that the array has.

`Traversed` says what is due: the fields whose index (`keyindex`) is greater than that of the last
key. A store into a field that exists moves no node (`SetIs`), even if it stores nil.

### Stacks, calls and errors (`LJStateProofs`)

Theorems about `LJState!Spec` for any depth of calls, any sizes of frames, stacks and requests
(`StackConstants`; the argument slots of metamethods are the five that the comment in
lj_state.c:42 counts), with and without memory errors. All have the hypothesis `OneResult`, that C code
asks for at most one result of a call: `Agree` is false otherwise (section 4), as a return whose results do not
fit is given up between the reset of `L->base` and that of `L->cframe`. One result always fits, in the
slot of the function that returns.

| theorem | follows from |
|---|---|
| `ControlAgrees`: `[]Agree` | `Control` |
| `ErrorsAreCaught`: `[]CatchFound` | `Control`, and the walk of `err_unwind` |
| `HandlersAreFound`: `[]HandlerFound` | `Control`, and the walk of `finderrfunc` |
| `StackSuffices`: `[]StackFits` | `Control` and `Sizes` |

The invariant is `Control /\ Sizes`. `Agree` speaks of sets of slots, and says nothing of how two
calls that follow each other look in the two lists; `Control` does:

* `Linkage`: what each kind of call - a function, `pcall`, an entry of C code, `lj_vm_cpcall` -
  has to do with the one outside of it: the type and distance of its frame, whether it has a cframe of its own,
  what that says of results and handler (`FuncLink`, `FfLink`, `EnterLink`, `CpLink`);
* `Ordered`, `Here`, `FramesAre`, `CframesAre`, `First`: further in is further up, in both lists, and
  what is in the lists belongs to a call;
* `AboveBottom`: a function called by C code that `lj_vm_cpcall` runs has its frame above the
  slots of that code, which is the comparison (`frame < top`) by which `err_unwind` tells that it
  has reached it;
* `NextCall`, `NextOther`, `TopAbove`: what `todo` may be, depending on the innermost call.

A walk stays in a set of positions that belong to calls and gets closer to the bottom with each
step, so it ends at one where a step stays (`WalkEnds`; recursion over the number of steps, as a least
counterexample). For `err_unwind` the set says in addition that no call that was passed is protected
(`Catches`), for `finderrfunc` that none of them decides the handler (`Handles`), which in finalizers is
false: `NoFinalizer` is where that is needed. The steps of calls and returns then push one call
(`ShapeFrame`, `ShapeEntry`) or cut some off (`ShapeCut`), and unwinding is a cut too (`Thrown`).

`StackFits` is not inductive, as it does not know when slots are needed. `Sizes` adds: the frames
of all calls, C code included, start below `maxstack`, so that a message or a result can be
stored (`FitsIn`); the top is within the room while the program runs, up to two values more that C code
has pushed at the limit (`RunTop`, `Within`); the slots of a call that is about to begin may be
in the extra slots (`CallFits`); the function that has failed to get its stack has none (`Exempt`), and where its error
is caught there is room for the message (`CatchFits`). Each of these has an exception for stacks that
are overdrawn, and the cut back to the limit in `lj_state_relimitstack` is where it is needed
(`ThrownKeeps`). `lj_state_shrinkstack` keeps all this since the slots in use are less than a quarter
of the stack (`ShrinkRoom`), which `used` bounds by the ends of all frames (`UsedIs`).

### Only model-checked

* `CondemnedAreGarbage`, which is false of programs that section 4 names, and of which `Condemn`
  states what is always true;
* addresses of strings that others take, in `LJTab`: what is left of `Sound` then depends on how many
  do;
* more than one result for C code, in `LJState`;
* `LJFold`: it has `RECURSIVE` operators (folding retries with what a rule has rewritten), and that the retries
  end depends on all rules together; that each rule is right for words of any width would need
  facts about bit vectors that the library does not have;
* liveness under fairness.

## 7. Plan and what is not modelled

The order was that of importance: the collector first, because every other part
depends on it and its errors show latest; then the state that two actors write; the
trace driver; tables, which this repository has changed; then machine code, strings,
stacks with errors, and the rules of the optimiser. All but the last have proofs. Worth doing
next: vararg frames and yields in `LJState`, hot counters and loop unrolling in `LJTrace`, and
the pacing of the collector.

### Not modelled

* The order in which `lj_dispatch_update` writes the dispatch table. Each entry is one
  word; what a reader sees in between is the old or the new routine, and both look at
  `hookmask` again. One step is an abstraction of the same behaviours.
* Pacing of the collector (`gc.threshold`, `lj_gc_step`): sizes in bytes, whose effect on
  control is when a step is taken. `LJGC` has it taken at any time for safety; for liveness
  `SF_vars(Collector)` assumes it.
* Destroying the profiler lock in a callback that stops the profiler (lj_profile.c:290):
  what an operating system does with a destroyed lock is not in the repository.
* Loader and `gemcore` hook: one sequential rewriting of text, without state.
* FFI: types and conversions are data; callbacks enter the interpreter on a stack of
  their own, from machine code that the model of stacks does not have.
* Recorder, loop optimiser, allocation of registers, snapshots; FOLD rules for floating point, 64 bit
  integers, `BSWAP`, strings and memory, and those for bounds checks in an unrolled loop (`abc_fwd`,
  `abc_invar`): pure functions on large data, whose reference would be the
  semantics of Lua and of the processors.
* Bytecode reader and writer, lexer, the parser but for table constructors, number
  formatting: pure functions, better tested than modelled.
* Ports other than x86; allocator, build tools, stock interpreter (third-party or generated);
  libraries (the C API that they use is modelled).
