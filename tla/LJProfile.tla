------------------------------ MODULE LJProfile ------------------------------
(***************************************************************************)
(* g->hookmask, the byte that says which hooks are wanted and which kind of *)
(* callback is running, and g->dispatchmode, which the dispatch table is    *)
(* derived from: read and written by the VM and by the profiler's timer,    *)
(* which is a thread of its own (Windows) or a signal (POSIX).              *)
(*                                                                         *)
(* A function of the VM is the sequence of its accesses to this state; the *)
(* timer acts between any two of them.  Functions nest: a finalizer, a VM  *)
(* event handler, a hook or a profiler callback is Lua code again.         *)
(*                                                                         *)
(* An operator whose comment starts with "Wrong:" is not part of the       *)
(* model: it is a plausible mistake in the definition that follows.        *)
(***************************************************************************)
EXTENDS Naturals, Sequences

CONSTANTS
  Programs,   \* the programs: the build they run on, the functions they make the VM call
  MaxDepth,   \* bound: how deep they nest
  MaxTicks    \* bound: ticks of the timer in one run of the profiler

Functions ==
  {"gc_call_finalizer", "lj_vmevent_call", "callhook", "callhook_throw", "lua_sethook",
   "sethook_signal", "lj_profile_interpreter", "trace_start", "trace_stop",
   "lua_pcall", "luaJIT_profile_start", "luaJIT_profile_stop"}
ASSUME Parameters ==
  \* "thread" is LJ_PROFILE_WTHREAD or _PTHREAD, "signal" is LJ_PROFILE_SIGPROF
  /\ Programs \subseteq [variant : {"thread", "signal"}, ops : SUBSET Functions]
  /\ MaxDepth \in Nat /\ MaxTicks \in Nat

VARIABLES
  prog,       \* the program that runs
  hookmask,   \* g->hookmask: "event" stands for the event bits, LINE or COUNT
  mode,       \* g->dispatchmode, and with it the dispatch table
  state,      \* J->state: "idle", "record", or "abort" when it has lost its ACTIVE bit
  running,    \* profile_state.g is set
  samples,    \* profile_state.samples
  lock,       \* profile_state.lock: "none" (no such lock), "free", "vm" or "timer"
  timer,      \* what the timer does next, "dead" when there is none
  halt,       \* profile_state.abort
  tmask, tmode,  \* locals of the timer: the mask, <<old mode, new mode>>
  vm,         \* the frames of the functions that the VM is in, innermost last
  \* history
  wanted,     \* the event bits that lua_sethook set last
  ticks, delivered  \* ticks, and samples given to the callback, since the start

timervars == <<timer, halt, tmask, tmode>>
profvars == <<running, samples, ticks, delivered>>
vars == <<prog, hookmask, mode, state, lock, timervars, profvars, vm, wanted>>

\* the profiler is off; a hook may have been set
Init ==
  /\ prog \in Programs
  /\ wanted \in BOOLEAN
  /\ hookmask = (IF wanted THEN {"event"} ELSE {}) /\ mode = (IF wanted THEN {"ins"} ELSE {})
  /\ state = "idle"
  /\ running = FALSE /\ samples = 0 /\ lock = "none"
  /\ timer = "dead" /\ halt = FALSE /\ tmask = {} /\ tmode = <<{}, {}>>
  /\ vm = <<>> /\ ticks = 0 /\ delivered = 0

\* lj_dispatch_update: the mode that follows from what it reads
NewMode ==
  (IF state # "idle" THEN {"rec", "ins"} ELSE {})
    \cup (IF "profile" \in hookmask THEN {"prof", "ins"} ELSE {})
    \cup (IF "event" \in hookmask THEN {"ins"} ELSE {})
\* ... and nothing is written when that is the mode it has read before
WriteMode(m) == mode' = IF m[1] # m[2] THEN m[2] ELSE mode

-----------------------------------------------------------------------------
(* The functions of the VM.  "load" and the store that follows are one |= or  *)
(* &= on hookmask; "read" and "write" are lj_dispatch_update; at "lua" the    *)
(* function has called back, and Lua code runs.                               *)

gc_call_finalizer ==
  <<"save", "abort", "load", "entergc", "lua", "load", "restore">>
lj_vmevent_call == <<"save", "load", "vmevent", "lua", "load", "restore">>
\* Wrong: hook_leave without the lock.
callhook_unlocked ==
  <<"abort", "lock", "load", "enter", "unlock", "lua", "load", "leave">>
callhook ==
  <<"abort", "lock", "load", "enter", "unlock", "lua", "lock", "load", "leave", "unlock">>
\* the hook ends with an error: err_unwind leaves it
callhook_throw ==
  <<"abort", "lock", "load", "enter", "unlock", "lua", "load", "leave">>
lua_sethook == <<"load", "events", "abort", "read", "write">>
\* Wrong: hooks and traces are not kept out of the callback.
profile_interpreter_open ==
  <<"lock", "mask", "take", "reset", "read", "write", "unlock", "lua",
    "lock", "collect", "setmask", "read", "write", "unlock">>
\* Wrong: the samples are read before the lock is taken.
profile_interpreter_early ==
  <<"mask", "take", "lock", "reset", "only_vmevent", "read", "write", "unlock", "lua",
    "lock", "collect", "setmask", "read", "write", "unlock">>
\* Wrong: the dispatch table is left as it is.
profile_interpreter_stale ==
  <<"lock", "mask", "take", "reset", "only_vmevent", "read", "write", "unlock", "lua",
    "lock", "collect", "setmask", "unlock">>
lj_profile_interpreter ==
  <<"lock", "mask", "take", "reset", "only_vmevent", "read", "write", "unlock", "lua",
    "lock", "collect", "setmask", "read", "write", "unlock">>
\* in a VM event handler the callback is not called
lj_profile_interpreter_skip == <<"lock", "mask", "setmask", "read", "write", "unlock">>
\* lua_pcall of a function that ends with an error
lua_pcall == <<"save", "lua", "load", "restore">>
trace_start == <<"record", "read", "write">>
trace_stop == <<"idle", "read", "write">>
luaJIT_profile_start == <<"start">>
luaJIT_profile_stop == <<"halt", "join", "load", "clear", "read", "write", "stopped">>

-----------------------------------------------------------------------------
Top == vm[Len(vm)]
At(op) == vm # <<>> /\ Top.code[Top.pc] = op
\* Lua code runs: the program, or what a function has called back
Executing == vm = <<>> \/ At("lua")
Within(codes) == \E i \in DOMAIN vm : vm[i].code \in codes

\* frame f is done with the access at its pc
Step(f) ==
  vm' = IF f.pc = Len(f.code) THEN SubSeq(vm, 1, Len(vm) - 1)
        ELSE [vm EXCEPT ![Len(vm)] = [f EXCEPT !.pc = @ + 1]]
Call(fn, code, arg) ==
  /\ fn \in prog.ops /\ Executing /\ Len(vm) < MaxDepth
  /\ vm' = Append(vm, [code |-> code, pc |-> 1, oldh |-> arg, tmp |-> {}, new |-> {}])

\* the next instruction does not go to lj_dispatch_profile first
Dispatched == "prof" \notin mode
CallFunction ==
  /\ \/ Call("gc_call_finalizer", gc_call_finalizer, {})
     \/ Call("lua_pcall", lua_pcall, {})
     \* no VM events in a VM event handler: g->vmevmask is 0
     \/ ~Within({lj_vmevent_call}) /\ Call("lj_vmevent_call", lj_vmevent_call, {})
     \/ /\ Dispatched /\ "ins" \in mode /\ "event" \in hookmask /\ "active" \notin hookmask
        /\ Call("callhook", callhook, {}) \/ Call("callhook_throw", callhook_throw, {})
     \/ \E events \in {{}, {"event"}} : Call("lua_sethook", lua_sethook, events)
     \/ /\ "prof" \in mode
        /\ IF "vmevent" \in hookmask
           THEN Call("lj_profile_interpreter", lj_profile_interpreter_skip, {})
           ELSE Call("lj_profile_interpreter", lj_profile_interpreter, {})
     \* lj_trace_hot
     \/ /\ Dispatched /\ state = "idle" /\ {"gc", "vmevent"} \cap hookmask = {}
        /\ Call("trace_start", trace_start, {})
     \/ /\ Dispatched /\ state # "idle" /\ "rec" \in mode /\ "vmevent" \notin hookmask
        /\ Call("trace_stop", trace_stop, {})
     \/ ~running /\ Call("luaJIT_profile_start", luaJIT_profile_start, {})
     \* Bound: programs do not stop the profiler in its callback
     \/ /\ running /\ ~Within({lj_profile_interpreter})
        /\ Call("luaJIT_profile_stop", luaJIT_profile_stop, {})
  /\ UNCHANGED <<hookmask, mode, state, lock, timervars, profvars, wanted>>

Return ==
  /\ At("lua") /\ Step(Top)
  /\ UNCHANGED <<hookmask, mode, state, lock, timervars, profvars, wanted>>

\* reads into locals: hook_save, hookmask for |= and &=, the event bits of
\* hook_restore, lj_dispatch_update, and the mask of lj_profile_interpreter
Load ==
  /\ \/ At("save") /\ Step([Top EXCEPT !.oldh = hookmask \ {"event"}])
     \/ At("load") /\ Step([Top EXCEPT !.tmp = hookmask])
     \/ At("read") /\ Step([Top EXCEPT !.new = <<mode, NewMode>>])
     \/ At("mask") /\ Step([Top EXCEPT !.oldh = hookmask \ {"profile"}])
     \/ At("collect") /\ Step([Top EXCEPT !.oldh = @ \cup (hookmask \cap {"profile"})])
  /\ UNCHANGED <<hookmask, mode, state, lock, timervars, profvars, wanted>>

\* stores to g->hookmask
Store ==
  /\ \/ At("entergc") /\ hookmask' = Top.tmp \cup {"active", "gc"}
     \/ At("vmevent") /\ hookmask' = Top.tmp \cup {"active", "vmevent"}
     \/ At("enter") /\ hookmask' = Top.tmp \cup {"active"}
     \/ At("leave") /\ hookmask' = Top.tmp \ {"active"}
     \/ At("restore") /\ hookmask' = (Top.tmp \cap {"event"}) \cup Top.oldh
     \/ At("events") /\ hookmask' = (Top.tmp \ {"event"}) \cup Top.oldh
     \/ At("clear") /\ hookmask' = Top.tmp \ {"profile"}
     \/ At("only_vmevent") /\ hookmask' = {"vmevent"}
     \/ At("setmask") /\ hookmask' = Top.oldh
  /\ Step(Top)
  /\ wanted' = IF At("events") THEN "event" \in Top.oldh ELSE wanted
  /\ UNCHANGED <<mode, state, lock, timervars, profvars>>

\* the rest of lj_dispatch_update
StoreMode ==
  /\ At("write") /\ WriteMode(Top.new) /\ Step(Top)
  /\ UNCHANGED <<hookmask, state, lock, timervars, profvars, wanted>>

\* lj_trace_abort, and the trace compiler as far as it matters here
StoreState ==
  /\ \/ At("abort") /\ state' = IF state = "record" THEN "abort" ELSE state
     \/ At("record") /\ state' = "record"
     \/ At("idle") /\ state' = "idle"
  /\ Step(Top)
  /\ UNCHANGED <<hookmask, mode, lock, timervars, profvars, wanted>>

\* profile_lock is empty in the signal variant; lj_profile_hook_enter and
\* _leave take the lock only when the profiler is on
Locking == prog.variant = "thread" /\ (running \/ Top.code = lj_profile_interpreter)
Lock ==
  /\ At("lock")
  /\ IF Locking THEN lock = "free" /\ lock' = "vm" ELSE UNCHANGED lock
  /\ Step(Top)
  /\ UNCHANGED <<hookmask, mode, state, timervars, profvars, wanted>>
Unlock ==
  /\ At("unlock")
  /\ lock' = IF lock = "vm" THEN "free" ELSE lock
  /\ Step(Top)
  /\ UNCHANGED <<hookmask, mode, state, timervars, profvars, wanted>>

TakeSamples ==
  /\ \/ At("take") /\ delivered' = delivered + samples /\ UNCHANGED samples
     \/ At("reset") /\ samples' = 0 /\ UNCHANGED delivered
  /\ Step(Top)
  /\ UNCHANGED <<hookmask, mode, state, lock, timervars, running, ticks, wanted>>

StartStop ==
  /\ \/ /\ At("start")   \* profile_timer_start
        /\ running' = TRUE /\ samples' = 0 /\ ticks' = 0 /\ delivered' = 0
        /\ timer' = "sleep" /\ halt' = FALSE
        /\ lock' = IF prog.variant = "thread" THEN "free" ELSE lock
     \/ /\ At("halt")    \* profile_timer_stop
        /\ halt' = TRUE /\ timer' = IF prog.variant = "signal" THEN "dead" ELSE timer
        /\ UNCHANGED <<profvars, lock>>
     \/ /\ At("join") /\ timer = "dead"
        /\ lock' = "none" /\ UNCHANGED <<profvars, timer, halt>>
     \/ /\ At("stopped")
        /\ running' = FALSE /\ UNCHANGED <<samples, ticks, delivered, lock, timer, halt>>
  /\ Step(Top)
  /\ UNCHANGED <<hookmask, mode, state, tmask, tmode, wanted>>

VM ==
  \/ CallFunction \/ Return \/ Load \/ Store \/ StoreMode \/ StoreState
  \/ Lock \/ Unlock \/ TakeSamples \/ StartStop

-----------------------------------------------------------------------------
(* profile_thread: after each interval it looks at abort, then triggers *)

TimerUnchanged == UNCHANGED <<state, running, delivered, vm, wanted>>
Armed == {"profile", "vmevent"} \cap hookmask = {}

profile_thread_exit ==
  /\ prog.variant = "thread" /\ timer = "sleep" /\ halt
  /\ timer' = "dead"
  /\ UNCHANGED <<hookmask, mode, lock, halt, tmask, tmode, samples, ticks>> /\ TimerUnchanged

\* profile_trigger, step by step.  Taking the lock and reading hookmask are one
\* step: what happens in between could as well happen before.
trigger_lock ==
  /\ prog.variant = "thread" /\ timer = "sleep" /\ ~halt /\ ticks < MaxTicks
  /\ lock = "free" /\ lock' = "timer"
  /\ samples' = samples + 1 /\ ticks' = ticks + 1
  /\ tmask' = hookmask /\ timer' = IF Armed THEN "store" ELSE "unlock"
  /\ UNCHANGED <<hookmask, mode, halt, tmode>> /\ TimerUnchanged
trigger_store ==
  /\ timer = "store" /\ timer' = "read"
  /\ hookmask' = tmask \cup {"profile"}
  /\ UNCHANGED <<mode, lock, halt, tmask, tmode, samples, ticks>> /\ TimerUnchanged
trigger_read ==
  /\ timer = "read" /\ timer' = "write"
  /\ tmode' = <<mode, NewMode>>
  /\ UNCHANGED <<hookmask, mode, lock, halt, tmask, samples, ticks>> /\ TimerUnchanged
trigger_write ==
  /\ timer = "write" /\ timer' = "unlock"
  /\ WriteMode(tmode)
  /\ UNCHANGED <<hookmask, lock, halt, tmask, tmode, samples, ticks>> /\ TimerUnchanged
\* the locals of the call are gone
trigger_unlock ==
  /\ timer = "unlock" /\ timer' = "sleep"
  /\ lock' = "free" /\ tmask' = {} /\ tmode' = <<{}, {}>>
  /\ UNCHANGED <<hookmask, mode, halt, samples, ticks>> /\ TimerUnchanged

\* a signal handler runs to its end between two accesses of the VM
profile_signal ==
  /\ prog.variant = "signal" /\ timer = "sleep" /\ ticks < MaxTicks
  /\ samples' = samples + 1 /\ ticks' = ticks + 1
  /\ IF Armed
     THEN /\ hookmask' = hookmask \cup {"profile"}
          /\ mode' = NewMode \cup {"prof", "ins"}
     ELSE UNCHANGED <<hookmask, mode>>
  /\ UNCHANGED <<lock, timervars>> /\ TimerUnchanged

\* lua_sethook "can be called asynchronously (e.g. during a signal)"
sethook_signal ==
  /\ "sethook_signal" \in prog.ops /\ ~wanted
  /\ hookmask' = hookmask \cup {"event"} /\ wanted' = TRUE
  /\ state' = (IF state = "record" THEN "abort" ELSE state)
  /\ mode' = NewMode \cup {"ins"}
  /\ UNCHANGED <<lock, timervars, profvars, vm>>

Timer ==
  \/ profile_thread_exit \/ trigger_lock \/ trigger_store \/ trigger_read
  \/ trigger_write \/ trigger_unlock \/ profile_signal

Next == (VM \/ Timer \/ sethook_signal) /\ UNCHANGED prog
Spec == Init /\ [][Next]_vars

-----------------------------------------------------------------------------
(* Correctness *)

Masks == SUBSET {"event", "active", "vmevent", "gc", "profile"}
Modes == SUBSET {"ins", "rec", "prof"}
TypeOK ==
  /\ hookmask \in Masks /\ mode \in Modes /\ state \in {"idle", "record", "abort"}
  /\ running \in BOOLEAN /\ halt \in BOOLEAN /\ wanted \in BOOLEAN
  /\ samples \in 0 .. MaxTicks /\ ticks \in 0 .. MaxTicks /\ delivered \in 0 .. MaxTicks
  /\ lock \in {"none", "free", "vm", "timer"}
  /\ timer \in {"dead", "sleep", "store", "read", "write", "unlock"}
  /\ tmask \in Masks /\ tmode \in Modes \X Modes
  /\ Len(vm) <= MaxDepth

\* the VM is in none of these functions, the timer sleeps
Quiet == vm = <<>> /\ timer \in {"sleep", "dead"}

\* What a callback set is gone when it is over: hooks and traces that a
\* finalizer, an event handler, a hook or a profiler callback kept out may come
\* again.
MaskRestored == vm = <<>> => hookmask \cap {"active", "vmevent", "gc"} = {}

\* No trace is started within a finalizer, an event handler or a profiler
\* callback: lj_trace_hot finds their bits in hookmask.
NoTraceWithin ==
  [][state = "idle" /\ state' = "record" =>
       ~Within({gc_call_finalizer, lj_vmevent_call, lj_profile_interpreter})]_vars

\* With a timer thread, the dispatch table is the one that hookmask and the trace
\* compiler ask for.
DispatchFresh == prog.variant = "thread" /\ Quiet => mode = NewMode

\* With a timer thread, each tick of the timer is handed to the callback, once.
SamplesConserved ==
  prog.variant = "thread" /\ Quiet => ticks = delivered + samples

\* The profiler callback is never called within itself.
CallbackNotNested ==
  \A i, j \in DOMAIN vm :
    vm[i].code = lj_profile_interpreter /\ vm[j].code = lj_profile_interpreter => i = j

\* Whatever nests, hookmask and the dispatch table agree when all is over, and the profiler
\* keeps itself out.
ProfilerSound == TypeOK /\ DispatchFresh /\ CallbackNotNested
=============================================================================
