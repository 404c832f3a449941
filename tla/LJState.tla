-------------------------------- MODULE LJState --------------------------------
(***************************************************************************)
(* The stack of a thread, calls, and errors (lj_state.c, lj_err.c, and the *)
(* entries and exits of the interpreter in vm_x86.dasc, without GC64).     *)
(* Frames are linked downwards in the stack; the entries of C code into    *)
(* the interpreter are linked by cframes, in the C stack.  An error walks  *)
(* both lists in step to find the call that catches it, and, before, the   *)
(* function that handles it.  The stack grows at calls and pushes, shrinks *)
(* when the collector traverses it, and is overdrawn while the error of an *)
(* overflow is handled.  Pointers into it are slot numbers here.           *)
(***************************************************************************)
EXTENDS Integers, Sequences, FiniteSets, FiniteSetsExt

CONSTANTS
  LUA_MINSTACK, LUAI_MAXSTACK, LJ_STACK_EXTRA,
  FrameSizes,    \* frame sizes of Lua functions
  NRes,          \* numbers of results that C code asks for
  CSlots,        \* sizes that C functions pass to lua_checkstack and lua_settop
  MemFails,      \* whether the allocator may fail
  MaxCalls       \* bound on the depth of calls

\* Five extra slots hold the arguments of metamethods (lj_state.c:42).
ASSUME StackConstants ==
  /\ LUA_MINSTACK \in Nat \ {0} /\ LUAI_MAXSTACK \in Nat
  /\ LJ_STACK_EXTRA \in Nat /\ LJ_STACK_EXTRA >= 5
  /\ FrameSizes \subseteq Nat \ {0} /\ NRes \subseteq Nat /\ CSlots \subseteq Nat
  /\ MemFails \in BOOLEAN /\ MaxCalls \in Nat

LJ_STACK_START == 2 * LUA_MINSTACK
LJ_STACK_MAXEX == LUAI_MAXSTACK + 1 + LJ_STACK_EXTRA

VARIABLES
  base, top, stacksize,
  frames,        \* the frames on the stack, by their slots
  cframe,        \* the cframes, from the outermost
  status,
  openupval,     \* the slots that upvalues refer to
  calls,         \* the calls that are active in truth (see Calls)
  todo           \* what the interpreter, or the code of errors, does next
vars == <<base, top, stacksize, frames, cframe, status, openupval, calls, todo>>

\* "run": the function that is active goes on; "call": the function at slot f is called; "return":
\* the function that is active returns n results; "throw", "msg", "line", "err": the stages of an error
Go(do) == [do |-> do, f |-> 0, typ |-> "LUA", n |-> 0, fs |-> 0]
Calling(f, typ, nargs, fs) == [do |-> "call", f |-> f, typ |-> typ, n |-> nargs, fs |-> fs]
Returning(n) == [Go("return") EXCEPT !.n = n]

Least(a, b) == IF a < b THEN a ELSE b
maxstack == stacksize - LJ_STACK_EXTRA - 1
Innermost == calls[Len(calls)]
\* the frame size of the function whose frame is at slot f, 0 for a C function
framesize(frs, f) == IF f = 0 THEN 0 ELSE frs[f].fs
\* curr_top, if the stack is so
curr_top(b, frs, t) == IF framesize(frs, b - 1) > 0 THEN b + framesize(frs, b - 1) ELSE t

(***************************************************************************)
(* Sizes.                                                                  *)
(***************************************************************************)
\* the size that resizestack(n) makes; the slots that it has moved are found again by their numbers
resizestack(n) == n + 1 + LJ_STACK_EXTRA

\* lj_state_relimitstack, with the top at slot t
relimitstack(t) ==
  IF stacksize > LJ_STACK_MAXEX /\ t < LUAI_MAXSTACK - 1 THEN resizestack(LUAI_MAXSTACK) ELSE stacksize

\* gc_traverse_frames: the slots that are in use, up to the limit
used == Least(Max({top - 1} \cup {f + framesize(frames, f) : f \in DOMAIN frames}) + 1, maxstack)

\* lj_state_shrinkstack
Shrinks == /\ stacksize <= LJ_STACK_MAXEX
           /\ 4 * used < stacksize
           /\ 2 * (LJ_STACK_START + LJ_STACK_EXTRA) < stacksize

\* lj_state_growstack: the sizes it may leave, with the error e that it raises (or "none")
GrownSize(need) ==
  LET n == stacksize + need
  IN  IF n > LUAI_MAXSTACK THEN n + 2 * LUA_MINSTACK
      ELSE IF n < 2 * stacksize THEN Least(2 * stacksize, LUAI_MAXSTACK) ELSE n
\* Wrong: the stack is overdrawn again and again.
OverdrawnNever == FALSE
Overdrawn == stacksize > LJ_STACK_MAXEX
growstack(need) ==
  IF Overdrawn THEN {[e |-> "throw", size |-> stacksize]}
  ELSE LET size == resizestack(GrownSize(need))
       IN  {[e |-> IF size > LJ_STACK_MAXEX THEN "msg" ELSE "none", size |-> size]}
             \cup (IF MemFails THEN {[e |-> "mem", size |-> stacksize]} ELSE {})
\* a check of the stack; one that finds enough room leaves it
Checked(short, need) == IF short THEN growstack(need) ELSE {[e |-> "none", size |-> stacksize]}

\* After a check with outcome o the code goes on with its top at slot u, or an error is raised
\* with the top at slot t: that of an overflow starts with its message (lj_err_msg), one of the
\* allocator has its message pushed (lj_err_mem).
GoOn(o, t, u, next) ==
  /\ stacksize' = o.size
  /\ top' = CASE o.e = "none" -> u
              [] o.e = "mem" -> t + 1
              [] OTHER -> t
  /\ todo' = CASE o.e = "none" -> next
               [] o.e = "msg" -> Go("msg")
               [] OTHER -> Go("throw")
\* a value is pushed at slot t
incr_top(t, next) ==
  \E o \in Checked(t + 1 >= maxstack, 1) : GoOn(o, t + 1, t + 1, next)

(***************************************************************************)
(* Calls: what is active in truth, from the outermost; the code only has   *)
(* frames and cframes.  "lua" and "c" are functions, "ff" is pcall or      *)
(* xpcall, "enter" is C code that has called lj_vm_call, lj_vm_pcall or    *)
(* lj_vm_resume, and "cp" a C function that lj_vm_cpcall has called.       *)
(* f: its frame, or that of the function it runs for; c: its cframe, or    *)
(* the one it runs in; prot: it catches errors; h: the slot of its         *)
(* handler, 0 for none, -1 if it inherits one; after: what the C code that *)
(* has called does next.                                                   *)
(***************************************************************************)
Active(k, f, c) == [k |-> k, f |-> f, c |-> c, prot |-> FALSE, h |-> 0, after |-> "continue"]
Entries == {"enter", "cp"}
\* The function that is active is one of these, or C code that lj_vm_cpcall runs.
Running(kinds) == todo.do = "run" /\ Innermost.k \in kinds
Deeper == Len(calls) < MaxCalls

\* the frames with one of the given type at slot f, for a function of frame size fs
Linked(f, typ, fs, xp) ==
  LET frame == [typ |-> typ, delta |-> f - (base - 1), fs |-> fs, xp |-> xp]
  IN  [g \in DOMAIN frames \cup {f} |-> IF g = f THEN frame ELSE frames[g]]
prev(f) == f - frames[f].delta
\* the frames below slot b
Below(b) == [f \in {g \in DOMAIN frames : g < b} |-> frames[f]]
Outer(n) == SubSeq(calls, 1, n)
Cframe(nres, errf) == [nres |-> nres, errf |-> errf, yield |-> FALSE]

\* C code enters the interpreter to call the function at slot f: lj_vm_call (typ "C") or
\* lj_vm_pcall ("CP")
Enter(f, typ, h, nres, after, nargs, fs) ==
  /\ cframe' = Append(cframe, Cframe(nres, h))
  /\ calls' = Append(calls, [Active("enter", base - 1, Len(cframe) + 1) EXCEPT
                               !.prot = typ = "CP", !.h = h, !.after = after])
  /\ todo' = Calling(f, typ, nargs, fs)

(***************************************************************************)
(* The interpreter: calls and returns.                                     *)
(***************************************************************************)
\* vm_call_dispatch, and the check at the head of the function (BC_FUNCF, BC_FUNCC,
\* vm_growstack_f and _c)
Call ==
  LET f == todo.f
      fs == todo.fs
      t == f + 1 + todo.n
  IN  /\ todo.do = "call"
      /\ base' = f + 1
      /\ frames' = Linked(f, todo.typ, fs, FALSE)
      /\ calls' = Append(calls, Active(IF fs > 0 THEN "lua" ELSE "c", f, Len(cframe)))
      /\ \E o \in IF fs > 0 THEN Checked(f + 1 + fs > maxstack, fs)
                            ELSE Checked(t + LUA_MINSTACK > maxstack, LUA_MINSTACK) :
           GoOn(o, t, IF fs > 0 THEN f + 1 + fs ELSE t, Go("run"))
      /\ UNCHANGED <<cframe, status, openupval>>

\* the frame of the function that returns is left
Unlinked == base' = prev(base - 1) + 1 /\ frames' = Below(base - 1)

\* BC_RET, vm_returnc, cont_dispatch
ReturnToLua ==
  /\ todo.do = "return" /\ frames[base - 1].typ \in {"LUA", "CONT"}
  /\ Unlinked
  /\ calls' = Outer(Len(calls) - 1)
  /\ top' = curr_top(base', frames', top)
  /\ todo' = Go("run")
  /\ UNCHANGED <<stacksize, cframe, status, openupval>>

\* vm_returnp: pcall and xpcall return one result more
ReturnToPcall ==
  /\ todo.do = "return" /\ frames[base - 1].typ = "PCALL"
  /\ Unlinked
  /\ calls' = Outer(Len(calls) - 1)
  /\ todo' = Returning(todo.n + 1)
  /\ UNCHANGED <<top, stacksize, cframe, status, openupval>>

\* a dead coroutine, or the end of the process
NewThread ==
  /\ base' = 1 /\ top' = 1 /\ stacksize' = LJ_STACK_START + LJ_STACK_EXTRA
  /\ frames' = << >> /\ cframe' = << >>
  /\ status' = "ok" /\ openupval' = {}
  /\ calls' = <<Active("c", 0, 0)>> /\ todo' = Go("run")

\* vm_return, vm_leave_cp: the stack grows for the results that C code asks for; lj_err_run
\* throws the message of its handler
ReturnToC ==
  LET f == base - 1
      n == todo.n
      w == cframe[Len(cframe)].nres
      t == IF f + n > maxstack THEN f + 1 + n ELSE maxstack + 1
      next == IF calls[Len(calls) - 1].after = "errhandler" THEN "throw" ELSE "run"
  IN  /\ todo.do = "return" /\ frames[f].typ \in {"C", "CP"}
      /\ IF cframe[Len(cframe)].yield THEN NewThread
         ELSE /\ Unlinked
              /\ \E o \in Checked(w > n /\ f + w > maxstack, w + 1) :
                   /\ GoOn(o, t, IF next = "run" THEN curr_top(base', frames', f + w) ELSE f + w, Go(next))
                   /\ IF o.e = "none" THEN /\ calls' = Outer(Len(calls) - 2)
                                       /\ cframe' = SubSeq(cframe, 1, Len(cframe) - 1)
                                  ELSE calls' = Outer(Len(calls) - 1) /\ UNCHANGED cframe
              /\ UNCHANGED <<status, openupval>>

(***************************************************************************)
(* Errors.                                                                 *)
(***************************************************************************)
\* unwindstack: where the error message ends up, at slot level or below
Unwound(level) == IF level < top - 1 THEN level + 1 ELSE top
\* Wrong: upvalues stay open.
UnwindKeepsOpen(b, level) ==
  /\ base' = b /\ frames' = Below(b)
  /\ stacksize' = relimitstack(Unwound(level))
  /\ UNCHANGED openupval
\* and the rest of it, with the new base
unwindstack(b, level) ==
  /\ base' = b /\ frames' = Below(b)
  /\ stacksize' = relimitstack(Unwound(level))
  /\ openupval' = {u \in openupval : u < level}

\* A position in the walk along the frames and cframes: a frame, and the number of cframes left.
\* The walk takes a step at a time, and stays where it has found what it looks for.
Positions == (0 .. base - 1) \X (0 .. Len(cframe))
Walk(step) ==
  LET n == base + Len(cframe)
      at[i \in 0 .. n] == IF i = 0 THEN <<base - 1, Len(cframe)>> ELSE step[at[i - 1]]
  IN  at[n]
\* C code that lj_vm_cpcall runs, without a frame of its own
FrameReached(frame, c) == cframe[c].nres < 0 /\ frame < -cframe[c].nres

\* err_unwind: what catches the error, with which cframe and frame
UnwindStep ==
  [p \in Positions |->
     LET frame == p[1]
         c == p[2]
     IN  IF c = 0 \/ FrameReached(frame, c) \/ frame = 0 THEN p
         ELSE CASE frames[frame].typ \in {"LUA", "CONT"} -> <<prev(frame), c>>
                [] frames[frame].typ = "C" -> <<prev(frame), c - 1>>
                [] OTHER -> p]
err_unwind ==
  LET p == Walk(UnwindStep)
      frame == p[1]
      c == p[2]
      how == CASE c = 0 -> "none"
               [] c > 0 /\ FrameReached(frame, c) -> "cp"
               [] c > 0 /\ ~FrameReached(frame, c) /\ frame = 0 -> "none"
               [] OTHER -> IF frames[frame].typ = "PCALL" THEN "ff"
                           ELSE IF cframe[c].yield THEN "resume" ELSE "enter"
  IN  [how |-> how, frame |-> frame, c |-> c]

\* finderrfunc: the slot of the handler, or 0
HandlerStep ==
  [p \in Positions |->
     LET frame == p[1]
         c == p[2]
     IN  IF frame = 0 \/ c = 0 THEN p
         ELSE IF FrameReached(frame, c)
                THEN IF cframe[c].errf >= 0 THEN p ELSE <<frame, c - 1>>
         ELSE CASE frames[frame].typ \in {"LUA", "CONT"} -> <<prev(frame), c>>
                [] frames[frame].typ = "C" -> <<prev(frame), c - 1>>
                [] frames[frame].typ = "CP" ->
                     IF cframe[c].yield \/ cframe[c].errf >= 0 THEN p ELSE <<prev(frame), c>>
                [] OTHER -> p]
finderrfunc ==
  LET p == Walk(HandlerStep)
      frame == p[1]
      c == p[2]
  IN  IF frame = 0 \/ c = 0 THEN 0
      ELSE IF FrameReached(frame, c) THEN cframe[c].errf
      ELSE IF frames[frame].typ = "PCALL" THEN IF frames[prev(frame)].xp THEN prev(frame) + 1 ELSE 0
      ELSE IF cframe[c].yield THEN 0 ELSE cframe[c].errf

\* the activation that cframe c, or the fast function at slot f, belongs to
Owner(c) == CHOOSE i \in 1 .. Len(calls) : calls[i].k \in Entries /\ calls[i].c = c
OwnerFF(f) == CHOOSE i \in 1 .. Len(calls) : calls[i].k = "ff" /\ calls[i].f = f

\* control is in the C code of call i, which goes on; gc_call_finalizer throws the error again
Caught(i, b, level) ==
  /\ unwindstack(b, level)
  /\ cframe' = SubSeq(cframe, 1, calls[i].c - 1)
  /\ calls' = Outer(i - 1)
  /\ IF calls[i].after = "finalizer"
       THEN top' = Unwound(level) /\ todo' = Go("throw")
       ELSE top' = curr_top(b, frames, Unwound(level)) /\ todo' = Go("run")

\* lj_err_throw: unwind to the call that catches the error
lj_err_throw ==
  LET r == err_unwind
      f == prev(r.frame)
  IN  /\ todo.do = "throw"
      /\ \/ r.how = "cp" /\ Caught(Owner(r.c), r.frame + 1, -cframe[r.c].nres) /\ status' = "ok"
         \/ r.how = "enter" /\ Caught(Owner(r.c), f + 1, r.frame) /\ status' = "ok"
         \/ /\ r.how = "ff"
            /\ unwindstack(f + 1, f + 1)
            /\ cframe' = SubSeq(cframe, 1, r.c)
            /\ calls' = Outer(OwnerFF(f))
            /\ top' = Unwound(f + 1) /\ todo' = Returning(2)
            /\ status' = "ok"
         \/ r.how \in {"none", "resume"} /\ NewThread

\* err_msgv: the message is pushed,
err_msgv ==
  /\ todo.do = "msg"
  /\ incr_top(curr_top(base, frames, top), Go("line"))
  /\ UNCHANGED <<base, frames, cframe, status, openupval, calls>>
\* and again with the line (lj_debug_addloc)
lj_debug_addloc ==
  /\ todo.do = "line"
  /\ incr_top(top, Go("err"))
  /\ UNCHANGED <<base, frames, cframe, status, openupval, calls>>

\* lj_err_run: the handler is called where the error is, with the message, but not for its own errors
RunsHandler == finderrfunc # 0 /\ status # "errerr"
lj_err_run ==
  /\ todo.do = "err"
  /\ IF RunsHandler
       THEN /\ status' = "errerr"
            /\ \E fs \in FrameSizes \cup {0} : Enter(top - 1, "C", 0, 1, "errhandler", 1, fs)
       ELSE todo' = Go("throw") /\ UNCHANGED <<status, cframe, calls>>
  /\ UNCHANGED <<base, top, stacksize, frames, openupval>>

(***************************************************************************)
(* What Lua functions do.                                                  *)
(***************************************************************************)
Kinds == FrameSizes \cup {0}

\* A Lua function calls one at any of its slots above the first.
CallLua ==
  /\ Running({"lua"}) /\ Deeper
  /\ \E f \in {base + 1, top - 1} \cap base + 1 .. top - 1, fs \in Kinds :
       todo' = Calling(f, "LUA", 0, fs)
  /\ UNCHANGED <<base, top, stacksize, frames, cframe, status, openupval, calls>>

\* pcall(f) and xpcall(f, h), which are not C functions
Pcall ==
  /\ Running({"lua"}) /\ Deeper
  /\ \E xp \in BOOLEAN, fs \in Kinds :
       LET skip == IF xp THEN 2 ELSE 1
       IN  \E p \in {base + 1, top - 1 - skip} :
             /\ p > base /\ p + skip < top
             /\ base' = p + 1
             /\ frames' = Linked(p, "LUA", 0, xp)
             /\ calls' = Append(calls, [Active("ff", p, Len(cframe)) EXCEPT
                                          !.prot = TRUE, !.h = IF xp THEN p + 1 ELSE 0])
             /\ todo' = Calling(p + skip, "PCALL", 0, fs)
  /\ UNCHANGED <<top, stacksize, cframe, status, openupval>>

\* a metamethod: its frame and arguments are stored above the top, unchecked (mmcall)
CallMeta ==
  /\ Running({"lua"}) /\ Deeper
  /\ \E fs \in Kinds : todo' = Calling(top + 1, "CONT", 2, fs)
  /\ UNCHANGED <<base, top, stacksize, frames, cframe, status, openupval, calls>>

\* lj_func_finduv for the first slot
OpenUpvalue ==
  /\ Running({"lua"})
  /\ openupval' = openupval \cup {base}
  /\ UNCHANGED <<base, top, stacksize, frames, cframe, status, calls, todo>>

\* Lua functions close their upvalues
ReturnLua ==
  /\ Running({"lua"})
  /\ openupval' = {u \in openupval : u < base}
  /\ todo' = Returning(0)
  /\ UNCHANGED <<base, top, stacksize, frames, cframe, status, calls>>

ErrorLua ==
  /\ Running({"lua"})
  /\ todo' = Go("msg")
  /\ UNCHANGED <<base, top, stacksize, frames, cframe, status, openupval, calls>>

(***************************************************************************)
(* What C functions do, and C code that lj_vm_cpcall has called without a  *)
(* frame of its own.                                                       *)
(***************************************************************************)
Bottom == IF Innermost.k = "cp" THEN -cframe[Len(cframe)].nres ELSE base

Push ==
  /\ Running({"c", "cp"}) /\ top < Bottom + 2
  /\ incr_top(top, todo)
  /\ UNCHANGED <<base, frames, cframe, status, openupval, calls>>

\* lua_settop checks the limit
Grows(n) == base + n >= maxstack
lua_settop(n) ==
  /\ Running({"c"})
  /\ \E o \in Checked(base + n > top /\ Grows(n), n - (top - base)) : GoOn(o, top, base + n, todo)
  /\ UNCHANGED <<base, frames, cframe, status, openupval, calls>>

lua_checkstack(n) ==
  /\ Running({"c"}) /\ maxstack - top <= n
  /\ \E o \in growstack(n) : GoOn(o, top, top, todo)
  /\ UNCHANGED <<base, frames, cframe, status, openupval, calls>>

lua_call ==
  /\ Running({"c", "cp"}) /\ top > Bottom /\ Deeper
  /\ \E fs \in Kinds, w \in NRes : Enter(top - 1, "C", 0, w, "continue", 0, fs)
  /\ UNCHANGED <<base, top, stacksize, frames, status, openupval>>

\* with a handler, which is in the first slot, or without
lua_pcall ==
  /\ Running({"c"}) /\ top > base /\ Deeper
  /\ \E fs \in Kinds, w \in NRes, h \in {0} \cup (IF top - 1 > base THEN {base} ELSE {}) :
       Enter(top - 1, "CP", h, w, "continue", 0, fs)
  /\ UNCHANGED <<base, top, stacksize, frames, status, openupval>>

\* Wrong: the saved top is one slot too low.
EnterCpLow(h) ==
  /\ cframe' = Append(cframe, Cframe(1 - top, h))
  /\ calls' = Append(calls, [Active("cp", base - 1, Len(cframe) + 1) EXCEPT !.prot = TRUE, !.h = h])
\* Wrong: the handler is not inherited.
EnterCpPlain(h) ==
  /\ cframe' = Append(cframe, Cframe(-top, 0))
  /\ calls' = Append(calls, [Active("cp", base - 1, Len(cframe) + 1) EXCEPT !.prot = TRUE, !.h = h])
\* lj_vm_cpcall(func): func runs without a frame; h is what it sets cframe_errfunc to
EnterCp(h) ==
  /\ cframe' = Append(cframe, Cframe(-top, h))
  /\ calls' = Append(calls, [Active("cp", base - 1, Len(cframe) + 1) EXCEPT !.prot = TRUE, !.h = h])

\* cpcall makes a function, which may fail, and then its frame
lua_cpcall ==
  /\ Running({"c"}) /\ top < Bottom + 2 /\ Deeper
  /\ \/ Enter(top, "CP", 0, 0, "continue", 1, 0) /\ UNCHANGED top
     \/ MemFails /\ EnterCp(0) /\ top' = top + 1 /\ todo' = Go("throw")
  /\ UNCHANGED <<base, stacksize, frames, status, openupval>>

\* cpparser, which calls the reader function; its errors are thrown as they are
lua_load ==
  /\ Running({"c"}) /\ top < Bottom + 2 /\ Deeper
  /\ EnterCp(-1)
  /\ UNCHANGED <<base, top, stacksize, frames, status, openupval, todo>>
ErrorCp ==
  /\ Running({"cp"})
  /\ incr_top(top, Go("throw"))
  /\ UNCHANGED <<base, frames, cframe, status, openupval, calls>>
\* vm_leave_cp
LeaveCp ==
  /\ Running({"cp"})
  /\ cframe' = SubSeq(cframe, 1, Len(cframe) - 1)
  /\ calls' = Outer(Len(calls) - 1)
  /\ top' = Bottom + 1
  /\ UNCHANGED <<base, stacksize, frames, status, openupval, todo>>

lua_error ==
  /\ Running({"c"}) /\ top > base
  /\ todo' = Go("err")
  /\ UNCHANGED <<base, top, stacksize, frames, cframe, status, openupval, calls>>

ReturnC ==
  /\ Running({"c"}) /\ base > 1
  /\ \E n \in {0, 1} : base + n <= top /\ todo' = Returning(n)
  /\ UNCHANGED <<base, top, stacksize, frames, cframe, status, openupval, calls>>

\* The collector runs in any code that allocates: it traverses the thread, or runs a finalizer.
gc_traverse_thread ==
  /\ todo.do = "run"
  /\ stacksize' = IF Shrinks THEN resizestack(stacksize \div 2) ELSE stacksize
  /\ UNCHANGED <<base, top, frames, cframe, status, openupval, calls, todo>>
gc_call_finalizer ==
  /\ todo.do = "run" /\ Deeper
  /\ \E fs \in Kinds : Enter(top, "CP", -1, 0, "finalizer", 1, fs)
  /\ UNCHANGED <<base, top, stacksize, frames, status, openupval>>

\* The main thread is in the C code of the host; lua_resume starts a coroutine with a function.
Init ==
  /\ base = 1 /\ top = 1 /\ stacksize = LJ_STACK_START + LJ_STACK_EXTRA
  /\ frames = << >> /\ status = "ok" /\ openupval = {}
  /\ \/ cframe = << >> /\ calls = <<Active("c", 0, 0)>> /\ todo = Go("run")
     \/ /\ cframe = <<[nres |-> 0, errf |-> 0, yield |-> TRUE]>>
        /\ calls = <<[Active("enter", 0, 1) EXCEPT !.prot = TRUE]>>
        /\ \E fs \in Kinds : todo = Calling(1, "CP", 0, fs)

Next == \/ Call \/ ReturnToLua \/ ReturnToPcall \/ ReturnToC
        \/ lj_err_throw \/ err_msgv \/ lj_debug_addloc \/ lj_err_run
        \/ CallLua \/ Pcall \/ CallMeta \/ OpenUpvalue \/ ReturnLua \/ ErrorLua
        \/ Push \/ (\E n \in CSlots \cup {0} : lua_settop(n)) \/ (\E n \in CSlots : lua_checkstack(n))
        \/ lua_call \/ lua_pcall \/ lua_cpcall \/ lua_load \/ ErrorCp \/ LeaveCp
        \/ lua_error \/ ReturnC
        \/ gc_traverse_thread \/ gc_call_finalizer
Spec == Init /\ [][Next]_vars

(***************************************************************************)
(* Properties.                                                             *)
(***************************************************************************)
FrameType == [typ : {"LUA", "C", "CP", "CONT", "PCALL"}, delta : Nat \ {0}, fs : Kinds, xp : BOOLEAN]
CallType == [k : {"lua", "c", "ff", "enter", "cp"}, f : Nat, c : Nat, prot : BOOLEAN,
             h : Nat \cup {-1}, after : {"continue", "errhandler", "finalizer"}]
TodoType == [do : {"run", "call", "return", "throw", "msg", "line", "err"}, f : Nat,
             typ : {"LUA", "C", "CP", "CONT", "PCALL"}, n : Nat, fs : Kinds]
TypeOK ==
  /\ base \in Nat \ {0} /\ top \in Nat /\ stacksize \in Nat
  /\ DOMAIN frames \subseteq Nat \ {0}
  /\ \A f \in DOMAIN frames : frames[f] \in FrameType
  /\ cframe \in Seq([nres : Int, errf : Nat \cup {-1}, yield : BOOLEAN])
  /\ status \in {"ok", "errerr"} /\ openupval \subseteq Nat
  /\ calls \in Seq(CallType) /\ calls # << >>
  /\ todo \in TodoType

FramesOf == {calls[i].f : i \in {j \in 1 .. Len(calls) : calls[j].k \in {"lua", "c", "ff"}}}
\* Open upvalues are variables of functions that are active.
UpvaluesLive == \A u \in openupval : \E f \in FramesOf : framesize(frames, f) > 0 /\ u = f + 1

\* Control and stack agree: after any mixture of calls, errors and returns the frames and cframes
\* are those of the calls that are active, base is that of the innermost function, and the
\* upvalues of the functions that an error has ended are closed.
Agree ==
  /\ TypeOK
  /\ DOMAIN frames = FramesOf \ {0}
  /\ base - 1 \in FramesOf \cup {0} /\ \A f \in FramesOf : f < base
  /\ {calls[i].c : i \in {j \in 1 .. Len(calls) : calls[j].k \in Entries}} = DOMAIN cframe
  /\ UpvaluesLive

FrameEnd(f) == f + 1 + framesize(frames, f)
Requests == FrameSizes \cup CSlots \cup {LUA_MINSTACK, 1}
\* An error is raised in a function that has not got its stack.
Failing == todo.do \in {"throw", "msg"}

\* The functions that are active have their frames and slots below the limit that is checked, and
\* this after the stack was shrunk or an overflow was handled; but a function that was called
\* beyond LUAI_MAXSTACK may find its slots gone (lj_state_relimitstack), and the innermost has none
\* when it has failed to get them.  The stack is overdrawn by one request, for the handling of the
\* overflow, and never again before that has been caught.
StackFits ==
  /\ \E need \in Requests :
       stacksize <= LJ_STACK_MAXEX + need + 2 * LUA_MINSTACK + 1 + LJ_STACK_EXTRA
  /\ \A f \in FramesOf :
       (f = base - 1 /\ Failing)
         \/ FrameEnd(f) <= maxstack \/ FrameEnd(f) > LUAI_MAXSTACK
  /\ top <= stacksize \/ top > LUAI_MAXSTACK

\* Errors are raised by functions, and by C code that lj_vm_cpcall runs.
MayFail == Innermost.k \in {"lua", "c", "cp"}
Protected == {i \in 1 .. Len(calls) : calls[i].prot}
Catcher == CHOOSE i \in Protected : \A j \in Protected : j <= i
\* The error is caught by the innermost protected call, whatever frames and cframes lie between.
CatchFound ==
  MayFail =>
    LET r == err_unwind
    IN  IF Protected = {} THEN r.how = "none"
        ELSE LET a == calls[Catcher]
             IN  IF a.k = "ff" THEN r.how = "ff" /\ prev(r.frame) = a.f
                 ELSE r.c = a.c /\ r.how \in {a.k, "resume"}

\* The handler of an error is that of the innermost protected call that does not inherit one,
Deciding == {i \in Protected : calls[i].h # -1}
HandlerOf == IF Deciding = {} THEN 0
             ELSE calls[CHOOSE i \in Deciding : \A j \in Deciding : j <= i].h
\* as lj_err.c:537 has it; this fails in finalizers.
HandlerInherited == MayFail => finderrfunc = HandlerOf
\* Outside finalizers the handler of an error is the right one.
HandlerFound == (\A i \in 1 .. Len(calls) : calls[i].after # "finalizer") => HandlerInherited
================================================================================
