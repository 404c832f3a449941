------------------------------- MODULE LJTrace -------------------------------
(***************************************************************************)
(* The trace compiler driver of lj_trace.c: the state machine that starts, *)
(* records, assembles, stops and aborts traces, the trace numbers, the     *)
(* bytecode that leads into traces, the links between traces, flushing,    *)
(* and the collection of traces nothing leads to.                          *)
(*                                                                         *)
(* Recorder, optimiser and assembler are what they return: they go on,     *)
(* stop with a link, or raise an error.  A VM event is a point where its   *)
(* handler runs: `event' names it, and the action that ends it is the rest *)
(* of the function that has sent it.                                       *)
(*                                                                         *)
(* An operator whose comment starts with "Wrong:" is not part of the       *)
(* model, see LJGC.                                                        *)
(***************************************************************************)
EXTENDS Naturals, FiniteSets

CONSTANTS
  Obj,          \* the identities of GCtrace objects
  Null, Cur,    \* no trace, and the trace that is being recorded, J->cur
  MaxTrace,     \* bound: trace numbers
  Proto, Loop, Ret,  \* prototypes; pcs of their loop and return instructions
  ProtoOf,
  NoPC,
  MaxPenalty,   \* bound: how often a loop is penalized
  Programs      \* the programs, see Sorts

Pc == Loop \cup Ret
TraceNo == 0 .. MaxTrace
Events == {"record", "stop", "abort", "texit"}   \* Bound: no handler of "start"
ASSUME Sorts ==
  /\ MaxTrace \in Nat \ {0} /\ MaxPenalty \in Nat
  /\ {Null, Cur} \cap Obj = {} /\ Null # Cur /\ Loop \cap Ret = {} /\ NoPC \notin Pc
  /\ {"lua", "ret", "c"} \cap Pc = {}
  /\ ProtoOf \in [Pc -> Proto]
  /\ Programs \subseteq
       [pcs : SUBSET Pc,          \* the loops and returns that get hot
        objs : SUBSET Obj,        \* the traces that there is memory for
        maxtrace : 1 .. MaxTrace, \* JIT_P_maxtrace; the trace array has this size
        penalties : 0 .. MaxPenalty,  \* how many a loop gets before it is blacklisted
        \* C code of the program calls luaJIT_setmode when nothing is recorded, in a hook
        \* that has aborted recording, in a function that a stitched trace has called;
        \* there are stitched calls; the C function of one catches an error that is
        \* thrown while recording is on
        ops : SUBSET {"setmode", "hook", "stitched_calls", "stitch", "throw"},
        flushin : SUBSET Events,  \* the VM events whose handlers call luaJIT_setmode
        codein : SUBSET Events]   \* and those whose handlers run compiled code

VARIABLES
  prog,        \* the program that runs
  \* jit_State
  state,       \* "aborted" is any state with the bit LJ_TRACE_ACTIVE cleared
  cur,         \* J->cur
  parent, exitno, jpc, err,
  trace, freetrace, penalty,
  patch,       \* J->patchpc, whose instruction is JLOOP in J->patchins
  bcskip,
  \* the program
  op, jd,      \* operation and operand of the instruction at each pc
  pttrace, nojit,   \* trace and PROTO_NOJIT of each prototype
  tr,          \* GCtrace objects
  event, tno,  \* the VM event being handled, local traceno of trace_abort
  at,          \* the trace whose machine code runs, or Null
  frame,       \* the trace of a continuation frame on the stack, or Null
  restart,     \* where lj_trace_exit lets the interpreter go on
  \* what the interpreter executes next: the JLOOP at a pc, or a return to C ("ret"),
  \* that the recorder has been shown; some instruction ("lua"); or the program is in
  \* the C function of a stitched call ("c")
  ip,
  dead,        \* traces that wait to be swept
  \* history
  from,        \* the trace whose exit is to be continued
  asked        \* recording has been asked to abort

jvars == <<state, cur, parent, exitno, jpc, err, trace, freetrace, penalty, patch, bcskip>>
bcvars == <<op, jd, pttrace, nojit, tr>>
runvars == <<at, frame, restart, ip>>
vars == <<prog, jvars, bcvars, event, tno, runvars, dead, from, asked>>

\* what is known of a trace: number, kind of its first instruction, where it
\* starts, its links, whether it ends with a stitched call; and where its machine
\* code goes to at its end and at the exit that programs take
NoTrace ==
  [no |-> 0, kind |-> "none", startpc |-> NoPC, root |-> 0, link |-> 0, stitch |-> FALSE,
   nextroot |-> 0, nextside |-> 0, jump |-> Null, side |-> Null]
Saved == {o \in Obj : tr[o].kind # "none"}
\* traceref: the trace with number n
Traceref(n) ==
  CASE trace[n] = Cur -> cur [] trace[n] = Null -> NoTrace [] OTHER -> tr[trace[n]]
\* what X leads to by way of Links: the least set that contains X and is closed under them
Reach(X, Links) ==
  {y \in DOMAIN Links :
     \A S \in SUBSET DOMAIN Links : X \subseteq S /\ (\A x \in S : Links[x] \subseteq S) => y \in S}
\* the root traces of prototype p: pt->trace and what nextroot leads to
Nextroots == [n \in TraceNo \ {0} |-> {Traceref(n).nextroot} \ {0}]
Chain(p) == Reach({pttrace[p]} \ {0}, Nextroots)

Init ==
  /\ prog \in Programs
  /\ state = "idle" /\ cur = NoTrace /\ parent = 0 /\ exitno = 0 /\ jpc = NoPC /\ err = "none"
  /\ trace = [n \in TraceNo |-> Null] /\ freetrace = 0 /\ penalty = [pc \in Loop |-> 0]
  /\ patch = NoPC /\ bcskip = FALSE
  /\ op = [pc \in Pc |-> "LOOP"] /\ jd = [pc \in Pc |-> 0]
  /\ pttrace = [p \in Proto |-> 0] /\ nojit = [p \in Proto |-> FALSE]
  /\ tr = [o \in Obj |-> NoTrace]
  /\ event = "none" /\ tno = 0 /\ at = Null /\ frame = Null /\ restart = NoPC
  /\ ip = "lua"
  /\ dead = {} /\ from = Null /\ asked = FALSE

\* trace_state is at work, the program waits
Inside == state \in {"start", "end", "asm", "err"}
\* the program runs, but no machine code; recording may be on
Quiet == at = Null /\ event = "none" /\ restart = NoPC /\ ~Inside
\* ... in the interpreter, at an instruction that is not one of those ip names
Interp == Quiet /\ ip = "lua"
\* Instruction i is executed: the dispatch table leads to the recorder first, unless it
\* is idle (lj_dispatch_update).
Dispatched(i) == ip = i \/ (ip = "lua" /\ state = "idle")
\* ... or a VM event handler does
Handler == event \in prog.flushin

\* Wrong: an instruction that is skipped stays so, whatever ends the recording.
Due_skipped(force) == patch # NoPC /\ ~bcskip
\* trace_pendpatch: the return instruction gets its JLOOP back
Due(force) == patch # NoPC /\ (force \/ ~bcskip)
Repatched(force) == IF Due(force) THEN [op EXCEPT ![patch] = "JLOOP"] ELSE op
Pendpatch(force) ==
  /\ patch' = IF Due(force) THEN NoPC ELSE patch
  /\ bcskip' = IF patch # NoPC /\ ~Due(force) THEN FALSE ELSE bcskip

\* trace_unpatch of the root traces with numbers in N
Unpatched(N) ==
  [pc \in Pc |->
     IF op[pc] = "JLOOP" /\ \E n \in N : Traceref(n).startpc = pc THEN "LOOP" ELSE op[pc]]

\* lj_trace_flushall, which the state of the recorder does not stop
Flushall ==
  LET all == {n \in TraceNo \ {0} : trace[n] # Null}
  IN  /\ op' = Unpatched({n \in all : Traceref(n).root = 0})
      /\ pttrace' = [p \in Proto |-> 0]
      /\ tr' = [o \in Obj |-> IF \E n \in all : trace[n] = o
                               THEN [tr[o] EXCEPT !.no = 0, !.link = 0, !.nextroot = 0]
                               ELSE tr[o]]
      /\ cur' = [cur EXCEPT !.no = 0, !.link = IF \E n \in all : trace[n] = Cur THEN 0 ELSE @]
      /\ trace' = [n \in TraceNo |-> IF n = 0 THEN trace[0] ELSE Null]
      /\ freetrace' = 0 /\ penalty' = [pc \in Loop |-> 0]
      /\ UNCHANGED <<jd, nojit>>

-----------------------------------------------------------------------------
(* Starting *)

Start(pc) == state' = "start" /\ jpc' = pc /\ asked' = FALSE

lj_trace_hot(pc) ==
  /\ Interp /\ state = "idle" /\ pc \in Loop \cap prog.pcs /\ op[pc] = "LOOP"
  /\ Start(pc) /\ parent' = 0 /\ exitno' = 0
  /\ UNCHANGED <<cur, err, trace, freetrace, penalty, patch, bcskip, bcvars, event, tno,
                 runvars, dead, from>>

\* trace_findfree; the number 0 stands for none
FreeNo ==
  LET N == {n \in 1 .. prog.maxtrace : n >= freetrace /\ trace[n] = Null}
  IN  IF N = {} THEN 0 ELSE CHOOSE n \in N : \A k \in N : n <= k

\* Nothing is recorded: back to idle; for trace_downrec the idle state is one
\* more abort.
trace_start_fails == IF jpc \in Ret THEN state' = "err" /\ err' = "other"
                     ELSE state' = "idle" /\ UNCHANGED err
\* p is the current prototype, which the program determines
trace_start(p) ==
  /\ state = "start" /\ event = "none" /\ (jpc # NoPC => p = ProtoOf[jpc])
  /\ IF nojit[p]
     THEN /\ trace_start_fails
          /\ op' = IF parent = 0 /\ exitno = 0 THEN [op EXCEPT ![jpc] = "ILOOP"] ELSE op
          /\ UNCHANGED <<cur, trace, freetrace, penalty, bcskip, jd, pttrace, nojit, tr, event>>
     ELSE IF FreeNo = 0
     THEN trace_start_fails /\ Flushall /\ UNCHANGED <<bcskip, event>>
     ELSE /\ state' = "record" /\ bcskip' = FALSE /\ event' = "start"
          /\ cur' = [NoTrace EXCEPT !.no = FreeNo]
          /\ trace' = [trace EXCEPT ![FreeNo] = Cur] /\ freetrace' = FreeNo + 1
          /\ UNCHANGED <<err, penalty, bcvars>>
  /\ UNCHANGED <<parent, exitno, jpc, patch, tno, runvars, dead, from, asked>>

\* lj_record_stop
Stop(link, stitch) ==
  state' = "end" /\ cur' = [cur EXCEPT !.link = link, !.stitch = stitch]
Fail(e) == state' = "err" /\ err' = e

\* the rest of trace_start: recording is set up, unless too many side traces or
\* an error end it at once
lj_record_setup ==
  /\ event = "start" /\ event' = "none"
  /\ IF parent # 0
     THEN /\ trace[parent] # Null
          /\ LET root == IF Traceref(parent).root = 0 THEN parent ELSE Traceref(parent).root
             IN  /\ trace[root] # Null
                 /\ cur' = [cur EXCEPT !.root = root, !.kind = "JMP"]
          /\ \/ UNCHANGED <<state, err>>
             \/ state' = "end" /\ UNCHANGED err
             \/ Fail("other")
     ELSE /\ cur' = [cur EXCEPT !.startpc = jpc,
                               !.kind = CASE jpc \in Loop -> "LOOP" [] jpc \in Ret -> "RET"
                                          [] OTHER -> "CALL"]
          /\ UNCHANGED <<state, err>> \/ Fail("other")
  /\ UNCHANGED <<parent, exitno, jpc, trace, freetrace, penalty, patch, bcskip, bcvars,
                 tno, runvars, dead, from, asked>>

-----------------------------------------------------------------------------
(* Recording *)

\* Instruction i is about to be executed.  vm_record shows it to the recorder, which
\* starts with trace_pendpatch, and then executes what is there.
lj_trace_ins(i) ==
  /\ Interp /\ state = "record" /\ (i = "ret" => frame # Null)
  /\ Pendpatch(FALSE) /\ op' = Repatched(FALSE) /\ (i \in Pc => op'[i] = "JLOOP")
  /\ event' = "record" /\ ip' = i
  /\ UNCHANGED <<state, cur, parent, exitno, jpc, err, trace, freetrace, penalty, jd, pttrace,
                 nojit, tr, tno, at, frame, restart, dead, from, asked>>

\* A compiled loop is hit: it is left or not entered, or it ends a trace that is not a
\* root trace (BC_JFORI: any).
rec_loop_jit ==
  LET root == parent = 0 /\ exitno = 0
  IN  \/ ip \in Loop /\ ip' = "lua" /\ UNCHANGED <<state, cur>>
      \/ (root => ip \in Loop) /\ Stop(jd[ip], FALSE) /\ UNCHANGED ip
      \/ ~root /\ Stop(cur.no, FALSE) /\ UNCHANGED ip

\* Each of its parts is what lj_record_ins does with one sort of instruction; a return
\* to C ends the trace, and so does a call that is to be stitched.
lj_record_ins ==
  LET compiled == ip \in Pc /\ op[ip] = "JLOOP" IN
  /\ event = "record" /\ event' = "none"
  /\ \/ compiled /\ rec_loop_jit /\ UNCHANGED <<jpc, err>>
     \/ ip = "ret" /\ Stop(0, FALSE) /\ UNCHANGED <<jpc, err, ip>>
     \/ /\ ip # "ret" /\ ~compiled /\ ip' = "lua"
        /\ \/ UNCHANGED <<state, cur>>
           \/ \E link \in {0, cur.no} : Stop(link, FALSE)
           \/ "stitch" \in prog.ops /\ Stop(0, TRUE)
        /\ UNCHANGED <<jpc, err>>
     \/ /\ \/ \E e \in {"other", "RETRY"} : Fail(e) /\ UNCHANGED jpc
           \/ /\ ip # "ret" /\ ~compiled
              /\ Fail("DOWNREC") /\ jpc' \in {pc \in Ret \cap prog.pcs : op[pc] = "LOOP"}
        /\ UNCHANGED <<cur, ip>>
  /\ UNCHANGED <<parent, exitno, trace, freetrace, penalty, patch, bcskip, bcvars, tno,
                 at, frame, restart, dead, from, asked>>

\* Wrong: rec_loop_jit does not reset J->instunroll.
Unrolls_always == TRUE
\* J->instunroll lets a loop be unrolled: no compiled loop has ended its recording
Unrolls == ip \notin Pc
\* LJ_TRACE_END: the loop optimisation may ask for more of the loop
trace_end ==
  /\ state = "end" /\ event = "none"
  /\ Pendpatch(TRUE) /\ op' = Repatched(TRUE)
  /\ \/ state' = "asm" /\ UNCHANGED cur
     \/ /\ cur.link = cur.no /\ Unrolls
        /\ state' = "record" /\ cur' = [cur EXCEPT !.link = 0]
  /\ UNCHANGED <<parent, exitno, jpc, err, trace, freetrace, penalty, jd, pttrace, nojit, tr,
                 event, tno, runvars, dead, from, asked>>

asm_error ==
  /\ state = "asm" /\ event = "none"
  /\ \E e \in {"MCODELM", "MCODEAL", "other"} : Fail(e)
  /\ UNCHANGED <<cur, parent, exitno, jpc, trace, freetrace, penalty, patch, bcskip, bcvars,
                 event, tno, runvars, dead, from, asked>>

\* Wrong: the exit of the root trace is patched, always.
Patchexit_root == trace[cur.root]
\* the trace whose exit lj_asm_patchexit patches
Patchexit == trace[parent]
\* lj_asm_trace has generated the code, trace_stop patches it in and saves the trace
trace_stop(o) ==
  LET no == cur.no
      jump == CASE cur.link = 0 -> Null [] cur.link = no -> o [] OTHER -> trace[cur.link]
      new == [cur EXCEPT !.jump = jump]
  IN
  /\ state = "asm" /\ event = "none" /\ o \in prog.objs \ Saved
  /\ \/ /\ cur.kind \in {"LOOP", "RET"}
        /\ op' = [op EXCEPT ![cur.startpc] = "JLOOP"] /\ jd' = [jd EXCEPT ![cur.startpc] = no]
        /\ LET p == ProtoOf[cur.startpc]
           IN  /\ tr' = [tr EXCEPT ![o] = [new EXCEPT !.nextroot = pttrace[p]]]
               /\ pttrace' = [pttrace EXCEPT ![p] = no]
     \/ /\ cur.kind = "JMP" /\ Patchexit \in Obj /\ trace[cur.root] \in Obj
        /\ tr' = [x \in Obj |->
             IF x = o THEN [new EXCEPT !.nextside = Traceref(cur.root).nextside]
             ELSE [tr[x] EXCEPT !.side = IF x = Patchexit THEN o ELSE @,
                                !.nextside = IF x = trace[cur.root] THEN no ELSE @]]
        /\ UNCHANGED <<op, jd, pttrace>>
     \/ /\ cur.kind = "CALL" /\ trace[exitno] \in Obj
        /\ tr' = [tr EXCEPT ![o] = new, ![trace[exitno]].link = no]
        /\ UNCHANGED <<op, jd, pttrace>>
  /\ trace' = [trace EXCEPT ![no] = o] /\ cur' = [cur EXCEPT !.no = 0]
  /\ event' = "stop"
  /\ UNCHANGED <<state, parent, exitno, jpc, err, freetrace, penalty, patch, bcskip, nojit,
                 tno, runvars, dead, from, asked>>

trace_stop_end ==
  /\ event = "stop" /\ event' = "none" /\ state' = "idle" /\ asked' = FALSE
  /\ UNCHANGED <<cur, parent, exitno, jpc, err, trace, freetrace, penalty, patch, bcskip,
                 bcvars, tno, runvars, dead, from>>

-----------------------------------------------------------------------------
(* Aborting *)

\* penalty_pc gives up on the loop
Blacklisted(e) ==
  parent = 0 /\ exitno = 0 /\ cur.kind = "LOOP" /\ e # "RETRY" /\ penalty[cur.startpc] = prog.penalties

\* trace_abort, after an error or when recording has been asked to abort
trace_abort ==
  LET e == IF state = "err" THEN err ELSE "other"
      loop == cur.startpc
  IN
  /\ (state = "err" /\ event = "none") \/ (state = "aborted" /\ Interp)
  /\ Pendpatch(TRUE) /\ err' = e
  /\ IF e = "MCODELM"     \* assemble it again, into another area
     THEN /\ state' = "asm" /\ op' = Repatched(TRUE)
          /\ UNCHANGED <<cur, penalty, tr, event, tno>>
     ELSE /\ op' = IF Blacklisted(e) THEN [Repatched(TRUE) EXCEPT ![loop] = "ILOOP"]
                   ELSE Repatched(TRUE)
          /\ penalty' = IF parent = 0 /\ exitno = 0 /\ cur.kind = "LOOP" /\ e # "RETRY"
                          /\ ~Blacklisted(e)
                        THEN [penalty EXCEPT ![loop] = @ + 1] ELSE penalty
          \* a trace that cannot be continued is linked to itself
          /\ IF parent = 0 /\ exitno # 0 /\ cur.kind # "RET"
             THEN trace[exitno] \in Obj /\ tr' = [tr EXCEPT ![trace[exitno]].link = exitno]
             ELSE UNCHANGED tr
          /\ tno' = cur.no /\ state' = "err"
          /\ cur' = IF cur.no = 0 THEN cur ELSE [cur EXCEPT !.link = 0]
          /\ event' = IF cur.no = 0 THEN "dropped" ELSE "abort"
  /\ UNCHANGED <<parent, exitno, jpc, trace, freetrace, jd, pttrace, nojit,
                 runvars, dead, from, asked>>

\* Wrong: freetrace is not lowered.
Drop_high ==
  /\ trace' = IF tno = 0 THEN trace ELSE [trace EXCEPT ![tno] = Null]
  /\ cur' = [cur EXCEPT !.no = 0] /\ UNCHANGED freetrace
\* the trace number is given back
Drop ==
  /\ trace' = IF tno = 0 THEN trace ELSE [trace EXCEPT ![tno] = Null]
  /\ freetrace' = IF tno # 0 /\ tno < freetrace THEN tno ELSE freetrace
  /\ cur' = [cur EXCEPT !.no = 0]
trace_abort_end ==
  /\ event \in {"abort", "dropped"} /\ event' = "none"
  /\ CASE err = "DOWNREC" ->   \* trace_downrec
            /\ Drop /\ state' = "start" /\ parent' = 0 /\ exitno' = 0
            /\ UNCHANGED <<penalty, bcvars>>
       [] err = "MCODEAL" -> Flushall /\ state' = "idle" /\ UNCHANGED <<parent, exitno>>
       [] OTHER -> Drop /\ state' = "idle" /\ UNCHANGED <<parent, exitno, penalty, bcvars>>
  /\ asked' = FALSE
  /\ UNCHANGED <<jpc, err, patch, bcskip, tno, runvars, dead, from>>

\* Wrong: the request is forgotten.
Aborted_not == state
\* lj_trace_abort, the request: the bit LJ_TRACE_ACTIVE is cleared
Aborted == IF state = "idle" THEN "idle" ELSE "aborted"
AskAbort == state' = Aborted /\ asked' = (state # "idle")

\* a hook, a finalizer or a callback is called while recording, or an error is thrown
lj_trace_abort ==
  /\ Interp /\ state = "record" /\ AskAbort
  /\ UNCHANGED <<cur, parent, exitno, jpc, err, trace, freetrace, penalty, patch, bcskip,
                 bcvars, event, tno, runvars, dead, from>>

-----------------------------------------------------------------------------
(* luaJIT_setmode.  Programs call it, from C code within   *)
(* a hook, VM event handlers, functions a trace has called to be stitched.     *)

Calls ==
  /\ frame = Null \/ "stitched_calls" \in prog.ops
  /\ \/ Quiet /\ state = "idle" /\ "setmode" \in prog.ops
     \/ Quiet /\ state = "aborted" /\ "hook" \in prog.ops
     \/ Handler
modevars == <<parent, exitno, jpc, err, patch, bcskip, event, tno, runvars, dead, from>>

luaJIT_setmode_flushall ==
  /\ Calls /\ AskAbort /\ Flushall
  /\ UNCHANGED modevars

\* lj_trace_flush of trace number n, a root trace
Chained(n) == \E p \in Proto : n \in Chain(p)
lj_trace_flush(n) ==
  /\ Calls /\ AskAbort
  /\ trace[n] \in Obj /\ Traceref(n).root = 0
  /\ op' = Unpatched({n})
  /\ pttrace' = [p \in Proto |-> IF pttrace[p] = n THEN Traceref(n).nextroot ELSE pttrace[p]]
  /\ tr' = [o \in Obj |->
              IF tr[o].nextroot = n /\ \E m \in TraceNo : trace[m] = o /\ Chained(m)
              THEN [tr[o] EXCEPT !.nextroot = Traceref(n).nextroot] ELSE tr[o]]
  /\ UNCHANGED <<cur, trace, freetrace, penalty, jd, nojit>> /\ UNCHANGED modevars

\* lj_trace_flushproto, and jit.off of a function
setptmode_off(p, flush) ==
  /\ Calls /\ AskAbort
  /\ nojit' = [nojit EXCEPT ![p] = @ \/ ~flush]
  /\ op' = Unpatched(Chain(p)) /\ pttrace' = [pttrace EXCEPT ![p] = 0]
  /\ UNCHANGED <<cur, trace, freetrace, penalty, jd, tr>> /\ UNCHANGED modevars

\* jit.on of a function: lj_trace_reenableproto
setptmode_on(p) ==
  /\ Calls /\ AskAbort
  /\ nojit' = [nojit EXCEPT ![p] = FALSE]
  /\ op' = [pc \in Pc |-> IF ProtoOf[pc] = p /\ op[pc] = "ILOOP" THEN "LOOP" ELSE op[pc]]
  /\ UNCHANGED <<cur, trace, freetrace, penalty, jd, pttrace, tr>> /\ UNCHANGED modevars

-----------------------------------------------------------------------------
(* Machine code *)

codevars == <<cur, err, trace, freetrace, penalty, patch, bcskip, jd, pttrace, nojit, tr,
              tno, dead>>

\* whatever the recorder is doing
BC_JLOOP(pc) ==
  /\ Quiet /\ Dispatched(pc) /\ op[pc] = "JLOOP"
  /\ at' = trace[jd[pc]] /\ ip' = "lua"
  /\ UNCHANGED <<codevars, op, state, parent, exitno, jpc, event, frame, restart, from, asked>>
\* vm_record executes what is there now: the JLOOP has been patched back meanwhile
vm_record ==
  /\ Quiet /\ ip \in Pc /\ op[ip] # "JLOOP" /\ ip' = "lua"
  /\ UNCHANGED <<codevars, op, state, parent, exitno, jpc, event, at, frame, restart, from, asked>>

\* the end of a trace, or an exit that has been patched, goes on in machine code
\* or back to the interpreter
code_goes_on ==
  /\ at # Null
  /\ at' \in {tr[at].jump} \cup ({tr[at].side} \ {Null})
  /\ ~tr[at].stitch \/ at' # Null
  /\ UNCHANGED <<codevars, op, state, parent, exitno, jpc, event, frame, restart, ip, from, asked>>

\* a trace ends with a call that could not be recorded.  Bound: one at a time
stitched_call ==
  /\ at # Null /\ tr[at].stitch /\ frame = Null
  /\ frame' = at /\ at' = Null /\ ip' = "c"
  /\ UNCHANGED <<codevars, op, state, parent, exitno, jpc, event, restart, from, asked>>
\* its C function calls Lua functions, and they return to it
lua_call ==
  /\ Quiet /\ ip = "c" /\ ip' = "lua"
  /\ UNCHANGED <<codevars, op, state, parent, exitno, jpc, event, at, frame, restart, from, asked>>
vm_leave ==
  /\ Quiet /\ frame # Null /\ Dispatched("ret") /\ ip' = "c"
  /\ UNCHANGED <<codevars, op, state, parent, exitno, jpc, event, at, frame, restart, from, asked>>

\* An error in one of them is caught by the C function, or leaves the stitched call.
lj_err_throw ==
  /\ Quiet /\ frame # Null /\ AskAbort
  /\ \/ (state = "idle" \/ "throw" \in prog.ops) /\ ip' = "c" /\ UNCHANGED frame
     \/ ip' = "lua" /\ frame' = Null
  /\ UNCHANGED <<codevars, op, parent, exitno, jpc, event, at, restart, from>>

\* The C function returns: go on with the trace that is linked, whatever the recorder is
\* doing, or start it (lj_trace_stitch).
cont_stitch ==
  /\ Quiet /\ ip = "c" /\ frame # Null /\ frame' = Null /\ ip' = "lua"
  /\ LET T == tr[frame] IN
     \/ T.link = T.no /\ UNCHANGED <<at, state, parent, exitno, jpc, asked>>
     \/ /\ T.link \notin {0, T.no}
        /\ at' = trace[T.link] /\ UNCHANGED <<state, parent, exitno, jpc, asked>>
     \/ /\ T.link = 0 /\ T.no # 0
        /\ exitno' = T.no
        /\ IF state = "idle" THEN Start(NoPC) /\ parent' = 0
           ELSE UNCHANGED <<state, jpc, asked, parent>>
        /\ UNCHANGED at
  /\ UNCHANGED <<codevars, op, event, restart, from>>

\* lj_trace_exit up to the VM event; the interpreter will go on at pc
lj_trace_exit(pc) ==
  /\ at # Null /\ tr[at].side = Null /\ (pc # NoPC => op[pc] = "JLOOP")
  /\ parent' = tr[at].no /\ exitno' = 1 /\ from' = at
  /\ at' = Null /\ restart' = pc /\ event' = "texit"
  /\ UNCHANGED <<codevars, op, state, jpc, frame, ip, asked>>

\* ... and from there: trace_hotside starts a side trace or not, or it is not
\* called because the collector or the profiler has asked for the exit
trace_hotside ==
  /\ event = "texit" /\ event' = "none"
  /\ \/ UNCHANGED <<state, jpc, asked>>
     \/ trace[parent] # Null /\ Traceref(parent).side = Null /\ Start(NoPC)
  /\ UNCHANGED <<codevars, op, parent, exitno, runvars, from>>

\* ... to its end: a return that is to be recorded must not be a JLOOP
lj_trace_exit_end ==
  /\ restart # NoPC /\ event = "none" /\ ~Inside
  /\ restart' = NoPC
  /\ IF op[restart] = "JLOOP" /\ restart \in Ret /\ state = "record"
     THEN op' = [op EXCEPT ![restart] = "LOOP"] /\ patch' = restart /\ bcskip' = TRUE
     ELSE UNCHANGED <<op, patch, bcskip>>
  /\ UNCHANGED <<state, cur, parent, exitno, jpc, err, trace, freetrace, penalty, jd, pttrace,
                 nojit, tr, event, tno, at, frame, ip, dead, from, asked>>

\* a VM event handler runs compiled code: its exit is not continued
handler_exit(n) ==
  /\ event \in prog.codein
  /\ trace[n] \in Obj /\ \E pc \in Pc : op[pc] = "JLOOP" /\ jd[pc] = n
  /\ parent' = n /\ exitno' = 1
  /\ UNCHANGED <<codevars, op, state, jpc, event, runvars, from, asked>>

-----------------------------------------------------------------------------
(* The collector, as far as it concerns traces *)

\* Wrong: side traces are not marked.
Marks_roots(T) == IF T.no = 0 THEN {} ELSE {trace[n] : n \in {T.link, T.nextroot} \ {0}}
\* gc_traverse_trace
Marks(T) == IF T.no = 0 THEN {} ELSE {trace[n] : n \in {T.link, T.nextroot, T.nextside} \ {0}}
Roots == {trace[pttrace[p]] : p \in {q \in Proto : pttrace[q] # 0}} \cup {frame} \cup Marks(cur)
MarkLinks == [o \in Obj |-> Marks(tr[o]) \cap Obj]
Marked == Reach(Roots \cap Obj, MarkLinks)

atomic ==
  /\ Quiet \/ Handler
  /\ dead = {} /\ Saved # Marked /\ dead' = Saved \ Marked
  /\ UNCHANGED <<jvars, bcvars, event, tno, runvars, from, asked>>

\* the sweep goes on while machine code runs
lj_trace_free(o) ==
  /\ Quiet \/ Handler \/ at # Null
  /\ o \in dead /\ dead' = dead \ {o}
  /\ tr' = [tr EXCEPT ![o] = NoTrace]
  /\ LET no == tr[o].no IN
     IF no # 0
     THEN /\ trace' = [trace EXCEPT ![no] = Null]
          /\ freetrace' = IF no < freetrace THEN no ELSE freetrace
     ELSE UNCHANGED <<trace, freetrace>>
  /\ UNCHANGED <<state, cur, parent, exitno, jpc, err, penalty, patch, bcskip, op, jd, pttrace,
                 nojit, event, tno, runvars, from, asked>>

Recorder ==
  \/ \E p \in Proto : trace_start(p)
  \/ \E i \in {"lua", "ret"} \cup Pc : lj_trace_ins(i)
  \/ lj_record_setup \/ lj_record_ins \/ trace_end \/ asm_error
  \/ \E o \in Obj : trace_stop(o)
  \/ trace_stop_end \/ trace_abort \/ trace_abort_end

Program ==
  \/ lj_trace_abort \/ luaJIT_setmode_flushall
  \/ \E n \in TraceNo \ {0} : lj_trace_flush(n) \/ handler_exit(n)
  \/ \E p \in Proto : setptmode_on(p) \/ \E flush \in BOOLEAN : setptmode_off(p, flush)
  \/ \E pc \in Pc : lj_trace_hot(pc) \/ BC_JLOOP(pc)
  \/ vm_record \/ code_goes_on
  \/ stitched_call \/ lua_call \/ vm_leave \/ lj_err_throw \/ cont_stitch
  \/ \E pc \in Ret \cup {NoPC} : lj_trace_exit(pc)
  \/ trace_hotside \/ lj_trace_exit_end

Collector == atomic \/ \E o \in Obj : lj_trace_free(o)

Next == (Recorder \/ Program \/ Collector) /\ UNCHANGED prog
Spec == Init /\ [][Next]_vars

-----------------------------------------------------------------------------
(* Correctness *)

Places == {"lua", "ret", "c"} \cup Pc
States == {"idle", "aborted", "record", "start", "end", "asm", "err"}
TraceType ==
  [no : TraceNo, kind : {"none", "LOOP", "RET", "CALL", "JMP"}, startpc : Pc \cup {NoPC},
   root : TraceNo, link : TraceNo, stitch : BOOLEAN, nextroot : TraceNo, nextside : TraceNo,
   jump : Obj \cup {Null}, side : Obj \cup {Null}]
TypeOK ==
  /\ state \in States /\ cur \in TraceType /\ parent \in TraceNo /\ exitno \in TraceNo
  /\ jpc \in Pc \cup {NoPC}
  /\ err \in {"none", "other", "RETRY", "DOWNREC", "MCODELM", "MCODEAL"}
  /\ trace \in [TraceNo -> Obj \cup {Null, Cur}] /\ freetrace \in 0 .. MaxTrace + 1
  /\ penalty \in [Loop -> 0 .. MaxPenalty] /\ patch \in Pc \cup {NoPC} /\ bcskip \in BOOLEAN
  /\ op \in [Pc -> {"LOOP", "JLOOP", "ILOOP"}] /\ jd \in [Pc -> TraceNo]
  /\ pttrace \in [Proto -> TraceNo] /\ nojit \in [Proto -> BOOLEAN]
  /\ tr \in [Obj -> TraceType]
  /\ event \in {"none", "start", "record", "stop", "abort", "dropped", "texit"}
  /\ tno \in TraceNo /\ at \in Obj \cup {Null} /\ frame \in Obj \cup {Null}
  /\ restart \in Pc \cup {NoPC} /\ ip \in Places
  /\ dead \subseteq Obj /\ from \in Obj \cup {Null} /\ asked \in BOOLEAN

\* a saved trace that is found under its number
Registered(o) == o \in Saved /\ tr[o].no # 0 /\ trace[tr[o].no] = o

\* Every JLOOP instruction names a trace that starts there and that its
\* prototype keeps alive.
JloopValid ==
  \A pc \in Pc : op[pc] = "JLOOP" =>
    LET o == trace[jd[pc]]
    IN  Registered(o) /\ tr[o].startpc = pc /\ jd[pc] \in Chain(ProtoOf[pc])

\* what the program may run next, and whatever machine code goes on to from there
Entered ==
  {trace[jd[pc]] : pc \in {q \in Pc : op[q] = "JLOOP"}} \cup ({at} \ {Null})
    \cup IF frame # Null /\ tr[frame].link \notin {0, tr[frame].no}
         THEN {trace[tr[frame].link]} ELSE {}
GoesOn(o) ==
  ({tr[o].jump, tr[o].side} \ {Null})
    \cup IF tr[o].stitch /\ tr[o].link \notin {0, tr[o].no} THEN {trace[tr[o].link]} ELSE {}
Runnable == Reach(Entered, [o \in Obj \cup {Null, Cur} |-> IF o \in Obj THEN GoesOn(o) ELSE {}])
\* Machine code that can still run belongs to a trace that is there, under the
\* number its exits give to lj_trace_exit.
CodeRegistered == \A o \in Runnable : Registered(o)

\* the traces that the next step of the recorder looks up by number
LookedUp ==
  CASE event \in {"start", "texit"} -> {parent}
    [] event = "none" /\ state = "asm" ->
         {cur.link} \cup CASE cur.kind = "JMP" -> {parent, cur.root}
                           [] cur.kind = "CALL" -> {exitno}
                           [] OTHER -> {}
    [] event = "none" /\ state \in {"aborted", "err"} ->
         IF parent = 0 /\ cur.kind = "CALL" THEN {exitno} ELSE {}
    [] OTHER -> {}
\* A trace is not gone while the recorder needs it.
NoneMissing == \A n \in LookedUp \ {0} : trace[n] # Null

\* No trace number is taken by the recorder for good: the one that names J->cur is
\* that of the trace being recorded.
CurOnce == \A n \in TraceNo \ {0} : trace[n] = Cur => n = cur.no

\* A return instruction that was put in the place of a JLOOP is replaced again
\* before recording is over.
PatchUndone == state \in {"idle", "start", "asm"} => patch = NoPC

\* No free trace number is overlooked: trace_findfree starts looking at
\* freetrace.
FreeNumbersFound == \A n \in TraceNo \ {0} : n < freetrace => trace[n] # Null

\* A side trace is linked to the exit it was recorded for.
SideAtItsExit ==
  [][\A o \in Obj : tr[o].kind = "none" /\ tr'[o].kind = "JMP" => tr'[from].side = o]_vars

\* Once recording has been asked to abort, its trace is not used.
AbortHonoured == [][asked => \A o \in Obj : tr[o].kind # "none" \/ tr'[o].kind = "none"]_vars

\* trace_hotside starts a side trace when nothing is recorded only (the assertion at
\* lj_trace.c:708): nobody looks at the state of the recorder when machine code is
\* entered, so recording has to end by itself at each way into it.
HotsideIdle == [][event = "texit" /\ state' = "start" => state = "idle"]_vars

\* Trace numbers name what they should, through aborts, flushes and sweeps in any order: none is
\* lost, none is taken twice, none that is still needed is gone.
NumbersSound == TypeOK /\ FreeNumbersFound /\ CurOnce /\ NoneMissing

\* Bytecode and machine code lead to live traces only.
CodeValid == JloopValid /\ CodeRegistered
=============================================================================
